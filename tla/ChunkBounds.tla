---------------------------- MODULE ChunkBounds ----------------------------
(***************************************************************************)
(* How flow.js cuts a file into chunks (FlowFile.bootstrap and the         *)
(* FlowChunk constructor, forceChunkSize being off): chunks of ChunkSize   *)
(* bytes, the last one longer by what is left over.                        *)
(***************************************************************************)
EXTENDS Integers

CONSTANT ChunkSize

ASSUME ChunkSizeAssumption == ChunkSize \in Nat \ {0}

ChunkCount(size) == IF size < ChunkSize THEN 1 ELSE size \div ChunkSize

\* The bytes of a chunk, by its number from 1 as the requests carry it.
StartByte(n) == (n - 1) * ChunkSize

\* (Mutant.) The last chunk is as long as the others.
EndByteShort(size, n) == IF n * ChunkSize < size THEN n * ChunkSize ELSE size

EndByte(size, n) ==
    LET end == IF n * ChunkSize < size THEN n * ChunkSize ELSE size
    IN IF size - end < ChunkSize THEN size ELSE end
=============================================================================
