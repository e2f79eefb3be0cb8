-------------------------- MODULE FileUploadProofs --------------------------
(***************************************************************************)
(* Proofs about the upload of files, for any number of instances, files    *)
(* and chunks, any chunk size and any number of slots.                     *)
(***************************************************************************)
EXTENDS FileUpload, FiniteSetTheorems, TLAPS

-----------------------------------------------------------------------------
(* The inductive invariant *)

Stage == Within \cup {"none", "sent", "waiting", "answered", "lost"}

\* A chunk, and what the server keeps of a file.
Chunk    == [file : File, from : Nat, to : Nat]
ChunkMap == UNION {[D -> Chunk] : D \in SUBSET (Nat \ {0})}

Types ==
    /\ TypeOK
    /\ stage \in [Request -> Stage]
    /\ chunks \in [Fid -> ChunkMap]
    /\ saved \in [Request -> ChunkMap \cup {None}]
    /\ completed \in [Fid -> ChunkMap \cup {None}]
    /\ claim \in [Flow \X File -> [at : {"none", "asked", "failed", "got", "taken"},
                                   got : ChunkMap \cup {None}]]
    /\ logged_in \in BOOLEAN
    /\ files \in [Flow -> Seq(File)]
    /\ indicated \in [Flow -> SUBSET Fid]
    /\ outcome \in [Flow \X File -> {"none", "success", "error"}]
    /\ visit \in Visits

\* Who works under a lock holds it.
LockHeld == \A r \in Request : stage[r] \in Within => holder[using[r]] = r

\* A page that is gone has no files.  A chunk is of a file of its page, and
\* nothing has come of a file before its page has got it.
Listed ==
    /\ \A w \in left : files[w] = <<>>
    /\ \A r \in Request :
         LET u == <<r[1], r[2]>>
         IN IF r[2] \in Range(files[r[1]])
            THEN status[r] = "none" => outcome[u] # "none"
            ELSE /\ status[r] = "none"
                 /\ r[1] \notin left => stage[r] = "none" /\ outcome[u] = "none"

\* How far a chunk is in the browser and on the server.
InStep ==
    \A r \in Request :
      /\ status[r] \in {"pending", "testing"} => stage[r] = "none"
      /\ status[r] = "success" => stage[r] = "answered" /\ answer[r] = "ok"

Unfinished == InProgress \cup {"pending"}

\* A file that has been reported has nothing left to send, one reported as
\* uploaded has had a good answer to each chunk, and no other is claimed.
Reported ==
    \A u \in Flow \X File :
      /\ outcome[u] # "none" => \A r \in ChunksOf(u) : status[r] \notin Unfinished
      /\ outcome[u] = "success" =>
           \A r \in ChunksOf(u) : stage[r] = "answered" /\ answer[r] = "ok"
      /\ claim[u].at # "none" => outcome[u] = "success"

\* A file that is not finished has its indicator, if it has an identifier of its own.
HasIndicator ==
    \A r \in Request :
      OwnIds(r[1]) /\ status[r] \in Unfinished => FidOfR(r) \in indicated[r[1]]

\* A chunk that the server has put into the map; with the login there is no
\* other way to an answer.
Stored(r) == stage[r] \in Within \cup {"answered"}

StoredOf(u) == {r \in ChunksOf(u) : Stored(r)}

\* What some chunks of a file come to in the map.
Part(u, some) == [n \in {r[3] : r \in some} |-> Bytes(<<u[1], u[2], n>>)]

\* The file is there to be claimed, or has been.
Kept(u) ==
    /\ claim[u].at # "failed"
    /\ claim[u].at # "taken" => Whole(u[2], completed[FidOf[u[2]]])
    /\ claim[u].at \in {"got", "taken"} => Whole(u[2], claim[u].got)

\* The stages from the finding that the file is all there.
Finishing == {"writing", "recording", "dropping", "unlocking"}

\* The course of an upload that nobody else interferes with: its requests work
\* under one lock, one at a time; the map holds its chunks until the file is
\* written, which is when all are stored; and the file is kept from then on.
UnderOneLock(u) ==
    \A r \in ChunksOf(u) : stage[r] \in Within \cup {"waiting"} => using[r] = fid_locks[FidOf[u[2]]]

MapHasThem(u) ==
    (\E r \in ChunksOf(u) : stage[r] \in {"checking", "writing"} \/ ~ Stored(r)) =>
        chunks[FidOf[u[2]]] = Part(u, StoredOf(u))

AllStored(u) ==
    (\E r \in ChunksOf(u) : stage[r] \in Finishing) => StoredOf(u) = ChunksOf(u)

WholeIsSaved(u) == \A r \in ChunksOf(u) : stage[r] = "recording" => Whole(u[2], saved[r])

KeptWhenDone(u) ==
    /\ \A r \in ChunksOf(u) : stage[r] \in {"dropping", "unlocking"} /\ answer[r] = "ok" => Kept(u)
    /\ (\A r \in ChunksOf(u) : stage[r] = "answered" /\ answer[r] = "ok") => Kept(u)

Undisturbed(u) ==
    UnderOneLock(u) /\ MapHasThem(u) /\ AllStored(u) /\ WholeIsSaved(u) /\ KeptWhenDone(u)

GoesWell == \A u \in Flow \X File : logged_in /\ Alone(u) => Undisturbed(u)

IInv == /\ Types /\ LockHeld /\ Listed /\ InStep /\ Reported /\ HasIndicator
        /\ SlotsInUse /\ FullMapIsTaken /\ GoesWell

-----------------------------------------------------------------------------
(* Chunks *)

\* A file has a chunk at least.
LEMMA Totals == \A f \in File : Total(f) \in Nat \ {0}
<1> SUFFICES ASSUME NEW f \in File PROVE Total(f) \in Nat \ {0}
  OBVIOUS
<1> DEFINE size == SizeOf[FidOf[f]]
<1>1. size \in Nat /\ ChunkSize \in Nat \ {0}
  BY FileAssumption, ChunkSizeAssumption
<1>2. size >= ChunkSize => size \div ChunkSize \in Nat \ {0}
  BY <1>1
<1> QED
  BY <1>1, <1>2 DEF Total, ChunkCount

\* A request is of one chunk of one file.
LEMMA Requests ==
    /\ \A r \in Request : /\ r[1] \in Flow /\ r[2] \in File /\ r[3] \in 1 .. Total(r[2])
                          /\ r = <<r[1], r[2], r[3]>> /\ FidOfR(r) \in Fid
    /\ \A w \in Flow, f \in File : \A n \in 1 .. Total(f) : <<w, f, n>> \in Request
<1>1. ASSUME NEW r \in Request
      PROVE  /\ r[1] \in Flow /\ r[2] \in File /\ r[3] \in 1 .. Total(r[2])
             /\ r = <<r[1], r[2], r[3]>> /\ FidOfR(r) \in Fid
  <2>1. PICK f \in File : r \in Flow \X {f} \X (1 .. Total(f))
    BY DEF Request
  <2> QED
    BY <2>1, FileAssumption DEF FidOfR
<1>2. ASSUME NEW w \in Flow, NEW f \in File, NEW n \in 1 .. Total(f)
      PROVE  <<w, f, n>> \in Request
  <2>1. <<w, f, n>> \in Flow \X {f} \X (1 .. Total(f))
    OBVIOUS
  <2> QED
    BY <2>1 DEF Request
<1> QED
  BY <1>1, <1>2

\* The chunks of a file come one after the other and end with the file.
LEMMA Boundaries ==
    ASSUME NEW f \in File
    PROVE  LET size == SizeOf[FidOf[f]]
           IN /\ \A n \in 1 .. Total(f) : StartByte(n) \in Nat /\ EndByte(size, n) \in Nat
              /\ StartByte(1) = 0
              /\ \A n \in 2 .. Total(f) : EndByte(size, n - 1) = StartByte(n)
              /\ EndByte(size, Total(f)) = size
<1> DEFINE size == SizeOf[FidOf[f]]
           total == Total(f)
<1>1. size \in Nat /\ ChunkSize \in Nat \ {0}
  BY FileAssumption, ChunkSizeAssumption
<1>2. total \in Nat \ {0}
  BY Totals
<1>3. CASE size < ChunkSize
  <2>1. total = 1
    BY <1>3 DEF Total, ChunkCount
  <2>2. EndByte(size, 1) = size
    BY <1>1, <1>3 DEF EndByte
  <2> QED
    BY <2>1, <2>2, <1>1 DEF StartByte
<1>4. CASE size >= ChunkSize
  <2>1. total = size \div ChunkSize
    BY <1>1, <1>4 DEF Total, ChunkCount
  <2>2. total * ChunkSize <= size /\ size < total * ChunkSize + ChunkSize
    BY <1>1, <2>1
  <2>3. ASSUME NEW n \in 1 .. total
        PROVE  /\ n * ChunkSize \in Nat /\ (n - 1) * ChunkSize \in Nat
               /\ n < total => n * ChunkSize + ChunkSize <= size
    <3>1. n * ChunkSize \in Nat /\ (n - 1) * ChunkSize \in Nat
      BY <1>1, <1>2
    <3>2. ASSUME n < total PROVE n * ChunkSize + ChunkSize <= total * ChunkSize
      <4>1. PICK k \in Nat : total = n + 1 + k
        <5> total - n - 1 \in Nat /\ total = n + 1 + (total - n - 1)
          BY <1>2, <3>2
        <5> QED
          OBVIOUS
      <4>2. total * ChunkSize = n * ChunkSize + ChunkSize + k * ChunkSize
        BY <4>1, <1>1
      <4>3. k * ChunkSize \in Nat
        BY <1>1
      <4> QED
        BY <4>2, <4>3, <3>1, <1>1
    <3> QED
      BY <3>1, <3>2, <2>2, <1>1, <1>2
  <2>4. \A n \in 1 .. total : n < total => EndByte(size, n) = n * ChunkSize
    BY <2>3, <1>1 DEF EndByte
  <2>5. EndByte(size, total) = size
    <3>1. total * ChunkSize \in Nat
      BY <2>3, <1>2
    <3> QED
      BY <2>2, <3>1, <1>1 DEF EndByte
  <2>6. \A n \in 1 .. total : StartByte(n) \in Nat /\ EndByte(size, n) \in Nat
    <3> TAKE n \in 1 .. total
    <3>1. StartByte(n) \in Nat
      BY <2>3 DEF StartByte
    <3>2. EndByte(size, n) \in Nat
      BY <2>3, <2>4, <2>5, <1>1, <1>2
    <3> QED
      BY <3>1, <3>2
  <2>7. ASSUME NEW n \in 2 .. total PROVE EndByte(size, n - 1) = StartByte(n)
    <3>1. n - 1 \in 1 .. total /\ n - 1 < total
      BY <1>2
    <3> QED
      BY <3>1, <2>4 DEF StartByte
  <2>8. StartByte(1) = 0
    BY <1>1 DEF StartByte
  <2> QED
    BY <2>5, <2>6, <2>7, <2>8
<1> QED
  BY <1>1, <1>3, <1>4

\* What the operations on a chunk map return.
LEMMA ChunkMaps ==
    /\ NoChunks \in ChunkMap /\ DOMAIN NoChunks = {}
    /\ \A c \in ChunkMap :
         /\ DOMAIN c \subseteq Nat \ {0}
         /\ c = NoChunks <=> DOMAIN c = {}
         /\ ReadUp(c) \in ChunkMap /\ DOMAIN ReadUp(c) = DOMAIN c
         /\ \A n \in Nat \ {0}, b \in Chunk :
              With(c, n, b) \in ChunkMap /\ DOMAIN With(c, n, b) = DOMAIN c \cup {n}
<1>1. NoChunks \in [{} -> Chunk] /\ DOMAIN NoChunks = {}
  BY DEF NoChunks
<1>2. \A D \in SUBSET (Nat \ {0}) : [D -> Chunk] \subseteq ChunkMap
  BY DEF ChunkMap
<1>3. NoChunks \in ChunkMap
  <2> {} \in SUBSET (Nat \ {0})
    OBVIOUS
  <2> QED
    BY <1>1, <1>2
<1>4. ASSUME NEW c \in ChunkMap
      PROVE  /\ DOMAIN c \subseteq Nat \ {0}
             /\ c = NoChunks <=> DOMAIN c = {}
             /\ ReadUp(c) \in ChunkMap /\ DOMAIN ReadUp(c) = DOMAIN c
             /\ \A n \in Nat \ {0}, b \in Chunk :
                  With(c, n, b) \in ChunkMap /\ DOMAIN With(c, n, b) = DOMAIN c \cup {n}
  <2>1. PICK D \in SUBSET (Nat \ {0}) : c \in [D -> Chunk]
    BY DEF ChunkMap
  <2>2. D = {} => c = NoChunks
    BY <2>1 DEF NoChunks
  <2>3. ReadUp(c) \in [D -> Chunk]
    BY <2>1 DEF ReadUp, Chunk
  <2>4. ASSUME NEW n \in Nat \ {0}, NEW b \in Chunk
        PROVE  With(c, n, b) \in ChunkMap /\ DOMAIN With(c, n, b) = DOMAIN c \cup {n}
    <3>1. With(c, n, b) \in [D \cup {n} -> Chunk]
      BY <2>1 DEF With
    <3>2. D \cup {n} \in SUBSET (Nat \ {0})
      OBVIOUS
    <3> QED
      BY <3>1, <3>2, <2>1, <1>2 DEF With
  <2> QED
    BY <2>1, <2>2, <2>3, <2>4, <1>1, <1>2 DEF ReadUp
<1> QED
  BY <1>1, <1>3, <1>4

\* The bytes of a chunk.
LEMMA BytesOfChunk == \A r \in Request : Bytes(r) \in Chunk
<1> SUFFICES ASSUME NEW r \in Request PROVE Bytes(r) \in Chunk
  OBVIOUS
<1>1. r[2] \in File /\ r[3] \in 1 .. Total(r[2])
  BY Requests
<1>2. StartByte(r[3]) \in Nat /\ EndByte(SizeOf[FidOf[r[2]]], r[3]) \in Nat
  BY <1>1, Boundaries
<1> QED
  BY <1>1, <1>2 DEF Bytes, Chunk, FidOfR

\* All the chunks of a file, as one instance sends them, are the whole file.
LEMMA WholeFile ==
    ASSUME NEW u \in Flow \X File
    PROVE  Whole(u[2], [n \in 1 .. Total(u[2]) |-> Bytes(<<u[1], u[2], n>>)])
<1> DEFINE f == u[2]
           size == SizeOf[FidOf[f]]
           c == [n \in 1 .. Total(f) |-> Bytes(<<u[1], f, n>>)]
<1>1. f \in File /\ u[1] \in Flow /\ Total(f) \in Nat \ {0}
  BY Totals
<1>2. \A n \in 1 .. Total(f) : <<u[1], f, n>> \in Request /\ c[n] \in Chunk
  BY <1>1, Requests, BytesOfChunk
<1>3. \A n \in 1 .. Total(f) :
        c[n].file = f /\ c[n].from = StartByte(n) /\ c[n].to = EndByte(size, n)
  BY DEF Bytes, FidOfR
<1>4. c # None
  <2>1. c \in [1 .. Total(f) -> Chunk]
    BY <1>2
  <2> QED
    BY <2>1, <1>1, NoneAssumption DEF Chunk
<1>5. \A n \in DOMAIN c : c[n].from = IF n = 1 THEN 0 ELSE c[n - 1].to
  <2> SUFFICES ASSUME NEW n \in 1 .. Total(f)
               PROVE  c[n].from = IF n = 1 THEN 0 ELSE c[n - 1].to
    OBVIOUS
  <2>1. CASE n = 1
    BY <2>1, <1>1, <1>3, Boundaries
  <2>2. CASE n # 1
    <3>1. n \in 2 .. Total(f) /\ n - 1 \in 1 .. Total(f)
      BY <2>2, <1>1
    <3> QED
      BY <3>1, <2>2, <1>1, <1>3, Boundaries
  <2> QED
    BY <2>1, <2>2
<1>6. c[Total(f)].to = SizeOf[FidOf[f]]
  BY <1>1, <1>3, Boundaries
<1> QED
  BY <1>3, <1>4, <1>5, <1>6 DEF Whole

-----------------------------------------------------------------------------
(* The queue *)

\* A part of a finite set that misses an element is smaller.
LEMMA SmallerPart ==
    ASSUME NEW T, IsFiniteSet(T), NEW A \in SUBSET T, NEW x \in T, x \notin A
    PROVE  /\ IsFiniteSet(A) /\ Cardinality(A) \in Nat /\ Cardinality(T) \in Nat
           /\ Cardinality(A) < Cardinality(T)
<1>1. IsFiniteSet(A) /\ Cardinality(A) <= Cardinality(T) /\ Cardinality(A) # Cardinality(T)
  BY FS_Subset
<1>2. Cardinality(A) \in Nat /\ Cardinality(T) \in Nat
  BY <1>1, FS_CardinalityType
<1> QED
  BY <1>1, <1>2

\* As many numbers as there are below n.
LEMMA Below == \A n \in Nat : IsFiniteSet(0 .. n - 1) /\ Cardinality(0 .. n - 1) = n
<1> TAKE n \in Nat
<1>1. 0 \in Int /\ n - 1 \in Int
  OBVIOUS
<1>2. /\ IsFiniteSet(0 .. n - 1)
      /\ Cardinality(0 .. n - 1) = IF 0 > n - 1 THEN 0 ELSE (n - 1) - 0 + 1
  BY <1>1, FS_Interval, Zenon
<1> QED
  BY <1>2

\* Of a finite set in a strict total order, A being what is ahead of each element,
\* the elements with fewer than k ahead of them are the first k, or all.
LEMMA FirstOnes ==
    ASSUME NEW S, IsFiniteSet(S), NEW A \in [S -> SUBSET S],
           \A x \in S : x \notin A[x],
           \A x, y \in S : x \in A[y] => A[x] \subseteq A[y],
           \A x, y \in S : x # y => x \in A[y] \/ y \in A[x],
           NEW k \in Nat, NEW First \in SUBSET S,
           \A x \in S : x \in First <=> Cardinality(A[x]) < k
    PROVE  Cardinality(First) = IF k < Cardinality(S) THEN k ELSE Cardinality(S)
<1> DEFINE size == Cardinality(S)
           f == [x \in S |-> Cardinality(A[x])]
           m == IF k < size THEN k ELSE size
           g == [x \in First |-> f[x]]
<1>1. size \in Nat
  BY FS_CardinalityType
<1>2. ASSUME NEW x \in S
      PROVE  IsFiniteSet(A[x]) /\ Cardinality(A[x]) \in 0 .. size - 1
  <2>1. IsFiniteSet(A[x]) /\ Cardinality(A[x]) \in Nat /\ Cardinality(A[x]) < Cardinality(S)
    BY SmallerPart
  <2> QED
    BY <2>1, <1>1
<1>3. ASSUME NEW x \in S, NEW y \in S, x \in A[y]
      PROVE  Cardinality(A[x]) < Cardinality(A[y])
  <2>1. A[x] \in SUBSET A[y] /\ x \notin A[x] /\ IsFiniteSet(A[y])
    BY <1>2, <1>3
  <2> QED
    BY <2>1, <1>3, SmallerPart
<1>4. f \in [S -> 0 .. size - 1] /\ \A x \in S : f[x] = Cardinality(A[x])
  BY <1>2
<1> HIDE DEF f
<1>5. ASSUME NEW x \in S, NEW y \in S, f[x] = f[y] PROVE x = y
  <2>1. f[x] \in Int /\ f[y] \in Int
    BY <1>4
  <2>2. x \in A[y] => f[x] < f[y]
    BY <1>3, <1>4
  <2>3. y \in A[x] => f[y] < f[x]
    BY <1>3, <1>4
  <2> QED
    BY <1>5, <2>1, <2>2, <2>3
<1>6. f \in Injection(S, 0 .. size - 1)
  BY <1>4, <1>5 DEF Injection, IsInjective
<1>7. f \in Surjection(S, 0 .. size - 1)
  BY <1>6, <1>1, Below, FS_Injection
<1>8. m \in Nat /\ IsFiniteSet(0 .. m - 1) /\ Cardinality(0 .. m - 1) = m
  BY <1>1, Below
<1>9. g \in [First -> 0 .. m - 1]
  <2>1. ASSUME NEW x \in First PROVE g[x] \in 0 .. m - 1
    <3>1. f[x] \in 0 .. size - 1 /\ f[x] < k
      BY <1>4
    <3> QED
      BY <3>1, <1>1
  <2> QED
    BY <2>1
<1>10. g \in Injection(First, 0 .. m - 1)
  BY <1>9, <1>5 DEF Injection, IsInjective
<1>11. g \in Surjection(First, 0 .. m - 1)
  <2>1. ASSUME NEW i \in 0 .. m - 1 PROVE \E x \in First : g[x] = i
    <3>1. i \in 0 .. size - 1 /\ i < k
      BY <1>1
    <3>2. PICK x \in S : f[x] = i
      BY <3>1, <1>7 DEF Surjection
    <3>3. x \in First
      BY <3>1, <3>2, <1>4
    <3> QED
      BY <3>2, <3>3
  <2> QED
    BY <2>1, <1>9 DEF Surjection
<1>12. Cardinality(First) = Cardinality(0 .. m - 1)
  BY <1>8, <1>10, <1>11, FS_Injection
<1> QED
  BY <1>8, <1>12

Status == InProgress \cup {"none", "pending", "success"}

\* Each file of a list has a place of its own.
LEMMA Places ==
    ASSUME NEW queue \in Seq(File), NEW f \in Range(queue)
    PROVE  Place(queue, f) \in Nat /\ queue[Place(queue, f)] = f
<1>1. PICK k \in DOMAIN queue : queue[k] = f
  BY DEF Range
<1>2. Place(queue, f) \in DOMAIN queue /\ queue[Place(queue, f)] = f
  BY <1>1 DEF Place
<1> QED
  BY <1>2

\* An instance has finitely many chunks.
LEMMA FinitelyMany == ASSUME NEW w \in Flow PROVE IsFiniteSet({r \in Request : r[1] = w})
<1> DEFINE Mine(f) == {<<w, f, n>> : n \in 1 .. Total(f)}
           h == [f \in File |-> Mine(f)]
           All == {Mine(f) : f \in File}
<1>1. ASSUME NEW f \in File PROVE IsFiniteSet(Mine(f))
  <2> DEFINE g == [n \in 1 .. Total(f) |-> <<w, f, n>>]
             T == Mine(f)
  <2>1. g \in Surjection(1 .. Total(f), T)
    BY DEF Surjection
  <2>2. IsFiniteSet(1 .. Total(f))
    BY Totals, FS_Interval
  <2> HIDE DEF g, T
  <2>3. IsFiniteSet(T)
    BY <2>1, <2>2, FS_Surjection
  <2> QED
    BY <2>3 DEF T
<1>2. IsFiniteSet(All)
  <2>1. h \in Surjection(File, All)
    BY DEF Surjection
  <2> HIDE DEF h, All
  <2> QED
    BY <2>1, FS_Surjection, FileAssumption
<1>3. \A S \in All : IsFiniteSet(S)
  BY <1>1
<1>4. IsFiniteSet(UNION All)
  <2> HIDE DEF All
  <2> QED
    BY <1>2, <1>3, FS_UNION
<1>5. ASSUME NEW r \in Request, r[1] = w PROVE r \in UNION All
  <2>1. r[2] \in File /\ r \in Mine(r[2])
    BY <1>5, Requests
  <2> QED
    BY <2>1
<1>6. {r \in Request : r[1] = w} \in SUBSET UNION All
  BY <1>5
<1> QED
  <2> HIDE DEF All
  <2> QED
    BY <1>4, <1>6, FS_Subset

\* uploadNextChunk starts tests of pending chunks of its queue, and does nothing else.
LEMMA Started ==
    ASSUME NEW st \in [Request -> Status], NEW w \in Flow, NEW queue, NEW count
    PROVE  LET next == StartNext(st, w, queue, count)
           IN /\ next \in [Request -> Status]
              /\ \A r \in Request :
                   \/ next[r] = st[r]
                   \/ /\ st[r] = "pending" /\ next[r] = "testing"
                      /\ r[1] = w /\ r[2] \in Range(queue)
BY DEF StartNext, Backlog, Status, InProgress

\* The chunks of an instance that are on the way, and those that wait, are finitely many.
LEMMA Finite ==
    ASSUME NEW st, NEW w \in Flow, NEW queue
    PROVE  /\ IsFiniteSet(Uploading(st, w)) /\ Cardinality(Uploading(st, w)) \in Nat
           /\ IsFiniteSet(Backlog(st, w, queue)) /\ Cardinality(Backlog(st, w, queue)) \in Nat
<1> DEFINE Mine == {r \in Request : r[1] = w}
<1>1. IsFiniteSet(Mine)
  BY FinitelyMany
<1>2. Uploading(st, w) \in SUBSET Mine /\ Backlog(st, w, queue) \in SUBSET Mine
  BY DEF Uploading, Backlog
<1>3. IsFiniteSet(Uploading(st, w)) /\ IsFiniteSet(Backlog(st, w, queue))
  <2> HIDE DEF Mine
  <2> QED
    BY <1>1, <1>2, FS_Subset
<1> QED
  BY <1>3, FS_CardinalityType

\* uploadNextChunk, count times over, starts count chunks, or all that wait.
LEMMA Counts ==
    ASSUME NEW st \in [Request -> Status], NEW w \in Flow, NEW queue \in Seq(File),
           NEW count \in Nat
    PROVE  LET next    == StartNext(st, w, queue, count)
               waiting == Cardinality(Backlog(st, w, queue))
           IN /\ Cardinality(Uploading(next, w)) = Cardinality(Uploading(st, w)) +
                     (IF count < waiting THEN count ELSE waiting)
              /\ Backlog(next, w, queue) # {} => count < waiting
<1> DEFINE next == StartNext(st, w, queue, count)
           S == Backlog(st, w, queue)
           A == [x \in S |-> {y \in S : Before(queue, y, x)}]
           started == {x \in S : Cardinality({y \in S : Before(queue, y, x)}) < count}
<1>1. IsFiniteSet(S) /\ Cardinality(S) \in Nat
  BY Finite
<1>2. \A r \in S : r \in Request /\ r[1] = w /\ r[2] \in Range(queue) /\ st[r] = "pending"
  BY DEF Backlog
<1>3. \A r \in S : /\ Place(queue, r[2]) \in Nat /\ queue[Place(queue, r[2])] = r[2]
                   /\ r[3] \in Nat /\ r = <<w, r[2], r[3]>>
  <2> SUFFICES ASSUME NEW r \in S
               PROVE  /\ Place(queue, r[2]) \in Nat /\ queue[Place(queue, r[2])] = r[2]
                      /\ r[3] \in Nat /\ r = <<w, r[2], r[3]>>
    OBVIOUS
  <2>1. r[3] \in 1 .. Total(r[2]) /\ r = <<r[1], r[2], r[3]>>
    BY <1>2, Requests
  <2> QED
    BY <2>1, <1>2, Places
<1>4. A \in [S -> SUBSET S] /\ \A x, y \in S : x \in A[y] <=> Before(queue, x, y)
  BY DEF S
<1>5. started \in SUBSET S /\ \A x \in S : x \in started <=> Cardinality(A[x]) < count
  BY DEF S
<1>6. next = [r \in Request |-> IF r \in started THEN "testing" ELSE st[r]]
  BY DEF StartNext, S
<1> HIDE DEF S, A, started, next
<1>7. \A x \in S : x \notin A[x]
  BY <1>3, <1>4 DEF Before
<1>8. \A x, y \in S : x \in A[y] => A[x] \subseteq A[y]
  BY <1>3, <1>4 DEF Before
<1>9. \A x, y \in S : x # y => x \in A[y] \/ y \in A[x]
  BY <1>3, <1>4 DEF Before
<1>10. Cardinality(started) = IF count < Cardinality(S) THEN count ELSE Cardinality(S)
  BY <1>1, <1>4, <1>5, <1>7, <1>8, <1>9, FirstOnes
<1>11. Uploading(next, w) = Uploading(st, w) \cup started
  BY <1>2, <1>5, <1>6 DEF Uploading, InProgress
<1>12. Uploading(st, w) \cap started = {}
  BY <1>2, <1>5 DEF Uploading, InProgress
<1>13. IsFiniteSet(started)
  BY <1>1, <1>5, FS_Subset
<1>14. Cardinality(Uploading(next, w)) = Cardinality(Uploading(st, w)) + Cardinality(started)
  <2> DEFINE U == Uploading(st, w)
  <2>1. IsFiniteSet(U) /\ Cardinality(U) \in Nat /\ Cardinality(started) \in Nat
    BY <1>13, Finite, FS_CardinalityType
  <2>2. Cardinality(U \cup started)
          = Cardinality(U) + Cardinality(started) - Cardinality(U \cap started)
    BY <2>1, <1>13, FS_Union
  <2>3. Cardinality(U \cap started) = 0
    BY <1>12, FS_EmptySet
  <2> QED
    BY <2>1, <2>2, <2>3, <1>11
<1>15. ASSUME Backlog(next, w, queue) # {} PROVE count < Cardinality(S)
  <2>1. PICK r \in S : r \notin started
    BY <1>15, <1>5, <1>6 DEF Backlog, S
  <2>2. CASE Cardinality(started) = Cardinality(S)
    BY <2>1, <2>2, <1>1, <1>5, FS_Subset
  <2> QED
    BY <2>2, <1>10
<1> QED
  BY <1>10, <1>14, <1>15 DEF next, S

\* It is no concern of other instances.
LEMMA OthersQueues ==
    ASSUME NEW st \in [Request -> Status], NEW w \in Flow, NEW queue, NEW count,
           NEW v \in Flow, v # w, NEW next, next = StartNext(st, w, queue, count)
    PROVE  /\ Uploading(next, v) = Uploading(st, v)
           /\ \A q : Backlog(next, v, q) = Backlog(st, v, q)
<1>1. \A r \in Request : r[1] = v => next[r] = st[r]
  BY Started
<1> QED
  BY <1>1 DEF Uploading, Backlog

-----------------------------------------------------------------------------
(* Types *)

\* What of the types is about the server and what about the pages.
StoreTypes ==
    /\ \A r \in Request : stage[r] \in Within \cup {"waiting"} => using[r] # None
    /\ stage \in [Request -> Stage]
    /\ answer \in [Request -> {"none", "ok", "failed"}]
    /\ using \in [Request -> Request \cup {None}]
    /\ holder \in [Request -> Request \cup {None}]
    /\ fid_locks \in [Fid -> Request \cup {None}]
    /\ chunks \in [Fid -> ChunkMap]
    /\ \A i \in Fid : DOMAIN chunks[i] \subseteq 1 .. ChunkCount(SizeOf[i])
    /\ saved \in [Request -> ChunkMap \cup {None}]
    /\ completed \in [Fid -> ChunkMap \cup {None}]
    /\ logged_in \in BOOLEAN

ClaimTypes ==
    claim \in [Flow \X File -> [at : {"none", "asked", "failed", "got", "taken"},
                                got : ChunkMap \cup {None}]]

PageTypes ==
    /\ files \in [Flow -> Seq(File)]
    /\ status \in [Request -> Status]
    /\ indicated \in [Flow -> SUBSET Fid]
    /\ \A w \in Flow : indicated[w] \subseteq FidsIn(files[w])
    /\ outcome \in [Flow \X File -> {"none", "success", "error"}]
    /\ visit \in Visits

\* These three parts are all.
LEMMA TypesSplit ==
    /\ Types <=> StoreTypes /\ ClaimTypes /\ PageTypes
    /\ Types' <=> StoreTypes' /\ ClaimTypes' /\ PageTypes'
BY DEF Types, TypeOK, StoreTypes, ClaimTypes, PageTypes, Status

\* The initial types.
LEMMA InitialTypes == UploadInit => Types
<1> SUFFICES ASSUME UploadInit PROVE Types
  OBVIOUS
<1>1. NoChunks \in ChunkMap /\ DOMAIN NoChunks = {}
  BY ChunkMaps
<1>2. StoreTypes
  BY <1>1 DEF UploadInit, Init, StoreTypes, Within, Stage
<1>3. ClaimTypes
  BY DEF UploadInit, Init, ClaimTypes
<1>4. PageTypes
  BY DEF UploadInit, PageTypes, Status, FidsIn
<1> QED
  BY <1>2, <1>3, <1>4, TypesSplit

\* The end of a thread.
LEMMA LeavesTypes ==
    ASSUME StoreTypes, NEW r \in Request, NEW from \in Within,
           NEW s \in {"none", "ok", "failed"}, Leaves(r, from, s)
    PROVE  /\ \A q \in Request : stage'[q] \in Within \cup {"waiting"} => using'[q] # None
           /\ stage' \in [Request -> Stage]
           /\ answer' \in [Request -> {"none", "ok", "failed"}]
           /\ using' \in [Request -> Request \cup {None}]
           /\ holder' \in [Request -> Request \cup {None}]
           /\ saved' \in [Request -> ChunkMap \cup {None}]
<1>1. stage' = [stage EXCEPT ![r] = "answered"] /\ using' = [using EXCEPT ![r] = None]
  BY DEF Leaves, Goes
<1>2. \A q \in Request : stage'[q] \in Within \cup {"waiting"} => using'[q] # None
  BY <1>1 DEF StoreTypes, Within
<1> QED
  BY <1>1, <1>2 DEF Leaves, StoreTypes, Stage

\* What a thread of the server does keeps the types.
LEMMA HandleTypes ==
    ASSUME StoreTypes, NEW r \in Request, Handle(r) \/ WriteFails(r)
    PROVE  StoreTypes' /\ claim' = claim
<1> DEFINE i == FidOfR(r)
<1> USE DEF StoreTypes, Goes
<1>0. /\ i \in Fid /\ r[2] \in File /\ r[3] \in 1 .. Total(r[2]) /\ Bytes(r) \in Chunk
      /\ Total(r[2]) = ChunkCount(SizeOf[i]) /\ r[3] \in Nat \ {0}
  BY Requests, BytesOfChunk, Totals DEF FidOfR, Total
<1>1. CASE Redirect(r)
  BY <1>1 DEF Redirect, locks, Within, Stage
<1>2. CASE FindLock(r)
  BY <1>0, <1>2, NoneAssumption DEF FindLock, Within, Stage
<1>3. CASE Store(r)
  <2>1. /\ With(chunks[i], r[3], Bytes(r)) \in ChunkMap
        /\ DOMAIN With(chunks[i], r[3], Bytes(r)) = DOMAIN chunks[i] \cup {r[3]}
    BY <1>0, ChunkMaps
  <2> QED
    BY <1>0, <1>3, <2>1 DEF Store, Within, Stage
<1>4. CASE Check(r)
  <2>1. /\ UNCHANGED <<fid_locks, chunks, completed, claim, logged_in>>
        /\ \/ Leaves(r, "checking", "failed") \/ Leaves(r, "checking", "ok")
           \/ Goes(r, "checking", "writing") /\ UNCHANGED <<answer, holder, using, saved>>
    BY <1>4 DEF Check
  <2>2. CASE Goes(r, "checking", "writing") /\ UNCHANGED <<answer, holder, using, saved>>
    BY <2>1, <2>2 DEF Within, Stage
  <2>3. CASE Leaves(r, "checking", "failed") \/ Leaves(r, "checking", "ok")
    <3>1. "checking" \in Within
      BY DEF Within
    <3> QED
      BY <2>1, <2>3, <3>1, LeavesTypes
  <2> QED
    BY <2>1, <2>2, <2>3
<1>5. CASE Write(r)
  <2>1. ReadUp(chunks[i]) \in ChunkMap /\ DOMAIN ReadUp(chunks[i]) = DOMAIN chunks[i]
    BY <1>0, ChunkMaps
  <2> QED
    BY <1>0, <1>5, <2>1 DEF Write, locks, Within, Stage
<1>6. CASE WriteNothing(r)
  BY <1>6 DEF WriteNothing, locks, Within, Stage
<1>7. CASE WriteFails(r)
  BY <1>7 DEF WriteFails, locks, Within, Stage
<1>8. CASE Record(r)
  BY <1>0, <1>8 DEF Record, locks, Within, Stage
<1>9. CASE DropChunks(r)
  <2>1. CASE chunks[i] = NoChunks
    <3>1. /\ Leaves(r, "dropping", "failed")
          /\ UNCHANGED <<chunks, fid_locks, completed, claim, logged_in>>
      BY <1>9, <2>1 DEF DropChunks
    <3>2. "dropping" \in Within
      BY DEF Within
    <3> QED
      BY <3>1, <3>2, LeavesTypes
  <2>2. CASE chunks[i] # NoChunks
    <3>1. /\ stage[r] = "dropping" /\ stage' = [stage EXCEPT ![r] = "unlocking"]
          /\ chunks' = [chunks EXCEPT ![i] = NoChunks]
          /\ UNCHANGED <<answer, holder, using, saved, fid_locks, completed, claim, logged_in>>
      BY <1>9, <2>2 DEF DropChunks
    <3>2. NoChunks \in ChunkMap /\ DOMAIN NoChunks = {}
      BY ChunkMaps
    <3>3. chunks' \in [Fid -> ChunkMap]
      BY <3>1, <3>2
    <3>4. \A j \in Fid : DOMAIN chunks'[j] \subseteq 1 .. ChunkCount(SizeOf[j])
      BY <3>1, <3>2
    <3> QED
      BY <3>1, <3>3, <3>4 DEF Within, Stage
  <2> QED
    BY <2>1, <2>2
<1>10. CASE DropLock(r)
  <2>1. PICK s \in {"none", "ok", "failed"} : Leaves(r, "unlocking", s)
    BY <1>10 DEF DropLock
  <2>2. "unlocking" \in Within
    BY DEF Within
  <2>3. fid_locks' \in [Fid -> Request \cup {None}]
    BY <1>10 DEF DropLock
  <2> QED
    BY <1>10, <2>1, <2>2, <2>3, LeavesTypes DEF DropLock
<1> QED
  BY <1>1, <1>2, <1>3, <1>4, <1>5, <1>6, <1>7, <1>8, <1>9, <1>10 DEF Handle

\* What a page, the claim of a file or a logout leaves of the server: a request
\* of a tested chunk arrives, or one is lost.
PageStep ==
    \/ UNCHANGED stage
    \/ \E r \in Request : status[r] = "testing" /\ stage' = [stage EXCEPT ![r] = "sent"]
    \/ \E r \in Request : Goes(r, "sent", "lost")

\* The steps of the pages.
Adds    == \E w \in Flow : \E drop \in visit.drops[w] :
             \E new \in SetToSeqs(Unknown(w, drop)) : AddFiles(w, new)
Answers(r) == Tested(r) \/ Succeeds(r) \/ Refused(r) \/ Lost(r) \/ CutOff(r)

\* A page's step in other words.
PageDoes == Adds \/ (\E w \in Flow : Leave(w)) \/ (\E r \in Request : Answers(r))

\* Every step is a page's, a thread's, a claim's or the logout.
LEMMA Steps ==
    Next <=> \/ PageDoes
             \/ \E r \in Request : (Handle(r) \/ WriteFails(r)) /\ UNCHANGED clientVars
             \/ \E u \in Flow \X File : Ingest(u) /\ UNCHANGED clientVars
             \/ visit.logs_out /\ Logout /\ UNCHANGED clientVars
BY DEF Next, PageDoes, Adds, Answers, Hears

\* A page's step and the server.
LEMMA PageAndServer ==
    ASSUME PageDoes
    PROVE  /\ PageStep
           /\ UNCHANGED <<answer, using, saved, locks, chunks, completed, logged_in, visit>>
<1>1. CASE Adds
  BY <1>1 DEF Adds, AddFiles, storeVars, handlers, PageStep
<1>2. CASE \E w \in Flow : Leave(w)
  BY <1>2 DEF Leave, storeVars, handlers, PageStep
<1>3. ASSUME NEW r \in Request, Answers(r)
      PROVE  /\ PageStep
             /\ UNCHANGED <<answer, using, saved, locks, chunks, completed, logged_in, visit>>
  <2>1. CASE Tested(r)
    BY <2>1 DEF Tested, PageStep
  <2>2. CASE Succeeds(r)
    BY <2>2 DEF Succeeds, handlers, PageStep
  <2>3. CASE Refused(r) \/ Lost(r) \/ CutOff(r)
    BY <2>3 DEF Refused, Lost, CutOff, Fails, PageStep
  <2> QED
    BY <1>3, <2>1, <2>2, <2>3 DEF Answers
<1> QED
  BY <1>1, <1>2, <1>3 DEF PageDoes

\* A list of what is new is a list of files of identifiers that are not there.
LEMMA NewFiles ==
    ASSUME PageTypes, NEW w \in Flow, NEW drop \in visit.drops[w],
           NEW new \in SetToSeqs(Unknown(w, drop))
    PROVE  /\ new \in Seq(File) /\ files[w] \o new \in Seq(File)
           /\ Range(files[w] \o new) = Range(files[w]) \cup Range(new)
           /\ \A f \in Range(new) : f \in File /\ FidOf[f] \notin FidsIn(files[w])
           /\ FidsIn(files[w] \o new) = FidsIn(files[w]) \cup FidsIn(new)
<1> DEFINE S == Unknown(w, drop)
           old == files[w]
<1>1. drop \in SUBSET File
  BY VisitsAssumption DEF PageTypes
<1>2. S \in SUBSET File /\ \A f \in S : FidOf[f] \notin FidsIn(old)
  BY <1>1 DEF Unknown
<1>3. IsFiniteSet(S) /\ Cardinality(S) \in Nat
  BY <1>2, FileAssumption, FS_Subset, FS_CardinalityType
<1>4. new \in [1 .. Cardinality(S) -> S]
  BY DEF SetToSeqs
<1>5. new \in Seq(File) /\ \A f \in Range(new) : f \in S
  <2> HIDE DEF S
  <2> QED
    BY <1>2, <1>3, <1>4 DEF Range
<1>6. old \in Seq(File)
  BY DEF PageTypes
<1>7. old \o new \in Seq(File)
  BY <1>5, <1>6
<1>8. Range(old \o new) = Range(old) \cup Range(new)
  <2> HIDE DEF old
  <2>1. /\ DOMAIN (old \o new) = 1 .. Len(old) + Len(new)
        /\ \A k \in 1 .. Len(old) + Len(new) :
             (old \o new)[k] = IF k <= Len(old) THEN old[k] ELSE new[k - Len(old)]
    BY <1>5, <1>6
  <2>2. /\ DOMAIN old = 1 .. Len(old) /\ Len(old) \in Nat
        /\ DOMAIN new = 1 .. Len(new) /\ Len(new) \in Nat
    BY <1>5, <1>6
  <2>3. ASSUME NEW f \in Range(old \o new) PROVE f \in Range(old) \cup Range(new)
    <3>1. PICK k \in 1 .. Len(old) + Len(new) : (old \o new)[k] = f
      BY <2>1 DEF Range
    <3>2. CASE k <= Len(old)
      BY <3>1, <3>2, <2>1, <2>2 DEF Range
    <3>3. CASE k > Len(old)
      <4>1. k - Len(old) \in 1 .. Len(new) /\ new[k - Len(old)] = f
        BY <3>1, <3>3, <2>1, <2>2
      <4> QED
        BY <4>1, <2>2 DEF Range
    <3> QED
      BY <3>2, <3>3, <2>2
  <2>4. ASSUME NEW f \in Range(old) PROVE f \in Range(old \o new)
    <3>1. PICK k \in 1 .. Len(old) : old[k] = f
      BY <2>2 DEF Range
    <3>2. k \in 1 .. Len(old) + Len(new) /\ (old \o new)[k] = f
      BY <3>1, <2>1, <2>2
    <3> QED
      BY <3>2, <2>1 DEF Range
  <2>5. ASSUME NEW f \in Range(new) PROVE f \in Range(old \o new)
    <3>1. PICK k \in 1 .. Len(new) : new[k] = f
      BY <2>2 DEF Range
    <3>2. /\ k + Len(old) \in 1 .. Len(old) + Len(new)
          /\ (old \o new)[k + Len(old)] = f
      BY <3>1, <2>1, <2>2
    <3> QED
      BY <3>2, <2>1 DEF Range
  <2> QED
    BY <2>3, <2>4, <2>5
<1>9. FidsIn(old \o new) = FidsIn(old) \cup FidsIn(new)
  BY <1>8 DEF FidsIn
<1> QED
  BY <1>2, <1>5, <1>7, <1>8, <1>9

\* What a page's answer to a failed chunk is.
LEMMA FailsFacts ==
    ASSUME NEW r \in Request, Refused(r) \/ Lost(r) \/ CutOff(r)
    PROVE  Fails(r) /\ UNCHANGED <<claim, files, left, visit>>
BY DEF Refused, Lost, CutOff, Fails

\* Statuses before uploadNextChunk gives out the slots.
Freshly(w, new) ==
    [r \in Request |-> IF r[1] = w /\ r[2] \in Range(new) THEN "pending" ELSE status[r]]
Done(r)    == [status EXCEPT ![r] = "success"]
Dropped(u) == [r \in Request |-> IF r \in ChunksOf(u) THEN "none" ELSE status[r]]

\* These are states of the chunks.
LEMMA BeforeStart ==
    ASSUME PageTypes
    PROVE  /\ \A w, new : Freshly(w, new) \in [Request -> Status]
           /\ \A r \in Request : Done(r) \in [Request -> Status]
           /\ \A u : Dropped(u) \in [Request -> Status]
BY DEF PageTypes, Freshly, Done, Dropped, Status, InProgress

\* Who uploadNextChunk is called for, and with what.
LEMMA AddFilesIs ==
    ASSUME PageTypes, NEW w \in Flow, NEW new, AddFiles(w, new)
    PROVE  /\ w \notin left /\ files' = [files EXCEPT ![w] = @ \o new]
           /\ files'[w] = files[w] \o new
           /\ indicated' = [indicated EXCEPT ![w] = @ \cup FidsIn(new)]
           /\ status' = StartNext(Freshly(w, new), w, files[w] \o new,
                                  SimultaneousUploads - Cardinality(Uploading(Freshly(w, new), w)))
           /\ UNCHANGED <<storeVars, outcome, left, visit>>
<1>1. files' = [files EXCEPT ![w] = @ \o new] /\ files'[w] = files[w] \o new
  BY DEF AddFiles, PageTypes
<1>2. status' = Upload(Freshly(w, new), w, files'[w])
  BY DEF AddFiles, Freshly
<1> QED
  BY <1>1, <1>2 DEF AddFiles, Upload

\* A good answer, with or without an indicator, and with or without the end of the file.
LEMMA SucceedsIs ==
    ASSUME NEW r \in Request, Succeeds(r)
    PROVE  /\ status[r] = "posting" /\ stage[r] = "answered" /\ answer[r] = "ok"
           /\ IF FidOfR(r) \notin indicated[r[1]]
              THEN status' = Done(r) /\ UNCHANGED <<indicated, outcome, claim>>
              ELSE /\ status' = StartNext(Done(r), r[1], files[r[1]], 1)
                   /\ \/ UNCHANGED <<indicated, outcome, claim>>
                      \/ /\ \A k \in ChunksOf(<<r[1], r[2]>>) : Done(r)[k] \notin Unfinished
                         /\ outcome' = [outcome EXCEPT ![<<r[1], r[2]>>] = "success"]
                         /\ indicated' = [indicated EXCEPT ![r[1]] = @ \ {FidOfR(r)}]
                         /\ claim' = [claim EXCEPT ![<<r[1], r[2]>>].at = "asked"]
           /\ UNCHANGED <<handlers, locks, chunks, completed, logged_in, files, left, visit>>
BY DEF Succeeds, Done, Unfinished

\* A bad answer or none.
LEMMA FailsIs ==
    ASSUME NEW r \in Request, Fails(r)
    PROVE  LET u == <<r[1], r[2]>>
           IN /\ status[r] = "posting"
              /\ outcome' = [outcome EXCEPT ![u] = "error"]
              /\ status' = StartNext(Dropped(u), r[1], files[r[1]],
                                     Cardinality(ChunksOf(u) \cap Uploading(status, r[1])))
              /\ indicated' = [indicated EXCEPT ![r[1]] = @ \ {FidOfR(r)}]
              /\ UNCHANGED <<claim, files, left, visit>>
BY DEF Fails, Aborted, Dropped

\* A page's step keeps its types, and the claims'.
LEMMA PageTypesKept ==
    ASSUME PageTypes, ClaimTypes, PageDoes PROVE PageTypes' /\ ClaimTypes'
<1>1. CASE Adds
  <2>1. PICK w \in Flow : \E drop \in visit.drops[w] :
                 \E new \in SetToSeqs(Unknown(w, drop)) : AddFiles(w, new)
    BY <1>1 DEF Adds
  <2>2. PICK drop \in visit.drops[w] : \E new \in SetToSeqs(Unknown(w, drop)) : AddFiles(w, new)
    BY <2>1
  <2>3. PICK new \in SetToSeqs(Unknown(w, drop)) : AddFiles(w, new)
    BY <2>2
  <2>4. /\ files' \in [Flow -> Seq(File)]
        /\ FidsIn(files'[w]) = FidsIn(files[w]) \cup FidsIn(new)
        /\ FidsIn(new) \subseteq Fid
    <3>1. /\ files' = [files EXCEPT ![w] = @ \o new] /\ files'[w] = files[w] \o new
          /\ files[w] \o new \in Seq(File)
          /\ FidsIn(files[w] \o new) = FidsIn(files[w]) \cup FidsIn(new)
          /\ \A f \in Range(new) : f \in File
      BY <2>3, NewFiles, AddFilesIs
    <3>2. files' \in [Flow -> Seq(File)]
      BY <3>1 DEF PageTypes
    <3>3. FidsIn(new) \subseteq Fid
      BY <3>1, FileAssumption DEF FidsIn
    <3> QED
      BY <3>1, <3>2, <3>3
  <2>5. status' \in [Request -> Status]
    BY <2>3, AddFilesIs, BeforeStart, Started
  <2>6. indicated' \in [Flow -> SUBSET Fid]
    <3>1. indicated' = [indicated EXCEPT ![w] = @ \cup FidsIn(new)]
      BY <2>3, AddFilesIs
    <3> QED
      BY <3>1, <2>4 DEF PageTypes
  <2>7. ASSUME NEW v \in Flow PROVE indicated'[v] \subseteq FidsIn(files'[v])
    <3>1. /\ files' = [files EXCEPT ![w] = @ \o new]
          /\ indicated' = [indicated EXCEPT ![w] = @ \cup FidsIn(new)]
      BY <2>3, AddFilesIs
    <3>2. CASE v = w
      BY <2>4, <3>1, <3>2 DEF PageTypes
    <3>3. CASE v # w
      BY <3>1, <3>3 DEF PageTypes
    <3> QED
      BY <3>2, <3>3
  <2> QED
    BY <2>3, <2>4, <2>5, <2>6, <2>7, AddFilesIs DEF PageTypes, ClaimTypes, storeVars
<1>2. CASE \E w \in Flow : Leave(w)
  <2>1. PICK w \in Flow : Leave(w)
    BY <1>2
  <2>2. files' \in [Flow -> Seq(File)]
    BY <2>1 DEF Leave, PageTypes
  <2>3. \A v \in Flow : indicated'[v] \subseteq FidsIn(files'[v])
    BY <2>1 DEF Leave, PageTypes
  <2> QED
    BY <2>1, <2>2, <2>3 DEF Leave, PageTypes, ClaimTypes, Status, storeVars
<1>3. ASSUME NEW r \in Request, Answers(r) PROVE PageTypes' /\ ClaimTypes'
  <2> DEFINE u == <<r[1], r[2]>>
  <2>0. u \in Flow \X File /\ r[1] \in Flow /\ FidOfR(r) \in Fid
    BY Requests
  <2>1. CASE Tested(r)
    BY <2>1 DEF Tested, PageTypes, ClaimTypes, Status, InProgress
  <2>2. CASE Succeeds(r)
    <3>1. status' \in [Request -> Status]
      <4>1. Done(r) \in [Request -> Status]
        BY BeforeStart
      <4>2. StartNext(Done(r), r[1], files[r[1]], 1) \in [Request -> Status]
        BY <2>0, <4>1, Started
      <4> QED
        BY <2>2, <4>1, <4>2, SucceedsIs
    <3>2. CASE UNCHANGED <<indicated, outcome, claim>>
      BY <2>2, <3>1, <3>2, SucceedsIs DEF PageTypes, ClaimTypes
    <3>3. CASE /\ outcome' = [outcome EXCEPT ![u] = "success"]
               /\ indicated' = [indicated EXCEPT ![r[1]] = @ \ {FidOfR(r)}]
               /\ claim' = [claim EXCEPT ![u].at = "asked"]
      <4>1. ClaimTypes'
        BY <2>0, <3>3 DEF ClaimTypes
      <4> QED
        BY <2>0, <2>2, <3>1, <3>3, <4>1, SucceedsIs DEF PageTypes
    <3> QED
      BY <2>2, <3>2, <3>3, SucceedsIs
  <2>3. CASE Refused(r) \/ Lost(r) \/ CutOff(r)
    <3>1. Fails(r)
      BY <2>3, FailsFacts
    <3>2. status' \in [Request -> Status]
      <4>1. Dropped(u) \in [Request -> Status]
        BY BeforeStart
      <4>2. \A count : StartNext(Dropped(u), r[1], files[r[1]], count) \in [Request -> Status]
        BY <2>0, <4>1, Started
      <4> QED
        BY <3>1, <4>2, FailsIs
    <3>3. /\ outcome' = [outcome EXCEPT ![u] = "error"]
          /\ indicated' = [indicated EXCEPT ![r[1]] = @ \ {FidOfR(r)}]
          /\ UNCHANGED <<claim, files, left, visit>>
      BY <3>1, FailsIs
    <3> QED
      BY <2>0, <3>2, <3>3 DEF PageTypes, ClaimTypes
  <2> QED
    BY <1>3, <2>1, <2>2, <2>3 DEF Answers
<1> QED
  BY <1>1, <1>2, <1>3 DEF PageDoes

\* A claim keeps the types.
LEMMA IngestTypes ==
    ASSUME StoreTypes, ClaimTypes, NEW u \in Flow \X File, Ingest(u)
    PROVE  StoreTypes' /\ ClaimTypes'
<1> DEFINE i == FidOf[u[2]]
<1>1. i \in Fid
  BY FileAssumption
<1>2. UNCHANGED <<handlers, locks, chunks, logged_in>>
  BY DEF Ingest, GetPath, ClearCompleted, Claims
<1>3. completed' \in [Fid -> ChunkMap \cup {None}]
  BY <1>1 DEF Ingest, GetPath, ClearCompleted, StoreTypes
<1>4. PICK to \in {"failed", "got", "taken"}, got \in ChunkMap \cup {None} :
        claim' = [claim EXCEPT ![u] = [at |-> to, got |-> got]]
  <2>1. claim[u].got \in ChunkMap \cup {None}
    BY DEF ClaimTypes
  <2>2. (IF logged_in THEN completed[i] ELSE None) \in ChunkMap \cup {None}
    BY <1>1 DEF StoreTypes
  <2>3. CASE GetPath(u)
    BY <2>2, <2>3 DEF GetPath, Claims
  <2>4. CASE ClearCompleted(u)
    BY <2>1, <2>4 DEF ClearCompleted, Claims
  <2> QED
    BY <2>3, <2>4 DEF Ingest
<1>5. ClaimTypes'
  BY <1>4 DEF ClaimTypes
<1> QED
  BY <1>2, <1>3, <1>5 DEF StoreTypes, handlers, locks

\* Every step keeps the types.
LEMMA TypesStep == Types /\ [Next]_vars => Types'
<1> SUFFICES ASSUME Types, [Next]_vars PROVE Types'
  OBVIOUS
<1>0. StoreTypes /\ ClaimTypes /\ PageTypes
  BY TypesSplit
<1>1. CASE PageDoes
  <2>1. PageTypes' /\ ClaimTypes'
    BY <1>0, <1>1, PageTypesKept
  <2>2. PageStep /\ UNCHANGED <<answer, using, saved, locks, chunks, completed, logged_in, visit>>
    BY <1>1, PageAndServer
  <2>3. StoreTypes'
    BY <1>0, <2>2 DEF StoreTypes, PageStep, Goes, locks, Stage, Within
  <2> QED
    BY <2>1, <2>3, TypesSplit
<1>2. CASE \E r \in Request : (Handle(r) \/ WriteFails(r)) /\ UNCHANGED clientVars
  BY <1>0, <1>2, HandleTypes, TypesSplit DEF ClaimTypes, PageTypes, clientVars
<1>3. CASE \E u \in Flow \X File : Ingest(u) /\ UNCHANGED clientVars
  BY <1>0, <1>3, IngestTypes, TypesSplit DEF PageTypes, clientVars
<1>4. CASE Logout /\ UNCHANGED clientVars
  BY <1>0, <1>4, TypesSplit
     DEF Logout, StoreTypes, ClaimTypes, PageTypes, clientVars, handlers, locks
<1>5. CASE UNCHANGED vars
  BY <1>0, <1>5, TypesSplit
     DEF StoreTypes, ClaimTypes, PageTypes, vars, storeVars, clientVars, handlers, locks
<1> QED
  BY <1>1, <1>2, <1>3, <1>4, <1>5, Steps

-----------------------------------------------------------------------------
(* The pages *)

\* What a thread's step is to the pages.
LEMMA Serves ==
    ASSUME StoreTypes, NEW r \in Request, Handle(r) \/ WriteFails(r)
    PROVE  /\ stage[r] \in Within \cup {"sent", "waiting"}
           /\ stage'[r] \in Within \cup {"waiting", "answered"}
           /\ \A q \in Request \ {r} : stage'[q] = stage[q] /\ answer'[q] = answer[q]
           /\ claim' = claim
<1> USE DEF StoreTypes, Goes, Within
<1>1. CASE Redirect(r)
  BY <1>1 DEF Redirect
<1>2. CASE FindLock(r)
  BY <1>2 DEF FindLock
<1>3. CASE Store(r)
  BY <1>3 DEF Store
<1>4. CASE Check(r)
  BY <1>4 DEF Check, Leaves
<1>5. CASE Write(r)
  BY <1>5 DEF Write
<1>6. CASE WriteNothing(r)
  BY <1>6 DEF WriteNothing
<1>7. CASE WriteFails(r)
  BY <1>7 DEF WriteFails
<1>8. CASE Record(r)
  BY <1>8 DEF Record
<1>9. CASE DropChunks(r)
  BY <1>9 DEF DropChunks, Leaves
<1>10. CASE DropLock(r)
  BY <1>10 DEF DropLock, Leaves
<1> QED
  BY <1>1, <1>2, <1>3, <1>4, <1>5, <1>6, <1>7, <1>8, <1>9, <1>10 DEF Handle

\* The claiming of a file and the logout leave the pages and the threads alone.
LEMMA Elsewhere ==
    ASSUME ClaimTypes,
           \/ \E u \in Flow \X File : Ingest(u) /\ UNCHANGED clientVars
           \/ Logout /\ UNCHANGED clientVars
           \/ UNCHANGED vars
    PROVE  /\ UNCHANGED <<stage, answer, files, status, indicated, outcome, left>>
           /\ \A u \in Flow \X File : claim'[u].at # "none" => claim[u].at # "none"
<1>1. CASE \E u \in Flow \X File : Ingest(u) /\ UNCHANGED clientVars
  <2>1. PICK u \in Flow \X File : Ingest(u) /\ UNCHANGED clientVars
    BY <1>1
  <2>2. claim[u].at # "none" /\ \A v \in (Flow \X File) \ {u} : claim'[v] = claim[v]
    BY <2>1 DEF Ingest, GetPath, ClearCompleted, Claims, ClaimTypes
  <2> QED
    BY <2>1, <2>2 DEF Ingest, GetPath, ClearCompleted, Claims, clientVars, handlers
<1>2. CASE Logout /\ UNCHANGED clientVars
  BY <1>2 DEF Logout, clientVars, handlers
<1>3. CASE UNCHANGED vars
  BY <1>3 DEF vars, clientVars, storeVars, handlers
<1> QED
  BY <1>1, <1>2, <1>3

\* The kinds of steps, once more, for an invariant of the pages.
Quiet ==
    /\ UNCHANGED <<files, status, indicated, outcome, left>>
    /\ \A u \in Flow \X File : claim'[u].at # "none" => claim[u].at # "none"
    /\ \/ UNCHANGED <<stage, answer>>
       \/ \E r \in Request :
            /\ stage[r] \in Within \cup {"sent", "waiting"}
            /\ stage'[r] \in Within \cup {"waiting", "answered"}
            /\ \A q \in Request \ {r} : stage'[q] = stage[q] /\ answer'[q] = answer[q]

\* Every step is a page's or a quiet one.
LEMMA PageOrQuiet ==
    ASSUME Types, [Next]_vars
    PROVE  \/ \E w \in Flow : \E new \in Seq(File) :
                /\ AddFiles(w, new)
                /\ \A f \in Range(new) : f \in File /\ FidOf[f] \notin FidsIn(files[w])
                /\ files[w] \o new \in Seq(File)
                /\ Range(files[w] \o new) = Range(files[w]) \cup Range(new)
           \/ \E w \in Flow : Leave(w)
           \/ \E r \in Request : Tested(r) \/ Succeeds(r)
           \/ \E r \in Request : /\ Fails(r) /\ UNCHANGED answer
                                 /\ UNCHANGED stage \/ Goes(r, "sent", "lost")
           \/ Quiet
<1>0. StoreTypes /\ ClaimTypes /\ PageTypes
  BY TypesSplit
<1>1. CASE Adds
  <2>1. PICK w \in Flow : \E drop \in visit.drops[w] :
                 \E new \in SetToSeqs(Unknown(w, drop)) : AddFiles(w, new)
    BY <1>1 DEF Adds
  <2>2. PICK drop \in visit.drops[w] : \E new \in SetToSeqs(Unknown(w, drop)) : AddFiles(w, new)
    BY <2>1
  <2>3. PICK new \in SetToSeqs(Unknown(w, drop)) : AddFiles(w, new)
    BY <2>2
  <2>4. /\ new \in Seq(File) /\ files[w] \o new \in Seq(File)
        /\ Range(files[w] \o new) = Range(files[w]) \cup Range(new)
        /\ \A f \in Range(new) : f \in File /\ FidOf[f] \notin FidsIn(files[w])
    BY <1>0, NewFiles
  <2> QED
    BY <2>3, <2>4
<1>2. CASE \E r \in Request : Answers(r)
  <2>1. PICK r \in Request : Answers(r)
    BY <1>2
  <2>2. CASE Refused(r) \/ Lost(r) \/ CutOff(r)
    BY <2>2 DEF Refused, Lost, CutOff, Fails
  <2> QED
    BY <2>1, <2>2 DEF Answers
<1>3. CASE \E r \in Request : (Handle(r) \/ WriteFails(r)) /\ UNCHANGED clientVars
  BY <1>0, <1>3, Serves DEF Quiet, clientVars
<1>4. CASE \/ \E u \in Flow \X File : Ingest(u) /\ UNCHANGED clientVars
           \/ Logout /\ UNCHANGED clientVars
           \/ UNCHANGED vars
  BY <1>0, <1>4, Elsewhere DEF Quiet
<1> QED
  BY <1>1, <1>2, <1>3, <1>4, Steps DEF PageDoes

\* The state of a chunk after a page's step: as before the start of further
\* tests, or one of these.
After(before, w, queue) ==
    \A q \in Request :
      \/ status'[q] = before[q]
      \/ /\ before[q] = "pending" /\ status'[q] = "testing"
         /\ q[1] = w /\ q[2] \in Range(queue)

\* The chunks after addFiles.
LEMMA AfterAdds ==
    ASSUME PageTypes, NEW w \in Flow, NEW new \in Seq(File), AddFiles(w, new)
    PROVE  After(Freshly(w, new), w, files[w] \o new)
<1>1. Freshly(w, new) \in [Request -> Status]
  BY BeforeStart
<1> DEFINE count == SimultaneousUploads - Cardinality(Uploading(Freshly(w, new), w))
<1>2. status' = StartNext(Freshly(w, new), w, files[w] \o new, count)
  BY AddFilesIs
<1> HIDE DEF count
<1> QED
  BY <1>1, <1>2, Started DEF After

\* The chunks after a good answer.
LEMMA AfterSucceeds ==
    ASSUME PageTypes, NEW r \in Request, Succeeds(r)
    PROVE  After(Done(r), r[1], files[r[1]])
<1>1. Done(r) \in [Request -> Status] /\ r[1] \in Flow
  BY BeforeStart, Requests
<1>2. status' = Done(r) \/ status' = StartNext(Done(r), r[1], files[r[1]], 1)
  BY SucceedsIs
<1> QED
  BY <1>1, <1>2, Started DEF After

\* The chunks after a bad answer.
LEMMA AfterFails ==
    ASSUME PageTypes, NEW r \in Request, Fails(r)
    PROVE  After(Dropped(<<r[1], r[2]>>), r[1], files[r[1]])
<1> DEFINE u == <<r[1], r[2]>>
           count == Cardinality(ChunksOf(u) \cap Uploading(status, r[1]))
<1>1. Dropped(u) \in [Request -> Status] /\ r[1] \in Flow
  BY BeforeStart, Requests
<1>2. status' = StartNext(Dropped(u), r[1], files[r[1]], count)
  BY FailsIs
<1> HIDE DEF count
<1> QED
  BY <1>1, <1>2, Started DEF After

\* The chunks of a file.
LEMMA ChunksAre ==
    /\ \A u \in Flow \X File : \A q \in Request : q \in ChunksOf(u) <=> q[1] = u[1] /\ q[2] = u[2]
    /\ \A r \in Request : <<r[1], r[2]>> \in Flow \X File /\ r \in ChunksOf(<<r[1], r[2]>>)
<1>1. \A r \in Request : r[1] \in Flow /\ r[2] \in File
  BY Requests
<1> QED
  BY <1>1 DEF ChunksOf

\* A file that is new is not in the list.
LEMMA NotListed ==
    ASSUME NEW w \in Flow, NEW f, FidOf[f] \notin FidsIn(files[w]) PROVE f \notin Range(files[w])
BY DEF FidsIn

\* What is of one file, or of another.
Same(q, r) == q[1] = r[1] /\ q[2] = r[2]

\* Every step keeps the lists.
LEMMA ListedStep == Types /\ Listed /\ InStep /\ [Next]_vars => Listed'
<1> SUFFICES ASSUME Types, Listed, InStep, [Next]_vars PROVE Listed'
  OBVIOUS
<1>0. PageTypes /\ StoreTypes
  BY TypesSplit
<1>1. ASSUME NEW w \in Flow, NEW new \in Seq(File), AddFiles(w, new),
             \A f \in Range(new) : f \in File /\ FidOf[f] \notin FidsIn(files[w]),
             Range(files[w] \o new) = Range(files[w]) \cup Range(new)
      PROVE  Listed'
  <2>1. /\ w \notin left /\ files' = [files EXCEPT ![w] = @ \o new] /\ files'[w] = files[w] \o new
        /\ stage' = stage /\ outcome' = outcome /\ left' = left
    BY <1>0, <1>1, AddFilesIs DEF storeVars, handlers
  <2>2. \A v \in left' : files'[v] = <<>>
    BY <2>1, <1>0 DEF Listed, PageTypes
  <2>3. After(Freshly(w, new), w, files[w] \o new)
    BY <1>0, <1>1, AfterAdds
  <2>4. ASSUME NEW q \in Request
        PROVE  LET u == <<q[1], q[2]>>
               IN IF q[2] \in Range(files'[q[1]])
                  THEN status'[q] = "none" => outcome'[u] # "none"
                  ELSE /\ status'[q] = "none"
                       /\ q[1] \notin left' => stage'[q] = "none" /\ outcome'[u] = "none"
    <3>0. q[1] \in Flow /\ status[q] \in Status
      BY <1>0, Requests DEF PageTypes
    <3>1. CASE q[1] = w /\ q[2] \in Range(new)
      <4>1. Freshly(w, new)[q] = "pending"
        BY <3>1 DEF Freshly
      <4>2. status'[q] # "none"
        BY <4>1, <2>3 DEF After
      <4>3. q[2] \in Range(files'[q[1]])
        BY <3>1, <2>1, <1>1
      <4> QED
        BY <4>2, <4>3
    <3>2. CASE ~ (q[1] = w /\ q[2] \in Range(new))
      <4>1. Freshly(w, new)[q] = status[q]
        BY <3>2 DEF Freshly
      <4>2. status'[q] = "none" <=> status[q] = "none"
        BY <4>1, <2>3 DEF After
      <4>3. q[2] \in Range(files'[q[1]]) <=> q[2] \in Range(files[q[1]])
        BY <3>0, <3>2, <2>1, <1>0, <1>1 DEF PageTypes
      <4> QED
        BY <4>2, <4>3, <2>1 DEF Listed
    <3> QED
      BY <3>1, <3>2
  <2> QED
    BY <2>2, <2>4 DEF Listed
<1>2. ASSUME NEW w \in Flow, Leave(w) PROVE Listed'
  <2>1. /\ files' = [files EXCEPT ![w] = <<>>] /\ left' = left \cup {w}
        /\ \A q \in Request : status'[q] = IF q[1] = w THEN "none" ELSE status[q]
        /\ stage' = stage /\ outcome' = outcome
    BY <1>2 DEF Leave, storeVars, handlers
  <2>2. Range(<<>>) = {}
    BY DEF Range
  <2>3. \A v \in Flow : files'[v] = IF v = w THEN <<>> ELSE files[v]
    BY <2>1, <1>0 DEF PageTypes
  <2>4. \A v \in left' : files'[v] = <<>>
    BY <2>1, <1>0 DEF Listed, PageTypes
  <2>5. \A q \in Request : q[1] \in Flow
    BY Requests
  <2> QED
    BY <2>1, <2>2, <2>3, <2>4, <2>5 DEF Listed
<1>3. ASSUME NEW r \in Request, Tested(r) PROVE Listed'
  <2>1. /\ status[r] = "testing" /\ status' = [status EXCEPT ![r] = "posting"]
        /\ stage' = [stage EXCEPT ![r] = "sent"]
        /\ UNCHANGED <<files, outcome, left>>
    BY <1>3 DEF Tested
  <2> QED
    BY <2>1, <1>0 DEF Listed, PageTypes, StoreTypes
<1>4. ASSUME NEW r \in Request, Succeeds(r) PROVE Listed'
  <2> DEFINE u == <<r[1], r[2]>>
  <2>1. /\ status[r] = "posting" /\ UNCHANGED <<stage, files, left>>
        /\ outcome' = outcome \/ outcome' = [outcome EXCEPT ![u] = "success"]
    BY <1>4, SucceedsIs DEF handlers
  <2>2. After(Done(r), r[1], files[r[1]])
    BY <1>0, <1>4, AfterSucceeds
  <2>3. \A q \in Request \ {r} : status'[q] = "none" <=> status[q] = "none"
    BY <2>2, <1>0 DEF After, Done, PageTypes
  <2>4. status'[r] # "none" /\ r[2] \in Range(files[r[1]])
    BY <2>1, <2>2, <1>0 DEF After, Done, PageTypes, Listed
  <2>5. \A q \in Request : /\ outcome[<<q[1], q[2]>>] # "none" => outcome'[<<q[1], q[2]>>] # "none"
                           /\ ~ Same(q, r) => outcome'[<<q[1], q[2]>>] = outcome[<<q[1], q[2]>>]
    BY <2>1, <1>0, ChunksAre DEF PageTypes, Same
  <2> QED
    BY <2>1, <2>3, <2>4, <2>5 DEF Listed, Same
<1>5. ASSUME NEW r \in Request, Fails(r), UNCHANGED stage \/ Goes(r, "sent", "lost")
      PROVE  Listed'
  <2> DEFINE u == <<r[1], r[2]>>
  <2>1. /\ status[r] = "posting" /\ UNCHANGED <<files, left>>
        /\ outcome' = [outcome EXCEPT ![u] = "error"]
        /\ \A q \in Request \ {r} : stage'[q] = stage[q]
    BY <1>0, <1>5, FailsIs DEF Goes, StoreTypes
  <2>2. After(Dropped(u), r[1], files[r[1]])
    BY <1>0, <1>5, AfterFails
  <2>3. \A q \in Request : ~ Same(q, r) => (status'[q] = "none" <=> status[q] = "none")
    BY <2>2, ChunksAre DEF After, Dropped, Same
  <2>4. r[2] \in Range(files[r[1]])
    BY <2>1 DEF Listed
  <2>5. \A q \in Request : /\ Same(q, r) => outcome'[<<q[1], q[2]>>] = "error"
                           /\ ~ Same(q, r) => outcome'[<<q[1], q[2]>>] = outcome[<<q[1], q[2]>>]
    BY <2>1, <1>0, ChunksAre DEF PageTypes, Same
  <2> QED
    BY <2>1, <2>3, <2>4, <2>5 DEF Listed, Same
<1>6. CASE Quiet
  BY <1>6 DEF Quiet, Listed, Within
<1> QED
  BY <1>1, <1>2, <1>3, <1>4, <1>5, <1>6, PageOrQuiet

\* Every step keeps browser and server in step.
LEMMA InStepStep == Types /\ Listed /\ InStep /\ [Next]_vars => InStep'
<1> SUFFICES ASSUME Types, Listed, InStep, [Next]_vars, NEW q \in Request
             PROVE  /\ status'[q] \in {"pending", "testing"} => stage'[q] = "none"
                    /\ status'[q] = "success" => stage'[q] = "answered" /\ answer'[q] = "ok"
  BY DEF InStep
<1>0. PageTypes /\ StoreTypes /\ q[1] \in Flow /\ q[2] \in File
  BY TypesSplit, Requests
<1>1. ASSUME NEW w \in Flow, NEW new \in Seq(File), AddFiles(w, new),
             \A f \in Range(new) : f \in File /\ FidOf[f] \notin FidsIn(files[w])
      PROVE  /\ status'[q] \in {"pending", "testing"} => stage'[q] = "none"
             /\ status'[q] = "success" => stage'[q] = "answered" /\ answer'[q] = "ok"
  <2>1. w \notin left /\ stage' = stage /\ answer' = answer
    BY <1>0, <1>1, AddFilesIs DEF storeVars, handlers
  <2>2. After(Freshly(w, new), w, files[w] \o new)
    BY <1>0, <1>1, AfterAdds
  <2>3. CASE q[1] = w /\ q[2] \in Range(new)
    <3>1. q[2] \notin Range(files[w])
      BY <2>3, <1>1, NotListed
    <3>2. stage[q] = "none" /\ Freshly(w, new)[q] = "pending"
      BY <3>1, <2>1, <2>3 DEF Listed, Freshly
    <3> QED
      BY <3>2, <2>1, <2>2 DEF After
  <2>4. CASE ~ (q[1] = w /\ q[2] \in Range(new))
    <3>1. Freshly(w, new)[q] = status[q]
      BY <2>4 DEF Freshly
    <3> QED
      BY <3>1, <2>1, <2>2 DEF After, InStep
  <2> QED
    BY <2>3, <2>4
<1>2. ASSUME NEW w \in Flow, Leave(w)
      PROVE  /\ status'[q] \in {"pending", "testing"} => stage'[q] = "none"
             /\ status'[q] = "success" => stage'[q] = "answered" /\ answer'[q] = "ok"
  BY <1>2 DEF Leave, storeVars, handlers, InStep
<1>3. ASSUME NEW r \in Request, Tested(r)
      PROVE  /\ status'[q] \in {"pending", "testing"} => stage'[q] = "none"
             /\ status'[q] = "success" => stage'[q] = "answered" /\ answer'[q] = "ok"
  <2>1. /\ status' = [status EXCEPT ![r] = "posting"] /\ stage' = [stage EXCEPT ![r] = "sent"]
        /\ answer' = answer
    BY <1>3 DEF Tested
  <2> QED
    BY <2>1, <1>0 DEF InStep, PageTypes, StoreTypes
<1>4. ASSUME NEW r \in Request, Succeeds(r)
      PROVE  /\ status'[q] \in {"pending", "testing"} => stage'[q] = "none"
             /\ status'[q] = "success" => stage'[q] = "answered" /\ answer'[q] = "ok"
  <2>1. stage[r] = "answered" /\ answer[r] = "ok" /\ stage' = stage /\ answer' = answer
    BY <1>4, SucceedsIs DEF handlers
  <2>2. After(Done(r), r[1], files[r[1]])
    BY <1>0, <1>4, AfterSucceeds
  <2> QED
    BY <2>1, <2>2, <1>0 DEF After, Done, InStep, PageTypes
<1>5. ASSUME NEW r \in Request, Fails(r), UNCHANGED stage \/ Goes(r, "sent", "lost"),
             UNCHANGED answer
      PROVE  /\ status'[q] \in {"pending", "testing"} => stage'[q] = "none"
             /\ status'[q] = "success" => stage'[q] = "answered" /\ answer'[q] = "ok"
  <2>1. After(Dropped(<<r[1], r[2]>>), r[1], files[r[1]])
    BY <1>0, <1>5, AfterFails
  <2>2. status'[r] = "none"
    BY <2>1, ChunksAre DEF After, Dropped
  <2>3. q # r => stage'[q] = stage[q]
    BY <1>0, <1>5 DEF Goes, StoreTypes
  <2>4. \/ status'[q] = "none" \/ status'[q] = status[q]
        \/ status[q] = "pending" /\ status'[q] = "testing"
    BY <2>1 DEF After, Dropped
  <2> QED
    BY <1>5, <2>2, <2>3, <2>4 DEF InStep
<1>6. CASE Quiet
  BY <1>6, <1>0 DEF Quiet, InStep, Within, StoreTypes
<1> QED
  BY <1>1, <1>2, <1>3, <1>4, <1>5, <1>6, PageOrQuiet

\* A good answer stays one.
LEMMA GoodAnswersStay ==
    ASSUME Types, InStep, [Next]_vars, NEW q \in Request, stage[q] = "answered", answer[q] = "ok"
    PROVE  stage'[q] = "answered" /\ answer'[q] = "ok"
<1>0. StoreTypes /\ PageTypes
  BY TypesSplit
<1>1. CASE \E w \in Flow : \E new \in Seq(File) : AddFiles(w, new)
  BY <1>1 DEF AddFiles, storeVars, handlers
<1>2. CASE \E w \in Flow : Leave(w)
  BY <1>2 DEF Leave, storeVars, handlers
<1>3. CASE \E r \in Request : Tested(r)
  BY <1>3, <1>0 DEF Tested, InStep, StoreTypes
<1>4. CASE \E r \in Request : Succeeds(r)
  BY <1>4 DEF Succeeds, handlers
<1>5. CASE \E r \in Request :
             Fails(r) /\ (UNCHANGED stage \/ Goes(r, "sent", "lost")) /\ UNCHANGED answer
  BY <1>5, <1>0 DEF Goes, StoreTypes
<1>6. CASE Quiet
  BY <1>6 DEF Quiet, Within
<1> QED
  BY <1>1, <1>2, <1>3, <1>4, <1>5, <1>6, PageOrQuiet

\* What is reported about a file says what has become of its chunks.
ReportedOf(u) ==
    /\ outcome[u] # "none" => \A r \in ChunksOf(u) : status[r] \notin Unfinished
    /\ outcome[u] = "success" =>
         \A r \in ChunksOf(u) : stage[r] = "answered" /\ answer[r] = "ok"
    /\ claim[u].at # "none" => outcome[u] = "success"

\* An answer to a chunk comes before its file has been reported, and the report
\* of an upload as done after a good answer to each chunk.
LEMMA NotYetReported ==
    ASSUME Types, Listed, InStep, Reported, NEW r \in Request, status[r] \in Unfinished
    PROVE  /\ outcome[<<r[1], r[2]>>] = "none" /\ claim[<<r[1], r[2]>>].at = "none"
           /\ (\A k \in ChunksOf(<<r[1], r[2]>>) \ {r} : status[k] \notin Unfinished) =>
                \A k \in ChunksOf(<<r[1], r[2]>>) \ {r} : stage[k] = "answered" /\ answer[k] = "ok"
<1> DEFINE u == <<r[1], r[2]>>
<1>0. PageTypes /\ u \in Flow \X File /\ r \in ChunksOf(u)
  BY TypesSplit, ChunksAre
<1>1. outcome[u] = "none"
  BY <1>0 DEF Reported
<1>2. claim[u].at = "none"
  BY <1>0, <1>1 DEF Reported
<1>3. r[2] \in Range(files[r[1]])
  BY DEF Listed, Unfinished, InProgress
<1>4. ASSUME NEW k \in ChunksOf(u), status[k] \notin Unfinished
      PROVE  stage[k] = "answered" /\ answer[k] = "ok"
  <2>1. k \in Request /\ k[1] = r[1] /\ k[2] = r[2]
    BY ChunksAre, <1>0 DEF ChunksOf
  <2>2. status[k] # "none"
    BY <2>1, <1>1, <1>3 DEF Listed
  <2>3. status[k] = "success"
    BY <2>1, <2>2, <1>0, <1>4 DEF PageTypes, Status, Unfinished
  <2> QED
    BY <2>1, <2>3 DEF InStep
<1> QED
  BY <1>1, <1>2, <1>4

\* Every step keeps the reports true.
LEMMA ReportedStep == Types /\ Listed /\ InStep /\ Reported /\ [Next]_vars => Reported'
<1> SUFFICES ASSUME Types, Listed, InStep, Reported, [Next]_vars, NEW u \in Flow \X File
             PROVE  ReportedOf(u)'
  BY DEF Reported, ReportedOf
<1>0. PageTypes /\ StoreTypes /\ ClaimTypes /\ u[1] \in Flow /\ u[2] \in File /\ ReportedOf(u)
  BY TypesSplit DEF Reported, ReportedOf
<1>a. \A q \in ChunksOf(u) : q \in Request /\ q[1] = u[1] /\ q[2] = u[2]
  BY ChunksAre DEF ChunksOf
<1>b. outcome[u] = "success" => \A r \in ChunksOf(u) : stage'[r] = "answered" /\ answer'[r] = "ok"
  BY <1>0, <1>a, GoodAnswersStay DEF ReportedOf
<1> USE DEF Unfinished, InProgress
<1>1. ASSUME NEW w \in Flow, NEW new \in Seq(File), AddFiles(w, new),
             \A f \in Range(new) : f \in File /\ FidOf[f] \notin FidsIn(files[w])
      PROVE  ReportedOf(u)'
  <2>1. w \notin left /\ outcome' = outcome /\ claim' = claim
    BY <1>0, <1>1, AddFilesIs DEF storeVars
  <2>2. After(Freshly(w, new), w, files[w] \o new)
    BY <1>0, <1>1, AfterAdds
  <2>3. ASSUME NEW q \in ChunksOf(u), outcome'[u] # "none" PROVE status'[q] \notin Unfinished
    <3>1. status[q] \notin Unfinished /\ outcome[<<q[1], q[2]>>] # "none"
      BY <1>0, <1>a, <2>1, <2>3 DEF ReportedOf
    <3>2. ~ (q[1] = w /\ q[2] \in Range(new))
      BY <3>1, <1>a, <1>1, <2>1, NotListed DEF Listed
    <3> QED
      BY <3>1, <3>2, <1>a, <2>2 DEF After, Freshly
  <2> QED
    BY <1>0, <1>b, <2>1, <2>3 DEF ReportedOf
<1>2. ASSUME NEW w \in Flow, Leave(w) PROVE ReportedOf(u)'
  <2>1. outcome' = outcome /\ claim' = claim
        /\ \A q \in Request : status'[q] = "none" \/ status'[q] = status[q]
    BY <1>2 DEF Leave, storeVars
  <2> QED
    BY <1>0, <1>a, <1>b, <2>1 DEF ReportedOf
<1>3. ASSUME NEW r \in Request, Tested(r) PROVE ReportedOf(u)'
  <2>1. /\ status[r] = "testing" /\ UNCHANGED <<outcome, claim>>
        /\ \A q \in Request : q # r => status'[q] = status[q]
    BY <1>3, <1>0 DEF Tested, PageTypes
  <2> QED
    BY <1>0, <1>a, <1>b, <2>1 DEF ReportedOf
<1>4. ASSUME NEW r \in Request, Succeeds(r) PROVE ReportedOf(u)'
  <2> DEFINE v == <<r[1], r[2]>>
  <2>1. After(Done(r), r[1], files[r[1]])
    BY <1>0, <1>4, AfterSucceeds
  <2>2. /\ status[r] = "posting" /\ stage[r] = "answered" /\ answer[r] = "ok"
        /\ stage' = stage /\ answer' = answer
    BY <1>4, SucceedsIs DEF handlers
  <2>3. outcome[v] = "none" /\ v \in Flow \X File /\ r \in ChunksOf(v)
    BY <2>2, NotYetReported, ChunksAre
  <2>4. ASSUME outcome'[u] = outcome[u], claim'[u] = claim[u] PROVE ReportedOf(u)'
    <3>1. ASSUME NEW q \in ChunksOf(u), outcome[u] # "none" PROVE status'[q] \notin Unfinished
      <4>1. status[q] \notin Unfinished /\ q # r
        BY <1>0, <3>1, <2>2 DEF ReportedOf
      <4>2. Done(r)[q] = status[q]
        BY <4>1, <1>0, <1>a DEF Done, PageTypes
      <4> QED
        BY <4>1, <4>2, <1>a, <2>1 DEF After
    <3> QED
      BY <3>1, <1>0, <1>b, <2>4 DEF ReportedOf
  <2>5. CASE UNCHANGED <<outcome, claim>>
    BY <2>4, <2>5
  <2>6. CASE /\ \A k \in ChunksOf(v) : Done(r)[k] \notin Unfinished
             /\ outcome' = [outcome EXCEPT ![v] = "success"]
             /\ claim' = [claim EXCEPT ![v].at = "asked"]
    <3>1. CASE u # v
      BY <2>3, <2>4, <2>6, <3>1, <1>0 DEF PageTypes, ClaimTypes
    <3>2. CASE u = v
      <4>1. \A k \in ChunksOf(v) \ {r} : status[k] \notin Unfinished
        BY <1>0, <1>a, <2>6, <3>2 DEF Done, PageTypes
      <4>2. \A k \in ChunksOf(v) : stage'[k] = "answered" /\ answer'[k] = "ok"
        BY <4>1, <2>2, NotYetReported
      <4>3. \A k \in ChunksOf(v) : status'[k] \notin Unfinished
        BY <2>1, <2>6, <3>2, <1>a DEF After
      <4>4. outcome'[v] = "success"
        BY <2>6, <2>3, <1>0 DEF PageTypes
      <4> QED
        BY <4>2, <4>3, <4>4, <3>2 DEF ReportedOf
    <3> QED
      BY <3>1, <3>2
  <2> QED
    BY <2>5, <2>6, <1>4, SucceedsIs
<1>5. ASSUME NEW r \in Request, Fails(r) PROVE ReportedOf(u)'
  <2> DEFINE v == <<r[1], r[2]>>
  <2>1. After(Dropped(v), r[1], files[r[1]])
    BY <1>0, <1>5, AfterFails
  <2>2. /\ status[r] = "posting" /\ outcome' = [outcome EXCEPT ![v] = "error"] /\ claim' = claim
    BY <1>5, FailsIs
  <2>3. claim[v].at = "none" /\ v \in Flow \X File
    BY <2>2, NotYetReported, ChunksAre
  <2>4. CASE u = v
    <3>1. outcome'[u] = "error" /\ claim'[u].at = "none"
      BY <2>2, <2>3, <2>4, <1>0 DEF PageTypes
    <3>2. \A q \in ChunksOf(u) : status'[q] = "none"
      BY <2>1, <2>4, <1>a DEF After, Dropped
    <3> QED
      BY <3>1, <3>2 DEF ReportedOf
  <2>5. CASE u # v
    <3>1. outcome'[u] = outcome[u] /\ claim'[u] = claim[u]
      BY <2>2, <2>3, <2>5, <1>0 DEF PageTypes
    <3>2. \A q \in ChunksOf(u) : status[q] \notin Unfinished => status'[q] \notin Unfinished
      BY <2>1, <1>a DEF After, Dropped
    <3> QED
      BY <3>1, <3>2, <1>0, <1>b DEF ReportedOf
  <2> QED
    BY <2>4, <2>5
<1>6. CASE Quiet
  BY <1>6, <1>0, <1>b DEF Quiet, ReportedOf
<1> QED
  BY <1>1, <1>2, <1>3, <1>4, <1>5, <1>6, PageOrQuiet

\* Every step keeps the indicators.
LEMMA HasIndicatorStep ==
    Types /\ Listed /\ HasIndicator /\ [Next]_vars => HasIndicator'
<1> SUFFICES ASSUME Types, Listed, HasIndicator, [Next]_vars,
                    NEW q \in Request, OwnIds(q[1])', status'[q] \in Unfinished
             PROVE  FidOfR(q) \in indicated'[q[1]]
  BY DEF HasIndicator, FidOfR
<1>0. PageTypes /\ q[1] \in Flow /\ q[2] \in File
  BY TypesSplit, Requests
<1> USE DEF Unfinished, InProgress
<1>1. ASSUME NEW w \in Flow, NEW new \in Seq(File), AddFiles(w, new),
             Range(files[w] \o new) = Range(files[w]) \cup Range(new)
      PROVE  FidOfR(q) \in indicated'[q[1]]
  <2>1. /\ files' = [files EXCEPT ![w] = @ \o new] /\ files'[w] = files[w] \o new
        /\ indicated' = [indicated EXCEPT ![w] = @ \cup FidsIn(new)]
    BY <1>0, <1>1, AddFilesIs
  <2>2. After(Freshly(w, new), w, files[w] \o new)
    BY <1>0, <1>1, AfterAdds
  <2>3. CASE q[1] = w /\ q[2] \in Range(new)
    <3>1. FidOfR(q) \in FidsIn(new)
      BY <2>3 DEF FidOfR, FidsIn
    <3> QED
      BY <3>1, <2>1, <2>3, <1>0 DEF PageTypes
  <2>4. CASE ~ (q[1] = w /\ q[2] \in Range(new))
    <3>1. status[q] \in Unfinished
      BY <2>2, <2>4 DEF After, Freshly
    <3>2. Range(files[q[1]]) \subseteq Range(files'[q[1]])
      BY <2>1, <1>0, <1>1 DEF PageTypes
    <3>3. OwnIds(q[1])
      BY <3>2 DEF OwnIds
    <3>4. FidOfR(q) \in indicated[q[1]]
      BY <3>1, <3>3 DEF HasIndicator
    <3> QED
      BY <3>4, <2>1, <1>0 DEF PageTypes
  <2> QED
    BY <2>3, <2>4
<1>2. ASSUME NEW w \in Flow, Leave(w) PROVE FidOfR(q) \in indicated'[q[1]]
  <2>1. /\ files' = [files EXCEPT ![w] = <<>>] /\ indicated' = [indicated EXCEPT ![w] = {}]
        /\ status'[q] = IF q[1] = w THEN "none" ELSE status[q]
    BY <1>2 DEF Leave
  <2>2. q[1] # w
    BY <2>1
  <2>3. OwnIds(q[1])
    BY <2>1, <2>2, <1>0 DEF OwnIds, PageTypes
  <2> QED
    BY <2>1, <2>2, <2>3, <1>0 DEF HasIndicator, PageTypes
<1>3. ASSUME NEW r \in Request, Tested(r) PROVE FidOfR(q) \in indicated'[q[1]]
  <2>1. /\ status[r] = "testing" /\ status' = [status EXCEPT ![r] = "posting"]
        /\ UNCHANGED <<files, indicated>>
    BY <1>3 DEF Tested
  <2>2. OwnIds(q[1]) /\ status[q] \in Unfinished
    BY <2>1, <1>0 DEF OwnIds, PageTypes
  <2> QED
    BY <2>1, <2>2 DEF HasIndicator
<1>4. ASSUME NEW r \in Request, Succeeds(r) \/ Fails(r) PROVE FidOfR(q) \in indicated'[q[1]]
  <2> DEFINE v == <<r[1], r[2]>>
  <2>1. /\ status[r] = "posting" /\ UNCHANGED files
        /\ \/ UNCHANGED indicated
           \/ /\ indicated' = [indicated EXCEPT ![r[1]] = @ \ {FidOfR(r)}]
              /\ \A k \in ChunksOf(v) : status'[k] \notin Unfinished
    <3>1. CASE Succeeds(r)
      <4>1. /\ status[r] = "posting" /\ UNCHANGED files
            /\ \/ UNCHANGED indicated
               \/ /\ indicated' = [indicated EXCEPT ![r[1]] = @ \ {FidOfR(r)}]
                  /\ \A k \in ChunksOf(v) : Done(r)[k] \notin Unfinished
        BY <3>1, SucceedsIs
      <4>2. After(Done(r), r[1], files[r[1]])
        BY <1>0, <3>1, AfterSucceeds
      <4> QED
        BY <4>1, <4>2 DEF After, ChunksOf
    <3>2. CASE Fails(r)
      <4>1. /\ status[r] = "posting" /\ UNCHANGED files
            /\ indicated' = [indicated EXCEPT ![r[1]] = @ \ {FidOfR(r)}]
        BY <3>2, FailsIs
      <4>2. After(Dropped(v), r[1], files[r[1]])
        BY <1>0, <3>2, AfterFails
      <4> QED
        BY <4>1, <4>2 DEF After, Dropped, ChunksOf
    <3> QED
      BY <1>4, <3>1, <3>2
  <2>2. status[q] \in Unfinished
    <3>1. CASE Succeeds(r)
      <4>1. After(Done(r), r[1], files[r[1]])
        BY <1>0, <3>1, AfterSucceeds
      <4> QED
        BY <4>1, <1>0 DEF After, Done, PageTypes
    <3>2. CASE Fails(r)
      <4>1. After(Dropped(v), r[1], files[r[1]])
        BY <1>0, <3>2, AfterFails
      <4> QED
        BY <4>1 DEF After, Dropped
    <3> QED
      BY <1>4, <3>1, <3>2
  <2>3. OwnIds(q[1]) /\ FidOfR(q) \in indicated[q[1]]
    BY <2>1, <2>2 DEF OwnIds, HasIndicator
  <2>4. ASSUME q[1] = r[1], FidOfR(q) = FidOfR(r), indicated' # indicated PROVE FALSE
    <3>1. q[2] \in Range(files[q[1]]) /\ r[2] \in Range(files[r[1]])
      BY <2>1, <2>2 DEF Listed
    <3>2. q[2] = r[2]
      BY <3>1, <2>3, <2>4 DEF OwnIds, FidOfR
    <3>3. q \in ChunksOf(v)
      BY <3>2, <2>4 DEF ChunksOf
    <3> QED
      BY <3>3, <2>1, <2>4
  <2>5. r[1] \in Flow
    BY Requests
  <2> QED
    BY <2>1, <2>3, <2>4, <2>5, <1>0 DEF PageTypes
<1>5. CASE Quiet
  <2>1. status'[q] = status[q] /\ files' = files /\ indicated' = indicated
    BY <1>5 DEF Quiet
  <2> QED
    BY <2>1 DEF HasIndicator, OwnIds
<1> QED
  BY <1>1, <1>2, <1>3, <1>4, <1>5, PageOrQuiet

\* The slots and the queue of one instance.
SlotsOf(w) ==
    LET busy == Cardinality(Uploading(status, w))
    IN /\ busy <= SimultaneousUploads
       /\ OwnIds(w) /\ Backlog(status, w, files[w]) # {} => busy = SimultaneousUploads

\* Every step keeps the slots in use.
LEMMA SlotsStep ==
    Types /\ Listed /\ HasIndicator /\ SlotsInUse /\ [Next]_vars => SlotsInUse'
<1> SUFFICES ASSUME Types, Listed, HasIndicator, SlotsInUse, [Next]_vars, NEW v \in Flow
             PROVE  SlotsOf(v)'
  BY DEF SlotsInUse, SlotsOf
<1>0. PageTypes /\ SlotsOf(v) /\ SimultaneousUploads \in Nat \ {0}
  BY TypesSplit, SimultaneousAssumption DEF SlotsInUse, SlotsOf
<1>a. /\ Cardinality(Uploading(status, v)) \in Nat
      /\ \A w \in Flow : \A st, queue : Cardinality(Backlog(st, w, queue)) \in Nat
      /\ \A w \in Flow : \A st : /\ IsFiniteSet(Uploading(st, w))
                                 /\ Cardinality(Uploading(st, w)) \in Nat
      /\ \A w \in Flow : \A st, queue :
           Backlog(st, w, queue) # {} => Cardinality(Backlog(st, w, queue)) > 0
  <2>1. ASSUME NEW w \in Flow, NEW st, NEW queue
        PROVE  /\ Cardinality(Backlog(st, w, queue)) \in Nat
               /\ IsFiniteSet(Uploading(st, w)) /\ Cardinality(Uploading(st, w)) \in Nat
               /\ Backlog(st, w, queue) # {} => Cardinality(Backlog(st, w, queue)) > 0
    <3> DEFINE S == Backlog(st, w, queue)
    <3>1. IsFiniteSet(S) /\ Cardinality(S) \in Nat
      BY Finite
    <3> HIDE DEF S
    <3>2. Cardinality(S) = 0 <=> S = {}
      BY <3>1, FS_EmptySet
    <3>3. S # {} => Cardinality(S) > 0
      BY <3>1, <3>2
    <3> QED
      BY <3>1, <3>3, Finite DEF S
  <2> QED
    BY <2>1
\* What is of no concern to the instance.
<1>b. ASSUME UNCHANGED files, Uploading(status', v) = Uploading(status, v),
             \A queue : Backlog(status', v, queue) = Backlog(status, v, queue)
      PROVE  SlotsOf(v)'
  BY <1>0, <1>b DEF SlotsOf, OwnIds
<1>1. ASSUME NEW w \in Flow, NEW new \in Seq(File), AddFiles(w, new),
             \A f \in Range(new) : f \in File /\ FidOf[f] \notin FidsIn(files[w]),
             files[w] \o new \in Seq(File)
      PROVE  SlotsOf(v)'
  <2> DEFINE st == Freshly(w, new)
             count == SimultaneousUploads - Cardinality(Uploading(st, w))
  <2>1. /\ files' = [files EXCEPT ![w] = @ \o new] /\ files'[w] = files[w] \o new
        /\ status' = StartNext(st, w, files[w] \o new, count)
    BY <1>0, <1>1, AddFilesIs
  <2>2. st \in [Request -> Status]
    BY <1>0, BeforeStart
  <2>3. CASE v # w
    <3>1. \A q \in Request : q[1] = v => st[q] = status[q]
      BY <2>3 DEF Freshly
    <3>2. /\ Uploading(st, v) = Uploading(status, v)
          /\ \A queue : Backlog(st, v, queue) = Backlog(status, v, queue)
      BY <3>1 DEF Uploading, Backlog
    <3>3. /\ Uploading(status', v) = Uploading(st, v)
          /\ \A queue : Backlog(status', v, queue) = Backlog(st, v, queue)
      <4> HIDE DEF st, count
      <4> QED
        BY <2>1, <2>2, <2>3, OthersQueues
    <3>4. files'[v] = files[v]
      BY <2>1, <2>3, <1>0 DEF PageTypes
    <3> QED
      BY <1>0, <3>2, <3>3, <3>4 DEF SlotsOf, OwnIds
  <2>4. CASE v = w
    <3>1. Uploading(st, v) = Uploading(status, v)
      <4>1. ASSUME NEW q \in Request, q[1] = w, q[2] \in Range(new) PROVE status[q] = "none"
        BY <4>1, <1>1, NotListed DEF Listed
      <4> QED
        BY <4>1, <2>4 DEF Uploading, Freshly, InProgress
    <3>2. count \in Nat
      BY <3>1, <2>4, <1>0, <1>a DEF SlotsOf
    <3> DEFINE waiting == Cardinality(Backlog(st, w, files[w] \o new))
    <3>3. waiting \in Nat
      BY <1>a
    <3>4. /\ Cardinality(Uploading(status', w)) = Cardinality(Uploading(st, w)) +
                 (IF count < waiting THEN count ELSE waiting)
          /\ Backlog(status', w, files[w] \o new) # {} => count < waiting
      <4> HIDE DEF st, count
      <4> QED
        BY <2>1, <2>2, <3>2, <1>1, Counts
    <3>5. Cardinality(Uploading(st, w)) \in Nat
      BY <1>a
    <3> DEFINE busy == Cardinality(Uploading(status, v))
               now  == Cardinality(Uploading(status', v))
    <3>6. /\ count = SimultaneousUploads - busy /\ busy \in Nat /\ busy <= SimultaneousUploads
          /\ now = busy + (IF count < waiting THEN count ELSE waiting)
          /\ Backlog(status', v, files'[v]) # {} => count < waiting
      BY <3>1, <3>4, <2>1, <2>4, <1>0, <1>a DEF SlotsOf
    <3>7. now <= SimultaneousUploads
          /\ (Backlog(status', v, files'[v]) # {} => now = SimultaneousUploads)
      <4> HIDE DEF waiting, st, count, busy, now
      <4> QED
        BY <3>2, <3>3, <3>6, <1>0
    <3> QED
      BY <3>7 DEF SlotsOf
  <2> QED
    BY <2>3, <2>4
<1>2. ASSUME NEW w \in Flow, Leave(w) PROVE SlotsOf(v)'
  <2>1. /\ files' = [files EXCEPT ![w] = <<>>]
        /\ status' = [q \in Request |-> IF q[1] = w THEN "none" ELSE status[q]]
    BY <1>2 DEF Leave
  <2>2. CASE v = w
    <3>1. Uploading(status', v) = {} /\ \A queue : Backlog(status', v, queue) = {}
      BY <2>1, <2>2 DEF Uploading, Backlog, InProgress
    <3> QED
      BY <3>1, <1>0, FS_EmptySet DEF SlotsOf
  <2>3. CASE v # w
    <3>1. Uploading(status', v) = Uploading(status, v)
          /\ \A queue : Backlog(status', v, queue) = Backlog(status, v, queue)
      BY <2>1, <2>3 DEF Uploading, Backlog
    <3>2. files'[v] = files[v]
      BY <2>1, <2>3, <1>0 DEF PageTypes
    <3> QED
      BY <1>0, <3>1, <3>2 DEF SlotsOf, OwnIds
  <2> QED
    BY <2>2, <2>3
<1>3. ASSUME NEW r \in Request, Tested(r) PROVE SlotsOf(v)'
  <2>1. status[r] = "testing" /\ status' = [status EXCEPT ![r] = "posting"] /\ files' = files
    BY <1>3 DEF Tested
  <2>2. Uploading(status', v) = Uploading(status, v)
        /\ \A queue : Backlog(status', v, queue) = Backlog(status, v, queue)
    BY <2>1, <1>0 DEF Uploading, Backlog, InProgress, PageTypes
  <2> QED
    BY <2>1, <2>2, <1>b
\* The slots that a page's answer frees, and those it fills.
<1>c. ASSUME NEW r \in Request, NEW st \in [Request -> Status], NEW count \in Nat,
             status' = StartNext(st, r[1], files[r[1]], count), UNCHANGED files,
             \A q \in Request : /\ q[1] # r[1] => st[q] = status[q]
                                /\ st[q] = "pending" => status[q] = "pending",
             Cardinality(Uploading(st, r[1])) + count = Cardinality(Uploading(status, r[1]))
      PROVE  SlotsOf(v)'
  <2> DEFINE w == r[1]
             waiting == Cardinality(Backlog(st, w, files[w]))
  <2>0. w \in Flow /\ files[w] \in Seq(File)
    BY Requests, <1>0 DEF PageTypes
  <2>1. CASE v # w
    <3>1. /\ Uploading(st, v) = Uploading(status, v)
          /\ \A queue : Backlog(st, v, queue) = Backlog(status, v, queue)
      BY <1>c, <2>1 DEF Uploading, Backlog
    <3>2. /\ Uploading(status', v) = Uploading(st, v)
          /\ \A queue : Backlog(status', v, queue) = Backlog(st, v, queue)
      BY <1>c, <2>0, <2>1, OthersQueues
    <3> QED
      BY <3>1, <3>2, <1>b, <1>c
  <2>2. CASE v = w
    <3>1. /\ Cardinality(Uploading(status', w)) = Cardinality(Uploading(st, w)) +
                 (IF count < waiting THEN count ELSE waiting)
          /\ Backlog(status', w, files[w]) # {} => count < waiting
      BY <1>c, <2>0, Counts
    <3>2. waiting \in Nat /\ Cardinality(Uploading(st, w)) \in Nat
          /\ Cardinality(Uploading(status, w)) \in Nat
      BY <2>0, <1>a
    <3>3. waiting > 0 => Backlog(status, w, files[w]) # {}
      <4>1. Backlog(st, w, files[w]) \subseteq Backlog(status, w, files[w])
        BY <1>c DEF Backlog
      <4>2. Backlog(st, w, files[w]) = {} => waiting = 0
        BY FS_EmptySet
      <4> QED
        BY <4>1, <4>2
    <3>4. OwnIds(w)' => OwnIds(w)
      BY <1>c DEF OwnIds
    <3>5. Cardinality(Uploading(status', w)) <= SimultaneousUploads
      BY <1>0, <1>c, <2>2, <3>1, <3>2 DEF SlotsOf
    <3>6. ASSUME OwnIds(w)', Backlog(status', w, files[w]) # {}
          PROVE  Cardinality(Uploading(status', w)) = SimultaneousUploads
      <4>1. count < waiting
        BY <3>1, <3>6
      <4>2. Backlog(status, w, files[w]) # {}
        BY <4>1, <3>2, <3>3
      <4>3. Cardinality(Uploading(status, w)) = SimultaneousUploads
        BY <4>2, <3>4, <3>6, <2>2, <1>0 DEF SlotsOf
      <4> QED
        BY <4>1, <4>3, <3>1, <3>2, <1>c
    <3> QED
      BY <1>c, <2>2, <3>5, <3>6 DEF SlotsOf
  <2> QED
    BY <2>1, <2>2
<1>4. ASSUME NEW r \in Request, Succeeds(r) PROVE SlotsOf(v)'
  <2> DEFINE w == r[1]
             U == Uploading(status, w)
  <2>0. w \in Flow /\ status[r] = "posting" /\ files' = files /\ Done(r) \in [Request -> Status]
    BY <1>0, <1>4, SucceedsIs, Requests, BeforeStart
  <2>1. Uploading(Done(r), w) = U \ {r} /\ r \in U
    BY <2>0, <1>0 DEF Uploading, Done, InProgress, PageTypes
  <2>2. Cardinality(Uploading(Done(r), w)) + 1 = Cardinality(U) /\ Cardinality(U) \in Nat
    <3>1. IsFiniteSet(U) /\ Cardinality(U) \in Nat
      BY <2>0, <1>a
    <3> HIDE DEF U
    <3>2. Cardinality(U \ {r}) = Cardinality(U) - 1
      BY <2>1, <3>1, FS_RemoveElement
    <3> QED
      BY <2>1, <3>1, <3>2
  <2>3. \A q \in Request : /\ q[1] # w => Done(r)[q] = status[q]
                           /\ Done(r)[q] = "pending" => status[q] = "pending"
    BY <1>0 DEF Done, PageTypes
  <2>4. CASE status' = StartNext(Done(r), w, files[w], 1)
    BY <2>0, <2>2, <2>3, <2>4, <1>c
  <2>5. CASE FidOfR(r) \notin indicated[w] /\ status' = Done(r)
    <3>1. ~ OwnIds(w)
      BY <2>0, <2>5 DEF HasIndicator, Unfinished, InProgress
    <3>2. CASE v = w
      <4>1. ~ OwnIds(w)'
        BY <3>1, <2>0 DEF OwnIds
      <4>2. Cardinality(Uploading(status', w)) <= SimultaneousUploads
        BY <2>2, <2>5, <3>2, <1>0, <1>a DEF SlotsOf
      <4> QED
        BY <4>1, <4>2, <3>2 DEF SlotsOf
    <3>3. CASE v # w
      <4>1. Uploading(status', v) = Uploading(status, v)
            /\ \A queue : Backlog(status', v, queue) = Backlog(status, v, queue)
        BY <2>3, <2>5, <3>3 DEF Uploading, Backlog
      <4> QED
        BY <4>1, <2>0, <1>b
    <3> QED
      BY <3>2, <3>3
  <2> QED
    BY <2>4, <2>5, <1>4, SucceedsIs
<1>5. ASSUME NEW r \in Request, Fails(r) PROVE SlotsOf(v)'
  <2> DEFINE w == r[1]
             u == <<r[1], r[2]>>
             U == Uploading(status, w)
             mine == ChunksOf(u) \cap U
             count == Cardinality(mine)
  <2>0. w \in Flow /\ files' = files /\ Dropped(u) \in [Request -> Status]
        /\ status' = StartNext(Dropped(u), w, files[w], count)
    BY <1>0, <1>5, FailsIs, Requests, BeforeStart
  <2>1. Uploading(Dropped(u), w) = U \ mine
    BY <1>0 DEF Uploading, Dropped, InProgress
  <2>2. count \in Nat /\ Cardinality(Uploading(Dropped(u), w)) + count = Cardinality(U)
    <3>1. IsFiniteSet(U) /\ Cardinality(U) \in Nat
      BY <2>0, <1>a
    <3>2. mine \in SUBSET U
      OBVIOUS
    <3>3. U \cap mine = mine
      OBVIOUS
    <3> HIDE DEF U, mine
    <3>4. IsFiniteSet(mine) /\ Cardinality(mine) \in Nat
      BY <3>1, <3>2, FS_Subset, FS_CardinalityType
    <3>5. Cardinality(U \ mine) = Cardinality(U) - Cardinality(U \cap mine)
      BY <3>1, <3>4, FS_Difference
    <3>6. count = Cardinality(mine)
      BY DEF mine, U
    <3> HIDE DEF count
    <3> QED
      BY <2>1, <3>1, <3>3, <3>4, <3>5, <3>6
  <2>3. \A q \in Request : /\ q[1] # w => Dropped(u)[q] = status[q]
                           /\ Dropped(u)[q] = "pending" => status[q] = "pending"
    BY DEF Dropped, ChunksOf
  <2> HIDE DEF count
  <2> QED
    BY <2>0, <2>2, <2>3, <1>c
<1>6. CASE Quiet
  BY <1>6, <1>b DEF Quiet
<1> QED
  BY <1>1, <1>2, <1>3, <1>4, <1>5, <1>6, PageOrQuiet

-----------------------------------------------------------------------------
(* The server *)

\* The stages at which a request will yet write its file or take the map away.
Working == {"checking", "writing", "recording", "dropping"}

\* A file has a chunk at least, by its identifier.
LEMMA Counted == \A i \in Fid : ChunkCount(SizeOf[i]) \in Nat \ {0}
<1> SUFFICES ASSUME NEW i \in Fid PROVE ChunkCount(SizeOf[i]) \in Nat \ {0}
  OBVIOUS
<1>1. SizeOf[i] \in Nat /\ ChunkSize \in Nat \ {0}
  BY FileAssumption, ChunkSizeAssumption
<1>2. SizeOf[i] >= ChunkSize => SizeOf[i] \div ChunkSize \in Nat \ {0}
  BY <1>1
<1> QED
  BY <1>1, <1>2 DEF ChunkCount

\* A file that has no chunk in the map has not got all of them there.
LEMMA EmptyIsNotFull ==
    ASSUME NEW i \in Fid, NEW c, DOMAIN c = {}
    PROVE  Cardinality(DOMAIN c) # ChunkCount(SizeOf[i])
BY Counted, FS_EmptySet

\* Whose step it is that is none of a page's.
LEMMA ServerOrQuiet ==
    ASSUME [Next]_vars
    PROVE  \/ PageDoes
           \/ \E r \in Request : (Handle(r) \/ WriteFails(r)) /\ UNCHANGED clientVars
           \/ \E u \in Flow \X File : Ingest(u) /\ UNCHANGED clientVars
           \/ Logout /\ UNCHANGED clientVars
           \/ UNCHANGED vars
BY Steps

\* What a page does to the requests leaves those alone that the server works on.
LEMMA PageLeavesWork ==
    ASSUME StoreTypes, InStep, PageStep, NEW q \in Request
    PROVE  /\ stage[q] \in Within \cup {"waiting", "answered"} => stage'[q] = stage[q]
           /\ stage'[q] \in Within \cup {"waiting", "answered"} => stage'[q] = stage[q]
           /\ stage'[q] = "none" => stage[q] = "none"
BY DEF PageStep, InStep, StoreTypes, Goes, Within

\* Every step keeps the full maps taken.
LEMMA FullStep == Types /\ InStep /\ FullMapIsTaken /\ [Next]_vars => FullMapIsTaken'
<1> SUFFICES ASSUME Types, InStep, FullMapIsTaken, [Next]_vars, NEW i \in Fid,
                    Cardinality(DOMAIN chunks'[i]) = ChunkCount(SizeOf[i])
             PROVE  \E q \in Request : FidOfR(q) = i /\ stage'[q] \in Working
  BY DEF FullMapIsTaken, Working, FidOfR
<1>0. StoreTypes
  BY TypesSplit
<1>a. DOMAIN chunks'[i] # {}
  BY EmptyIsNotFull
\* The map as it was, with the request that will take it.
<1>b. ASSUME chunks'[i] = chunks[i],
             \A q \in Request : stage[q] \in Working /\ FidOfR(q) = i => stage'[q] = stage[q]
      PROVE  \E q \in Request : FidOfR(q) = i /\ stage'[q] \in Working
  BY <1>b DEF FullMapIsTaken, Working
<1>1. CASE PageDoes
  <2>1. PageStep /\ chunks' = chunks
    BY <1>1, PageAndServer
  <2> QED
    BY <2>1, <1>0, <1>b, PageLeavesWork DEF Working, Within
<1>2. ASSUME NEW r \in Request, Handle(r) \/ WriteFails(r)
      PROVE  \E q \in Request : FidOfR(q) = i /\ stage'[q] \in Working
  <2> DEFINE j == FidOfR(r)
  <2> USE DEF Goes, Working
  <2>0. /\ \A q \in Request \ {r} : stage'[q] = stage[q]
        /\ j \in Fid /\ TotalOf(r) = ChunkCount(SizeOf[j])
        /\ stage \in [Request -> Stage] /\ chunks \in [Fid -> ChunkMap]
    BY <1>0, <1>2, Serves, Requests DEF StoreTypes, TotalOf, Total, FidOfR
  <2>1. CASE Redirect(r) \/ FindLock(r) \/ DropLock(r)
    <3>1. chunks' = chunks /\ stage[r] \notin Working
      BY <2>1 DEF Redirect, FindLock, DropLock, Leaves
    <3> QED
      BY <3>1, <2>0, <1>b
  <2>2. CASE Store(r) \/ Write(r) \/ WriteNothing(r) \/ WriteFails(r) \/ Record(r)
    <3>1. stage'[r] \in Working /\ (i # j => chunks'[i] = chunks[i])
      BY <2>2, <2>0 DEF Store, Write, WriteNothing, WriteFails, Record
    <3>2. CASE i = j
      BY <3>1, <3>2
    <3>3. CASE i # j
      BY <3>1, <3>3, <2>0, <1>b
    <3> QED
      BY <3>2, <3>3
  <2>3. CASE Check(r)
    <3>1. chunks' = chunks
      BY <2>3 DEF Check
    <3>2. CASE i = j
      <4>1. chunks[j] # NoChunks /\ IsAllThere(r)
        BY <1>a, <3>1, <3>2, <2>0, ChunkMaps DEF IsAllThere
      <4>2. stage'[r] = "writing"
        BY <4>1, <2>0, <2>3 DEF Check
      <4> QED
        BY <4>2, <3>2
    <3>3. CASE i # j
      BY <3>1, <3>3, <2>0, <1>b
    <3> QED
      BY <3>2, <3>3
  <2>4. CASE DropChunks(r)
    <3>1. chunks'[j] = NoChunks /\ (i # j => chunks'[i] = chunks[i])
      BY <2>4, <2>0 DEF DropChunks
    <3>2. i # j
      BY <3>1, <1>a, ChunkMaps
    <3> QED
      BY <3>1, <3>2, <2>0, <1>b
  <2> QED
    BY <1>2, <2>1, <2>2, <2>3, <2>4 DEF Handle
<1>3. CASE \/ \E u \in Flow \X File : Ingest(u)
           \/ Logout
           \/ UNCHANGED vars
  <2>1. UNCHANGED <<stage, chunks>>
    BY <1>3 DEF Ingest, GetPath, ClearCompleted, Claims, Logout, vars, storeVars, handlers
  <2> QED
    BY <2>1, <1>b
<1> QED
  BY <1>1, <1>2, <1>3, ServerOrQuiet

\* Every step keeps the locks held.
LEMMA LockHeldStep == Types /\ InStep /\ LockHeld /\ [Next]_vars => LockHeld'
<1> SUFFICES ASSUME Types, InStep, LockHeld, [Next]_vars,
                    NEW q \in Request, stage'[q] \in Within
             PROVE  holder'[using'[q]] = q
  BY DEF LockHeld, Within
<1>0. StoreTypes /\ q # None
  BY TypesSplit, NoneAssumption
<1>a. ASSUME stage[q] \in Within, UNCHANGED <<using, holder>> PROVE holder'[using'[q]] = q
  BY <1>a DEF LockHeld
<1>1. CASE PageDoes
  BY <1>0, <1>1, <1>a, PageAndServer, PageLeavesWork DEF locks
<1>2. ASSUME NEW r \in Request, Handle(r) \/ WriteFails(r) PROVE holder'[using'[q]] = q
  <2>0. q # r => stage'[q] = stage[q]
    BY <1>0, <1>2, Serves
  <2>1. CASE Redirect(r) \/ Write(r) \/ WriteNothing(r) \/ WriteFails(r) \/ Record(r)
    <3>1. stage[q] \in Within /\ UNCHANGED <<using, holder>>
      BY <1>0, <2>0, <2>1 DEF Redirect, Write, WriteNothing, WriteFails, Record, locks, Goes, Within, StoreTypes
    <3> QED
      BY <3>1, <1>a
  <2>2. CASE FindLock(r)
    BY <1>0, <2>0, <2>2 DEF FindLock, LockHeld, Goes, Within, StoreTypes
  <2>3. CASE Store(r)
    <3>1. /\ using[r] \in Request /\ holder[using[r]] = None /\ using' = using
          /\ holder' = [holder EXCEPT ![using[r]] = r]
      BY <1>0, <2>3 DEF Store, Goes, Within, StoreTypes
    <3>2. CASE q = r
      BY <3>1, <3>2, <1>0 DEF StoreTypes
    <3>3. CASE q # r
      <4>1. stage[q] \in Within /\ holder[using[q]] = q /\ using[q] \in Request
        BY <1>0, <2>0, <3>3 DEF LockHeld, StoreTypes
      <4> QED
        BY <4>1, <3>1, <1>0 DEF StoreTypes
    <3> QED
      BY <3>2, <3>3
  <2>4. ASSUME NEW from \in Within, NEW s, Leaves(r, from, s) PROVE holder'[using'[q]] = q
    <3>1. /\ stage[r] \in Within /\ stage'[r] = "answered"
          /\ holder' = [holder EXCEPT ![using[r]] = None] /\ using' = [using EXCEPT ![r] = None]
      BY <1>0, <2>4 DEF Leaves, Goes, StoreTypes
    <3>2. q # r
      BY <3>1 DEF Within
    <3>3. /\ stage[q] \in Within /\ using[q] \in Request
          /\ holder[using[q]] = q /\ holder[using[r]] = r
      BY <1>0, <2>0, <3>1, <3>2 DEF LockHeld, StoreTypes
    <3> QED
      BY <3>1, <3>2, <3>3, <1>0 DEF StoreTypes
  <2>5. CASE Check(r) \/ DropChunks(r)
    <3>1. \/ \E from \in Within, s \in {"ok", "failed"} : Leaves(r, from, s)
          \/ stage[r] \in Within /\ UNCHANGED <<using, holder>>
      BY <2>5 DEF Check, DropChunks, Goes, Within
    <3> QED
      BY <3>1, <2>0, <2>4, <1>a
  <2>6. CASE DropLock(r)
    BY <2>4, <2>6 DEF DropLock, Within
  <2> QED
    BY <1>2, <2>1, <2>2, <2>3, <2>5, <2>6 DEF Handle
<1>3. CASE \/ \E u \in Flow \X File : Ingest(u)
           \/ Logout
           \/ UNCHANGED vars
  BY <1>3, <1>a
     DEF Ingest, GetPath, ClearCompleted, Claims, Logout, vars, storeVars, handlers, locks
<1> QED
  BY <1>1, <1>2, <1>3, ServerOrQuiet

-----------------------------------------------------------------------------
(* The course of an upload *)

\* The numbers of a file's chunks are as many as it has chunks.
LEMMA UpTo ==
    \A f \in File : IsFiniteSet(1 .. Total(f)) /\ Cardinality(1 .. Total(f)) = Total(f)
<1> TAKE f \in File
<1>1. 1 \in Int /\ Total(f) \in Int /\ ~ (1 > Total(f)) /\ Total(f) - 1 + 1 = Total(f)
  BY Totals
<1>2. /\ IsFiniteSet(1 .. Total(f))
      /\ Cardinality(1 .. Total(f)) = IF 1 > Total(f) THEN 0 ELSE Total(f) - 1 + 1
  BY <1>1, FS_Interval, Zenon
<1> QED
  BY <1>1, <1>2

\* What some chunks of a file come to.
LEMMA Parts ==
    ASSUME NEW u \in Flow \X File, NEW some \in SUBSET ChunksOf(u)
    PROVE  /\ \A r \in ChunksOf(u) : r[3] \in DOMAIN Part(u, some) <=> r \in some
           /\ some = ChunksOf(u) => Whole(u[2], Part(u, some))
           /\ Cardinality(DOMAIN Part(u, some)) = Total(u[2]) => some = ChunksOf(u)
           /\ \A r \in ChunksOf(u) : With(Part(u, some), r[3], Bytes(r)) = Part(u, some \cup {r})
<1> DEFINE total == Total(u[2])
           D == {r[3] : r \in some}
<1>0. u[1] \in Flow /\ u[2] \in File /\ total \in Nat \ {0} /\ u = <<u[1], u[2]>>
  BY Totals
<1>1. \A r \in ChunksOf(u) : r \in Request /\ r[3] \in 1 .. total /\ r = <<u[1], u[2], r[3]>>
  <2> SUFFICES ASSUME NEW r \in ChunksOf(u)
               PROVE  r \in Request /\ r[3] \in 1 .. total /\ r = <<u[1], u[2], r[3]>>
    OBVIOUS
  <2>1. r \in Request /\ r[1] = u[1] /\ r[2] = u[2]
    BY ChunksAre DEF ChunksOf
  <2> QED
    BY <2>1, Requests
<1>2. \A n \in 1 .. total : <<u[1], u[2], n>> \in ChunksOf(u)
  BY <1>0, Requests DEF ChunksOf
<1>3. \A r \in ChunksOf(u) : r[3] \in D <=> r \in some
  BY <1>1
<1>4. DOMAIN Part(u, some) = D
  BY DEF Part
<1>5. ASSUME some = ChunksOf(u) PROVE Whole(u[2], Part(u, some))
  <2>1. D = 1 .. total
    BY <1>1, <1>2, <1>5
  <2>2. Part(u, some) = [n \in 1 .. total |-> Bytes(<<u[1], u[2], n>>)]
    BY <2>1 DEF Part
  <2> QED
    BY <2>2, WholeFile
<1>6. ASSUME Cardinality(D) = total PROVE some = ChunksOf(u)
  <2> DEFINE S == 1 .. total
  <2>1. D \in SUBSET S
    BY <1>1
  <2>2. IsFiniteSet(S) /\ Cardinality(S) = total
    BY <1>0, UpTo
  <2>3. D = S
    <3> HIDE DEF D, S
    <3> QED
      BY <2>1, <2>2, <1>6, FS_Subset
  <2> QED
    BY <2>3, <1>1, <1>3
<1>7. ASSUME NEW r \in ChunksOf(u)
      PROVE  With(Part(u, some), r[3], Bytes(r)) = Part(u, some \cup {r})
  <2>1. {q[3] : q \in some \cup {r}} = D \cup {r[3]}
    OBVIOUS
  <2>2. Bytes(r) = Bytes(<<u[1], u[2], r[3]>>)
    BY <1>1
  <2>3. With(Part(u, some), r[3], Bytes(r))
          = [n \in D \cup {r[3]} |-> IF n = r[3] THEN Bytes(r) ELSE Part(u, some)[n]]
    BY <1>4 DEF With
  <2>4. \A n \in D \cup {r[3]} :
           (IF n = r[3] THEN Bytes(r) ELSE Part(u, some)[n]) = Bytes(<<u[1], u[2], n>>)
    BY <2>2 DEF Part
  <2>5. Part(u, some \cup {r}) = [n \in D \cup {r[3]} |-> Bytes(<<u[1], u[2], n>>)]
    BY <2>1 DEF Part
  <2> HIDE DEF D
  <2> QED
    BY <2>3, <2>4, <2>5
<1> QED
  BY <1>3, <1>4, <1>5, <1>6, <1>7

\* The first chunk of a file.
LEMMA HasChunks ==
    \A u \in Flow \X File : \E r \in Request : <<r[1], r[2]>> = u /\ r \in ChunksOf(u)
<1> SUFFICES ASSUME NEW u \in Flow \X File
             PROVE  \E r \in Request : <<r[1], r[2]>> = u /\ r \in ChunksOf(u)
  OBVIOUS
<1>1. u[1] \in Flow /\ u[2] \in File /\ u = <<u[1], u[2]>> /\ 1 \in 1 .. Total(u[2])
  BY Totals
<1>2. <<u[1], u[2], 1>> \in Request
  BY <1>1, Requests
<1> QED
  BY <1>1, <1>2 DEF ChunksOf

\* Of a file that is claimed each chunk has had a good answer.
LEMMA ClaimedIsSent ==
    ASSUME Reported, NEW u \in Flow \X File, claim[u].at # "none"
    PROVE  \A r \in ChunksOf(u) : stage[r] = "answered" /\ answer[r] = "ok"
BY DEF Reported

\* The requests of an upload under one lock work one at a time.
LEMMA OneAtATime ==
    ASSUME LockHeld, NEW u \in Flow \X File, UnderOneLock(u),
           NEW q \in ChunksOf(u), NEW r \in ChunksOf(u), stage[q] \in Within, stage[r] \in Within
    PROVE  q = r
BY DEF LockHeld, UnderOneLock, ChunksOf

\* A request that has been made stays one.
LEMMA NeverUnmade ==
    ASSUME Types, InStep, [Next]_vars, NEW q \in Request, stage'[q] = "none"
    PROVE  stage[q] = "none"
<1>0. StoreTypes
  BY TypesSplit
<1>1. CASE PageDoes
  BY <1>0, <1>1, PageAndServer, PageLeavesWork
<1>2. CASE \E r \in Request : (Handle(r) \/ WriteFails(r)) /\ UNCHANGED clientVars
  BY <1>0, <1>2, Serves DEF Within
<1>3. CASE \/ \E u \in Flow \X File : Ingest(u)
           \/ Logout
           \/ UNCHANGED vars
  BY <1>3 DEF Ingest, GetPath, ClearCompleted, Claims, Logout, vars, storeVars, handlers
<1> QED
  BY <1>1, <1>2, <1>3, ServerOrQuiet

\* What does not touch an upload leaves its course as it is.
LEMMA Untouched ==
    ASSUME NEW u \in Flow \X File, Undisturbed(u), Kept(u) => Kept(u)',
           chunks'[FidOf[u[2]]] = chunks[FidOf[u[2]]],
           fid_locks'[FidOf[u[2]]] = fid_locks[FidOf[u[2]]],
           \A q \in ChunksOf(u) :
             /\ using'[q] = using[q] /\ saved'[q] = saved[q] /\ answer'[q] = answer[q]
             /\ \/ stage'[q] = stage[q]
                \/ /\ stage[q] \notin Within \cup {"waiting", "answered"}
                   /\ stage'[q] \notin Within \cup {"waiting", "answered"}
    PROVE  Undisturbed(u)'
<1>1. \A q \in ChunksOf(u) : Stored(q)' <=> Stored(q)
  BY DEF Stored
<1>2. StoredOf(u)' = StoredOf(u)
  BY <1>1 DEF StoredOf
<1> USE DEF Undisturbed
<1>3. UnderOneLock(u)'
  BY DEF UnderOneLock
<1>4. MapHasThem(u)'
  BY <1>1, <1>2 DEF MapHasThem, Within
<1>5. AllStored(u)'
  BY <1>2 DEF AllStored, Finishing, Within
<1>6. WholeIsSaved(u)'
  BY DEF WholeIsSaved, Within
<1>7. KeptWhenDone(u)'
  BY DEF KeptWhenDone, Within
<1> QED
  BY <1>3, <1>4, <1>5, <1>6, <1>7

\* What a request of an upload that nobody else interferes with does, while the
\* login lasts.
LEMMA MyStep ==
    ASSUME Types, Reported, LockHeld, NEW u \in Flow \X File, logged_in, Undisturbed(u),
           NEW r \in ChunksOf(u), Handle(r) \/ WriteFails(r)
    PROVE  Undisturbed(u)'
<1> DEFINE i == FidOf[u[2]]
           mine == ChunksOf(u)
<1>0. StoreTypes /\ ClaimTypes /\ i \in Fid /\ u[2] \in File
  BY TypesSplit, FileAssumption
<1>a. /\ r \in Request /\ FidOfR(r) = i /\ TotalOf(r) = Total(u[2]) /\ r # None
      /\ \A q \in mine : q \in Request
  BY ChunksAre, NoneAssumption DEF ChunksOf, FidOfR, TotalOf
<1>b. /\ UnderOneLock(u) /\ MapHasThem(u) /\ AllStored(u) /\ WholeIsSaved(u) /\ KeptWhenDone(u)
      /\ StoredOf(u) \in SUBSET mine /\ \A q \in mine : q \in StoredOf(u) <=> Stored(q)
  BY DEF Undisturbed, StoredOf
<1>c. \A q \in mine \ {r} : stage'[q] = stage[q] /\ answer'[q] = answer[q]
  BY <1>0, <1>a, Serves
<1>d. claim' = claim /\ (stage[r] # "answered" => claim[u].at = "none")
  BY <1>0, <1>a, Serves, ClaimedIsSent
\* The requests of the upload that are within the lock with this one.
<1>e. ASSUME stage[r] \in Within, NEW q \in mine \ {r} PROVE stage[q] \notin Within
  BY <1>b, <1>e, OneAtATime
\* The chunk is among those stored, or it is not.
<1>f. /\ \A q \in mine \ {r} : Stored(q)' <=> Stored(q)
      /\ StoredOf(u)' = IF Stored(r)' THEN (StoredOf(u) \ {r}) \cup {r} ELSE StoredOf(u) \ {r}
  <2>1. \A q \in mine \ {r} : Stored(q)' <=> Stored(q)
    BY <1>c DEF Stored
  <2> QED
    BY <2>1, <1>b DEF StoredOf
\* What is so of the others, whatever the step.
<1>g. ASSUME fid_locks' = fid_locks, using'[r] = using[r] \/ stage'[r] = "answered",
             stage[r] \in Within \cup {"waiting"},
             \A q \in mine \ {r} : using'[q] = using[q]
      PROVE  UnderOneLock(u)'
  BY <1>b, <1>c, <1>g DEF UnderOneLock, Within
<1>h. ASSUME \A q \in mine \ {r} : saved'[q] = saved[q], stage'[r] # "recording"
      PROVE  WholeIsSaved(u)'
  BY <1>b, <1>c, <1>h DEF WholeIsSaved
<1>i. ASSUME claim' = claim, completed' = completed,
             stage'[r] \in {"dropping", "unlocking", "answered"} /\ answer'[r] = "ok" => Kept(u)
      PROVE  KeptWhenDone(u)'
  <2>1. Kept(u)' <=> Kept(u)
    BY <1>i DEF Kept
  <2>2. \A q \in mine : stage'[q] \in {"dropping", "unlocking"} /\ answer'[q] = "ok" => Kept(u)
    BY <1>b, <1>c, <1>i DEF KeptWhenDone
  <2>3. (\A q \in mine : stage'[q] = "answered" /\ answer'[q] = "ok") => Kept(u)
    BY <1>i
  <2> QED
    BY <2>1, <2>2, <2>3 DEF KeptWhenDone
\* The map and the stages when the chunk has been stored before.
<1>j. ASSUME stage[r] \in Within, stage'[r] \in Within \cup {"answered"},
             chunks' = chunks,
             stage'[r] \in {"checking", "writing"} => stage[r] \in {"checking", "writing"}
      PROVE  MapHasThem(u)'
  <2>1. StoredOf(u)' = StoredOf(u) /\ Stored(r) /\ Stored(r)'
    BY <1>b, <1>f, <1>j DEF Stored
  <2> QED
    BY <2>1, <1>b, <1>c, <1>f, <1>j DEF MapHasThem
<1>k. ASSUME stage[r] \in Within, stage'[r] \in Within \cup {"answered"},
             stage'[r] \in Finishing => StoredOf(u) = mine
      PROVE  AllStored(u)'
  <2>1. StoredOf(u)' = StoredOf(u)
    BY <1>b, <1>f, <1>k DEF Stored
  <2> QED
    BY <2>1, <1>b, <1>c, <1>k DEF AllStored
<1> HIDE DEF i, mine
<1>1. CASE FindLock(r)
  <2>1. /\ stage[r] = "sent" /\ stage'[r] = "waiting"
        /\ UNCHANGED <<answer, saved, chunks, completed, claim>>
        /\ fid_locks' = [fid_locks EXCEPT ![i] = IF @ = None THEN r ELSE @]
        /\ using' = [using EXCEPT ![r] = fid_locks'[i]]
    BY <1>0, <1>1, <1>a DEF FindLock, Goes, StoreTypes
  <2>2. StoredOf(u)' = StoredOf(u) /\ ~ Stored(r) /\ ~ Stored(r)'
    BY <2>1, <1>b, <1>f DEF Stored, Within
  <2>3. UnderOneLock(u)'
    <3>1. using'[r] = fid_locks'[i]
      BY <2>1, <1>0, <1>a DEF StoreTypes
    <3>2. ASSUME NEW q \in mine \ {r}, stage[q] \in Within \cup {"waiting"}
          PROVE  using'[q] = fid_locks'[i]
      <4>1. using[q] = fid_locks[i] /\ using[q] # None
        BY <3>2, <1>0, <1>a, <1>b DEF UnderOneLock, StoreTypes, i, mine
      <4> QED
        BY <4>1, <2>1, <1>0 DEF StoreTypes
    <3> QED
      BY <3>1, <3>2, <1>c DEF UnderOneLock, i, mine
  <2>4. MapHasThem(u)'
    BY <2>1, <2>2, <1>b, <1>c, <1>f DEF MapHasThem, i, mine
  <2>5. AllStored(u)'
    BY <2>1, <2>2, <1>b, <1>c DEF AllStored, Finishing, i, mine
  <2>6. WholeIsSaved(u)'
    BY <2>1, <1>h
  <2>7. KeptWhenDone(u)'
    BY <2>1, <1>i
  <2> QED
    BY <2>3, <2>4, <2>5, <2>6, <2>7 DEF Undisturbed
<1>2. CASE Store(r)
  <2>1. /\ stage[r] = "waiting" /\ stage'[r] = "checking" /\ holder[using[r]] = None
        /\ chunks'[i] = With(chunks[i], r[3], Bytes(r))
        /\ UNCHANGED <<answer, using, saved, fid_locks, completed, claim>>
    BY <1>0, <1>2, <1>a DEF Store, Goes, StoreTypes
  <2>2. ~ Stored(r) /\ Stored(r)' /\ StoredOf(u)' = StoredOf(u) \cup {r}
    BY <2>1, <1>b, <1>f DEF Stored, Within
  <2>3. ASSUME NEW q \in mine \ {r} PROVE stage[q] \notin Within
    <3>1. SUFFICES ASSUME stage[q] \in Within PROVE FALSE
      OBVIOUS
    <3>2. using[q] = using[r]
      BY <3>1, <2>1, <1>b DEF UnderOneLock, i, mine
    <3>3. holder[using[q]] = q /\ q # None
      BY <3>1, <1>a, NoneAssumption DEF LockHeld
    <3> QED
      BY <2>1, <3>2, <3>3
  <2>4. MapHasThem(u)'
    <3>1. chunks[i] = Part(u, StoredOf(u))
      BY <2>2, <1>b DEF MapHasThem, i, mine
    <3>2. chunks'[i] = Part(u, StoredOf(u) \cup {r})
      BY <3>1, <2>1, <1>b, Parts DEF mine
    <3> QED
      BY <3>2, <2>2 DEF MapHasThem, i
  <2>5. AllStored(u)'
    BY <2>1, <2>3, <1>c DEF AllStored, Finishing, Within, i, mine
  <2>6. UnderOneLock(u)' /\ WholeIsSaved(u)' /\ KeptWhenDone(u)'
    BY <2>1, <1>g, <1>h, <1>i
  <2> QED
    BY <2>4, <2>5, <2>6 DEF Undisturbed
<1>3. CASE Check(r)
  <2>1. /\ stage[r] = "checking" /\ stage[r] \in Within /\ Stored(r)
        /\ UNCHANGED <<fid_locks, chunks, completed, claim>>
    BY <1>3 DEF Check, Leaves, Goes, Within, Stored
  <2>2. chunks[i] = Part(u, StoredOf(u)) /\ chunks[i] # NoChunks
    <3>1. chunks[i] = Part(u, StoredOf(u))
      BY <2>1, <1>b DEF MapHasThem, i, mine
    <3>2. r[3] \in DOMAIN chunks[i]
      BY <3>1, <2>1, <1>b, Parts DEF mine
    <3> QED
      BY <3>1, <3>2, ChunkMaps
  <2>3. CASE /\ IsAllThere(r) /\ Goes(r, "checking", "writing")
             /\ UNCHANGED <<answer, holder, using, saved>>
    <3>1. StoredOf(u) = mine
      BY <2>2, <2>3, <1>a, <1>b, Parts DEF IsAllThere, mine
    <3>2. stage'[r] = "writing"
      BY <2>3, <1>0, <1>a DEF Goes, StoreTypes
    <3>3. stage'[r] \in Within
      BY <3>2 DEF Within
    <3> QED
      BY <2>1, <2>3, <3>1, <3>2, <3>3, <1>g, <1>h, <1>i, <1>j, <1>k DEF Undisturbed
  <2>4. CASE ~ IsAllThere(r) /\ Leaves(r, "checking", "ok")
    <3>1. /\ stage'[r] = "answered"
          /\ \A q \in mine \ {r} : using'[q] = using[q] /\ saved'[q] = saved[q]
      BY <2>4, <1>0, <1>a DEF Leaves, Goes, StoreTypes
    <3>2. stage'[r] \notin Finishing
      BY <3>1 DEF Finishing
    <3>3. StoredOf(u) # mine
      <4>1. SUFFICES ASSUME StoredOf(u) = mine PROVE FALSE
        OBVIOUS
      <4>2. Whole(u[2], chunks[i])
        BY <4>1, <2>2, <1>b, Parts DEF mine
      <4>3. Cardinality(1 .. Total(u[2])) = Total(u[2])
        BY <1>0, UpTo
      <4> QED
        BY <4>2, <4>3, <2>4, <1>a DEF Whole, IsAllThere
    <3>4. PICK q \in mine \ {r} : ~ Stored(q)
      BY <3>3, <2>1, <1>b
    <3>5. KeptWhenDone(u)'
      <4>1. stage'[q] # "answered"
        BY <3>4, <1>c DEF Stored
      <4>2. Kept(u)' <=> Kept(u)
        BY <2>1 DEF Kept
      <4> QED
        BY <3>1, <3>4, <4>1, <4>2, <1>b, <1>c DEF KeptWhenDone, mine
    <3> QED
      BY <2>1, <3>1, <3>2, <3>5, <1>g, <1>h, <1>j, <1>k DEF Undisturbed
  <2> QED
    BY <1>3, <1>a, <2>2, <2>3, <2>4 DEF Check
<1>4. CASE Write(r)
  <2>1. /\ stage[r] = "writing" /\ stage'[r] = "recording" /\ saved'[r] = chunks[i]
        /\ \A q \in mine \ {r} : saved'[q] = saved[q]
        /\ UNCHANGED <<answer, using, fid_locks, completed, claim>>
    BY <1>0, <1>4, <1>a DEF Write, Goes, locks, StoreTypes
  <2>2. stage[r] \in Within /\ stage'[r] \in Within
    BY <2>1 DEF Within
  <2>3. StoredOf(u) = mine /\ Whole(u[2], chunks[i])
    <3>1. StoredOf(u) = mine /\ chunks[i] = Part(u, StoredOf(u))
      BY <2>1, <1>b DEF AllStored, MapHasThem, Finishing, i, mine
    <3> QED
      BY <3>1, <1>b, Parts DEF mine
  <2>4. WholeIsSaved(u)'
    BY <2>1, <2>3, <1>b, <1>c DEF WholeIsSaved, mine
  <2>5. MapHasThem(u)'
    <3>1. \A q \in mine : Stored(q)' /\ stage'[q] \notin {"checking", "writing"}
      BY <2>1, <2>2, <2>3, <1>b, <1>c, <1>e, <1>f DEF Stored, Within
    <3> QED
      BY <3>1 DEF MapHasThem, mine
  <2> QED
    BY <2>1, <2>2, <2>3, <2>4, <2>5, <1>g, <1>i, <1>k DEF Undisturbed
<1>5. CASE WriteNothing(r)
  <2>1. stage[r] = "writing" /\ chunks[i] = NoChunks
    BY <1>5, <1>a DEF WriteNothing, Goes
  <2>2. chunks[i] = Part(u, StoredOf(u)) /\ Stored(r)
    BY <2>1, <1>b DEF MapHasThem, Stored, Within, i, mine
  <2>3. r[3] \in DOMAIN chunks[i]
    BY <2>2, <1>b, Parts DEF mine
  <2> QED
    BY <2>1, <2>3, ChunkMaps
<1>6. CASE WriteFails(r)
  <2>1. /\ stage[r] = "writing" /\ stage'[r] = "dropping" /\ answer'[r] = "failed"
        /\ UNCHANGED <<using, saved, fid_locks, chunks, completed, claim>>
    BY <1>0, <1>6, <1>a DEF WriteFails, Goes, locks, StoreTypes
  <2>2. stage[r] \in Within /\ stage'[r] \in Within
    BY <2>1 DEF Within
  <2>3. StoredOf(u) = mine
    BY <2>1, <1>b DEF AllStored, Finishing, mine
  <2> QED
    BY <2>1, <2>2, <2>3, <1>g, <1>h, <1>i, <1>j, <1>k DEF Undisturbed
<1>7. CASE Record(r)
  <2>1. /\ stage[r] = "recording" /\ stage'[r] = "dropping" /\ completed'[i] = saved[r]
        /\ UNCHANGED <<using, saved, fid_locks, chunks>>
    BY <1>0, <1>7, <1>a DEF Record, Goes, locks, StoreTypes
  <2>2. stage[r] \in Within /\ stage'[r] \in Within
    BY <2>1 DEF Within
  <2>3. StoredOf(u) = mine /\ Whole(u[2], saved[r])
    BY <2>1, <1>b DEF AllStored, WholeIsSaved, Finishing, mine
  <2>4. claim'[u].at = "none"
    BY <2>1, <1>d
  <2>5. Kept(u)'
    BY <2>1, <2>3, <2>4 DEF Kept, i
  <2> QED
    BY <2>1, <2>2, <2>3, <2>5, <1>g, <1>h, <1>j, <1>k DEF Undisturbed, KeptWhenDone
<1>8. CASE DropChunks(r)
  <2>1. stage[r] = "dropping" /\ stage[r] \in Within /\ UNCHANGED <<fid_locks, completed, claim>>
    BY <1>8 DEF DropChunks, Leaves, Goes, Within
  <2>2. StoredOf(u) = mine
    BY <2>1, <1>b DEF AllStored, Finishing, mine
  <2>3. CASE chunks[i] = NoChunks
    <3>1. /\ stage'[r] = "answered" /\ answer'[r] = "failed" /\ chunks' = chunks
          /\ \A q \in mine \ {r} : using'[q] = using[q] /\ saved'[q] = saved[q]
      BY <2>3, <1>8, <1>0, <1>a DEF DropChunks, Leaves, Goes, StoreTypes
    <3> QED
      BY <2>1, <2>2, <3>1, <1>g, <1>h, <1>i, <1>j, <1>k DEF Undisturbed
  <2>4. CASE chunks[i] # NoChunks
    <3>1. stage'[r] = "unlocking" /\ UNCHANGED <<answer, using, saved>>
      BY <2>4, <1>8, <1>0, <1>a DEF DropChunks, Goes, StoreTypes
    <3>2. stage'[r] \in Within
      BY <3>1 DEF Within
    <3>3. MapHasThem(u)'
      <4>1. \A q \in mine : Stored(q)' /\ stage'[q] \notin {"checking", "writing"}
        BY <2>1, <2>2, <3>1, <3>2, <1>b, <1>c, <1>e, <1>f DEF Stored, Within
      <4> QED
        BY <4>1 DEF MapHasThem, mine
    <3>4. answer'[r] = "ok" => Kept(u)
      BY <2>1, <3>1, <1>b DEF KeptWhenDone, mine
    <3> QED
      BY <2>1, <2>2, <3>1, <3>2, <3>3, <3>4, <1>g, <1>h, <1>i, <1>k DEF Undisturbed
  <2> QED
    BY <2>3, <2>4
<1>9. CASE DropLock(r)
  <2>1. /\ stage[r] = "unlocking" /\ stage'[r] = "answered" /\ answer'[r] \in {"failed", answer[r]}
        /\ \A q \in mine \ {r} : using'[q] = using[q] /\ saved'[q] = saved[q]
        /\ UNCHANGED <<chunks, completed, claim>>
    BY <1>0, <1>9, <1>a DEF DropLock, Leaves, Goes, StoreTypes
  <2>2. stage[r] \in Within
    BY <2>1 DEF Within
  <2>3. StoredOf(u) = mine
    BY <2>1, <1>b DEF AllStored, Finishing, mine
  <2>4. UnderOneLock(u)'
    <3>1. \A q \in mine : stage'[q] \notin Within \cup {"waiting"}
      BY <2>1, <2>2, <2>3, <1>b, <1>c, <1>e DEF Stored, Within
    <3> QED
      BY <3>1 DEF UnderOneLock, mine
  <2>5. answer'[r] = "ok" => Kept(u)
    BY <2>1, <1>b DEF KeptWhenDone, mine
  <2> QED
    BY <2>1, <2>2, <2>3, <2>4, <2>5, <1>h, <1>i, <1>j, <1>k DEF Undisturbed
<1>10. CASE Redirect(r)
  BY <1>10 DEF Redirect
<1> QED
  BY <1>1, <1>2, <1>3, <1>4, <1>5, <1>6, <1>7, <1>8, <1>9, <1>10 DEF Handle

\* What a thread does is of its request and of its file.
LEMMA ServesItsFile ==
    ASSUME StoreTypes, NEW r \in Request, Handle(r) \/ WriteFails(r)
    PROVE  /\ \A q \in Request \ {r} : /\ stage'[q] = stage[q] /\ answer'[q] = answer[q]
                                       /\ using'[q] = using[q] /\ saved'[q] = saved[q]
           /\ \A i \in Fid \ {FidOfR(r)} : /\ chunks'[i] = chunks[i]
                                           /\ fid_locks'[i] = fid_locks[i]
                                           /\ completed'[i] = completed[i]
           /\ claim' = claim /\ logged_in' = logged_in
<1> USE DEF StoreTypes, Goes
<1>0. /\ \A q \in Request \ {r} : stage'[q] = stage[q] /\ answer'[q] = answer[q]
      /\ claim' = claim
  BY Serves
<1>1. CASE Redirect(r) \/ FindLock(r)
  BY <1>0, <1>1 DEF Redirect, FindLock, locks
<1>2. CASE Store(r)
  BY <1>0, <1>2 DEF Store
<1>3. CASE Check(r)
  BY <1>0, <1>3 DEF Check, Leaves
<1>4. CASE Write(r) \/ WriteNothing(r) \/ WriteFails(r) \/ Record(r)
  BY <1>0, <1>4 DEF Write, WriteNothing, WriteFails, Record, locks
<1>5. CASE DropChunks(r)
  BY <1>0, <1>5 DEF DropChunks, Leaves
<1>6. CASE DropLock(r)
  BY <1>0, <1>6 DEF DropLock, Leaves
<1> QED
  BY <1>1, <1>2, <1>3, <1>4, <1>5, <1>6 DEF Handle

\* A page asks for a file that it has not asked for before.
LEMMA PageAsks ==
    ASSUME Types, Listed, InStep, Reported, PageDoes, NEW u \in Flow \X File
    PROVE  \/ claim'[u] = claim[u]
           \/ claim[u].at = "none" /\ claim'[u].at = "asked"
<1>0. ClaimTypes
  BY TypesSplit
<1>1. CASE Adds
  BY <1>1 DEF Adds, AddFiles, storeVars
<1>2. CASE \E w \in Flow : Leave(w)
  BY <1>2 DEF Leave, storeVars
<1>3. ASSUME NEW r \in Request, Answers(r)
      PROVE  \/ claim'[u] = claim[u]
             \/ claim[u].at = "none" /\ claim'[u].at = "asked"
  <2>1. CASE Succeeds(r)
    <3> DEFINE v == <<r[1], r[2]>>
    <3>1. /\ status[r] = "posting"
          /\ claim' = claim \/ claim' = [claim EXCEPT ![v].at = "asked"]
      BY <2>1, SucceedsIs
    <3>2. claim[v].at = "none" /\ v \in Flow \X File
      BY <3>1, NotYetReported, ChunksAre DEF Unfinished, InProgress
    <3> HIDE DEF v
    <3> QED
      BY <3>1, <3>2, <1>0 DEF ClaimTypes
  <2>2. CASE Tested(r) \/ Refused(r) \/ Lost(r) \/ CutOff(r)
    BY <2>2 DEF Tested, Refused, Lost, CutOff, Fails
  <2> QED
    BY <1>3, <2>1, <2>2 DEF Answers
<1> QED
  BY <1>1, <1>2, <1>3 DEF PageDoes

\* Every step keeps the uploads that nobody interferes with on their course.
LEMMA GoesWellStep ==
    Types /\ LockHeld /\ Listed /\ InStep /\ Reported /\ GoesWell /\ [Next]_vars => GoesWell'
<1> SUFFICES ASSUME Types, LockHeld, Listed, InStep, Reported, GoesWell, [Next]_vars,
                    NEW u \in Flow \X File, logged_in', Alone(u)'
             PROVE  Undisturbed(u)'
  BY DEF GoesWell
<1> DEFINE i == FidOf[u[2]]
           mine == ChunksOf(u)
<1>0. /\ StoreTypes /\ ClaimTypes /\ i \in Fid
      /\ \A q \in mine : q \in Request /\ FidOfR(q) = i
  BY TypesSplit, FileAssumption, ChunksAre DEF ChunksOf, FidOfR
<1>1. logged_in
  <2>1. CASE PageDoes
    BY <2>1, PageAndServer
  <2>2. CASE \E r \in Request : Handle(r) \/ WriteFails(r)
    BY <2>2, <1>0, ServesItsFile
  <2>3. CASE \/ \E v \in Flow \X File : Ingest(v)
             \/ Logout
             \/ UNCHANGED vars
    BY <2>3 DEF Ingest, GetPath, ClearCompleted, Claims, Logout, vars, storeVars
  <2> QED
    BY <2>1, <2>2, <2>3, ServerOrQuiet
<1>2. Alone(u)
  BY NeverUnmade DEF Alone
<1>3. Undisturbed(u)
  BY <1>1, <1>2 DEF GoesWell
\* Nobody else's file of this identifier is claimed.
<1>4. ASSUME NEW v \in Flow \X File, v # u, FidOf[v[2]] = i PROVE claim[v].at = "none"
  <2>1. PICK r \in Request : <<r[1], r[2]>> = v /\ r \in ChunksOf(v)
    BY HasChunks
  <2>2. stage[r] = "none"
    BY <2>1, <1>2, <1>4 DEF Alone, FidOfR
  <2> QED
    BY <2>1, <2>2, ClaimedIsSent
<1>5. CASE PageDoes
  <2>1. PageStep /\ UNCHANGED <<answer, using, saved, locks, chunks, completed>>
    BY <1>5, PageAndServer
  <2>2. \A q \in mine : \/ stage'[q] = stage[q]
                        \/ /\ stage[q] \notin Within \cup {"waiting", "answered"}
                           /\ stage'[q] \notin Within \cup {"waiting", "answered"}
    BY <2>1, <1>0, PageLeavesWork
  <2>3. Kept(u) => Kept(u)'
    BY <2>1, <1>5, PageAsks DEF Kept
  <2> QED
    BY <2>1, <2>2, <2>3, <1>3, Untouched DEF locks
<1>6. ASSUME NEW r \in Request, Handle(r) \/ WriteFails(r) PROVE Undisturbed(u)'
  <2>1. CASE FidOfR(r) # i
    <3>1. /\ \A q \in mine : /\ stage'[q] = stage[q] /\ answer'[q] = answer[q]
                             /\ using'[q] = using[q] /\ saved'[q] = saved[q]
          /\ chunks'[i] = chunks[i] /\ fid_locks'[i] = fid_locks[i]
          /\ completed'[i] = completed[i] /\ claim' = claim
      BY <2>1, <1>0, <1>6, ServesItsFile
    <3>2. Kept(u) => Kept(u)'
      BY <3>1 DEF Kept
    <3> QED
      BY <3>1, <3>2, <1>3, Untouched
  <2>2. CASE <<r[1], r[2]>> = u
    <3>1. r \in mine
      BY <2>2 DEF ChunksOf
    <3> QED
      BY <3>1, <1>1, <1>3, <1>6, MyStep
  <2>3. CASE FidOfR(r) = i /\ <<r[1], r[2]>> # u
    <3>1. stage[r] = "none"
      BY <2>3, <1>2 DEF Alone
    <3> QED
      BY <3>1, <1>0, <1>6, Serves DEF Within
  <2> QED
    BY <2>1, <2>2, <2>3
<1>7. ASSUME NEW v \in Flow \X File, Ingest(v) PROVE Undisturbed(u)'
  <2>1. UNCHANGED <<stage, answer, using, saved, fid_locks, chunks>> /\ claim[v].at # "none"
    BY <1>7 DEF Ingest, GetPath, ClearCompleted, Claims, handlers, locks
  <2>2. CASE v # u
    <3>1. FidOf[v[2]] # i
      BY <2>1, <2>2, <1>4
    <3>2. completed'[i] = completed[i] /\ claim'[u] = claim[u]
      BY <2>2, <3>1, <1>0, <1>7 DEF Ingest, GetPath, ClearCompleted, Claims, StoreTypes, ClaimTypes
    <3>3. Kept(u) => Kept(u)'
      BY <3>2 DEF Kept
    <3> QED
      BY <2>1, <3>3, <1>3, Untouched
  <2>3. CASE v = u
    <3>1. Kept(u)
      BY <2>1, <2>3, <1>3, ClaimedIsSent DEF Undisturbed, KeptWhenDone
    <3>2. CASE GetPath(u)
      <4>1. /\ claim[u].at = "asked" /\ completed' = completed
            /\ completed[i] # None
        BY <3>1, <3>2 DEF GetPath, Claims, Kept, Whole
      <4>2. claim'[u] = [at |-> "got", got |-> completed[i]]
        BY <4>1, <3>2, <1>0, <1>1 DEF GetPath, Claims, ClaimTypes
      <4>3. claim'[u].at = "got" /\ claim'[u].got = completed[i] /\ Whole(u[2], completed[i])
        BY <4>1, <4>2, <3>1 DEF Kept
      <4> HIDE DEF i
      <4>4. Kept(u)'
        BY <4>1, <4>3 DEF Kept, i
      <4> QED
        BY <2>1, <4>4, <1>3, Untouched
    <3>3. CASE ClearCompleted(u)
      <4>1. claim[u].at = "got" /\ completed[i] # None
        BY <3>1, <3>3 DEF ClearCompleted, Claims, Kept, Whole
      <4>2. claim'[u] = [at |-> "taken", got |-> claim[u].got]
        BY <4>1, <3>3, <1>0 DEF ClearCompleted, Claims, ClaimTypes
      <4>3. claim'[u].at = "taken" /\ claim'[u].got = claim[u].got /\ Whole(u[2], claim[u].got)
        BY <4>1, <4>2, <3>1 DEF Kept
      <4>4. Kept(u)'
        BY <4>3 DEF Kept
      <4> QED
        BY <2>1, <4>4, <1>3, Untouched
    <3> QED
      BY <2>3, <3>2, <3>3, <1>7 DEF Ingest
  <2> QED
    BY <2>2, <2>3
<1>8. CASE Logout
  BY <1>8 DEF Logout
<1>9. CASE UNCHANGED vars
  <2>1. UNCHANGED <<stage, answer, using, saved, fid_locks, chunks, completed, claim>>
    BY <1>9 DEF vars, storeVars, handlers, locks
  <2> QED
    BY <2>1, <1>3, Untouched DEF Kept
<1> QED
  BY <1>5, <1>6, <1>7, <1>8, <1>9, ServerOrQuiet

-----------------------------------------------------------------------------
(* Theorems *)

\* The inductive invariant holds at the start.
LEMMA Initially == UploadInit => IInv
<1> SUFFICES ASSUME UploadInit PROVE IInv
  OBVIOUS
<1>1. Types
  BY InitialTypes
<1>2. /\ \A r \in Request : /\ stage[r] = "none" /\ status[r] = "none"
                            /\ r[1] \in Flow /\ r[2] \in File
      /\ \A u \in Flow \X File : outcome[u] = "none" /\ claim[u].at = "none"
      /\ \A w \in Flow : files[w] = <<>>
      /\ \A i \in Fid : chunks[i] = NoChunks
      /\ left = {}
  BY Requests DEF UploadInit, Init
<1>3. Range(<<>>) = {}
  BY DEF Range
<1>4. LockHeld /\ InStep
  BY <1>2 DEF LockHeld, InStep, Within
<1>5. Listed
  BY <1>2, <1>3 DEF Listed
<1>6. Reported /\ HasIndicator
  BY <1>2, ChunksAre DEF Reported, HasIndicator, Unfinished, InProgress, ChunksOf
<1>7. SlotsInUse
  <2>1. \A w \in Flow : Uploading(status, w) = {} /\ Backlog(status, w, files[w]) = {}
    BY <1>2 DEF Uploading, Backlog, InProgress
  <2> QED
    BY <2>1, FS_EmptySet, SimultaneousAssumption DEF SlotsInUse
<1>8. FullMapIsTaken
  BY <1>2, ChunkMaps, EmptyIsNotFull DEF FullMapIsTaken
<1>9. GoesWell
  <2> SUFFICES ASSUME NEW u \in Flow \X File PROVE Undisturbed(u)
    BY DEF GoesWell
  <2>1. \A r \in ChunksOf(u) : stage[r] = "none"
    BY <1>2 DEF ChunksOf
  <2>2. StoredOf(u) = {}
    BY <2>1 DEF StoredOf, Stored, Within
  <2>3. chunks[FidOf[u[2]]] = Part(u, {})
    <3>1. {r[3] : r \in {}} = {}
      OBVIOUS
    <3>2. Part(u, {}) = [n \in {} |-> Bytes(<<u[1], u[2], n>>)]
      BY <3>1 DEF Part
    <3>3. [n \in {} |-> Bytes(<<u[1], u[2], n>>)] = [n \in {} |-> None]
      OBVIOUS
    <3>4. chunks[FidOf[u[2]]] = NoChunks
      BY <1>2, FileAssumption
    <3> QED
      BY <3>2, <3>3, <3>4 DEF NoChunks
  <2>4. \E r \in ChunksOf(u) : stage[r] # "answered"
    BY <2>1, HasChunks
  <2> QED
    BY <2>1, <2>2, <2>3, <2>4
       DEF Undisturbed, UnderOneLock, MapHasThem, AllStored, WholeIsSaved, KeptWhenDone,
           Within, Finishing
<1> QED
  BY <1>1, <1>4, <1>5, <1>6, <1>7, <1>8, <1>9 DEF IInv

\* Every step keeps it.
LEMMA Inductively == IInv /\ [Next]_vars => IInv'
BY TypesStep, LockHeldStep, ListedStep, InStepStep, ReportedStep, HasIndicatorStep,
   SlotsStep, FullStep, GoesWellStep DEF IInv

\* The inductive invariant holds throughout.
THEOREM Invariant == Spec => []IInv
<1>1. UploadInit => IInv
  BY Initially
<1>2. IInv /\ [Next]_vars => IInv'
  BY Inductively
<1> QED
  BY <1>1, <1>2, PTL DEF Spec

\* Pages and server keep their variables in their types: no thread waits for a
\* lock or works without one, and the map of a file never has a chunk too many.
THEOREM UploadTypes == Spec => []TypeOK
<1>1. IInv => TypeOK
  BY DEF IInv, Types
<1> QED
  BY <1>1, Invariant, PTL

\* However the chunks fail, are aborted or are added to, uploadNextChunk neither
\* starts too many of them nor leaves a slot free while one waits, for any number
\* of files, chunks and slots.
THEOREM SlotsStayInUse == Spec => []SlotsInUse
<1>1. IInv => SlotsInUse
  BY DEF IInv
<1> QED
  BY <1>1, Invariant, PTL

\* A file whose last chunk has come in is always in the hands of a request,
\* though requests of one file may work under two locks.
THEOREM FullMapsAreTaken == Spec => []FullMapIsTaken
<1>1. IInv => FullMapIsTaken
  BY DEF IInv
<1> QED
  BY <1>1, Invariant, PTL

\* What upload_chunk has answered with 200, chunk by chunk and in any order, is
\* the whole file for iqr_ingest_file, when nobody else posts to its identifier.
THEOREM SuccessesAreWhole == Spec => []SuccessIsWhole
<1>1. IInv => SuccessIsWhole
  <2> SUFFICES ASSUME Reported, GoesWell, NEW u \in Flow \X File,
                      outcome[u] = "success", Alone(u), logged_in
               PROVE  /\ claim[u].at # "failed"
                      /\ Whole(u[2], IF claim[u].at \in {"got", "taken"} THEN claim[u].got
                                     ELSE completed[FidOf[u[2]]])
    BY DEF IInv, SuccessIsWhole
  <2>1. \A r \in ChunksOf(u) : stage[r] = "answered" /\ answer[r] = "ok"
    BY DEF Reported
  <2>2. Kept(u)
    BY <2>1 DEF GoesWell, Undisturbed, KeptWhenDone
  <2> QED
    BY <2>2 DEF Kept
<1> QED
  BY <1>1, Invariant, PTL

\* A file is reported once: doneHandler never comes to a chunk of a file that has
\* been reported, whatever answers are still to come.
THEOREM OutcomesStay == Spec => Settles
<1>1. IInv /\ [Next]_vars =>
        [\A u \in Flow \X File : outcome[u] # "none" => outcome'[u] = outcome[u]]_vars
  <2> SUFFICES ASSUME Types, Listed, InStep, Reported, [Next]_vars,
                      NEW u \in Flow \X File, outcome[u] # "none"
               PROVE  outcome'[u] = outcome[u]
    BY DEF IInv
  <2>0. PageTypes
    BY TypesSplit
  <2>1. ASSUME NEW r \in Request, Succeeds(r) \/ Fails(r) PROVE outcome'[u] = outcome[u]
    <3> DEFINE v == <<r[1], r[2]>>
    <3>1. /\ status[r] = "posting"
          /\ \/ outcome' = outcome
             \/ \E o \in {"success", "error"} : outcome' = [outcome EXCEPT ![v] = o]
      BY <2>1, SucceedsIs, FailsIs
    <3>2. outcome[v] = "none"
      BY <3>1, NotYetReported DEF Unfinished, InProgress
    <3> HIDE DEF v
    <3> QED
      BY <3>1, <3>2, <2>0 DEF PageTypes
  <2>2. CASE \E w \in Flow : \E new \in Seq(File) : AddFiles(w, new)
    BY <2>2 DEF AddFiles
  <2>3. CASE \E w \in Flow : Leave(w)
    BY <2>3 DEF Leave
  <2>4. CASE \E r \in Request : Tested(r)
    BY <2>4 DEF Tested
  <2>5. CASE Quiet
    BY <2>5 DEF Quiet
  <2> QED
    BY <2>1, <2>2, <2>3, <2>4, <2>5, PageOrQuiet
<1> QED
  BY <1>1, Invariant, PTL DEF Spec, Settles
=============================================================================
