---------------------------- MODULE ChunkStore ----------------------------
(***************************************************************************)
(* The upload module of the search app (FileUploadMod.py): the request     *)
(* threads that collect the chunks of a file under a lock per file id and  *)
(* write the file out when the last one is in.                             *)
(*                                                                         *)
(* The three maps are shared by the threads without a lock of their own,   *)
(* so each statement that touches one is a step.  The lock of a file id is *)
(* an object, made by the request that finds none and named by it here: a  *)
(* request keeps the object it found even when the map has another by the  *)
(* time the request runs.                                                  *)
(***************************************************************************)
EXTENDS ChunkBounds, FiniteSets, Sequences

CONSTANTS
    Fid,     \* flowIdentifier: size and name of the file
    File,    \* files on the disks of the users
    FidOf,   \* the identifier of each: two files may share one
    SizeOf,  \* the size an identifier begins with
    Flow,    \* Flow instances: one or two per loaded page
    None

ASSUME FileAssumption ==
    /\ IsFiniteSet(File)
    /\ FidOf \in [File -> Fid]
    /\ SizeOf \in [Fid -> Nat]

Total(f) == ChunkCount(SizeOf[FidOf[f]])

\* A chunk is posted once at most: a Flow instance takes a file once, and no
\* chunk is retried (maxChunkRetries is 0).
Request == UNION {Flow \X {f} \X (1 .. Total(f)) : f \in File}

FidOfR(r)  == FidOf[r[2]]
TotalOf(r) == Total(r[2])

\* The bytes of a file that a request carries, as a read position and an end.
Bytes(r) == [file |-> r[2], from |-> StartByte(r[3]), to |-> EndByte(SizeOf[FidOfR(r)], r[3])]

\* None is no lock object, which a request names, and no content of a file.
ASSUME NoneAssumption ==
    /\ None \notin Request
    /\ \A f \in File : None \notin [1 .. Total(f) -> [file : File, from : Nat, to : Nat]]

VARIABLES
    stage,     \* where the thread that serves a request is
    answer,    \* "ok" is 200, "failed" 500
    using,     \* the lock object each request has got from the map
    holder,    \* which request holds each lock object
    fid_locks, \* _fid_locks: file id -> lock object, None where there is none
    chunks,    \* _file_chunks: file id -> number -> bytes, empty where there is none
    saved,     \* the temporary file a request has written
    completed, \* _completed_files: file id -> content, None where there is none
    claim,     \* what the page's iqr_ingest_file for a file has got so far
    logged_in  \* the browser's login

handlers   == <<stage, answer, using, saved>>
locks      == <<fid_locks, holder>>
storeVars  == <<handlers, locks, chunks, completed, claim, logged_in>>

NoChunks == [n \in {} |-> None]

Init ==
    /\ stage = [r \in Request |-> "none"]
    /\ answer = [r \in Request |-> "none"]
    /\ using = [r \in Request |-> None]
    /\ holder = [r \in Request |-> None]
    /\ fid_locks = [i \in Fid |-> None]
    /\ chunks = [i \in Fid |-> NoChunks]
    /\ saved = [r \in Request |-> None]
    /\ completed = [i \in Fid |-> None]
    /\ claim = [u \in Flow \X File |-> [at |-> "none", got |-> None]]
    /\ logged_in = TRUE

Goes(r, from, to) == stage[r] = from /\ stage' = [stage EXCEPT ![r] = to]

\* (Mutant.) The lock is kept.
LeavesLocked(r, from, status) ==
    /\ Goes(r, from, "answered")
    /\ answer' = [answer EXCEPT ![r] = status]
    /\ using' = [using EXCEPT ![r] = None]
    /\ saved' = [saved EXCEPT ![r] = None]
    /\ UNCHANGED holder

\* The request is answered, the lock it holds is given back, and the thread ends.
Leaves(r, from, status) ==
    /\ Goes(r, from, "answered")
    /\ answer' = [answer EXCEPT ![r] = status]
    /\ holder' = [holder EXCEPT ![using[r]] = None]
    /\ using' = [using EXCEPT ![r] = None]
    /\ saved' = [saved EXCEPT ![r] = None]

-----------------------------------------------------------------------------
(* POST /upload_chunk *)

\* login_required sends who is not logged in to the login page, which comes as
\* an answer with status 200.
Redirect(r) ==
    /\ ~ logged_in
    /\ Goes(r, "sent", "answered")
    /\ answer' = [answer EXCEPT ![r] = "ok"]
    /\ UNCHANGED <<using, saved, locks, chunks, completed, claim, logged_in>>

\* (Mutant.) The lock is the one that was there before, if any.
FindOldLock(r) ==
    LET i == FidOfR(r)
    IN /\ logged_in
       /\ Goes(r, "sent", "waiting")
       /\ fid_locks' = [fid_locks EXCEPT ![i] = IF @ = None THEN r ELSE @]
       /\ using' = [using EXCEPT ![r] = fid_locks[i]]
       /\ UNCHANGED <<answer, saved, holder, chunks, completed, claim, logged_in>>

\* self._fid_locks.setdefault(fid, multiprocessing.RLock())
FindLock(r) ==
    LET i == FidOfR(r)
    IN /\ logged_in
       /\ Goes(r, "sent", "waiting")
       /\ fid_locks' = [fid_locks EXCEPT ![i] = IF @ = None THEN r ELSE @]
       /\ using' = [using EXCEPT ![r] = fid_locks'[i]]
       /\ UNCHANGED <<answer, saved, holder, chunks, completed, claim, logged_in>>

With(c, n, b) == [k \in DOMAIN c \cup {n} |-> IF k = n THEN b ELSE c[k]]

\* The lock is taken, and the first thing done under it is to put the chunk into
\* the map; one that is there already is replaced.
Store(r) ==
    /\ Goes(r, "waiting", "checking")
    /\ holder[using[r]] = None
    /\ holder' = [holder EXCEPT ![using[r]] = r]
    /\ chunks' = [chunks EXCEPT ![FidOfR(r)] = With(@, r[3], Bytes(r))]
    /\ UNCHANGED <<answer, using, saved, fid_locks, completed, claim, logged_in>>

\* total_chunks == len(self._file_chunks[fid])
IsAllThere(r) == Cardinality(DOMAIN chunks[FidOfR(r)]) = TotalOf(r)

Check(r) ==
    /\ IF chunks[FidOfR(r)] = NoChunks                \* a KeyError
       THEN Leaves(r, "checking", "failed")
       ELSE IF IsAllThere(r)
            THEN Goes(r, "checking", "writing") /\ UNCHANGED <<answer, holder, using, saved>>
            ELSE Leaves(r, "checking", "ok")
    /\ UNCHANGED <<fid_locks, chunks, completed, claim, logged_in>>

\* What a chunk is once it has been read: its read position is at the end.
ReadUp(c) == [n \in DOMAIN c |-> [c[n] EXCEPT !.from = c[n].to]]

\* _write_file_chunks reads each chunk to its end, one after another.  Two
\* requests that write one file at once, under two locks, may each get a part;
\* here the first gets all.  Nothing is promised of either (Alone).
Write(r) ==
    LET i == FidOfR(r)
    IN /\ chunks[i] # NoChunks
       /\ Goes(r, "writing", "recording")
       /\ saved' = [saved EXCEPT ![r] = chunks[i]]
       /\ chunks' = [chunks EXCEPT ![i] = ReadUp(@)]
       /\ UNCHANGED <<answer, using, locks, completed, claim, logged_in>>

\* No entry is a KeyError, with the finally clause to follow: by then another
\* request may have made one.
WriteNothing(r) ==
    /\ chunks[FidOfR(r)] = NoChunks
    /\ Goes(r, "writing", "dropping")
    /\ answer' = [answer EXCEPT ![r] = "failed"]
    /\ UNCHANGED <<using, saved, locks, chunks, completed, claim, logged_in>>

\* (Mutant.) The entries are removed on success only.
WriteFailsWithoutFinally(r) ==
    /\ chunks[FidOfR(r)] # NoChunks
    /\ Leaves(r, "writing", "failed")
    /\ UNCHANGED <<fid_locks, chunks, completed, claim, logged_in>>

\* An IOError of the temporary file: the finally clause follows.
WriteFails(r) ==
    /\ chunks[FidOfR(r)] # NoChunks
    /\ Goes(r, "writing", "dropping")
    /\ answer' = [answer EXCEPT ![r] = "failed"]
    /\ UNCHANGED <<using, saved, locks, chunks, completed, claim, logged_in>>

Record(r) ==
    /\ Goes(r, "recording", "dropping")
    /\ completed' = [completed EXCEPT ![FidOfR(r)] = saved[r]]
    /\ answer' = [answer EXCEPT ![r] = "ok"]
    /\ UNCHANGED <<using, saved, locks, chunks, claim, logged_in>>

\* del self._file_chunks[fid], a KeyError when another request did it.
DropChunks(r) ==
    LET i == FidOfR(r)
    IN /\ IF chunks[i] = NoChunks
          THEN Leaves(r, "dropping", "failed") /\ UNCHANGED chunks
          ELSE /\ Goes(r, "dropping", "unlocking")
               /\ chunks' = [chunks EXCEPT ![i] = NoChunks]
               /\ UNCHANGED <<answer, holder, using, saved>>
       /\ UNCHANGED <<fid_locks, completed, claim, logged_in>>

\* del self._fid_locks[fid], and out of the `with` block.
DropLock(r) ==
    LET i == FidOfR(r)
    IN /\ Leaves(r, "unlocking", IF fid_locks[i] = None THEN "failed" ELSE answer[r])
       /\ fid_locks' = [fid_locks EXCEPT ![i] = None]
       /\ UNCHANGED <<chunks, completed, claim, logged_in>>

\* What a thread does from the arrival of the request to its answer.
Handle(r) ==
    \/ Redirect(r) \/ FindLock(r) \/ Store(r) \/ Check(r)
    \/ Write(r) \/ WriteNothing(r) \/ Record(r) \/ DropChunks(r) \/ DropLock(r)

-----------------------------------------------------------------------------
(* The taking over of a completed file, as iqr_ingest_file does it *)

Claims(u, from, to, got) ==
    /\ claim[u].at = from
    /\ claim' = [claim EXCEPT ![u] = [at |-> to, got |-> got]]
    /\ UNCHANGED <<handlers, locks, chunks, logged_in>>

\* get_path_for_id; without a login the request never gets there.
GetPath(u) ==
    LET c == IF logged_in THEN completed[FidOf[u[2]]] ELSE None
    IN /\ Claims(u, "asked", IF c = None THEN "failed" ELSE "got", c)
       /\ UNCHANGED completed

\* clear_completed
ClearCompleted(u) ==
    LET i == FidOf[u[2]]
    IN /\ Claims(u, "got", IF completed[i] = None THEN "failed" ELSE "taken", claim[u].got)
       /\ completed' = [completed EXCEPT ![i] = None]

Logout ==
    /\ logged_in
    /\ logged_in' = FALSE
    /\ UNCHANGED <<handlers, locks, chunks, completed, claim>>
=============================================================================
