----------------------------- MODULE FileUpload -----------------------------
(***************************************************************************)
(* Uploading files: the pages' flow.js, as smqtk_upload.js sets it up, with *)
(* the upload module of the server.                                        *)
(*                                                                         *)
(* Each chunk is first looked for with a GET, which the server's route     *)
(* does not take, and then posted.  A chunk that fails fails its file: the *)
(* other chunks of the file are aborted, whatever the server makes of the  *)
(* requests already sent, and the freed slots go to the next files.  What  *)
(* one JavaScript callback does is one step.  A page may be left or loaded  *)
(* again at any time; the new page is another Flow instance.               *)
(***************************************************************************)
EXTENDS ChunkStore, SequencesExt, FiniteSetsExt

CONSTANTS
    SimultaneousUploads, \* simultaneousUploads of the Flow options
    Visits               \* what the users may do: the sets of files each instance is
                         \* given at once, and whether they log out

ASSUME SimultaneousAssumption == SimultaneousUploads \in Nat \ {0}
ASSUME VisitsAssumption ==
    \A v \in Visits : /\ \A w \in Flow : v.drops[w] \subseteq SUBSET File
                     /\ v.logs_out \in BOOLEAN

VARIABLES
    files,     \* flow.files of each instance
    status,    \* status() of each chunk; "none" for one the file no longer has
    indicated, \* ffid_fpi_map: the file ids with a progress indicator
    outcome,   \* of each file of each instance: "none", "success" or "error"
    left,      \* the instances whose page is gone
    visit      \* which of Visits it is

clientVars == <<files, status, indicated, outcome, left, visit>>
vars == <<storeVars, clientVars>>

UploadInit ==
    /\ Init
    /\ files = [w \in Flow |-> <<>>]
    /\ status = [r \in Request |-> "none"]
    /\ indicated = [w \in Flow |-> {}]
    /\ outcome = [u \in Flow \X File |-> "none"]
    /\ left = {}
    /\ visit \in Visits

ChunksOf(u) == {r \in Request : <<r[1], r[2]>> = u}
InProgress  == {"testing", "posting"}

Uploading(st, w) == {r \in Request : r[1] = w /\ st[r] \in InProgress}

\* The chunks still to be sent.
Backlog(st, w, queue) ==
    {r \in Request : r[1] = w /\ r[2] \in Range(queue) /\ st[r] = "pending"}

\* Where a file is in the list.
Place(queue, f) == CHOOSE k \in DOMAIN queue : queue[k] = f

\* The order in which uploadNextChunk looks at the chunks.
Before(queue, q, r) ==
    \/ Place(queue, q[2]) < Place(queue, r[2])
    \/ q[2] = r[2] /\ q[3] < r[3]

\* uploadNextChunk, count times over: each starts with its test.
StartNext(st, w, queue, count) ==
    LET backlog  == Backlog(st, w, queue)
        Ahead(r) == {q \in backlog : Before(queue, q, r)}
        started  == {r \in backlog : Cardinality(Ahead(r)) < count}
    IN [r \in Request |-> IF r \in started THEN "testing" ELSE st[r]]

FidsIn(queue) == {FidOf[f] : f \in Range(queue)}

-----------------------------------------------------------------------------
(* The user drops or selects files *)

\* upload: all free slots are filled.
Upload(st, w, queue) ==
    StartNext(st, w, queue, SimultaneousUploads - Cardinality(Uploading(st, w)))

\* The files that addFiles does not ignore.
Unknown(w, drop) == {f \in drop : FidOf[f] \notin FidsIn(files[w])}

\* addFiles, with the handlers of fileAdded and filesSubmitted.  A file whose id
\* is in flow.files already is ignored, even when its upload has failed; the ids
\* within one list are not compared.  The browser lists the files in any order.
AddFiles(w, new) ==
    LET fresh == [r \in Request |-> IF r[1] = w /\ r[2] \in Range(new) THEN "pending" ELSE status[r]]
    IN /\ w \notin left
       /\ files' = [files EXCEPT ![w] = @ \o new]
       /\ indicated' = [indicated EXCEPT ![w] = @ \cup FidsIn(new)]
       /\ status' = Upload(fresh, w, files'[w])
       /\ UNCHANGED <<storeVars, outcome, left, visit>>

-----------------------------------------------------------------------------
(* The answers *)

\* testHandler: the route takes POST only, so the test fails and the chunk is
\* posted.  A test that is lost comes to the same.
Tested(r) ==
    /\ status[r] = "testing"
    /\ status' = [status EXCEPT ![r] = "posting"]
    /\ stage' = [stage EXCEPT ![r] = "sent"]
    /\ UNCHANGED <<answer, using, saved, locks, chunks, completed, claim, logged_in,
                   files, indicated, outcome, left, visit>>

\* doneHandler with a 200.  The handler of fileProgress looks the indicator up;
\* without one it throws, and what comes after it in the callback is not done.
Succeeds(r) ==
    LET w == r[1]
        u == <<w, r[2]>>
        done == [status EXCEPT ![r] = "success"]
        complete == \A k \in ChunksOf(u) : done[k] \notin InProgress \cup {"pending"}
    IN /\ status[r] = "posting"
       /\ stage[r] = "answered" /\ answer[r] = "ok"
       /\ IF FidOfR(r) \notin indicated[w]
          THEN /\ status' = done
               /\ UNCHANGED <<indicated, outcome, claim>>
          ELSE /\ status' = StartNext(done, w, files[w], 1)
               /\ IF complete
                  THEN /\ outcome' = [outcome EXCEPT ![u] = "success"]
                       /\ indicated' = [indicated EXCEPT ![w] = @ \ {FidOfR(r)}]
                       /\ claim' = [claim EXCEPT ![u].at = "asked"]
                  ELSE UNCHANGED <<indicated, outcome, claim>>
       /\ UNCHANGED <<handlers, locks, chunks, completed, logged_in, files, left, visit>>

\* (Mutant.) The slots of the aborted chunks are not given to others.
AbortedAlone(w, u, st) ==
    LET dropped == [k \in Request |-> IF k \in ChunksOf(u) THEN "none" ELSE st[k]]
    IN StartNext(dropped, w, files[w], 1)

\* abort(true), and uploadNextChunk once for each chunk it aborts and once for
\* the one that failed: all of them are in progress.
Aborted(w, u, st) ==
    LET dropped == [k \in Request |-> IF k \in ChunksOf(u) THEN "none" ELSE st[k]]
    IN StartNext(dropped, w, files[w], Cardinality(ChunksOf(u) \cap Uploading(st, w)))

\* (Mutant.) The other chunks of the file go on, and its indicator stays.
FailsAlone(r) ==
    /\ status[r] = "posting"
    /\ outcome' = [outcome EXCEPT ![<<r[1], r[2]>>] = "error"]
    /\ status' = StartNext([status EXCEPT ![r] = "none"], r[1], files[r[1]], 1)
    /\ UNCHANGED <<answer, using, saved, locks, chunks, completed, claim, logged_in,
                   files, indicated, left, visit>>

\* doneHandler with any other status, or the error event.
Fails(r) ==
    LET w == r[1]
        u == <<w, r[2]>>
    IN /\ status[r] = "posting"
       /\ outcome' = [outcome EXCEPT ![u] = "error"]
       /\ status' = Aborted(w, u, status)
       /\ indicated' = [indicated EXCEPT ![w] = @ \ {FidOfR(r)}]
       /\ UNCHANGED <<answer, using, saved, locks, chunks, completed, claim, logged_in, files, left, visit>>

\* The answer is an error, or the connection breaks: the request never arrives,
\* or is served all the same.
Refused(r) == stage[r] = "answered" /\ answer[r] = "failed" /\ Fails(r) /\ UNCHANGED stage
Lost(r)    == Goes(r, "sent", "lost") /\ Fails(r)
CutOff(r)  == Fails(r) /\ UNCHANGED stage

-----------------------------------------------------------------------------

\* The page goes: its requests in flight are still served.
Leave(w) ==
    /\ files[w] # <<>>
    /\ left' = left \cup {w}
    /\ files' = [files EXCEPT ![w] = <<>>]
    /\ status' = [r \in Request |-> IF r[1] = w THEN "none" ELSE status[r]]
    /\ indicated' = [indicated EXCEPT ![w] = {}]
    /\ UNCHANGED <<storeVars, outcome, visit>>

Hears(r) == Succeeds(r) \/ Refused(r)

Ingest(u) == GetPath(u) \/ ClearCompleted(u)

Next ==
    \/ \E w \in Flow : \E drop \in visit.drops[w] :
         \E new \in SetToSeqs(Unknown(w, drop)) : AddFiles(w, new)
    \/ \E w \in Flow : Leave(w)
    \/ \E r \in Request : Tested(r) \/ Hears(r) \/ Lost(r) \/ CutOff(r)
    \/ \E r \in Request : (Handle(r) \/ WriteFails(r)) /\ UNCHANGED clientVars
    \/ \E u \in Flow \X File : Ingest(u) /\ UNCHANGED clientVars
    \/ visit.logs_out /\ Logout /\ UNCHANGED clientVars

Spec == UploadInit /\ [][Next]_vars

\* The browsers go on with some test or answer as long as there is one, and the
\* server with some thread.  More is not needed: a chunk takes finitely many steps.
Fairness ==
    /\ WF_vars(\E r \in Request : Tested(r) \/ Hears(r))
    /\ WF_vars(\E r \in Request : Handle(r) /\ UNCHANGED clientVars)

FairSpec == Spec /\ Fairness

-----------------------------------------------------------------------------
(* Properties *)

\* The stages at which a thread is inside the `with` block.
Within  == {"checking", "writing", "recording", "dropping", "unlocking"}

\* Each variable has its type, and a thread that waits for a lock or works under
\* one has got one.
TypeOK ==
    /\ \A r \in Request : stage[r] \in Within \cup {"waiting"} => using[r] # None
    /\ answer \in [Request -> {"none", "ok", "failed"}]
    /\ using \in [Request -> Request \cup {None}]
    /\ holder \in [Request -> Request \cup {None}]
    /\ fid_locks \in [Fid -> Request \cup {None}]
    /\ \A i \in Fid : DOMAIN chunks[i] \subseteq 1 .. ChunkCount(SizeOf[i])
    /\ \A w \in Flow : indicated[w] \subseteq FidsIn(files[w])
    /\ status \in [Request -> InProgress \cup {"none", "pending", "success"}]

\* No two files of an instance have one identifier.
OwnIds(w) == \A f, g \in Range(files[w]) : FidOf[f] = FidOf[g] => f = g

\* An instance never has more chunks on the way than it has slots, and, if its
\* files have identifiers of their own, never a free slot while a chunk waits,
\* whatever failed, was aborted or came at once.
SlotsInUse ==
    \A w \in Flow :
      LET busy == Cardinality(Uploading(status, w))
      IN /\ busy <= SimultaneousUploads
         /\ OwnIds(w) /\ Backlog(status, w, files[w]) # {} => busy = SimultaneousUploads

\* An outcome is announced once: no late answer makes a failed upload succeed,
\* or a finished one fail.
Settles ==
    [][\A u \in Flow \X File : outcome[u] # "none" => outcome'[u] = outcome[u]]_vars

\* The content of a file, as its chunks put together from byte 0 to the end.
Whole(f, c) ==
    /\ c # None
    /\ DOMAIN c = 1 .. Total(f)
    /\ \A n \in DOMAIN c : /\ c[n].file = f
                           /\ c[n].from = IF n = 1 THEN 0 ELSE c[n - 1].to
    /\ c[Total(f)].to = SizeOf[FidOf[f]]

\* Nobody else has ever posted a chunk of a file with this identifier.
Alone(u) ==
    \A r \in Request : FidOfR(r) = FidOf[u[2]] /\ <<r[1], r[2]>> # u => stage[r] = "none"

\* When an upload succeeds, the whole file can be fetched by its identifier, and
\* the claim of it succeeds: as long as the login lasts and nobody else uploads
\* a file of the same name and size.
SuccessIsWhole ==
    \A u \in Flow \X File :
      outcome[u] = "success" /\ Alone(u) /\ logged_in =>
        /\ claim[u].at # "failed"
        /\ Whole(u[2], IF claim[u].at \in {"got", "taken"} THEN claim[u].got
                       ELSE completed[FidOf[u[2]]])

\* When all chunks of a file are in the map, a request that will write the file
\* or take the map away is under way: no file is left complete and unclaimed,
\* even when requests work under two locks.
FullMapIsTaken ==
    \A i \in Fid :
      Cardinality(DOMAIN chunks[i]) = ChunkCount(SizeOf[i]) =>
        \E r \in Request :
          FidOfR(r) = i /\ stage[r] \in {"checking", "writing", "recording", "dropping"}

\* In the end every file that the pages still open have taken is reported, as
\* uploaded or as failed, if their files have identifiers of their own.
UploadsEnd ==
    <>[](\A w \in Flow :
           OwnIds(w) => \A f \in Range(files[w]) : outcome[<<w, f>>] # "none")

-----------------------------------------------------------------------------
(* What the repository says of uploads and the code does not do *)

\* "Lock per file ID so as to not collide when uploading multiple chunks"
\* (FileUploadMod.py:58): two requests of one file id work under two locks.
OneRequestPerFile ==
    \A r, q \in Request :
      /\ FidOfR(r) = FidOfR(q)
      /\ stage[r] \in Within /\ stage[q] \in Within
      => r = q

\* "Association from FlowFile ID to FileProgressIndicator for that object"
\* (smqtk_upload.js:92): two files of one identifier, in one list, have one
\* indicator, and the first to be done takes it away.  The handler of the other's
\* next answer throws: its upload is never reported, and its slot stays free.
EachFileHasIndicator ==
    \A r \in Request : status[r] \in InProgress => FidOfR(r) \in indicated[r[1]]
=============================================================================
