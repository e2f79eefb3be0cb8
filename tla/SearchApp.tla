----------------------------- MODULE SearchApp ------------------------------
(***************************************************************************)
(* The search app's own part of an IQR session (iqr_search.py): a work      *)
(* directory and the uploaded examples of a browser session, kept beside    *)
(* the session of the IQR service.  Requests run in threads, without a      *)
(* lock, and each begins with get_current_iqr_session; a handler's steps    *)
(* are its calls to the service and its changes of what the app shares.     *)
(* The model is of one browser session.  What two share is the upload       *)
(* module's map of completed files, keyed by file id: they meet there only  *)
(* when both upload a file of the same name and size (FileUpload).          *)
(***************************************************************************)
EXTENDS Naturals

CONSTANTS
    Handler,  \* the threads that may serve this session at once
    Example,  \* the files a user uploads as examples
    StateFile, \* the name of the uploaded state file
    Foreign,  \* what a state file may hold that this session has not saved last
    Visits    \* how often each event may happen, at most

Kind  == {"ingest", "load", "save", "reset", "look"}
Event == Kind \cup {"upload", "expiry", "restart", "failure"}

File    == Example \cup {StateFile}

\* A state file: the service's part, of which only the external positives
\* matter here, and the app's, the data of examples ("working_data").
Package == [external : SUBSET Example, working : SUBSET Example]

ASSUME FilesAssumption   == StateFile \notin Example
ASSUME ForeignAssumption == Foreign \subseteq Package
ASSUME VisitsAssumption  == Visits \subseteq [Event -> Nat]

VARIABLES
    exists,     \* the service has the session
    external,   \* the external positives the service's session has
    work_dirs,  \* the session is in _iqr_work_dirs
    listed,     \* it is in _iqr_example_data
    example_data, \* its entry there, {} if there is none
    made,       \* its work directory exists
    directory,  \* the files of that, {} if it does not exist
    uploads,    \* the files in the upload directory
    completed,  \* the files in the upload module's _completed_files
    package,    \* the state file the user has: what was saved last
    req,        \* what each handler does
    left,       \* what is left of the visit
    excused,    \* the causes there have been for a disagreement (a history variable)
    since       \* those since the examples were last replaced as a whole (another)

serviceVars == <<exists, external>>
appVars     == <<work_dirs, listed, example_data, made, directory>>
uploadVars  == <<uploads, completed>>
vars == <<serviceVars, appVars, uploadVars, package, req, left, excused, since>>

Asked(kind, stage, f) == [kind |-> kind, stage |-> stage, file |-> f,
                          external |-> {}, working |-> {}]
Idle == Asked("look", "idle", StateFile)

Stage == {"idle", "list", "create", "check", "dirs", "examples", "mkdir",
          "path", "clear_completed", "rename", "uuid", "record", "bytes", "post",
          "unzip", "rmtree", "remake", "clear", "fill", "put", "state", "collect", "session"}

Init ==
    /\ exists = FALSE /\ external = {}
    /\ work_dirs = FALSE /\ listed = FALSE /\ example_data = {}
    /\ made = FALSE /\ directory = {}
    /\ uploads = File /\ completed = File
    /\ package = [external |-> {}, working |-> {}]
    /\ req = [t \in Handler |-> Idle]
    /\ left \in Visits
    /\ excused = {} /\ since = {}

-----------------------------------------------------------------------------
(* Races *)

Active(t) == req[t].stage # "idle"

\* The handler is replacing the examples of the session, or creating them.
Clearing(r) ==
    r.stage \in {"dirs", "examples", "mkdir", "rmtree", "remake", "clear", "fill", "put"}

\* It has its session, and takes an upload, an example or the service's part.
Uses(r) ==
    \/ Clearing(r)
    \/ r.kind \in {"ingest", "save"} /\ r.stage \notin {"idle", "list", "create", "check"}

\* One handler replaces the examples while another uses them.
Race == \E t, u \in Handler : t # u /\ Clearing(req[t]) /\ Uses(req[u])

\* Handler t goes on.
Goto(t, stage) == req' = [req EXCEPT ![t].stage = stage]

\* Its request is answered, with an error or not.
Done(t) == req' = [req EXCEPT ![t] = Idle]

At(t, stage) == req[t].stage = stage

Takes(event) == left[event] > 0 /\ left' = [left EXCEPT ![event] = @ - 1]

Start(t, kind, f) ==
    /\ At(t, "idle")
    /\ Takes(kind)
    /\ req' = [req EXCEPT ![t] = Asked(kind, "list", f)]
    /\ UNCHANGED <<serviceVars, appVars, uploadVars, package>>

-----------------------------------------------------------------------------
(* get_current_iqr_session *)

\* Where a handler goes on once it has its session id.
Body(kind) ==
    CASE kind \in {"ingest", "load"} -> "path"
      [] kind = "save"               -> "state"
      [] kind = "reset"              -> "put"
      [] kind = "look"               -> "session"

List(t) ==
    /\ At(t, "list")
    /\ Goto(t, IF exists THEN "check" ELSE "create")
    /\ UNCHANGED <<serviceVars, appVars, uploadVars, package, left>>

\* POST session: the service answers 409 to the second of two.
Create(t) ==
    /\ At(t, "create")
    /\ IF exists THEN Done(t) ELSE Goto(t, "dirs")
    /\ exists' = TRUE
    /\ UNCHANGED <<external, appVars, uploadVars, package, left>>

Check(t) ==
    /\ At(t, "check")
    /\ Goto(t, IF work_dirs THEN Body(req[t].kind) ELSE "dirs")
    /\ UNCHANGED <<serviceVars, appVars, uploadVars, package, left>>

SetWorkDir(t) ==
    /\ At(t, "dirs")
    /\ work_dirs' = TRUE
    /\ Goto(t, "examples")
    /\ UNCHANGED <<serviceVars, listed, example_data, made, directory, uploadVars, package, left>>

SetExamples(t) ==
    /\ At(t, "examples")
    /\ listed' = TRUE /\ example_data' = {}
    /\ Goto(t, "mkdir")
    /\ UNCHANGED <<serviceVars, work_dirs, made, directory, uploadVars, package, left>>

\* (Mutant.)  The directory is left to whoever writes to it first.
MakeNoDir(t) ==
    /\ At(t, "mkdir")
    /\ Goto(t, Body(req[t].kind))
    /\ UNCHANGED <<serviceVars, appVars, uploadVars, package, left>>

MakeDir(t) ==
    /\ At(t, "mkdir")
    /\ made' = TRUE
    /\ Goto(t, Body(req[t].kind))
    /\ UNCHANGED <<serviceVars, work_dirs, listed, example_data, directory, uploadVars, package, left>>

Current(t) ==
    List(t) \/ Create(t) \/ Check(t) \/ SetWorkDir(t) \/ SetExamples(t) \/ MakeDir(t)

-----------------------------------------------------------------------------
(* iqr_ingest_file, and the claim of the upload that set_iqr_state begins with *)

\* get_path_for_id
Path(t) ==
    /\ At(t, "path")
    /\ IF req[t].file \in completed THEN Goto(t, "clear_completed") ELSE Done(t)
    /\ UNCHANGED <<serviceVars, appVars, uploadVars, package, left>>

ClearCompleted(t) ==
    /\ At(t, "clear_completed")
    /\ \/ /\ req[t].file \in completed
          /\ completed' = completed \ {req[t].file}
          /\ Goto(t, IF req[t].kind = "load" THEN "unzip" ELSE "rename")
       \/ /\ req[t].file \notin completed
          /\ Done(t)
          /\ UNCHANGED completed
    /\ UNCHANGED <<serviceVars, appVars, uploads, package, left>>

Rename(t) ==
    /\ At(t, "rename")
    /\ \/ /\ made /\ req[t].file \in uploads
          /\ uploads' = uploads \ {req[t].file}
          /\ directory' = directory \cup {req[t].file}
          /\ Goto(t, "uuid")
       \/ /\ ~made \/ req[t].file \notin uploads
          /\ Done(t)
          /\ UNCHANGED <<uploads, directory>>
    /\ UNCHANGED <<serviceVars, work_dirs, listed, example_data, made, completed, package, left>>

\* The file is read, for its uuid or for its bytes; a reset may have removed it.
Read(t, stage, next) ==
    /\ At(t, stage)
    /\ IF req[t].file \in directory THEN Goto(t, next) ELSE Done(t)
    /\ UNCHANGED <<serviceVars, appVars, uploadVars, package, left>>

\* (Mutant.)  The upload is recorded whether the session has its entry or not.
RecordAnyway(t) ==
    /\ At(t, "record")
    /\ Goto(t, "bytes")
    /\ example_data' = example_data \cup {req[t].file}
    /\ UNCHANGED <<serviceVars, work_dirs, listed, made, directory, uploadVars, package, left>>

Record(t) ==
    /\ At(t, "record")
    /\ IF listed THEN Goto(t, "bytes") ELSE Done(t)
    /\ example_data' = IF listed THEN example_data \cup {req[t].file} ELSE example_data
    /\ UNCHANGED <<serviceVars, work_dirs, listed, made, directory, uploadVars, package, left>>

\* add_external_pos: refused without a session.
PostExternal(t) ==
    /\ At(t, "post")
    /\ external' = IF exists THEN external \cup {req[t].file} ELSE external
    /\ Done(t)
    /\ UNCHANGED <<exists, appVars, uploadVars, package, left>>

Ingest(t) ==
    \/ Path(t) \/ ClearCompleted(t) \/ Rename(t)
    \/ Read(t, "uuid", "record") \/ Record(t) \/ Read(t, "bytes", "post")
    \/ PostExternal(t)

-----------------------------------------------------------------------------
(* set_iqr_state and reset_iqr_session *)

\* The uploaded file is read, whatever it is, and removed; if it is no archive
\* with a state in it, that is all.
Unzip(t) ==
    /\ At(t, "unzip")
    /\ uploads' = uploads \ {StateFile}
    /\ \/ \E p \in Foreign \cup {package} :
              req' = [req EXCEPT ![t] = [kind |-> "load", stage |-> "rmtree", file |-> StateFile,
                                         external |-> p.external, working |-> p.working]]
       \/ Done(t)
    /\ UNCHANGED <<serviceVars, appVars, completed, package, left>>

\* PUT session: refused without a session.
PutSession(t) ==
    /\ At(t, "put") /\ req[t].kind = "reset"
    /\ external' = {}
    /\ IF exists THEN Goto(t, "rmtree") ELSE Done(t)
    /\ UNCHANGED <<exists, appVars, uploadVars, package, left>>

\* reset_session_local, in three steps
RemoveTree(t) ==
    /\ At(t, "rmtree")
    /\ made' = FALSE /\ directory' = {}
    /\ Goto(t, "remake")
    /\ UNCHANGED <<serviceVars, work_dirs, listed, example_data, uploadVars, package, left>>

RemakeDir(t) ==
    /\ At(t, "remake")
    /\ made' = TRUE
    /\ Goto(t, "clear")
    /\ UNCHANGED <<serviceVars, work_dirs, listed, example_data, directory, uploadVars, package, left>>

\* (Mutant.)  The files are removed and the examples are still listed.
ClearNothing(t) ==
    /\ At(t, "clear")
    /\ \/ req[t].kind = "load" /\ listed /\ Goto(t, "fill")
       \/ Done(t)
    /\ UNCHANGED <<serviceVars, appVars, uploadVars, package, left>>

\* A load ends here when its file has no working data.
ClearExamples(t) ==
    /\ At(t, "clear")
    /\ \/ req[t].kind = "load" /\ listed /\ Goto(t, "fill")
       \/ Done(t)
    /\ example_data' = {}
    /\ UNCHANGED <<serviceVars, work_dirs, listed, made, directory, uploadVars, package, left>>

\* (Mutant.)  The elements of the package are not unpacked.
FillNothing(t) ==
    /\ At(t, "fill")
    /\ Goto(t, "put")
    /\ UNCHANGED <<serviceVars, appVars, uploadVars, package, left>>

\* Each element of the package is written to the directory and listed.  Any of
\* them may lack a key, be no base64 or fail to be written, and the load ends
\* there, with a file that is opened and not listed or without one.
Fill(t) ==
    /\ At(t, "fill")
    /\ \/ /\ req[t].working = {}
          /\ Goto(t, "put")
          /\ UNCHANGED <<directory, example_data>>
       \/ /\ made
          /\ \E e \in req[t].working :
                 /\ directory' = directory \cup {e}
                 /\ example_data' = example_data \cup {e}
                 /\ req' = [req EXCEPT ![t].working = @ \ {e}]
       \/ \E e \in req[t].working :
              /\ Done(t)
              /\ directory' \in {directory} \cup IF made THEN {directory \cup {e}} ELSE {}
              /\ UNCHANGED example_data
    /\ UNCHANGED <<serviceVars, work_dirs, listed, made, uploadVars, package, left>>

\* PUT state, whose answer is not looked at
PutState(t) ==
    /\ At(t, "put") /\ req[t].kind = "load"
    /\ external' = IF exists THEN req[t].external ELSE external
    /\ Done(t)
    /\ UNCHANGED <<exists, appVars, uploadVars, package, left>>

Replace(t) ==
    \/ Unzip(t) \/ PutSession(t)
    \/ RemoveTree(t) \/ RemakeDir(t) \/ ClearExamples(t)
    \/ Fill(t) \/ PutState(t)

-----------------------------------------------------------------------------
(* get_iqr_state, and the requests that only look *)

GetState(t) ==
    /\ At(t, "state")
    /\ IF exists THEN req' = [req EXCEPT ![t].stage = "collect", ![t].external = external]
                 ELSE Done(t)
    /\ UNCHANGED <<serviceVars, appVars, uploadVars, package, left>>

\* The bytes of each example are read.  A file may be gone, and the dictionary
\* may change under the loop when another handler is at work.
Collect(t) ==
    /\ At(t, "collect")
    /\ \/ /\ example_data \subseteq directory
          /\ package' = [external |-> req[t].external, working |-> example_data]
       \/ /\ \/ ~(example_data \subseteq directory)
             \/ \E u \in Handler \ {t} : Active(u)
          /\ UNCHANGED package
    /\ Done(t)
    /\ UNCHANGED <<serviceVars, appVars, uploadVars, left>>

Look(t) ==
    /\ At(t, "session")
    /\ Done(t)
    /\ UNCHANGED <<serviceVars, appVars, uploadVars, package, left>>

\* (Mutant.)  The app's examples are collected before the service is asked.
SaveAppFirst(t) ==
    /\ \/ /\ At(t, "state")
          /\ req' = [req EXCEPT ![t].stage = "collect", ![t].working = example_data]
          /\ UNCHANGED package
       \/ /\ At(t, "collect") /\ exists
          /\ package' = [external |-> external, working |-> req[t].working]
          /\ Done(t)
    /\ UNCHANGED <<serviceVars, appVars, uploadVars, left>>

Save(t) == GetState(t) \/ Collect(t)

-----------------------------------------------------------------------------
(* What else may happen *)

\* A call to the service fails, at once or after its effect, which of a state
\* may be a part (set_state_bytes resets the session and then reads the state).
\* Nothing has been done here that the answer could undo.
ServiceFails(t) ==
    /\ Takes("failure")
    /\ req[t].stage \in {"list", "create", "post", "put", "state", "session"}
    /\ Done(t)
    /\ \/ /\ UNCHANGED serviceVars
       \/ /\ At(t, "create") /\ exists' = TRUE /\ UNCHANGED external
       \/ /\ exists /\ At(t, "post")
          /\ external' = external \cup {req[t].file} /\ UNCHANGED exists
       \/ /\ exists /\ At(t, "put")
          /\ external' \in SUBSET req[t].external /\ UNCHANGED exists
    /\ UNCHANGED <<appVars, uploadVars, package>>

\* The user uploads a file again that has been taken or is lost to the app.
\* (Each upload has a temporary file of its own; here a name has one at a time.)
Upload(f) ==
    /\ Takes("upload")
    /\ f \notin completed
    /\ \A t \in Handler : req[t].file = f => req[t].stage \notin {"rename", "unzip"}
    /\ uploads' = uploads \cup {f} /\ completed' = completed \cup {f}
    /\ UNCHANGED <<serviceVars, appVars, package, req>>

\* The service drops the session when it has not been used for its timeout.
Expire ==
    /\ Takes("expiry")
    /\ exists
    /\ exists' = FALSE /\ external' = {}
    /\ UNCHANGED <<appVars, uploadVars, package, req>>

\* The app starts again: what it has in memory is gone, and, if it has ended in
\* good order (__del__), the work directories are.
Restart ==
    /\ Takes("restart")
    /\ work_dirs' = FALSE /\ listed' = FALSE /\ example_data' = {}
    /\ \/ made' = FALSE /\ directory' = {}
       \/ UNCHANGED <<made, directory>>
    /\ completed' = {}
    /\ req' = [t \in Handler |-> Idle]
    /\ UNCHANGED <<serviceVars, uploads, package>>

Restarts == left'["restart"] # left["restart"]

Leaves(t, stages) == req[t].stage \in stages /\ req'[t].stage = "idle"

\* A load has removed the examples and ends before it calls the service.
Abandons(t) == req[t].kind = "load" /\ Leaves(t, {"clear", "fill"})

\* The service keeps external positives that are not of the state put.
Refuses(t) == req[t].kind = "load" /\ Leaves(t, {"put"}) /\ ~(external' \subseteq req[t].external)

Loads(t) == req[t].kind = "load" /\ req[t].stage = "rmtree" /\ req'[t].stage = "remake"

\* The state file lacks the data of a positive of its own.
LoadsShort(t) == Loads(t) /\ ~(req[t].external \subseteq req[t].working)

\* Handler t begins to replace all there is of the examples: a load with
\* reset_session_local, a reset with the service's answer.
Afresh(t) ==
    \/ Loads(t)
    \/ req[t].kind = "reset" /\ req[t].stage = "put" /\ req'[t].stage = "rmtree"

Causes ==
    {c \in {"race", "restart", "abandoned", "refused", "short"} :
        \/ c = "race"      /\ (Race \/ Race')
        \/ c = "restart"   /\ Restarts
        \/ c = "abandoned" /\ \E t \in Handler : Abandons(t)
        \/ c = "refused"   /\ \E t \in Handler : Refuses(t)
        \/ c = "short"     /\ \E t \in Handler : LoadsShort(t)}

History ==
    /\ excused' = excused \cup Causes
    /\ since' = Causes \cup IF \E t \in Handler : Afresh(t) THEN {} ELSE since

Next ==
    /\ \/ \E t \in Handler :
           \/ \E e \in Example : Start(t, "ingest", e)
           \/ \E kind \in Kind \ {"ingest"} : Start(t, kind, StateFile)
           \/ Current(t) \/ Ingest(t) \/ Replace(t) \/ Save(t) \/ Look(t)
           \/ ServiceFails(t)
       \/ \E f \in File : Upload(f)
       \/ Expire
       \/ Restart
    /\ History

Spec == Init /\ [][Next]_vars

-----------------------------------------------------------------------------
(* Properties *)

Quiet == \A t \in Handler : ~Active(t)

\* The app keeps the values its code assigns it.
TypeOK ==
    /\ exists \in BOOLEAN /\ external \subseteq Example
    /\ work_dirs \in BOOLEAN /\ listed \in BOOLEAN /\ example_data \subseteq Example
    /\ made \in BOOLEAN /\ directory \subseteq Example
    /\ ~listed => example_data = {}
    /\ ~made => directory = {}
    /\ uploads \subseteq File /\ completed \subseteq File
    /\ package \in Package
    /\ req \in [Handler -> [kind : Kind, stage : Stage, file : File,
                            external : SUBSET Example, working : SUBSET Example]]
    /\ left \in [Event -> Nat]
    /\ since \subseteq excused
    /\ excused \subseteq {"race", "restart", "abandoned", "refused", "short"}

\* Each external positive of the service is an example the app can show ("find a
\* DataElement by the given UUID in our indexed data or in the session's example
\* data"): at rest, and since the last reset or load that had the session to
\* itself, whatever came before that; unless a request that replaces the
\* examples has overlapped another since, the app has been restarted, or a load
\* was abandoned, refused or of a state file that lacks data.
PositivesShown ==
    Quiet /\ since = {} => external \subseteq example_data

\* The file of each example is in the work directory, restart or not, and
\* whatever became of a load.
ExamplesOnDisk ==
    Quiet /\ "race" \notin since => example_data \subseteq directory

\* An upload that no request has taken can still be taken, whatever requests
\* have failed or found the session just being created.
UploadsClaimable ==
    Quiet /\ excused \cap {"race", "restart"} = {} => uploads \subseteq completed

\* A state that is saved has the data of each external positive in it, even when
\* examples are ingested while it is put together.
SavedStateIsWhole ==
    [][since = {} /\ package' # package => package'.external \subseteq package'.working]_vars
=============================================================================
