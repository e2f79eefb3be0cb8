-------------------------- MODULE SearchAppProofs --------------------------
(***************************************************************************)
(* The invariants of SearchApp, for any number of handlers and examples:   *)
(* what the app, its work directory, the upload module and the service     *)
(* have of the examples fits together, until a named cause has occurred.   *)
(***************************************************************************)
EXTENDS SearchApp, TLAPS

\* A handler reaches the stages of its own kind of request only, and what it
\* carries there fits.
Course(r) ==
    /\ r.stage \in {"rename", "uuid", "record", "bytes", "post"} => r.kind = "ingest"
    /\ r.stage \in {"path", "clear_completed"} => r.kind \in {"ingest", "load"}
    /\ r.stage \in {"unzip", "fill"} => r.kind = "load"
    /\ r.stage \in {"rmtree", "remake", "clear", "put"} => r.kind \in {"load", "reset"}
    /\ r.stage \in {"state", "collect"} => r.kind = "save"
    /\ r.kind = "ingest" => r.file \in Example
    /\ r.kind # "ingest" => r.file = StateFile
    /\ r.kind = "reset" => r.external = {}

Courses == \A t \in Handler : Course(req[t])

\* The elements of a package are unpacked into an entry that is there.
FillsEntry == \A t \in Handler : At(t, "fill") => listed

Request == [kind : Kind, stage : Stage, file : File,
            external : SUBSET Example, working : SUBSET Example]

-----------------------------------------------------------------------------
(* Types *)

\* Where the body of each kind of request begins.
LEMMA BodyFacts ==
    ASSUME NEW kind \in Kind
    PROVE  /\ Body(kind) \in Stage
           /\ kind \in {"ingest", "load"} => Body(kind) = "path"
           /\ kind = "save" => Body(kind) = "state"
           /\ kind = "reset" => Body(kind) = "put"
           /\ kind = "look" => Body(kind) = "session"
BY DEF Body, Kind, Stage

\* A handler that goes on to a stage of its course keeps the types.
LEMMA GotoTypes ==
    ASSUME TypeOK, Courses, NEW t \in Handler, NEW stage \in Stage, Goto(t, stage),
           Course([req[t] EXCEPT !.stage = stage])
    PROVE  req' \in [Handler -> Request] /\ Courses'
<1>1. req \in [Handler -> Request]
  BY DEF TypeOK, Request
<1>2. req' = [req EXCEPT ![t] = [req[t] EXCEPT !.stage = stage]]
  BY DEF Goto
<1>3. [req[t] EXCEPT !.stage = stage] \in Request
  BY <1>1 DEF Request
<1> HIDE DEF Goto
<1> QED
  BY <1>1, <1>2, <1>3 DEF Courses

\* So does one that is done.
LEMMA DoneTypes ==
    ASSUME TypeOK, Courses, NEW t \in Handler, Done(t)
    PROVE  req' \in [Handler -> Request] /\ Courses'
<1>1. Idle \in Request /\ Course(Idle)
  BY DEF Idle, Asked, Request, Kind, Stage, File, Course
<1> QED
  BY <1>1 DEF Done, TypeOK, Request, Courses

\* The steps a handler takes.
Step(t) ==
    \/ \E e \in Example : Start(t, "ingest", e)
    \/ \E kind \in Kind \ {"ingest"} : Start(t, kind, StateFile)
    \/ Current(t) \/ Ingest(t) \/ Replace(t) \/ Save(t) \/ Look(t)
    \/ ServiceFails(t)

\* A handler's step keeps its request on its course.
LEMMA RequestTypes ==
    ASSUME TypeOK, Courses, NEW t \in Handler, Step(t)
    PROVE  req' \in [Handler -> Request] /\ Courses'
<1> DEFINE Goal == req' \in [Handler -> Request] /\ Courses'
<1>0. /\ req \in [Handler -> Request] /\ Course(req[t]) /\ package \in Package
      /\ external \subseteq Example
  BY DEF TypeOK, Request, Courses
<1>1. ASSUME NEW kind \in Kind, NEW f \in File, kind = "ingest" => f \in Example,
             kind # "ingest" => f = StateFile, Start(t, kind, f)
      PROVE  Goal
  <2>1. Asked(kind, "list", f) \in Request /\ Course(Asked(kind, "list", f))
    BY <1>1 DEF Asked, Request, Stage, Course
  <2> QED
    BY <1>0, <1>1, <2>1 DEF Start, Courses
<1>2. ASSUME Current(t) PROVE Goal
  <2>2. \A stage \in {"create", "check", "dirs", "examples", "mkdir", Body(req[t].kind)} :
          stage \in Stage /\ Course([req[t] EXCEPT !.stage = stage])
    <3>1. ASSUME NEW stage \in {"create", "check", "dirs", "examples", "mkdir"}
          PROVE  stage \in Stage /\ Course([req[t] EXCEPT !.stage = stage])
      BY <1>0, <3>1 DEF Course, Request, Stage
    <3>2. Body(req[t].kind) \in Stage
      BY <1>0, BodyFacts DEF Request
    <3>3. Course([req[t] EXCEPT !.stage = Body(req[t].kind)])
      <4>1. req[t].kind \in {"ingest", "load", "save", "reset", "look"}
        BY <1>0 DEF Request, Kind
      <4> QED
        BY <1>0, <4>1 DEF Course, Request, Body
    <3> QED
      BY <3>1, <3>2, <3>3
  <2> HIDE DEF Goal
  <2>3. \A stage \in {"create", "check", "dirs", "examples", "mkdir", Body(req[t].kind)} :
          Goto(t, stage) => Goal
    BY <2>2, GotoTypes DEF Goal
  <2> QED
    BY <1>2, <2>3, DoneTypes
    DEF Current, List, Create, Check, SetWorkDir, SetExamples, MakeDir, Goal
<1>3. ASSUME Ingest(t) PROVE Goal
  <2> HIDE DEF Goal
  <2>1. ASSUME NEW stage \in Stage, Course([req[t] EXCEPT !.stage = stage]), Goto(t, stage)
        PROVE  Goal
    BY <2>1, GotoTypes DEF Goal
  <2>2. Done(t) => Goal
    BY DoneTypes DEF Goal
  <2>3. CASE Path(t)
    BY <1>0, <2>1, <2>2, <2>3 DEF Path, At, Course, Request, Stage
  <2>4. CASE ClearCompleted(t)
    BY <1>0, <2>1, <2>2, <2>4 DEF ClearCompleted, At, Course, Request, Stage
  <2>5. CASE Rename(t)
    BY <1>0, <2>1, <2>2, <2>5 DEF Rename, At, Course, Request, Stage
  <2>6. CASE Read(t, "uuid", "record") \/ Read(t, "bytes", "post")
    BY <1>0, <2>1, <2>2, <2>6 DEF Read, At, Course, Request, Stage
  <2>7. CASE Record(t)
    BY <1>0, <2>1, <2>2, <2>7 DEF Record, At, Course, Request, Stage
  <2>8. CASE PostExternal(t)
    BY <2>2, <2>8 DEF PostExternal
  <2> QED
    BY <1>3, <2>3, <2>4, <2>5, <2>6, <2>7, <2>8 DEF Ingest
<1>4. ASSUME Replace(t) PROVE Goal
  <2>0. ASSUME NEW stage \in Stage, Course([req[t] EXCEPT !.stage = stage]), Goto(t, stage)
        PROVE  Goal
    BY <2>0, GotoTypes
  <2>00. Done(t) => Goal
    BY DoneTypes
  <2>1. CASE Unzip(t)
    <3>1. ASSUME NEW p \in Package,
                 req' = [req EXCEPT ![t] = [kind |-> "load", stage |-> "rmtree", file |-> StateFile,
                                            external |-> p.external, working |-> p.working]]
          PROVE  Goal
      <4> DEFINE new == [kind |-> "load", stage |-> "rmtree", file |-> StateFile,
                         external |-> p.external, working |-> p.working]
      <4>1. new \in Request
        BY <1>0 DEF Request, Kind, Stage, File, Package
      <4>2. Course(new)
        BY DEF Course
      <4>3. req' = [req EXCEPT ![t] = new]
        BY <3>1
      <4> HIDE DEF new
      <4> QED
        BY <1>0, <4>1, <4>2, <4>3 DEF Courses
    <3>2. Foreign \cup {package} \subseteq Package
      BY <1>0, ForeignAssumption
    <3> HIDE DEF Goal
    <3> QED
      BY <2>00, <2>1, <3>1, <3>2 DEF Unzip
  <2>2. CASE PutSession(t)
    <3> HIDE DEF Goal
    <3> QED
      BY <1>0, <2>0, <2>00, <2>2 DEF PutSession, At, Course, Request, Stage
  <2>3. CASE RemoveTree(t) \/ RemakeDir(t)
    <3> HIDE DEF Goal
    <3> QED
      BY <1>0, <2>0, <2>3 DEF RemoveTree, RemakeDir, At, Course, Request, Stage
  <2>4. CASE ClearExamples(t)
    <3> HIDE DEF Goal
    <3> QED
      BY <1>0, <2>0, <2>00, <2>4 DEF ClearExamples, At, Course, Request, Stage
  <2>5. CASE Fill(t)
    <3>1. ASSUME NEW e, req' = [req EXCEPT ![t].working = @ \ {e}] PROVE Goal
      BY <1>0, <3>1 DEF Course, Courses, Request
    <3> HIDE DEF Goal
    <3> QED
      BY <1>0, <2>0, <2>00, <2>5, <3>1 DEF Fill, At, Course, Request, Stage
  <2>6. CASE PutState(t)
    BY <2>00, <2>6 DEF PutState
  <2> QED
    BY <1>4, <2>1, <2>2, <2>3, <2>4, <2>5, <2>6 DEF Replace
<1>5. ASSUME Save(t) \/ Look(t) \/ ServiceFails(t) PROVE Goal
  <2>1. CASE GetState(t) /\ exists
    BY <1>0, <2>1 DEF GetState, At, Course, Courses, Request, Stage
  <2>2. Done(t) => Goal
    BY DoneTypes
  <2> HIDE DEF Goal
  <2> QED
    BY <1>5, <2>1, <2>2 DEF Save, GetState, Collect, Look, ServiceFails
<1>6. StateFile \in File /\ Example \subseteq File /\ "ingest" \in Kind
  BY DEF File, Kind
<1> HIDE DEF Goal
<1>7. Goal
  BY <1>1, <1>2, <1>3, <1>4, <1>5, <1>6 DEF Step
<1> QED
  BY <1>7 DEF Goal

\* What has happened is one of the named causes.
LEMMA HistoryTypes ==
    ASSUME TypeOK, History
    PROVE  since' \subseteq excused' /\ excused' \subseteq {"race", "restart", "abandoned", "refused", "short"}
<1>1. Causes \subseteq {"race", "restart", "abandoned", "refused", "short"}
  BY DEF Causes
<1> QED
  BY <1>1 DEF TypeOK, History

\* The examples and the files of the app keep their types.
LEMMA StepTypes ==
    ASSUME TypeOK, Courses, FillsEntry, NEW t \in Handler, Step(t), History
    PROVE  TypeOK' /\ Courses' /\ FillsEntry'
<1>0. /\ req \in [Handler -> Request] /\ Course(req[t]) /\ package \in Package
      /\ req' \in [Handler -> Request] /\ Courses'
  BY RequestTypes DEF TypeOK, Request, Courses
<1>1. since' \subseteq excused' /\ excused' \subseteq {"race", "restart", "abandoned", "refused", "short"}
  BY HistoryTypes
<1>2. ASSUME NEW event \in Event, Takes(event) PROVE left' \in [Event -> Nat]
  BY <1>2 DEF TypeOK, Takes
<1>3. ASSUME NEW kind \in Kind, NEW f, Start(t, kind, f) PROVE TypeOK' /\ FillsEntry'
  <2>1. left' \in [Event -> Nat]
    BY <1>2, <1>3 DEF Start, Event
  <2>2. FillsEntry'
    BY <1>0, <1>3 DEF Start, Asked, FillsEntry, At, appVars
  <2> QED
    BY <1>0, <1>1, <1>3, <2>1, <2>2 DEF Start, serviceVars, appVars, uploadVars, TypeOK, Request
<1> USE DEF serviceVars, appVars, uploadVars
<1>4. CASE Current(t)
  <2>0. Body(req[t].kind) # "fill"
    <3>1. req[t].kind \in Kind
      BY <1>0 DEF Request
    <3> QED
      BY <3>1 DEF Kind, Body
  <2>00. req'[t].stage # "fill" /\ \A u \in Handler : u # t => req'[u] = req[u]
    BY <1>0, <1>4, <2>0
    DEF Current, List, Create, Check, SetWorkDir, SetExamples, MakeDir, Goto, Done, Idle, Asked,
        Request
  <2>1. FillsEntry'
    BY <1>4, <2>00
    DEF Current, List, Create, Check, SetWorkDir, SetExamples, MakeDir, FillsEntry, At
  <2> QED
    BY <1>0, <1>1, <1>4, <2>1
    DEF Current, List, Create, Check, SetWorkDir, SetExamples, MakeDir, TypeOK, Request
<1>5. CASE Ingest(t)
  <2>0. req'[t].stage # "fill" /\ \A u \in Handler : u # t => req'[u] = req[u]
    BY <1>0, <1>5
    DEF Ingest, Path, ClearCompleted, Rename, Read, Record, PostExternal, Goto, Done, Idle, Asked,
        Request
  <2>1. FillsEntry'
    BY <1>5, <2>0
    DEF Ingest, Path, ClearCompleted, Rename, Read, Record, PostExternal, FillsEntry, At
  <2>2. At(t, "rename") \/ At(t, "record") \/ At(t, "post") => req[t].file \in Example
    BY <1>0 DEF At, Course
  <2> QED
    BY <1>0, <1>1, <1>5, <2>1, <2>2
    DEF Ingest, Path, ClearCompleted, Rename, Read, Record, PostExternal, TypeOK, Request
<1>6. CASE Replace(t)
  <2>1. FillsEntry'
    BY <1>0, <1>6
    DEF Replace, Unzip, PutSession, RemoveTree, RemakeDir, ClearExamples, Fill, PutState, Goto, Done,
        Idle, Asked, FillsEntry, At, Request
  <2>2. req[t].external \subseteq Example /\ req[t].working \subseteq Example
    BY <1>0 DEF Request
  <2>3. CASE Fill(t)
    BY <1>0, <1>1, <2>1, <2>2, <2>3 DEF Fill, FillsEntry, At, TypeOK, Request
  <2>4. CASE Unzip(t) \/ PutSession(t) \/ RemoveTree(t) \/ RemakeDir(t) \/ ClearExamples(t) \/ PutState(t)
    BY <1>0, <1>1, <2>1, <2>2, <2>4
    DEF Unzip, PutSession, RemoveTree, RemakeDir, ClearExamples, PutState, TypeOK, Request
  <2> QED
    BY <1>6, <2>3, <2>4 DEF Replace
<1>7. CASE Save(t) \/ Look(t)
  <2>1. FillsEntry'
    BY <1>0, <1>7 DEF Save, GetState, Collect, Look, Done, Idle, Asked, FillsEntry, At, Request
  <2>2. req[t].external \subseteq Example
    BY <1>0 DEF Request
  <2> QED
    BY <1>0, <1>1, <1>7, <2>1, <2>2 DEF Save, GetState, Collect, Look, TypeOK, Request, Package
<1>8. CASE ServiceFails(t)
  <2>1. FillsEntry'
    BY <1>0, <1>8 DEF ServiceFails, Done, Idle, Asked, FillsEntry, At
  <2>2. left' \in [Event -> Nat]
    BY <1>2, <1>8 DEF ServiceFails, Event
  <2>3. req[t].external \subseteq Example /\ (At(t, "post") => req[t].file \in Example)
    BY <1>0 DEF Request, At, Course
  <2> QED
    BY <1>0, <1>1, <1>8, <2>1, <2>2, <2>3 DEF ServiceFails, TypeOK, Request
<1> QED
  BY <1>0, <1>3, <1>4, <1>5, <1>6, <1>7, <1>8 DEF Step, Kind

\* Types, courses and the entry that is filled, together.
Typed == TypeOK /\ Courses /\ FillsEntry

\* Every step keeps the types.
LEMMA TypedStep == Typed /\ [Next]_vars => Typed'
<1> SUFFICES ASSUME Typed, [Next]_vars PROVE Typed'
  OBVIOUS
<1> USE DEF Typed
<1>1. ASSUME NEW t \in Handler, Step(t), History PROVE Typed'
  BY <1>1, StepTypes
<1>2. History => /\ since' \subseteq excused'
                /\ excused' \subseteq {"race", "restart", "abandoned", "refused", "short"}
  BY HistoryTypes
<1>3. CASE Expire /\ History
  <2>1. left' \in [Event -> Nat]
    BY <1>3 DEF Expire, Takes, TypeOK, Event
  <2> QED
    BY <1>2, <1>3, <2>1
    DEF Expire, TypeOK, Courses, Course, FillsEntry, At, appVars, uploadVars
<1>4. CASE Restart /\ History
  <2>1. left' \in [Event -> Nat]
    BY <1>4 DEF Restart, Takes, TypeOK, Event
  <2>2. Idle \in Request /\ Course(Idle) /\ Idle.stage = "idle"
    BY DEF Idle, Asked, Request, Kind, Stage, File, Course
  <2>3. req' \in [Handler -> Request] /\ Courses' /\ FillsEntry'
    BY <1>4, <2>2 DEF Restart, Courses, FillsEntry, At
  <2>4. /\ made' \in BOOLEAN /\ directory' \subseteq Example /\ (~ made' => directory' = {})
        /\ UNCHANGED <<exists, external, uploads, package>>
        /\ work_dirs' = FALSE /\ listed' = FALSE /\ example_data' = {} /\ completed' = {}
    <3>1. CASE made' = FALSE /\ directory' = {}
      BY <1>4, <3>1 DEF Restart, serviceVars
    <3>2. CASE UNCHANGED <<made, directory>>
      BY <1>4, <3>2 DEF Restart, TypeOK, serviceVars
    <3> QED
      BY <1>4, <3>1, <3>2 DEF Restart
  <2> QED
    BY <1>2, <1>4, <2>1, <2>3, <2>4 DEF TypeOK, Request
<1>5. CASE UNCHANGED vars
  BY <1>5
  DEF vars, TypeOK, Courses, Course, FillsEntry, At, serviceVars, appVars, uploadVars
<1>6. ASSUME NEW f \in File, Upload(f), History PROVE Typed'
  <2>1. left' \in [Event -> Nat]
    BY <1>6 DEF Upload, Takes, TypeOK, Event
  <2> QED
    BY <1>2, <1>6, <2>1
    DEF Upload, TypeOK, Courses, Course, FillsEntry, At, serviceVars, appVars
<1> QED
  BY <1>1, <1>3, <1>4, <1>5, <1>6 DEF Next, Step

-----------------------------------------------------------------------------
(* What is set up, and who is alone *)

\* What the app keeps for a session is there once it knows of it, or the
\* handler that makes it is at work, and a handler knows of the session before
\* the body of its request.
Ready ==
    /\ work_dirs => /\ listed \/ \E t \in Handler : At(t, "examples")
                    /\ made \/ \E t \in Handler : req[t].stage \in {"examples", "mkdir", "remake"}
    /\ \A t \in Handler :
         req[t].stage \notin {"idle", "list", "create", "check", "dirs"} => work_dirs
    /\ ~ exists => external = {}

\* A step is one handler's.
LEMMA OthersStay ==
    ASSUME Typed, NEW t \in Handler, Step(t)
    PROVE  \A u \in Handler \ {t} : req'[u] = req[u]
<1>0. req \in [Handler -> Request]
  BY DEF Typed, TypeOK, Request
<1>1. \/ \E new : req' = [req EXCEPT ![t] = new]
      \/ \E stage, x : req' = [req EXCEPT ![t].stage = stage, ![t].external = x]
      \/ \E x : req' = [req EXCEPT ![t].working = x]
      \/ \E stage : req' = [req EXCEPT ![t].stage = stage]
  <2>1. CASE Current(t)
    BY <2>1 DEF Current, List, Create, Check, SetWorkDir, SetExamples, MakeDir, Goto, Done
  <2>2. CASE Ingest(t)
    BY <2>2
    DEF Ingest, Path, ClearCompleted, Rename, Read, Record, PostExternal, Goto, Done
  <2>3. CASE Replace(t)
    <3>1. CASE Fill(t)
      BY <3>1 DEF Fill, Goto, Done
    <3>2. CASE Unzip(t)
      BY <3>2 DEF Unzip, Done
    <3> QED
      BY <2>3, <3>1, <3>2
      DEF Replace, PutSession, RemoveTree, RemakeDir, ClearExamples, PutState, Goto, Done
  <2>4. CASE Save(t) \/ Look(t) \/ ServiceFails(t)
    BY <2>4 DEF Save, GetState, Collect, Look, ServiceFails, Done
  <2>5. ASSUME NEW kind, NEW f, Start(t, kind, f) PROVE \E new : req' = [req EXCEPT ![t] = new]
    BY <2>5 DEF Start
  <2> QED
    BY <2>1, <2>2, <2>3, <2>4, <2>5 DEF Step
<1> QED
  BY <1>0, <1>1

\* While nobody races, a handler that replaces the examples is the only one to
\* use them.
LEMMA AloneClearing ==
    ASSUME ~ Race, NEW t \in Handler, Clearing(req[t]), NEW u \in Handler \ {t}
    PROVE  ~ Clearing(req[u]) /\ ~ Uses(req[u])
BY DEF Race, Uses

\* Who begins to replace all the examples is a load that empties the directory
\* or a reset whose call the service has answered.
LEMMA AfreshStep ==
    ASSUME Typed, Next, NEW t \in Handler, Afresh(t)
    PROVE  /\ \/ RemoveTree(t) /\ req[t].kind = "load" /\ req'[t] = [req[t] EXCEPT !.stage = "remake"]
              \/ PutSession(t) /\ req'[t] = [req[t] EXCEPT !.stage = "rmtree"]
           /\ Clearing(req[t]) /\ req'[t].stage \in {"rmtree", "remake"}
           /\ \A u \in Handler \ {t} : req'[u] = req[u]
<1>0. req \in [Handler -> Request] /\ Course(req[t])
  BY DEF Typed, TypeOK, Request, Courses
<1>1. /\ req[t].stage \in {"rmtree", "put"} /\ req'[t].stage \in {"rmtree", "remake"}
      /\ req'[t] # req[t] /\ (req[t].stage = "put" => req[t].kind = "reset")
      /\ req[t].stage = "rmtree" => req[t].kind = "load"
  BY DEF Afresh, Loads
<1>2. Step(t)
  <2>1. ASSUME NEW u \in Handler, Step(u), u # t PROVE FALSE
    BY <1>1, <2>1, OthersStay
  <2>2. ~ Expire /\ ~ \E f \in File : Upload(f)
    BY <1>1 DEF Expire, Upload
  <2>3. ~ Restart
    BY <1>1 DEF Restart, Idle, Asked
  <2> QED
    BY <2>1, <2>2, <2>3 DEF Next, Step
<1>3. RemoveTree(t) \/ PutSession(t)
  <2> USE DEF At
  <2>1. ~ Current(t)
    BY <1>1 DEF Current, List, Create, Check, SetWorkDir, SetExamples, MakeDir
  <2>2. ~ Ingest(t)
    BY <1>1 DEF Ingest, Path, ClearCompleted, Rename, Read, Record, PostExternal
  <2>3. ~ Save(t) /\ ~ Look(t)
    BY <1>1 DEF Save, GetState, Collect, Look
  <2>4. ~ ServiceFails(t)
    BY <1>0, <1>1 DEF ServiceFails, Done, Idle, Asked
  <2>5. \A kind, f : ~ Start(t, kind, f)
    BY <1>1 DEF Start
  <2>6. Replace(t)
    BY <1>2, <2>1, <2>2, <2>3, <2>4, <2>5 DEF Step
  <2> QED
    BY <1>1, <2>6 DEF Replace, Unzip, RemakeDir, ClearExamples, Fill, PutState
<1>4. \/ RemoveTree(t) /\ req'[t] = [req[t] EXCEPT !.stage = "remake"] /\ req[t].stage = "rmtree"
      \/ PutSession(t) /\ req'[t] = [req[t] EXCEPT !.stage = "rmtree"] /\ req[t].stage = "put"
  BY <1>0, <1>1, <1>3 DEF RemoveTree, PutSession, Goto, Done, Idle, Asked, At
<1> QED
  BY <1>1, <1>2, <1>4, OthersStay DEF Clearing

\* What is set up stays set up until the app starts again, and a service
\* without the session has no external positives of it.
LEMMA ReadyStep == Typed /\ Ready /\ [Next]_vars => Ready'
<1> SUFFICES ASSUME Typed, Ready, [Next]_vars PROVE Ready'
  OBVIOUS
<1>0. req \in [Handler -> Request]
  BY DEF Typed, TypeOK, Request
<1> USE DEF At, serviceVars, appVars, uploadVars
<1>1. ASSUME NEW t \in Handler, Step(t) PROVE Ready'
  <2>0. \A u \in Handler \ {t} : req'[u] = req[u]
    BY <1>1, OthersStay
  <2>1. ASSUME UNCHANGED <<exists, external, work_dirs, listed, made>>,
               req[t].stage \notin {"examples", "mkdir", "remake"},
               req'[t].stage \notin {"idle", "list", "create", "check", "dirs"} => work_dirs
        PROVE  Ready'
    BY <2>0, <2>1 DEF Ready
  <2>2. CASE Current(t)
    <3>1. CASE List(t)
      BY <1>0, <2>1, <3>1 DEF List, Goto, Request
    <3>2. CASE Create(t)
      BY <1>0, <2>0, <3>2 DEF Create, Goto, Done, Idle, Asked, Request, Ready
    <3>3. CASE Check(t)
      BY <1>0, <2>1, <3>3 DEF Check, Goto, Request
    <3>4. CASE SetWorkDir(t)
      BY <1>0, <2>0, <3>4 DEF SetWorkDir, Goto, Request, Ready
    <3>5. CASE SetExamples(t)
      BY <1>0, <2>0, <3>5 DEF SetExamples, Goto, Request, Ready
    <3>6. CASE MakeDir(t)
      BY <1>0, <2>0, <3>6 DEF MakeDir, Goto, Request, Ready
    <3> QED
      BY <2>2, <3>1, <3>2, <3>3, <3>4, <3>5, <3>6 DEF Current
  <2>3. CASE Ingest(t)
    <3>1. CASE PostExternal(t)
      BY <1>0, <2>0, <3>1 DEF PostExternal, Done, Idle, Asked, Request, Ready
    <3>2. CASE Path(t) \/ ClearCompleted(t) \/ Rename(t) \/ Record(t) \/ Read(t, "uuid", "record")
               \/ Read(t, "bytes", "post")
      <4>1. /\ UNCHANGED <<exists, external, work_dirs, listed, made>>
            /\ req[t].stage \notin {"idle", "list", "create", "check", "dirs", "examples", "mkdir", "remake"}
        BY <3>2 DEF Path, ClearCompleted, Rename, Record, Read
      <4> QED
        BY <2>1, <4>1 DEF Ready
    <3> QED
      BY <2>3, <3>1, <3>2 DEF Ingest
  <2>4. CASE Replace(t)
    <3>1. CASE PutSession(t) \/ PutState(t)
      <4>1. /\ UNCHANGED <<exists, work_dirs, listed, made>> /\ (~ exists => external' = {})
            /\ req[t].stage = "put"
        BY <3>1 DEF PutSession, PutState, Ready
      <4> QED
        BY <2>0, <4>1 DEF Ready
    <3>2. CASE RemoveTree(t)
      BY <1>0, <2>0, <3>2 DEF RemoveTree, Goto, Request, Ready
    <3>3. CASE RemakeDir(t)
      BY <1>0, <2>0, <3>3 DEF RemakeDir, Goto, Request, Ready
    <3>4. CASE Unzip(t) \/ ClearExamples(t) \/ Fill(t)
      <4>1. /\ UNCHANGED <<exists, external, work_dirs, listed, made>>
            /\ req[t].stage \notin {"idle", "list", "create", "check", "dirs", "examples", "mkdir", "remake"}
        BY <3>4 DEF Unzip, ClearExamples, Fill
      <4> QED
        BY <2>1, <4>1 DEF Ready
    <3> QED
      BY <2>4, <3>1, <3>2, <3>3, <3>4 DEF Replace
  <2>5. CASE Save(t) \/ Look(t)
    <3>1. /\ UNCHANGED <<exists, external, work_dirs, listed, made>>
          /\ req[t].stage \notin {"idle", "list", "create", "check", "dirs", "examples", "mkdir", "remake"}
      BY <2>5 DEF Save, GetState, Collect, Look
    <3> QED
      BY <2>1, <3>1 DEF Ready
  <2>6. CASE ServiceFails(t)
    <3>1. /\ UNCHANGED <<work_dirs, listed, made>>
          /\ req[t].stage \notin {"examples", "mkdir", "remake"} /\ req'[t].stage = "idle"
          /\ ~ exists' => external' = {}
      BY <1>0, <2>6 DEF ServiceFails, Done, Idle, Asked, Ready
    <3> QED
      BY <2>0, <3>1 DEF Ready
  <2>7. ASSUME NEW kind, NEW f, Start(t, kind, f) PROVE Ready'
    BY <1>0, <2>1, <2>7 DEF Start, Asked
  <2> QED
    BY <1>1, <2>2, <2>3, <2>4, <2>5, <2>6, <2>7 DEF Step
<1>2. CASE Expire
  BY <1>2 DEF Expire, Ready
<1>3. CASE Restart
  BY <1>3 DEF Restart, Idle, Asked, Ready
<1>4. CASE UNCHANGED vars
  BY <1>4 DEF vars, Ready
<1>5. ASSUME NEW f, Upload(f) PROVE Ready'
  BY <1>5 DEF Upload, Ready
<1> QED
  BY <1>1, <1>2, <1>3, <1>4, <1>5 DEF Next, Step

-----------------------------------------------------------------------------
(* The files of the examples *)

\* The stages of a handler that is about to empty the list of examples.
Emptying == {"rmtree", "remake", "clear"}

\* Without a race each example is in the work directory, but for the handler
\* that empties the directory and then the list, and the file that is about to
\* be listed is there.
Disk ==
    "race" \notin since =>
      /\ (\A t \in Handler : req[t].stage \notin Emptying) => example_data \subseteq directory
      /\ \A t \in Handler : At(t, "record") => req[t].file \in directory

\* Every step keeps the files of the examples.
LEMMA DiskStep == Typed /\ Disk /\ [Next]_vars => Disk'
<1> SUFFICES ASSUME Typed, Disk, [Next]_vars, "race" \notin since' PROVE Disk'
  BY DEF Disk
<1> USE DEF At, serviceVars, appVars, uploadVars, Emptying
<1>0. req \in [Handler -> Request] /\ \A t \in Handler : Course(req[t])
  BY DEF Typed, TypeOK, Request, Courses
<1>1. CASE UNCHANGED vars
  BY <1>1 DEF vars, Disk
<1> SUFFICES ASSUME Next PROVE Disk'
  BY <1>1
<1>2. ~ Race /\ ~ Race'
  BY DEF Next, History, Causes
<1>a. CASE \E t \in Handler : Afresh(t)
  <2>1. PICK t \in Handler : Afresh(t)
    BY <1>a
  <2>2. req'[t].stage \in Emptying /\ Clearing(req[t]) /\ \A u \in Handler \ {t} : req'[u] = req[u]
    BY <2>1, AfreshStep
  <2>3. \A u \in Handler : req'[u].stage # "record"
    BY <1>0, <1>2, <2>2, AloneClearing DEF Uses, Course
  <2> QED
    BY <2>2, <2>3 DEF Disk
<1> SUFFICES ASSUME ~ \E t \in Handler : Afresh(t) PROVE Disk'
  BY <1>a
<1>b. "race" \notin since
  BY DEF Next, History
<1>3. /\ (\A t \in Handler : req[t].stage \notin Emptying) => example_data \subseteq directory
      /\ \A t \in Handler : At(t, "record") => req[t].file \in directory
  BY <1>b DEF Disk
<1>4. ASSUME NEW t \in Handler, Step(t) PROVE Disk'
  <2>0. \A u \in Handler \ {t} : req'[u] = req[u]
    BY <1>4, OthersStay DEF Typed
  <2>1. ASSUME req[t].stage \notin Emptying,
               directory \subseteq directory',
               example_data' \subseteq directory' \/ example_data' = example_data,
               req'[t].stage = "record" => req'[t].file \in directory'
        PROVE  Disk'
    BY <1>3, <2>0, <2>1 DEF Disk
  <2>2. CASE Current(t)
    <3>1. /\ req[t].stage \notin Emptying /\ directory' = directory
          /\ example_data' = example_data \/ example_data' = {}
      BY <2>2 DEF Current, List, Create, Check, SetWorkDir, SetExamples, MakeDir
    <3>2. Body(req[t].kind) \notin Emptying \cup {"record"}
      <4>1. req[t].kind \in {"ingest", "load", "save", "reset", "look"}
        BY <1>0 DEF Request, Kind
      <4> QED
        BY <4>1 DEF Body
    <3>3. req'[t].stage \notin Emptying \cup {"record"}
      BY <1>0, <2>2, <3>2
      DEF Current, List, Create, Check, SetWorkDir, SetExamples, MakeDir, Goto, Done, Idle, Asked,
          Request
    <3> QED
      BY <2>1, <3>1, <3>3
  <2>3. CASE Ingest(t)
    <3>1. CASE Record(t)
      <4>1. req[t].kind = "ingest" /\ req[t].stage = "record" /\ req[t].file \in directory
        BY <1>0, <1>3, <3>1 DEF Record, Course
      <4>2. \A u \in Handler : req[u].stage \notin Emptying
        BY <1>0, <1>2, <4>1 DEF Race, Clearing, Uses, Course
      <4>3. req'[t].stage \notin Emptying \cup {"record"}
        BY <1>0, <3>1 DEF Record, Goto, Done, Idle, Asked, Request
      <4>4. example_data' \subseteq directory' /\ directory' = directory
        BY <1>3, <3>1, <4>1, <4>2 DEF Record
      <4> QED
        BY <2>1, <4>1, <4>3, <4>4
    <3>2. CASE Rename(t)
      BY <1>0, <2>1, <3>2 DEF Rename, Goto, Done, Idle, Asked, Request
    <3>3. CASE Read(t, "uuid", "record") \/ Read(t, "bytes", "post")
      BY <1>0, <2>1, <3>3 DEF Read, Goto, Done, Idle, Asked, Request
    <3>4. CASE Path(t) \/ ClearCompleted(t) \/ PostExternal(t)
      BY <1>0, <2>1, <3>4 DEF Path, ClearCompleted, PostExternal, Goto, Done, Idle, Asked, Request
    <3> QED
      BY <2>3, <3>1, <3>2, <3>3, <3>4 DEF Ingest
  <2>4. CASE Replace(t)
    <3>1. CASE RemoveTree(t)
      <4>1. req'[t].stage = "remake"
        BY <1>0, <3>1 DEF RemoveTree, Goto, Request
      <4>2. Clearing(req[t])
        BY <1>0, <3>1 DEF RemoveTree, Course, Clearing
      <4>3. \A u \in Handler : req'[u].stage # "record"
        BY <1>0, <1>2, <2>0, <4>1, <4>2, AloneClearing DEF Uses, Course
      <4> QED
        BY <4>1, <4>3 DEF Disk
    <3>2. CASE RemakeDir(t)
      <4>1. req'[t].stage = "clear" /\ directory' = directory
        BY <1>0, <3>2 DEF RemakeDir, Goto, Request
      <4> QED
        BY <1>3, <2>0, <4>1 DEF Disk
    <3>3. CASE ClearExamples(t)
      <4>1. req'[t].stage # "record" /\ directory' = directory /\ example_data' = {}
        BY <1>0, <3>3 DEF ClearExamples, Goto, Done, Idle, Asked, Request
      <4> QED
        BY <1>3, <2>0, <4>1 DEF Disk
    <3>4. CASE Fill(t)
      <4>1. Clearing(req[t]) /\ req[t].stage = "fill"
        BY <1>0, <3>4 DEF Fill, Course, Clearing
      <4>2. \A u \in Handler : req[u].stage \notin Emptying
        BY <1>0, <1>2, <4>1, AloneClearing DEF Course, Clearing
      <4>3. req'[t].stage \notin Emptying \cup {"record"}
        BY <1>0, <3>4 DEF Fill, Goto, Done, Idle, Asked, Request
      <4>4. example_data \subseteq directory
        BY <1>3, <4>2
      <4>5. directory \subseteq directory' /\ example_data' \subseteq directory'
        <5>1. ASSUME NEW e, directory' \in {directory} \cup IF made THEN {directory \cup {e}} ELSE {},
                     UNCHANGED example_data
              PROVE  directory \subseteq directory' /\ example_data' \subseteq directory'
          BY <4>4, <5>1
        <5>2. ASSUME NEW e, directory' = directory \cup {e}, example_data' = example_data \cup {e}
              PROVE  directory \subseteq directory' /\ example_data' \subseteq directory'
          BY <4>4, <5>2
        <5>3. CASE UNCHANGED <<directory, example_data>>
          BY <4>4, <5>3
        <5> QED
          BY <3>4, <5>1, <5>2, <5>3, Zenon DEF Fill
      <4> QED
        BY <2>1, <4>1, <4>3, <4>5
    <3>5. CASE Unzip(t) \/ PutSession(t) \/ PutState(t)
      <4>1. req[t].stage \in {"unzip", "put"} /\ UNCHANGED <<directory, example_data>>
        BY <3>5 DEF Unzip, PutSession, PutState
      <4>2. req'[t].stage # "record"
        BY <1>0, <3>5 DEF Unzip, PutSession, PutState, Goto, Done, Idle, Asked, Request
      <4> QED
        BY <2>1, <4>1, <4>2
    <3> QED
      BY <2>4, <3>1, <3>2, <3>3, <3>4, <3>5 DEF Replace
  <2>5. CASE Save(t) \/ Look(t) \/ ServiceFails(t)
    BY <1>0, <2>1, <2>5
    DEF Save, GetState, Collect, Look, ServiceFails, Done, Idle, Asked, Request
  <2>6. ASSUME NEW kind, NEW f, Start(t, kind, f) PROVE Disk'
    BY <1>0, <2>1, <2>6 DEF Start, Asked, Request
  <2> QED
    BY <1>4, <2>2, <2>3, <2>4, <2>5, <2>6 DEF Step
<1>5. CASE Expire
  BY <1>3, <1>5 DEF Expire, Disk
<1>6. CASE Restart
  BY <1>6 DEF Restart, Idle, Asked, Disk
<1>7. ASSUME NEW f, Upload(f) PROVE Disk'
  BY <1>3, <1>7 DEF Upload, Disk
<1> QED
  BY <1>4, <1>5, <1>6, <1>7 DEF Next, Step

-----------------------------------------------------------------------------
(* The uploads *)

\* Without a race or a restart each uploaded file can be claimed, or has been by
\* the handler that is about to take it.
Claims ==
    excused \cap {"race", "restart"} = {} =>
      \A f \in uploads :
        \/ f \in completed
        \/ \E t \in Handler : req[t].file = f /\ req[t].stage \in {"rename", "unzip"}

\* A step that is not the app's restart takes no visit from that event, and the
\* restart does.
LEMMA NoRestart ==
    ASSUME Typed, History, "restart" \notin Causes PROVE ~ Restart
BY DEF Typed, TypeOK, History, Restart, Restarts, Takes, Causes, Event

\* Every step keeps the claims.
LEMMA ClaimsStep == Typed /\ Ready /\ Claims /\ [Next]_vars => Claims'
<1> SUFFICES ASSUME Typed, Ready, Claims, [Next]_vars, excused' \cap {"race", "restart"} = {} PROVE Claims'
  BY DEF Claims
<1> USE DEF At, serviceVars, appVars, uploadVars
<1>0. req \in [Handler -> Request] /\ \A t \in Handler : Course(req[t])
  BY DEF Typed, TypeOK, Request, Courses
<1>1. CASE UNCHANGED vars
  BY <1>1 DEF vars, Claims
<1> SUFFICES ASSUME Next PROVE Claims'
  BY <1>1
<1>2. ~ Race /\ excused \cap {"race", "restart"} = {} /\ ~ Restart
  <2>1. ~ Race /\ "restart" \notin Causes /\ excused \cap {"race", "restart"} = {}
    BY DEF Next, History, Causes
  <2> QED
    BY <2>1, NoRestart DEF Next
<1>3. \A f \in uploads :
        \/ f \in completed
        \/ \E t \in Handler : req[t].file = f /\ req[t].stage \in {"rename", "unzip"}
  BY <1>2 DEF Claims
<1>4. ASSUME NEW t \in Handler, Step(t) PROVE Claims'
  <2>0. \A u \in Handler \ {t} : req'[u] = req[u]
    BY <1>4, OthersStay DEF Typed
  <2>1. ASSUME req[t].stage \notin {"rename", "unzip"}, UNCHANGED <<uploads, completed>> PROVE Claims'
    BY <1>3, <2>0, <2>1 DEF Claims
  <2>2. CASE Current(t)
    BY <2>1, <2>2 DEF Current, List, Create, Check, SetWorkDir, SetExamples, MakeDir
  <2>3. CASE Ingest(t)
    <3>1. CASE ClearCompleted(t)
      <4>1. /\ uploads' = uploads
            /\ \/ completed' = completed
               \/ /\ completed' = completed \ {req[t].file} /\ req'[t].stage \in {"rename", "unzip"}
                  /\ req'[t].file = req[t].file
        BY <1>0, <3>1 DEF ClearCompleted, Goto, Request
      <4>2. uploads' = uploads /\ req[t].stage = "clear_completed"
        BY <3>1 DEF ClearCompleted
      <4> QED
        BY <1>3, <2>0, <4>1, <4>2 DEF Claims
    <3>2. CASE Rename(t)
      <4>1. req[t].kind = "ingest" /\ work_dirs /\ req[t].stage = "rename"
        BY <1>0, <3>2 DEF Rename, Course, Ready
      <4>2. \A u \in Handler : req[u].stage \notin {"examples", "mkdir", "remake"}
        BY <1>0, <1>2, <4>1 DEF Race, Clearing, Uses, Course
      <4>3. made
        BY <4>1, <4>2 DEF Ready
      <4>4. uploads' = uploads \ {req[t].file} /\ completed' = completed
        <5>1. CASE req[t].file \in uploads
          BY <3>2, <4>3, <5>1 DEF Rename
        <5>2. CASE req[t].file \notin uploads
          BY <3>2, <5>2 DEF Rename
        <5> QED
          BY <5>1, <5>2
      <4> QED
        BY <1>3, <2>0, <4>4 DEF Claims
    <3>3. CASE Path(t) \/ Read(t, "uuid", "record") \/ Record(t) \/ Read(t, "bytes", "post") \/ PostExternal(t)
      BY <2>1, <3>3 DEF Path, Read, Record, PostExternal
    <3> QED
      BY <2>3, <3>1, <3>2, <3>3 DEF Ingest
  <2>4. CASE Replace(t)
    <3>1. CASE Unzip(t)
      <4>1. uploads' = uploads \ {req[t].file} /\ completed' = completed
        BY <1>0, <3>1 DEF Unzip, Course
      <4> QED
        BY <1>3, <2>0, <4>1 DEF Claims
    <3>2. CASE PutSession(t) \/ RemoveTree(t) \/ RemakeDir(t) \/ ClearExamples(t) \/ Fill(t) \/ PutState(t)
      BY <2>1, <3>2 DEF PutSession, RemoveTree, RemakeDir, ClearExamples, Fill, PutState
    <3> QED
      BY <2>4, <3>1, <3>2 DEF Replace
  <2>5. CASE Save(t) \/ Look(t) \/ ServiceFails(t)
    BY <2>1, <2>5 DEF Save, GetState, Collect, Look, ServiceFails
  <2>6. ASSUME NEW kind, NEW f, Start(t, kind, f) PROVE Claims'
    BY <2>1, <2>6 DEF Start
  <2> QED
    BY <1>4, <2>2, <2>3, <2>4, <2>5, <2>6 DEF Step
<1>5. CASE Expire
  BY <1>3, <1>5 DEF Expire, Claims
<1>6. ASSUME NEW f, Upload(f) PROVE Claims'
  BY <1>3, <1>6 DEF Upload, Claims
<1> QED
  BY <1>2, <1>4, <1>5, <1>6 DEF Next, Step

-----------------------------------------------------------------------------
(* The service's positives *)

\* A handler is between the removal of the examples and its call to the service.
Refilling(r) == r.kind = "load" /\ r.stage \in {"remake", "clear", "fill", "put"}

\* What a handler has taken along is what it will need.
Carries(r) ==
    /\ r.stage \in {"bytes", "post"} => r.file \in example_data
    /\ r.kind = "load" /\ r.stage \in {"remake", "clear"} => r.external \subseteq r.working
    /\ r.kind = "load" /\ r.stage = "fill" => r.external \subseteq example_data \cup r.working
    /\ r.kind = "load" /\ r.stage = "put" => r.external \subseteq example_data
    /\ r.kind = "reset" /\ r.stage \in {"rmtree", "remake", "clear"} => external = {}
    /\ r.stage \in {"dirs", "examples"} => external = {}
    /\ r.stage = "collect" => r.external \subseteq example_data

\* Since the examples were last replaced, and until there is a cause, the
\* service's positives are the app's examples, but while a handler fills them in
\* again.
Positives ==
    since = {} =>
      /\ external \subseteq example_data \/ \E t \in Handler : Refilling(req[t])
      /\ \A t \in Handler : Carries(req[t])
      /\ ~ work_dirs => external = {}

\* A load or a reset that begins to replace the examples by itself makes good
\* whatever there was before.
LEMMA AfreshPositives ==
    ASSUME Typed, Ready, Next, ~ Race, "short" \notin Causes, NEW t \in Handler, Afresh(t)
    PROVE  Positives'
<1>0. req \in [Handler -> Request] /\ \A u \in Handler : Course(req[u])
  BY DEF Typed, TypeOK, Request, Courses
<1>1. Clearing(req[t]) /\ \A u \in Handler \ {t} : req'[u] = req[u]
  BY AfreshStep
<1>2. \A u \in Handler \ {t} : Carries(req[u])'
  <2>1. ASSUME NEW u \in Handler \ {t}
        PROVE  req[u].stage \notin {"bytes", "post", "collect", "rmtree", "remake", "clear", "fill",
                                  "put", "dirs", "examples"}
    <3>1. ~ Clearing(req[u]) /\ ~ Uses(req[u])
      BY <1>1, AloneClearing
    <3> QED
      BY <1>0, <3>1 DEF Clearing, Uses, Course
  <2> QED
    BY <1>1, <2>1 DEF Carries
<1>3. work_dirs
  BY <1>1 DEF Ready, Clearing, Afresh, Loads
<1> USE DEF serviceVars, appVars, uploadVars
<1>4. CASE RemoveTree(t) /\ req[t].kind = "load" /\ req'[t] = [req[t] EXCEPT !.stage = "remake"]
  <2>1. req'[t].stage = "remake" /\ req'[t].kind = "load" /\ UNCHANGED work_dirs
        /\ req'[t].external = req[t].external /\ req'[t].working = req[t].working
    BY <1>0, <1>4 DEF RemoveTree, Request
  <2>2. req[t].external \subseteq req[t].working
    BY <1>4, <2>1 DEF Causes, LoadsShort, Loads, RemoveTree, At
  <2>3. Carries(req[t])' /\ Refilling(req[t])'
    BY <2>1, <2>2 DEF Carries, Refilling
  <2> QED
    BY <1>2, <1>3, <2>1, <2>3 DEF Positives
<1>5. CASE PutSession(t) /\ req'[t] = [req[t] EXCEPT !.stage = "rmtree"]
  <2>1. req'[t].stage = "rmtree" /\ req'[t].kind = "reset" /\ external' = {}
    BY <1>0, <1>5 DEF PutSession, Request
  <2>2. Carries(req[t])'
    BY <2>1 DEF Carries
  <2> QED
    BY <1>2, <2>1, <2>2 DEF Positives
<1> QED
  BY <1>4, <1>5, AfreshStep

\* Every step keeps the positives.
LEMMA PositivesStep == Typed /\ Ready /\ Positives /\ [Next]_vars => Positives'
<1> SUFFICES ASSUME Typed, Ready, Positives, [Next]_vars, since' = {} PROVE Positives'
  BY DEF Positives
<1> USE DEF At, serviceVars, appVars, uploadVars
<1>0. req \in [Handler -> Request] /\ \A t \in Handler : Course(req[t])
  BY DEF Typed, TypeOK, Request, Courses
<1>1. CASE UNCHANGED vars
  BY <1>1 DEF vars, Positives, Carries, Refilling
<1> SUFFICES ASSUME Next PROVE Positives'
  BY <1>1
<1>2. ~ Race /\ ~ Race' /\ ~ Restart /\ Causes = {}
  <2>1. History /\ Causes = {}
    BY DEF Next, History
  <2> QED
    BY <2>1, NoRestart DEF Causes
<1>a. CASE \E t \in Handler : Afresh(t)
  BY <1>2, <1>a, AfreshPositives
<1> SUFFICES ASSUME ~ \E t \in Handler : Afresh(t) PROVE Positives'
  BY <1>a
<1>b. since = {}
  BY DEF Next, History
<1>3. /\ external \subseteq example_data \/ \E t \in Handler : Refilling(req[t])
      /\ \A t \in Handler : Carries(req[t])
      /\ ~ work_dirs => external = {}
  BY <1>b DEF Positives
<1>4. ASSUME NEW t \in Handler, Step(t) PROVE Positives'
  <2>0. \A u \in Handler \ {t} : req'[u] = req[u]
    BY <1>4, OthersStay DEF Typed
  \* Steps that change neither the positives nor the examples.
  <2>1. ASSUME UNCHANGED <<external, example_data>>, work_dirs => work_dirs',
               ~ Refilling(req[t]), Carries(req[t])'
        PROVE  Positives'
    BY <1>3, <2>0, <2>1 DEF Positives, Carries, Refilling
  \* Steps that replace the examples: no other handler needs them.
  <2>2. ASSUME Clearing(req[t]) PROVE \A u \in Handler \ {t} : /\ ~ Refilling(req[u])
                                                            /\ req[u].stage \notin {"bytes", "post", "collect"}
                                                            /\ ~ Clearing(req[u])
    <3>1. ASSUME NEW u \in Handler \ {t} PROVE ~ Clearing(req[u]) /\ ~ Uses(req[u])
      BY <1>2, <2>2, AloneClearing
    <3> QED
      BY <1>0, <3>1 DEF Refilling, Clearing, Uses, Course
  <2>3. ASSUME req[t].kind \in {"ingest", "save"}, req[t].stage \notin {"idle", "list", "create", "check"}
        PROVE  \A u \in Handler : ~ Clearing(req[u]) \/ u = t
    BY <1>2, <2>3 DEF Race, Uses
  <2>4. CASE Current(t)
    <3>1. CASE List(t)
      BY <1>0, <2>1, <3>1 DEF List, Goto, Request, Carries, Refilling
    <3>2. CASE Create(t)
      <4>1. req'[t].stage = "dirs" => external = {}
        BY <1>0, <3>2 DEF Create, Goto, Done, Idle, Asked, Request, Ready
      <4>2. req'[t].stage \in {"idle", "dirs"}
        BY <1>0, <3>2 DEF Create, Goto, Done, Idle, Asked, Request
      <4> QED
        BY <1>0, <2>1, <3>2, <4>1, <4>2 DEF Create, Carries, Refilling
    <3>3. CASE Check(t)
      <4>1. req'[t].stage = "dirs" => external = {}
        BY <1>0, <1>3, <3>3 DEF Check, Goto, Request, Body, Kind
      <4>2. req'[t].stage \in {"dirs", "path", "state", "put", "session"} /\ req'[t].kind = req[t].kind
            /\ (req'[t].stage = "put" => req[t].kind = "reset")
        <5>1. req[t].kind \in Kind
          BY <1>0 DEF Request
        <5> QED
          BY <1>0, <3>3, <5>1, BodyFacts DEF Check, Goto, Request, Kind
      <4> QED
        BY <1>0, <2>1, <3>3, <4>1, <4>2 DEF Check, Carries, Refilling
    <3>4. CASE SetWorkDir(t)
      BY <1>0, <1>3, <2>1, <3>4 DEF SetWorkDir, Goto, Request, Carries, Refilling
    <3>5. CASE SetExamples(t)
      <4>1. /\ external = {} /\ Clearing(req[t]) /\ req'[t].stage = "mkdir" /\ example_data' = {}
            /\ UNCHANGED <<external>>
        BY <1>0, <1>3, <3>5 DEF SetExamples, Goto, Request, Carries, Clearing
      <4>2. \A u \in Handler \ {t} : Carries(req[u])'
        BY <1>3, <2>0, <2>2, <4>1 DEF Carries, Clearing, Refilling
      <4>3. Carries(req[t])'
        BY <4>1 DEF Carries
      <4> QED
        BY <1>3, <4>1, <4>2, <4>3 DEF Positives
    <3>6. CASE MakeDir(t)
      <4>1. req'[t].stage \in {"path", "state", "put", "session"} /\ req'[t].kind = req[t].kind
            /\ (req'[t].stage = "put" => req[t].kind = "reset")
        <5>1. req[t].kind \in Kind
          BY <1>0 DEF Request
        <5> QED
          BY <1>0, <3>6, <5>1, BodyFacts DEF MakeDir, Goto, Request, Kind
      <4> QED
        BY <1>0, <2>1, <3>6, <4>1 DEF MakeDir, Carries, Refilling
    <3> QED
      BY <2>4, <3>1, <3>2, <3>3, <3>4, <3>5, <3>6 DEF Current
  <2>5. CASE Ingest(t)
    <3>1. CASE Record(t)
      <4>1. /\ example_data \subseteq example_data' /\ UNCHANGED <<external, work_dirs>>
            /\ req'[t].stage \in {"bytes", "idle"} /\ req[t].stage = "record"
            /\ (req'[t].stage = "bytes" => req'[t].file \in example_data')
        BY <1>0, <3>1 DEF Record, Goto, Done, Idle, Asked, Request
      <4>2. \A u \in Handler \ {t} : Carries(req[u])'
        BY <1>3, <2>0, <4>1 DEF Carries
      <4>3. Carries(req[t])' /\ ~ Refilling(req[t])
        BY <4>1 DEF Carries, Refilling
      <4> QED
        BY <1>3, <2>0, <4>1, <4>2, <4>3 DEF Positives, Refilling
    <3>2. CASE PostExternal(t)
      <4>1. /\ req[t].kind = "ingest" /\ req[t].file \in example_data /\ req[t].stage = "post" /\ work_dirs
        BY <1>0, <1>3, <3>2 DEF PostExternal, Course, Carries, Ready
      <4>2. \A u \in Handler : ~ Clearing(req[u])
        BY <2>3, <4>1 DEF Clearing
      <4>3. external' \subseteq example_data /\ UNCHANGED <<example_data, work_dirs>>
        BY <1>0, <1>3, <3>2, <4>1, <4>2 DEF PostExternal, Refilling, Clearing
      <4>4. \A u \in Handler : Carries(req[u])'
        <5>1. req'[t].stage = "idle"
          BY <1>0, <3>2 DEF PostExternal, Done, Idle, Asked
        <5> QED
          BY <1>3, <2>0, <4>2, <4>3, <5>1 DEF Carries, Clearing
      <4> QED
        BY <1>3, <4>1, <4>3, <4>4 DEF Positives
    <3>3. CASE Path(t) \/ ClearCompleted(t) \/ Rename(t) \/ Read(t, "uuid", "record")
      BY <1>0, <2>1, <3>3
      DEF Path, ClearCompleted, Rename, Read, Goto, Done, Idle, Asked, Request, Carries, Refilling
    <3>4. CASE Read(t, "bytes", "post")
      BY <1>0, <1>3, <2>1, <3>4 DEF Read, Goto, Done, Idle, Asked, Request, Carries, Refilling
    <3> QED
      BY <2>5, <3>1, <3>2, <3>3, <3>4 DEF Ingest
  <2>6. CASE Replace(t)
    <3>1. CASE Unzip(t)
      <4>1. UNCHANGED <<external, example_data, work_dirs>> /\ req[t].stage = "unzip"
        BY <3>1 DEF Unzip
      <4>2. \/ req'[t].stage = "idle"
            \/ req'[t].stage = "rmtree" /\ req'[t].kind = "load"
        BY <1>0, <3>1 DEF Unzip, Done, Idle, Asked
      <4>3. Carries(req[t])' /\ ~ Refilling(req[t])
        BY <4>1, <4>2 DEF Carries, Refilling
      <4> QED
        BY <2>1, <4>1, <4>3
    <3>2. CASE PutSession(t)
      <4>1. /\ external' = {} /\ UNCHANGED <<example_data, work_dirs>>
            /\ req[t].kind = "reset" /\ req'[t].stage \in {"rmtree", "idle"}
            /\ (req'[t].stage # "idle" => req'[t].kind = "reset")
        BY <1>0, <3>2 DEF PutSession, Goto, Done, Idle, Asked, Request
      <4>2. \A u \in Handler : Carries(req[u])'
        BY <1>3, <2>0, <4>1 DEF Carries
      <4> QED
        BY <1>3, <4>1, <4>2 DEF Positives
    <3>3. CASE RemoveTree(t) \/ RemakeDir(t)
      <4>1. /\ UNCHANGED <<external, example_data, work_dirs>>
            /\ req[t].stage \in {"rmtree", "remake"} /\ req[t].kind \in {"load", "reset"}
            /\ req'[t] = [req[t] EXCEPT !.stage = IF req[t].stage = "rmtree" THEN "remake" ELSE "clear"]
        BY <1>0, <3>3 DEF RemoveTree, RemakeDir, Goto, Course
      <4>2. /\ req'[t].stage = IF req[t].stage = "rmtree" THEN "remake" ELSE "clear"
            /\ req'[t].kind = req[t].kind /\ req'[t].external = req[t].external
            /\ req'[t].working = req[t].working
        BY <1>0, <4>1 DEF Request
      <4>3. req[t].kind = "load" => req[t].stage = "remake"
        BY <4>1, <4>2 DEF Afresh, Loads
      <4>4. Carries(req[t])'
        BY <1>3, <4>1, <4>2, <4>3 DEF Carries
      <4>5. req[t].kind = "load" => Refilling(req[t])'
        BY <4>1, <4>2, <4>3 DEF Refilling
      <4>6. \A u \in Handler \ {t} : Carries(req[u])' /\ (Refilling(req[u]) => Refilling(req[u])')
        BY <1>3, <2>0, <4>1 DEF Carries, Refilling
      <4>7. ~ Refilling(req[t]) => external \subseteq example_data \/ \E u \in Handler \ {t} : Refilling(req[u])
        BY <1>3
      <4>8. Refilling(req[t]) => Refilling(req[t])'
        BY <4>5 DEF Refilling
      <4> QED
        BY <1>3, <4>1, <4>4, <4>6, <4>7, <4>8 DEF Positives
    <3>4. CASE ClearExamples(t)
      <4>1. /\ Clearing(req[t]) /\ req[t].stage = "clear" /\ req[t].kind \in {"load", "reset"}
            /\ example_data' = {} /\ UNCHANGED <<external, work_dirs>>
        BY <1>0, <3>4 DEF ClearExamples, Course, Clearing
      <4>2. listed
        BY <1>0, <2>2, <4>1 DEF Ready, Clearing
      <4>3. \A u \in Handler \ {t} : Carries(req[u])'
        BY <1>3, <2>0, <2>2, <4>1 DEF Carries, Refilling, Clearing
      <4>4. CASE req[t].kind = "load"
        <5>1. /\ req'[t].stage = "fill" /\ req'[t].kind = "load" /\ req'[t].external = req[t].external
              /\ req'[t].working = req[t].working
          <6>1. ~ Done(t)
            BY <1>0, <1>2, <4>1, <4>4 DEF Done, Idle, Asked, Causes, Abandons, Leaves
          <6> QED
            BY <1>0, <3>4, <6>1 DEF ClearExamples, Goto, Request
        <5>2. Carries(req[t])'
          BY <1>3, <4>1, <4>4, <5>1 DEF Carries
        <5>3. Refilling(req[t])'
          BY <5>1 DEF Refilling
        <5> QED
          BY <1>3, <4>1, <4>3, <5>2, <5>3 DEF Positives
      <4>5. CASE req[t].kind = "reset"
        <5>1. req'[t].stage = "idle"
          BY <1>0, <3>4, <4>5 DEF ClearExamples, Done, Idle, Asked
        <5>2. external = {} /\ Carries(req[t])'
          BY <1>3, <4>1, <4>5, <5>1 DEF Carries
        <5> QED
          BY <1>3, <4>1, <4>3, <5>2 DEF Positives
      <4> QED
        BY <4>1, <4>4, <4>5
    <3>5. CASE Fill(t)
      <4>1. /\ Clearing(req[t]) /\ req[t].stage = "fill" /\ req[t].kind = "load" /\ work_dirs
            /\ UNCHANGED <<external, work_dirs>>
        BY <1>0, <3>5 DEF Fill, Course, Clearing, Ready
      <4>3. /\ example_data \subseteq example_data' /\ req'[t].kind = "load"
            /\ req'[t].external = req[t].external
            /\ \/ req'[t].stage = "put" /\ req[t].working = {}
               \/ /\ req'[t].stage = "fill"
                  /\ req[t].working \subseteq example_data' \cup req'[t].working
        <5>1. ~ Done(t)
          BY <1>0, <1>2, <4>1 DEF Done, Idle, Asked, Causes, Abandons, Leaves
        <5> QED
          BY <1>0, <3>5, <4>1, <5>1 DEF Fill, Goto, Request
      <4>4. Carries(req[t])' /\ Refilling(req[t])'
        BY <1>3, <4>1, <4>3 DEF Carries, Refilling
      <4>5. \A u \in Handler \ {t} : Carries(req[u])'
        BY <1>3, <2>0, <4>1, <4>3 DEF Carries
      <4> QED
        BY <1>3, <4>1, <4>4, <4>5 DEF Positives
    <3>6. CASE PutState(t)
      <4>1. /\ Clearing(req[t]) /\ req[t].stage = "put" /\ req[t].kind = "load" /\ work_dirs
            /\ UNCHANGED <<example_data, work_dirs>> /\ req'[t].stage = "idle"
        BY <1>0, <3>6 DEF PutState, Clearing, Ready, Done, Idle, Asked
      <4>2. external' \subseteq example_data'
        BY <1>0, <1>3, <3>6, <4>1 DEF PutState, Carries, Ready
      <4>3. \A u \in Handler \ {t} : Carries(req[u])'
        BY <1>3, <2>0, <2>2, <4>1 DEF Carries, Refilling, Clearing
      <4>4. Carries(req[t])'
        BY <4>1 DEF Carries
      <4> QED
        BY <1>3, <4>1, <4>2, <4>3, <4>4 DEF Positives
    <3> QED
      BY <2>6, <3>1, <3>2, <3>3, <3>4, <3>5, <3>6 DEF Replace
  <2>7. CASE Save(t)
    <3>1. CASE GetState(t)
      <4>1. req[t].kind = "save" /\ req[t].stage = "state" /\ UNCHANGED <<external, example_data, work_dirs>>
        BY <1>0, <3>1 DEF GetState, Course
      <4>2. external \subseteq example_data
        BY <1>3, <2>3, <4>1 DEF Refilling, Clearing
      <4>3. Carries(req[t])'
        BY <1>0, <3>1, <4>1, <4>2 DEF GetState, Done, Idle, Asked, Request, Carries
      <4>4. \A u \in Handler \ {t} : Carries(req[u])'
        BY <1>3, <2>0, <4>1 DEF Carries
      <4> QED
        BY <1>3, <4>1, <4>2, <4>3, <4>4 DEF Positives
    <3>2. CASE Collect(t)
      <4>1. /\ UNCHANGED <<external, example_data, work_dirs>> /\ req[t].stage = "collect"
            /\ req'[t].stage = "idle"
        BY <1>0, <3>2 DEF Collect, Done, Idle, Asked
      <4>2. Carries(req[t])' /\ ~ Refilling(req[t])
        BY <4>1 DEF Carries, Refilling
      <4> QED
        BY <2>1, <4>1, <4>2
    <3> QED
      BY <2>7, <3>1, <3>2 DEF Save
  <2>8. CASE Look(t)
    BY <1>0, <2>1, <2>8 DEF Look, Done, Idle, Asked, Carries, Refilling
  <2>9. CASE ServiceFails(t)
    <3>1. /\ UNCHANGED <<example_data, work_dirs>> /\ req'[t].stage = "idle"
          /\ req[t].stage \in {"list", "create", "post", "put", "state", "session"}
      BY <1>0, <2>9 DEF ServiceFails, Done, Idle, Asked
    <3>2. Carries(req[t])'
      BY <3>1 DEF Carries
    <3>3. CASE UNCHANGED external /\ ~ Refilling(req[t])
      BY <2>1, <3>1, <3>2, <3>3 DEF Carries
    <3>4. CASE Refilling(req[t])
      <4>1. external' \subseteq req[t].external /\ req[t].stage = "put" /\ req[t].kind = "load"
        BY <1>2, <3>1, <3>4 DEF Refilling, Causes, Refuses, Leaves
      <4>2. Clearing(req[t]) /\ work_dirs
        BY <1>0, <4>1 DEF Clearing, Ready
      <4>3. \A u \in Handler \ {t} : Carries(req[u])'
        BY <1>3, <2>0, <2>2, <3>1, <4>2 DEF Carries, Refilling, Clearing
      <4>4. external' \subseteq example_data'
        BY <1>3, <3>1, <4>1 DEF Carries
      <4> QED
        BY <1>3, <3>1, <3>2, <4>2, <4>3, <4>4 DEF Positives
    <3>5. CASE req[t].stage = "post" /\ external' = external \cup {req[t].file}
      <4>1. req[t].kind = "ingest" /\ req[t].file \in example_data /\ work_dirs
        BY <1>0, <1>3, <3>5 DEF Course, Carries, Ready
      <4>2. \A u \in Handler : ~ Clearing(req[u])
        BY <2>3, <3>5, <4>1 DEF Clearing
      <4>3. external' \subseteq example_data'
        BY <1>3, <3>1, <3>5, <4>1, <4>2 DEF Refilling, Clearing
      <4>4. \A u \in Handler \ {t} : Carries(req[u])'
        BY <1>3, <2>0, <3>1, <4>2 DEF Carries, Clearing
      <4> QED
        BY <1>3, <3>1, <3>2, <4>1, <4>3, <4>4 DEF Positives
    <3>6. CASE req[t].stage = "put" /\ req[t].kind = "reset" /\ external' = {}
      <4>1. \A u \in Handler \ {t} : Carries(req[u])'
        BY <1>3, <2>0, <3>1, <3>6 DEF Carries
      <4> QED
        BY <1>3, <3>1, <3>2, <3>6, <4>1 DEF Positives
    <3>7. req[t].stage = "put" => \/ req[t].kind = "load"
                                 \/ /\ req[t].kind = "reset"
                                    /\ req[t].external = {}
      <4>1. Course(req[t])
        BY <1>0
      <4> QED
        BY <4>1 DEF Course
    <3>8. req[t].stage = "put" /\ req[t].kind = "load" => Refilling(req[t])
      BY DEF Refilling
    <3> QED
      BY <2>9, <3>3, <3>4, <3>5, <3>6, <3>7, <3>8 DEF ServiceFails, Refilling
  <2>10. ASSUME NEW kind, NEW f, Start(t, kind, f) PROVE Positives'
    BY <1>0, <2>1, <2>10 DEF Start, Asked, Request, Carries, Refilling
  <2> QED
    BY <1>4, <2>4, <2>5, <2>6, <2>7, <2>8, <2>9, <2>10 DEF Step
<1>5. CASE Expire
  BY <1>3, <1>5 DEF Expire, Positives, Carries, Refilling
<1>6. ASSUME NEW f, Upload(f) PROVE Positives'
  BY <1>3, <1>6 DEF Upload, Positives, Carries, Refilling
<1> QED
  BY <1>2, <1>4, <1>5, <1>6 DEF Next, Step

-----------------------------------------------------------------------------
(* The theorems *)

\* The inductive invariant.
IInv == Typed /\ Ready /\ Disk /\ Claims /\ Positives

\* The inductive invariant holds throughout.
THEOREM Invariant == Spec => []IInv
<1>1. Init => IInv
  <2> SUFFICES ASSUME Init PROVE IInv
    OBVIOUS
  <2>1. Idle \in Request /\ Course(Idle) /\ Idle.stage = "idle"
    BY DEF Idle, Asked, Request, Kind, Stage, File, Course
  <2>2. Typed
    BY <2>1, VisitsAssumption
    DEF Init, Typed, TypeOK, Courses, FillsEntry, At, Request, Package, File
  <2>3. Ready /\ Disk /\ Claims /\ Positives
    BY <2>1 DEF Init, Ready, Disk, Claims, Positives, Carries, At
  <2> QED
    BY <2>2, <2>3 DEF IInv
<1>2. IInv /\ [Next]_vars => IInv'
  BY TypedStep, ReadyStep, DiskStep, ClaimsStep, PositivesStep DEF IInv
<1> QED
  BY <1>1, <1>2, PTL DEF Spec

\* The app keeps the values its code assigns it.
THEOREM TypeCorrect == Spec => []TypeOK
BY Invariant, PTL DEF IInv, Typed

\* At rest, and until there is a cause for it, each external positive of the
\* service is an example the app can show.
THEOREM PositivesAreShown == Spec => []PositivesShown
<1>1. IInv => PositivesShown
  BY DEF IInv, Positives, PositivesShown, Quiet, Active, Refilling
<1> QED
  BY <1>1, Invariant, PTL

\* At rest, and unless requests have raced, the work directory has the file of
\* each example.
THEOREM ExamplesAreOnDisk == Spec => []ExamplesOnDisk
<1>1. IInv => ExamplesOnDisk
  BY DEF IInv, Disk, Emptying, ExamplesOnDisk, Quiet, Active
<1> QED
  BY <1>1, Invariant, PTL

\* At rest, and unless requests have raced or the app was restarted, an upload
\* that is still there can be claimed.
THEOREM UploadsStayClaimable == Spec => []UploadsClaimable
<1>1. IInv => UploadsClaimable
  BY DEF IInv, Claims, UploadsClaimable, Quiet, Active
<1> QED
  BY <1>1, Invariant, PTL

\* Nothing but get_iqr_state makes a state file.
LEMMA PackageSteps ==
    ASSUME Next, package' # package
    PROVE  \E t \in Handler :
              req[t].stage = "collect" /\ package' = [external |-> req[t].external, working |-> example_data]
<1>1. ASSUME NEW t \in Handler, Step(t), ~ Collect(t) PROVE FALSE
  BY <1>1
  DEF Step, Start, Current, List, Create, Check, SetWorkDir, SetExamples, MakeDir,
      Ingest, Path, ClearCompleted, Rename, Read, Record, PostExternal,
      Replace, Unzip, PutSession, RemoveTree, RemakeDir, ClearExamples, Fill, PutState,
      Save, GetState, Look, ServiceFails
<1>2. ~ Expire /\ ~ Restart /\ ~ \E f \in File : Upload(f)
  BY DEF Expire, Restart, Upload
<1>3. PICK t \in Handler : Collect(t)
  BY <1>1, <1>2 DEF Next, Step
<1> QED
  BY <1>3 DEF Collect, At

\* Since the examples were last replaced and until there is a cause for it, a
\* state that is saved has the data of all its external positives.
THEOREM SavedStatesAreWhole == Spec => SavedStateIsWhole
<1>1. IInv /\ [Next]_vars
        => [since = {} /\ package' # package => package'.external \subseteq package'.working]_vars
  <2> SUFFICES ASSUME IInv, Next, since = {}, package' # package
               PROVE  package'.external \subseteq package'.working
    BY DEF vars
  <2>1. PICK t \in Handler :
           req[t].stage = "collect" /\ package' = [external |-> req[t].external, working |-> example_data]
    BY PackageSteps
  <2>2. Carries(req[t])
    BY DEF IInv, Positives
  <2> QED
    BY <2>1, <2>2 DEF Carries
<1> QED
  BY <1>1, Invariant, PTL DEF Spec, SavedStateIsWhole
=============================================================================
