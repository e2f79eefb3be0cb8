----------------------------- MODULE IqrService -----------------------------
(***************************************************************************)
(* The REST service (smqtk_iqr/web/iqr_service/iqr_server.py): request     *)
(* threads that go through the session registry of IqrController, the lock *)
(* of each session, and the three maps of session classifiers, cached      *)
(* scores and dirty flags, which the expiration thread also changes.       *)
(*                                                                         *)
(* Every handler of an existing session starts alike: it takes the         *)
(* controller, looks the session up, takes the session's lock, gives the   *)
(* controller back, and then does its work.  The admission is modelled     *)
(* once, and what the work does is chosen when it is done.  Of the session *)
(* only the labels matter here: the classifier is trained on them.  What   *)
(* the handlers of IqrSession's other methods do to it (POST /initialize,  *)
(* POST /refine, the views) is that module's, and is Look here.            *)
(***************************************************************************)
EXTENDS Labels, FiniteSets, Functions

CONSTANTS
    Session, Instance, Caller, Monitor, Timeout, MaxTime, ExpireEnabled,
    Indexed,      \* the descriptors of the service's descriptor set
    External,     \* those external data may be described by
    Mismatched,   \* uuids whose stored vector is not the saved one
    SavedStates,  \* the states PUT /state is given
    None

ASSUME RegistryAssumption ==
    /\ Timeout \subseteq Nat /\ MaxTime \in Nat
    /\ Caller \cap Monitor = {}
    /\ None \notin Caller \cup Monitor \cup Instance
    /\ ExpireEnabled \in BOOLEAN
ASSUME LabelledAssumption ==
    /\ Indexed \cup External \cup Mismatched \subseteq Descriptor
    /\ \A s \in SavedStates : s \in LabelSets /\ Apart(s)
    /\ None \notin [pos : SUBSET Descriptor, neg : SUBSET Descriptor]

VARIABLES
    clock, sessions, timeouts, last_access, map_lock, stop_event,
    expire_thread, monitor, caller,
    session_lock, \* who holds the lock of each IqrSession object
    labels,       \* the labels of each object
    classifiers,  \* session_classifiers: uuid -> what it was trained on, or None
    scored_by,    \* session_classification_results: uuid -> the classifiers
                  \* whose scores are cached
    dirty,        \* session_classifier_dirty: uuid -> whether to train again
    request       \* what each thread is serving: the stage, uuid and object

C == INSTANCE IqrController

registry == <<clock, sessions, timeouts, last_access, map_lock, stop_event,
              expire_thread, monitor, caller>>
classifier_maps == <<classifiers, scored_by, dirty>>
vars == <<registry, session_lock, labels, classifier_maps, request>>

\* The statuses are 2xx, 400 and 404, 409 ("conflict"), and 500 ("failed").
Idle(status) == [stage |-> "idle", sid |-> None, target |-> None, status |-> status]

Serving(stage, s, i) == [stage |-> stage, sid |-> s, target |-> i, status |-> "none"]

Init ==
    /\ C!Init
    /\ session_lock = [i \in Instance |-> None]
    /\ labels = [i \in Instance |-> NoLabels]
    /\ classifiers = C!NoMap /\ scored_by = C!NoMap /\ dirty = C!NoMap
    /\ request = [c \in Caller |-> Idle("none")]

AtStage(c, stage) == request[c].stage = stage

Goes(c, stage) == request' = [request EXCEPT ![c].stage = stage]

Answers(c, status) == request' = [request EXCEPT ![c] = Idle(status)]

-----------------------------------------------------------------------------
(* Admission: with self.controller, in every handler of a session *)

Begin(c, s, stage) ==
    /\ AtStage(c, "idle")
    /\ C!Enter(c)
    /\ request' = [request EXCEPT ![c] = Serving(stage, s, None)]
    /\ UNCHANGED <<session_lock, labels, classifier_maps>>

NotFound(c) ==
    /\ request[c].stage \in {"use", "delete"}
    /\ request[c].sid \notin DOMAIN sessions
    /\ C!Exit(c)
    /\ Answers(c, "refused")
    /\ UNCHANGED <<session_lock, labels, classifier_maps>>

Find(c) ==
    /\ request[c].stage \in {"use", "delete"}
    /\ C!GetSession(c, request[c].sid)
    /\ LET next == IF AtStage(c, "use") THEN "locking" ELSE "clearing"
       IN request' = [request EXCEPT ![c] = Serving(next, @.sid, sessions[@.sid])]
    /\ UNCHANGED <<session_lock, labels, classifier_maps>>

\* (Mutant.) The controller is not given back.
LockKeepsController(c) ==
    /\ AtStage(c, "locking")
    /\ session_lock[request[c].target] = None
    /\ session_lock' = [session_lock EXCEPT ![request[c].target] = c]
    /\ Goes(c, "working")
    /\ UNCHANGED <<registry, labels, classifier_maps>>

\* "lock BEFORE releasing controller": the controller stays taken while the
\* thread waits for the session.
Lock(c) ==
    /\ AtStage(c, "locking")
    /\ session_lock[request[c].target] = None
    /\ session_lock' = [session_lock EXCEPT ![request[c].target] = c]
    /\ C!Exit(c)
    /\ Goes(c, "working")
    /\ UNCHANGED <<labels, classifier_maps>>

-----------------------------------------------------------------------------
(* The work of each handler, up to the release of the session's lock *)

Finishes(c, status) ==
    /\ session_lock' = [session_lock EXCEPT ![request[c].target] = None]
    /\ Answers(c, status)
    /\ UNCHANGED registry

Labelled(c, new) == labels' = [labels EXCEPT ![request[c].target] = new]

MarkDirty(c) == dirty' = [dirty EXCEPT ![request[c].sid] = TRUE]

\* The handlers that change neither labels nor maps: every GET but /classify,
\* POST /initialize, POST /refine, and the failures of the others.
Look(c, status) ==
    /\ Finishes(c, status)
    /\ UNCHANGED <<labels, classifier_maps>>

\* (Mutant.) The classifier is not marked dirty.
AddExternalClean(c, positive, negative) ==
    /\ Finishes(c, "ok")
    /\ Labelled(c, WithExternal(labels[request[c].target], positive, negative))
    /\ UNCHANGED classifier_maps

AddExternal(c, positive, negative) ==
    /\ Finishes(c, "ok")
    /\ Labelled(c, WithExternal(labels[request[c].target], positive, negative))
    /\ MarkDirty(c)
    /\ UNCHANGED <<classifiers, scored_by>>

\* Neutral uuids are withdrawn from both sides.  The classifier is dirty only
\* if either set really changed.
Adjudicate(c, pos, neg, neu) ==
    LET old == labels[request[c].target]
        new == Adjudicated(old, pos, neg, neu, neu)
    IN /\ Finishes(c, "ok")
       /\ Labelled(c, new)
       /\ IF new # old THEN MarkDirty(c) ELSE UNCHANGED dirty
       /\ UNCHANGED <<classifiers, scored_by>>

\* _ensure_session_classifier: trained again when dirty or missing.  A uuid
\* outside the descriptor set is found out only after the training, before any
\* score is computed.
Classify(c, uuids) ==
    LET s       == request[c].sid
        now     == labels[request[c].target]
        trains  == dirty[s] \/ classifiers[s] = None
        used    == IF trains THEN [pos |-> Positives(now), neg |-> Negatives(now)]
                   ELSE classifiers[s]
        kept    == IF trains THEN {} ELSE scored_by[s]
        unknown == ~ (uuids \subseteq Indexed)
    IN /\ Positives(now) # {} /\ Negatives(now) # {}
       /\ Finishes(c, IF unknown THEN "refused" ELSE "ok")
       /\ classifiers' = [classifiers EXCEPT ![s] = used]
       /\ scored_by' = [scored_by EXCEPT ![s] =
                          IF unknown \/ uuids = {} THEN kept ELSE kept \cup {used}]
       /\ dirty' = [dirty EXCEPT ![s] = FALSE]
       /\ UNCHANGED labels

\* No positive or no negative label (400), or a training that raises.
CannotClassify(c) ==
    LET now == labels[request[c].target]
    IN \/ /\ Positives(now) = {} \/ Negatives(now) = {}
          /\ Look(c, "refused")
       \/ /\ dirty[request[c].sid] \/ classifiers[request[c].sid] = None
          /\ \E status \in {"refused", "failed"} : Look(c, status)

\* (Mutant.) The cached scores survive.
ResetButScores(c) ==
    LET s == request[c].sid
    IN /\ Finishes(c, "ok")
       /\ Labelled(c, NoLabels)
       /\ classifiers' = [classifiers EXCEPT ![s] = None]
       /\ dirty' = [dirty EXCEPT ![s] = TRUE]
       /\ UNCHANGED scored_by

Reset(c) ==
    LET s == request[c].sid
    IN /\ Finishes(c, "ok")
       /\ Labelled(c, NoLabels)
       /\ classifiers' = [classifiers EXCEPT ![s] = None]
       /\ scored_by' = [scored_by EXCEPT ![s] = {}]
       /\ dirty' = [dirty EXCEPT ![s] = TRUE]

\* PUT /state: the labels are the saved ones, or as far as the load went.  The
\* classifier maps are left alone.
SetState(c, state) ==
    /\ \/ /\ (Positives(state) \cup Negatives(state)) \cap Mismatched = {}
          /\ Finishes(c, "ok") /\ Labelled(c, state)
       \/ \E at \in 1 .. Len(LoadOrder), loaded \in SUBSET Descriptor :
            /\ StopsAt(state, Mismatched, at, loaded)
            /\ Finishes(c, "failed") /\ Labelled(c, LoadedUpTo(state, at, loaded))
       \/ Finishes(c, "failed") /\ Labelled(c, NoLabels)
    /\ UNCHANGED classifier_maps

-----------------------------------------------------------------------------
(* DELETE /session: the controller is kept to the end *)

\* (Mutant.) The dirty flag stays behind.
ClearButFlag(c) ==
    LET s == request[c].sid
        i == request[c].target
    IN /\ AtStage(c, "clearing")
       /\ session_lock[i] = None
       /\ Labelled(c, NoLabels)
       /\ classifiers' = C!Del(classifiers, s)
       /\ scored_by' = C!Del(scored_by, s)
       /\ Goes(c, "removing")
       /\ UNCHANGED <<registry, session_lock, dirty>>

Clear(c) ==
    LET s == request[c].sid
        i == request[c].target
    IN /\ AtStage(c, "clearing")
       /\ session_lock[i] = None
       /\ Labelled(c, NoLabels)
       /\ classifiers' = C!Del(classifiers, s)
       /\ scored_by' = C!Del(scored_by, s)
       /\ dirty' = C!Del(dirty, s)
       /\ Goes(c, "removing")
       /\ UNCHANGED <<registry, session_lock>>

Remove(c) ==
    /\ AtStage(c, "removing")
    /\ C!RemoveSession(c, request[c].sid)
    /\ Goes(c, "removed")
    /\ UNCHANGED <<session_lock, labels, classifier_maps>>

-----------------------------------------------------------------------------
(* POST /session: the uuid is looked for before the controller is taken *)

Check(c, s) ==
    /\ AtStage(c, "idle")
    /\ C!CanLock(c)
    /\ IF s \in DOMAIN sessions THEN Answers(c, "conflict")
       ELSE request' = [request EXCEPT ![c] = Serving("checked", s, None)]
    /\ UNCHANGED <<registry, session_lock, labels, classifier_maps>>

BeginAdding(c) ==
    /\ AtStage(c, "checked")
    /\ C!Enter(c)
    /\ Goes(c, "adding")
    /\ UNCHANGED <<session_lock, labels, classifier_maps>>

\* The object is new: nobody holds its lock, and it has no labels.
Add(c, i, t) ==
    LET s == request[c].sid
    IN /\ AtStage(c, "adding")
       /\ session_lock[i] = None
       /\ C!AddSession(c, s, i, t)
       /\ labels' = [labels EXCEPT ![i] = NoLabels]
       /\ classifiers' = C!Set(classifiers, s, None)
       /\ scored_by' = C!Set(scored_by, s, {})
       /\ dirty' = C!Set(dirty, s, TRUE)
       /\ Goes(c, "added")
       /\ UNCHANGED session_lock

\* add_session raises, as another thread has added the uuid since the check.
AddFails(c) ==
    /\ AtStage(c, "adding")
    /\ request[c].sid \in DOMAIN sessions
    /\ C!Exit(c)
    /\ Answers(c, "failed")
    /\ UNCHANGED <<session_lock, labels, classifier_maps>>

\* The end of the controller's `with` block of POST and DELETE /session.
Leave(c) ==
    /\ request[c].stage \in {"added", "removed"}
    /\ C!Exit(c)
    /\ Answers(c, "ok")
    /\ UNCHANGED <<session_lock, labels, classifier_maps>>

-----------------------------------------------------------------------------
(* The expiration thread, with session_expire_callback under the session's *)
(* lock                                                                    *)

MonitorMoves(m) ==
    /\ \/ C!Wake(m) \/ C!Ends(m) \/ C!BeginScan(m) \/ C!EndScan(m)
       \/ \E s \in Session : C!Keep(m, s)
    /\ UNCHANGED <<session_lock, labels, classifier_maps, request>>

\* (Mutant.) The callback does not take the session's lock.
ExpireUnlocked(m, s) ==
    /\ s \in DOMAIN sessions
    /\ C!Expire(m, s)
    /\ classifiers' = C!Del(classifiers, s)
    /\ scored_by' = C!Del(scored_by, s)
    /\ dirty' = C!Del(dirty, s)
    /\ UNCHANGED <<session_lock, labels, request>>

Expire(m, s) ==
    /\ s \in DOMAIN sessions
    /\ session_lock[sessions[s]] = None
    /\ C!Expire(m, s)
    /\ classifiers' = C!Del(classifiers, s)
    /\ scored_by' = C!Del(scored_by, s)
    /\ dirty' = C!Del(dirty, s)
    /\ UNCHANGED <<session_lock, labels, request>>

-----------------------------------------------------------------------------

\* One descriptor at most per labelling call, on either side.
AtMostOne(S) == {b \in SUBSET S : Cardinality(b) <= 1}

Work(c) ==
    /\ AtStage(c, "working")
    /\ \/ \E status \in {"ok", "refused", "failed"} : Look(c, status)
       \/ \E x \in External : AddExternal(c, {x}, {}) \/ AddExternal(c, {}, {x})
       \/ \E p, n, u \in AtMostOne(Indexed) : Adjudicate(c, p, n, u)
       \/ \E uuids \in AtMostOne(Descriptor) : Classify(c, uuids)
       \/ CannotClassify(c)
       \/ Reset(c)
       \/ \E state \in SavedStates : SetState(c, state)

Serve(c) ==
    \/ NotFound(c)
    \/ Find(c)
    \/ Lock(c)
    \/ Work(c)
    \/ Clear(c)
    \/ Remove(c)
    \/ BeginAdding(c)
    \/ \E i \in Instance, t \in Timeout : Add(c, i, t)
    \/ AddFails(c)
    \/ Leave(c)

Arrive(c) ==
    \/ \E s \in Session : Begin(c, s, "use")
    \/ \E s \in Session : Begin(c, s, "delete")
    \/ \E s \in Session : Check(c, s)

Next ==
    \/ C!Tick /\ UNCHANGED <<session_lock, labels, classifier_maps, request>>
    \/ \E c \in Caller : Arrive(c)
    \/ \E c \in Caller : Serve(c)
    \/ \E m \in Monitor : MonitorMoves(m)
    \/ \E m \in Monitor, s \in Session : Expire(m, s)

Spec == Init /\ [][Next]_vars

\* A request's work ends, the monitor goes on, and a creation waiting for a
\* controller that keeps becoming free gets it.
Fairness ==
    /\ \A c \in Caller : WF_vars(Serve(c)) /\ SF_vars(BeginAdding(c))
    /\ \A m \in Monitor : WF_vars(MonitorMoves(m)) /\ WF_vars(\E s \in Session : Expire(m, s))

FairSpec == Spec /\ Fairness

-----------------------------------------------------------------------------
(* Properties *)

\* Each variable has its type; a session's lock is held by the thread that
\* works on it and by nobody else.
TypeOK ==
    /\ C!TypeOK
    /\ session_lock \in [Instance -> Caller \cup {None}]
    /\ labels \in [Instance -> LabelSets]
    /\ \A s \in DOMAIN classifiers :
         classifiers[s] = None \/ classifiers[s] \in [pos : SUBSET Descriptor, neg : SUBSET Descriptor]
    /\ Range(dirty) \subseteq BOOLEAN
    /\ \A c \in Caller : request[c].target \in Instance \cup {None}

\* A handler at work holds the lock of the object its uuid names now, whatever
\* DELETE and the expiration thread did since it was admitted, and finds the
\* uuid in the three maps: a request neither works on a session that is gone
\* nor raises KeyError half-way.
HandlerHasSession ==
    \A c \in Caller :
      AtStage(c, "working") =>
        /\ request[c].sid \in DOMAIN sessions
        /\ sessions[request[c].sid] = request[c].target
        /\ session_lock[request[c].target] = c
        /\ request[c].sid \in DOMAIN classifiers \cap DOMAIN scored_by \cap DOMAIN dirty

\* When nobody holds the controller the maps of the service have exactly the
\* registered sessions: neither DELETE, nor an expiration, nor a creation that
\* fails leaves a classifier behind or a session without its entries.
ServiceMapsAgree ==
    map_lock = None => /\ DOMAIN classifiers = DOMAIN sessions
                       /\ DOMAIN scored_by = DOMAIN sessions
                       /\ DOMAIN dirty = DOMAIN sessions

\* Cached scores are those of the session's present classifier, after any
\* sequence of training, failing, resetting and re-creating.
ResultsOfClassifier ==
    \A s \in DOMAIN scored_by : scored_by[s] \subseteq {classifiers[s]} \ {None}

\* The labels are those of a PUT /state that has loaded or failed, or are like
\* those of one that might have: labels by other means may come to the same.
LeftByLoad(now) ==
    \/ now = NoLabels
    \/ \E state \in SavedStates :
         \/ now = state
         \/ \E at \in 1 .. Len(LoadOrder), loaded \in SUBSET Descriptor :
              StopsAt(state, Mismatched, at, loaded) /\ now = LoadedUpTo(state, at, loaded)

\* A classifier not marked dirty was trained on the labels the session has, or
\* the labels are still those a PUT /state has left: whatever labels are given
\* or withdrawn after one, the classifier is trained again.
StaleOnlyAfterLoad ==
    \A s \in DOMAIN dirty \cap DOMAIN sessions :
      ~ dirty[s] =>
        LET now == labels[sessions[s]]
        IN \/ classifiers[s] = [pos |-> Positives(now), neg |-> Negatives(now)]
           \/ LeftByLoad(now)

\* A classifier not marked dirty was trained on the labels the session has.
ClassifierFresh ==
    \A s \in DOMAIN dirty \cap DOMAIN sessions :
      ~ dirty[s] =>
        LET now == labels[sessions[s]]
        IN classifiers[s] = [pos |-> Positives(now), neg |-> Negatives(now)]

\* Every request is answered: the threads that hold the controller while they
\* wait for a session, and the monitor that does too, never wait in a circle.
RequestsEnd ==
    \A c \in Caller : ~ AtStage(c, "idle") ~> AtStage(c, "idle")

-----------------------------------------------------------------------------
(* What the repository says of the service and the code does not do *)

\* "Session ID provided already exists" is 409 (api.rst:302-303); a uuid added
\* between the look and the addition is an uncaught RuntimeError.
CreationConflictIs409 ==
    [][ \A c \in Caller :
          AtStage(c, "adding") /\ request[c].sid \in DOMAIN sessions /\ request'[c].stage = "idle"
            => request'[c].status = "conflict" ]_vars
=============================================================================
