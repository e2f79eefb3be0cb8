------------------------- MODULE IqrServiceProofs -------------------------
(***************************************************************************)
(* The invariants of IqrService, for any number of sessions, request       *)
(* threads and objects, and that the service uses the registry as          *)
(* IqrController says it may be used.                                      *)
(***************************************************************************)
EXTENDS IqrService, TLAPS

\* Who holds the controller is where the holder is.
LockOwner ==
    /\ \A c \in Caller : caller[c] # "outside" <=> map_lock = c
    /\ \A m \in Monitor : monitor[m].pc = "scanning" <=> map_lock = m

-----------------------------------------------------------------------------
(* The registry *)

\* The steps of the registry that the service takes.
RegistryMoves ==
    \/ C!Tick
    \/ \E c \in Caller : C!Enter(c) \/ C!Exit(c)
    \/ \E c \in Caller, s \in Session : C!GetSession(c, s)
    \/ \E c \in Caller, s \in Session : C!RemoveSession(c, s)
    \/ \E c \in Caller, s \in Session, i \in Instance, t \in Timeout : C!AddSession(c, s, i, t)
    \/ \E m \in Monitor : C!Wake(m) \/ C!Ends(m) \/ C!BeginScan(m) \/ C!EndScan(m)
    \/ \E m \in Monitor, s \in Session : C!Keep(m, s)
    \/ \E m \in Monitor, s \in Session : C!Expire(m, s)
    \/ UNCHANGED registry

\* Writing a key of a map.
LEMMA SetFacts ==
    ASSUME NEW f, NEW s, NEW v
    PROVE  /\ DOMAIN C!Set(f, s, v) = DOMAIN f \cup {s}
           /\ C!Range(C!Set(f, s, v)) \subseteq C!Range(f) \cup {v}
           /\ \A k \in DOMAIN f \cup {s} : C!Set(f, s, v)[k] = IF k = s THEN v ELSE f[k]
BY DEF C!Set, C!Range

\* Deleting a key.
LEMMA DelFacts ==
    ASSUME NEW f, NEW s
    PROVE  /\ DOMAIN C!Del(f, s) = DOMAIN f \ {s}
           /\ C!Range(C!Del(f, s)) \subseteq C!Range(f)
           /\ \A k \in DOMAIN f \ {s} : C!Del(f, s)[k] = f[k]
BY DEF C!Del, C!Restrict, C!Range

\* What the registry's own methods do to the three maps.
MapTypes(f, g, h) ==
    /\ DOMAIN f \subseteq Session /\ C!Range(f) \subseteq Instance
    /\ DOMAIN g \subseteq Session /\ C!Range(g) \subseteq Timeout \ {0}
    /\ DOMAIN h \subseteq Session /\ C!Range(h) \subseteq 0 .. clock

\* Writing a key keeps the type of a map.
LEMMA SetTypes ==
    ASSUME NEW f, NEW s, NEW v, NEW K, NEW V,
           DOMAIN f \subseteq K, C!Range(f) \subseteq V, s \in K, v \in V
    PROVE  DOMAIN C!Set(f, s, v) \subseteq K /\ C!Range(C!Set(f, s, v)) \subseteq V
<1>1. /\ DOMAIN C!Set(f, s, v) = DOMAIN f \cup {s}
      /\ C!Range(C!Set(f, s, v)) \subseteq C!Range(f) \cup {v}
  BY SetFacts
<1> QED
  BY <1>1

\* So does deleting one.
LEMMA DelTypes ==
    ASSUME NEW f, NEW s, NEW K, NEW V, DOMAIN f \subseteq K, C!Range(f) \subseteq V
    PROVE  DOMAIN C!Del(f, s) \subseteq K /\ C!Range(C!Del(f, s)) \subseteq V
BY DelFacts

\* A creation, a look-up and a removal keep the types of the maps.
LEMMA MapsKeepTypes ==
    ASSUME C!TypeOK, NEW s \in Session,
           \/ \E i \in Instance, t \in Timeout : C!Added(s, i, t)
           \/ C!Touched(s)
           \/ C!Removed(s)
    PROVE  MapTypes(sessions', timeouts', last_access')
<1>0. /\ DOMAIN sessions \subseteq Session /\ C!Range(sessions) \subseteq Instance
      /\ DOMAIN timeouts \subseteq Session /\ C!Range(timeouts) \subseteq Timeout \ {0}
      /\ DOMAIN last_access \subseteq Session /\ C!Range(last_access) \subseteq 0 .. clock
      /\ clock \in 0 .. clock
  BY RegistryAssumption DEF C!TypeOK
<1>1. /\ DOMAIN C!Set(last_access, s, clock) \subseteq Session
      /\ C!Range(C!Set(last_access, s, clock)) \subseteq 0 .. clock
  BY <1>0, SetTypes
<1>2. ASSUME NEW i \in Instance, NEW t \in Timeout, C!Added(s, i, t)
      PROVE  MapTypes(sessions', timeouts', last_access')
  <2>1. /\ DOMAIN C!Set(sessions, s, i) \subseteq Session
        /\ C!Range(C!Set(sessions, s, i)) \subseteq Instance
    BY <1>0, SetTypes
  <2>2. t > 0 => /\ DOMAIN C!Set(timeouts, s, t) \subseteq Session
                 /\ C!Range(C!Set(timeouts, s, t)) \subseteq Timeout \ {0}
    <3>1. t > 0 => t \in Timeout \ {0}
      BY RegistryAssumption
    <3> QED
      BY <1>0, <3>1, SetTypes
  <2> QED
    BY <1>0, <1>1, <1>2, <2>1, <2>2 DEF C!Added, MapTypes
<1>3. CASE C!Touched(s)
  BY <1>0, <1>1, <1>3 DEF C!Touched, MapTypes
<1>4. CASE C!Removed(s)
  <2>1. /\ DOMAIN C!Del(sessions, s) \subseteq Session
        /\ C!Range(C!Del(sessions, s)) \subseteq Instance
    BY <1>0, DelTypes
  <2>2. /\ DOMAIN C!Del(timeouts, s) \subseteq Session
        /\ C!Range(C!Del(timeouts, s)) \subseteq Timeout \ {0}
    BY <1>0, DelTypes
  <2>3. /\ DOMAIN C!Del(last_access, s) \subseteq Session
        /\ C!Range(C!Del(last_access, s)) \subseteq 0 .. clock
    BY <1>0, DelTypes
  <2> QED
    BY <1>0, <1>4, <2>1, <2>2, <2>3 DEF C!Removed, MapTypes
<1> QED
  BY <1>2, <1>3, <1>4

\* The registry keeps its types.
LEMMA RegistryTypes == C!TypeOK /\ RegistryMoves => C!TypeOK'
<1> SUFFICES ASSUME C!TypeOK, RegistryMoves PROVE C!TypeOK'
  OBVIOUS
<1>0. clock \in Nat /\ 0 \in 0 .. clock /\ clock \in 0 .. clock
  BY RegistryAssumption DEF C!TypeOK
<1>1. CASE C!Tick
  <2>1. clock' \in 0 .. MaxTime /\ 0 .. clock \subseteq 0 .. clock'
    BY <1>0, <1>1, RegistryAssumption DEF C!Tick, C!TypeOK
  <2> QED
    BY <1>1, <2>1 DEF C!Tick, C!TypeOK, C!maps, C!control, C!Range
<1>2. ASSUME NEW c \in Caller, C!Enter(c) \/ C!Exit(c) PROVE C!TypeOK'
  BY <1>2 DEF C!Enter, C!Exit, C!TypeOK, C!maps, C!control, C!Range
<1>3. ASSUME NEW c \in Caller, NEW s \in Session, C!GetSession(c, s) PROVE C!TypeOK'
  BY <1>3, MapsKeepTypes DEF C!GetSession, MapTypes, C!TypeOK, C!control, C!Range
<1>4. ASSUME NEW c \in Caller, NEW s \in Session, C!RemoveSession(c, s) PROVE C!TypeOK'
  BY <1>4, MapsKeepTypes DEF C!RemoveSession, MapTypes, C!TypeOK, C!control, C!Range
<1>5. ASSUME NEW c \in Caller, NEW s \in Session, NEW i \in Instance, NEW t \in Timeout,
             C!AddSession(c, s, i, t)
      PROVE  C!TypeOK'
  BY <1>5, MapsKeepTypes DEF C!AddSession, MapTypes, C!TypeOK, C!control, C!Range
<1>6. ASSUME NEW m \in Monitor, C!Wake(m) \/ C!Ends(m) PROVE C!TypeOK'
  BY <1>0, <1>6 DEF C!Wake, C!Ends, C!MonitorIs, C!TypeOK, C!maps, C!control, C!Range
<1>7. ASSUME NEW m \in Monitor, C!BeginScan(m) \/ C!EndScan(m) PROVE C!TypeOK'
  BY <1>0, <1>7 DEF C!BeginScan, C!EndScan, C!Waiting, C!TypeOK, C!maps, C!control, C!Range
<1>8. ASSUME NEW m \in Monitor, NEW s \in Session, C!Keep(m, s) PROVE C!TypeOK'
  BY <1>8 DEF C!Keep, C!TypeOK, C!maps, C!control, C!Range
<1>9. ASSUME NEW m \in Monitor, NEW s \in Session, C!Expire(m, s) PROVE C!TypeOK'
  BY <1>0, <1>9, MapsKeepTypes
  DEF C!Expire, C!NotRunning, MapTypes, C!TypeOK, C!control, C!Range
<1>10. CASE UNCHANGED registry
  BY <1>10 DEF registry, C!TypeOK, C!Range
<1> QED
  BY <1>1, <1>2, <1>3, <1>4, <1>5, <1>6, <1>7, <1>8, <1>9, <1>10 DEF RegistryMoves

\* The holder of the controller is the only one where the controller is needed.
LEMMA LockStep == C!TypeOK /\ LockOwner /\ RegistryMoves => LockOwner'
<1> SUFFICES ASSUME C!TypeOK, LockOwner, RegistryMoves PROVE LockOwner'
  OBVIOUS
<1> USE RegistryAssumption DEF LockOwner
<1>0. /\ caller \in [Caller -> {"outside", "inside", "stopping", "restarting"}]
      /\ monitor \in [Monitor -> [pc : {"unborn", "waiting", "woken", "scanning", "dead", "ended"},
                                  now : 0 .. clock, todo : SUBSET Session]]
  BY DEF C!TypeOK
<1>1. ASSUME NEW c \in Caller, C!Enter(c) PROVE LockOwner'
  BY <1>0, <1>1 DEF C!Enter
<1>2. ASSUME NEW c \in Caller, C!Exit(c) PROVE LockOwner'
  BY <1>0, <1>2 DEF C!Exit
<1>3. ASSUME NEW m \in Monitor, C!Wake(m) PROVE LockOwner'
  BY <1>0, <1>3 DEF C!Wake
<1>4. ASSUME NEW m \in Monitor, C!Ends(m) PROVE LockOwner'
  BY <1>0, <1>4 DEF C!Ends, C!MonitorIs
<1>5. ASSUME NEW m \in Monitor, C!BeginScan(m) PROVE LockOwner'
  BY <1>0, <1>5 DEF C!BeginScan
<1>6. ASSUME NEW m \in Monitor, C!EndScan(m) PROVE LockOwner'
  BY <1>0, <1>6 DEF C!EndScan, C!Waiting
<1>7. ASSUME NEW m \in Monitor, NEW s \in Session, C!Keep(m, s) PROVE LockOwner'
  BY <1>0, <1>7 DEF C!Keep
<1>8. ASSUME NEW m \in Monitor, NEW s \in Session, C!Expire(m, s) PROVE LockOwner'
  BY <1>0, <1>8 DEF C!Expire, C!NotRunning
<1> QED
  BY <1>1, <1>2, <1>3, <1>4, <1>5, <1>6, <1>7, <1>8
  DEF RegistryMoves, registry, C!Tick, C!AddSession, C!GetSession, C!RemoveSession

-----------------------------------------------------------------------------
(* The service's steps and the registry's *)

\* The stages at which a request holds the controller.
Holding == {"use", "delete", "locking", "clearing", "removing", "removed", "adding", "added"}

\* What each thread is serving has its type.
RequestTypes ==
    request \in [Caller -> [stage : Holding \cup {"idle", "working", "checked"},
                            sid : Session \cup {None}, target : Instance \cup {None},
                            status : {"none", "ok", "refused", "conflict", "failed"}]]

\* A request that holds the controller is inside its `with` block, and one that
\* has looked its session up while holding it finds the object it has found.
RequestsOK ==
    \A c \in Caller :
      /\ request[c].stage \in Holding => caller[c] = "inside"
      /\ request[c].stage # "idle" => request[c].sid \in Session
      /\ request[c].stage \in {"locking", "clearing", "removing"} =>
           /\ request[c].sid \in DOMAIN sessions
           /\ sessions[request[c].sid] = request[c].target
      /\ AtStage(c, "removing") => session_lock[request[c].target] = None

\* The steps of a handler's work leave the registry alone, give the session's
\* lock back and end the request.
LEMMA WorkEnds ==
    ASSUME NEW c \in Caller, Work(c)
    PROVE  /\ AtStage(c, "working") /\ UNCHANGED registry
           /\ session_lock' = [session_lock EXCEPT ![request[c].target] = None]
           /\ \E status \in {"ok", "refused", "failed"} :
                request' = [request EXCEPT ![c] = Idle(status)]
           /\ DOMAIN classifiers' = DOMAIN classifiers
           /\ DOMAIN scored_by' = DOMAIN scored_by
           /\ DOMAIN dirty' = DOMAIN dirty
<1> USE DEF Finishes, Answers, Labelled, MarkDirty, classifier_maps
<1>1. ASSUME NEW status \in {"ok", "refused", "failed"}, Look(c, status)
      PROVE  /\ UNCHANGED <<registry, classifier_maps>>
             /\ session_lock' = [session_lock EXCEPT ![request[c].target] = None]
             /\ request' = [request EXCEPT ![c] = Idle(status)]
  BY <1>1 DEF Look
<1>2. AtStage(c, "working")
  BY DEF Work
<1>3. CASE \E status \in {"ok", "refused", "failed"} : Look(c, status)
  BY <1>1, <1>2, <1>3
<1>4. CASE CannotClassify(c)
  BY <1>1, <1>2, <1>4 DEF CannotClassify
<1>5. ASSUME NEW x \in External, AddExternal(c, {x}, {}) \/ AddExternal(c, {}, {x})
      PROVE  /\ UNCHANGED <<registry, classifiers, scored_by>> /\ DOMAIN dirty' = DOMAIN dirty
             /\ session_lock' = [session_lock EXCEPT ![request[c].target] = None]
             /\ request' = [request EXCEPT ![c] = Idle("ok")]
  BY <1>5 DEF AddExternal
<1>6. ASSUME NEW p \in AtMostOne(Indexed), NEW n \in AtMostOne(Indexed),
             NEW u \in AtMostOne(Indexed), Adjudicate(c, p, n, u)
      PROVE  /\ UNCHANGED <<registry, classifiers, scored_by>> /\ DOMAIN dirty' = DOMAIN dirty
             /\ session_lock' = [session_lock EXCEPT ![request[c].target] = None]
             /\ request' = [request EXCEPT ![c] = Idle("ok")]
  BY <1>6 DEF Adjudicate
<1>7. ASSUME NEW uuids \in AtMostOne(Descriptor), Classify(c, uuids)
      PROVE  /\ UNCHANGED registry
             /\ DOMAIN classifiers' = DOMAIN classifiers
             /\ DOMAIN scored_by' = DOMAIN scored_by
             /\ DOMAIN dirty' = DOMAIN dirty
             /\ session_lock' = [session_lock EXCEPT ![request[c].target] = None]
             /\ \E status \in {"ok", "refused"} : request' = [request EXCEPT ![c] = Idle(status)]
  BY <1>7 DEF Classify
<1>8. CASE Reset(c)
  BY <1>2, <1>8 DEF Reset
<1>9. ASSUME NEW state \in SavedStates, SetState(c, state)
      PROVE  /\ UNCHANGED <<registry, classifier_maps>>
             /\ session_lock' = [session_lock EXCEPT ![request[c].target] = None]
             /\ \E status \in {"ok", "failed"} : request' = [request EXCEPT ![c] = Idle(status)]
  BY <1>9 DEF SetState
<1> QED
  BY <1>2, <1>3, <1>4, <1>5, <1>6, <1>7, <1>8, <1>9 DEF Work

\* Every step of the service is a step of the registry or leaves it alone.
LEMMA ServiceMoves == RequestTypes /\ RequestsOK /\ [Next]_vars => RegistryMoves
<1> SUFFICES ASSUME RequestTypes, RequestsOK, [Next]_vars PROVE RegistryMoves
  OBVIOUS
<1> USE DEF RegistryMoves
<1>1. ASSUME NEW c \in Caller, Arrive(c) PROVE RegistryMoves
  BY <1>1 DEF Arrive, Begin, Check
<1>2. ASSUME NEW c \in Caller, Serve(c) PROVE RegistryMoves
  <2>1. request[c].stage # "idle" => request[c].sid \in Session
    BY DEF RequestsOK
  <2>2. CASE NotFound(c) \/ Lock(c) \/ BeginAdding(c) \/ AddFails(c) \/ Leave(c)
    BY <2>2 DEF NotFound, Lock, BeginAdding, AddFails, Leave
  <2>3. CASE Find(c)
    BY <2>1, <2>3 DEF Find
  <2>4. CASE Work(c)
    BY <2>4, WorkEnds
  <2>5. CASE Clear(c)
    BY <2>5 DEF Clear
  <2>6. CASE Remove(c)
    BY <2>1, <2>6 DEF Remove, AtStage
  <2>7. ASSUME NEW i \in Instance, NEW t \in Timeout, Add(c, i, t) PROVE RegistryMoves
    BY <2>1, <2>7 DEF Add, AtStage
  <2> QED
    BY <1>2, <2>2, <2>3, <2>4, <2>5, <2>6, <2>7 DEF Serve
<1>3. ASSUME NEW m \in Monitor, MonitorMoves(m) PROVE RegistryMoves
  BY <1>3 DEF MonitorMoves
<1>4. ASSUME NEW m \in Monitor, NEW s \in Session, Expire(m, s) PROVE RegistryMoves
  BY <1>4 DEF Expire
<1> QED
  BY <1>1, <1>2, <1>3, <1>4 DEF Next, vars

-----------------------------------------------------------------------------
(* Requests *)

\* A request goes through its stages and keeps its types.
LEMMA RequestTypesStep ==
    RequestTypes /\ C!TypeOK /\ RequestsOK /\ [Next]_vars => RequestTypes'
<1> SUFFICES ASSUME RequestTypes, C!TypeOK, RequestsOK, [Next]_vars PROVE RequestTypes'
  OBVIOUS
<1> USE DEF RequestTypes, Holding, Idle, Serving, Goes, Answers, AtStage
<1>1. ASSUME NEW c \in Caller, Arrive(c) PROVE RequestTypes'
  <2>1. ASSUME NEW s \in Session, NEW stage \in {"use", "delete"}, Begin(c, s, stage)
        PROVE  RequestTypes'
    BY <2>1 DEF Begin
  <2>2. ASSUME NEW s \in Session, Check(c, s) PROVE RequestTypes'
    BY <2>2 DEF Check
  <2> QED
    BY <1>1, <2>1, <2>2 DEF Arrive
<1>2. ASSUME NEW c \in Caller, Serve(c) PROVE RequestTypes'
  <2>1. CASE NotFound(c) \/ Lock(c) \/ BeginAdding(c) \/ AddFails(c) \/ Leave(c)
    BY <2>1 DEF NotFound, Lock, BeginAdding, AddFails, Leave
  <2>2. CASE Find(c)
    <3>1. sessions[request[c].sid] \in Instance
      BY <2>2 DEF Find, C!GetSession, C!TypeOK, C!Range
    <3> QED
      BY <2>2, <3>1 DEF Find
  <2>3. CASE Work(c)
    BY <2>3, WorkEnds
  <2>4. CASE Clear(c)
    BY <2>4 DEF Clear
  <2>5. CASE Remove(c)
    BY <2>5 DEF Remove
  <2>6. ASSUME NEW i \in Instance, NEW t \in Timeout, Add(c, i, t) PROVE RequestTypes'
    BY <2>6 DEF Add
  <2> QED
    BY <1>2, <2>1, <2>2, <2>3, <2>4, <2>5, <2>6 DEF Serve
<1>3. ASSUME NEW m \in Monitor, MonitorMoves(m) PROVE RequestTypes'
  BY <1>3 DEF MonitorMoves
<1>4. ASSUME NEW m \in Monitor, NEW s \in Session, Expire(m, s) PROVE RequestTypes'
  BY <1>4 DEF Expire
<1> QED
  BY <1>1, <1>2, <1>3, <1>4 DEF Next, vars

\* A thread that holds the controller is alone there: no other request and no
\* scan is.
LEMMA AloneInside ==
    ASSUME LockOwner, RequestsOK, NEW c \in Caller, caller[c] = "inside"
    PROVE  /\ map_lock = c
           /\ \A b \in Caller : b # c => caller[b] = "outside" /\ request[b].stage \notin Holding
           /\ \A m \in Monitor : monitor[m].pc # "scanning"
BY RegistryAssumption DEF LockOwner, RequestsOK

\* While the controller is free, or the expiration thread holds it, no request
\* holds it.
LEMMA NobodyInside ==
    ASSUME LockOwner, RequestsOK, map_lock \notin Caller
    PROVE  \A b \in Caller : caller[b] = "outside" /\ request[b].stage \notin Holding
BY DEF LockOwner, RequestsOK

\* A request that has found its session under the controller keeps it: nobody
\* else can change the session map, and nobody can take the lock of a session
\* that DELETE has cleared.
LEMMA RequestsStep ==
    RequestTypes /\ C!TypeOK /\ LockOwner /\ RequestsOK /\ session_lock \in [Instance -> Caller \cup {None}]
      /\ HandlerHasSession /\ [Next]_vars => RequestsOK'
<1> SUFFICES ASSUME RequestTypes, C!TypeOK, LockOwner, RequestsOK, HandlerHasSession,
                    session_lock \in [Instance -> Caller \cup {None}], [Next]_vars
             PROVE  RequestsOK'
  OBVIOUS
<1>0. caller \in [Caller -> {"outside", "inside", "stopping", "restarting"}]
  BY DEF C!TypeOK
<1> USE <1>0 DEF RequestTypes, Holding, Idle, Serving, Goes, Answers, AtStage
<1>1. ASSUME NEW c \in Caller, Arrive(c) PROVE RequestsOK'
  <2>1. ASSUME NEW s \in Session, NEW stage \in {"use", "delete"}, Begin(c, s, stage)
        PROVE  RequestsOK'
    BY <2>1 DEF Begin, C!Enter, C!maps, RequestsOK
  <2>2. ASSUME NEW s \in Session, Check(c, s) PROVE RequestsOK'
    <3>1. UNCHANGED <<sessions, caller, session_lock>>
      BY <2>2 DEF Check, registry
    <3>2. request'[c].stage \in {"idle", "checked"}
          /\ (request'[c].stage # "idle" => request'[c].sid \in Session)
      BY <2>2 DEF Check
    <3>3. \A b \in Caller : b # c => request'[b] = request[b]
      BY <2>2 DEF Check
    <3> QED
      BY <3>1, <3>2, <3>3 DEF RequestsOK
  <2> QED
    BY <1>1, <2>1, <2>2 DEF Arrive
<1>2. ASSUME NEW c \in Caller, Serve(c) PROVE RequestsOK'
  <2>1. CASE NotFound(c)
    BY <2>1 DEF NotFound, C!Exit, C!maps, RequestsOK
  <2>2. CASE Find(c)
    BY <2>2, AloneInside DEF Find, C!GetSession, C!Touched, C!control, RequestsOK
  <2>3. CASE Lock(c)
    BY <2>3, AloneInside DEF Lock, C!Exit, C!maps, RequestsOK
  <2>4. CASE Work(c)
    <3>1. UNCHANGED <<sessions, caller>>
      BY <2>4, WorkEnds DEF registry
    <3>2. request'[c].stage = "idle"
      BY <2>4, WorkEnds
    <3>3. \A b \in Caller : b # c => request'[b] = request[b]
      BY <2>4, WorkEnds
    <3>4. \A i \in Instance : session_lock[i] = None => session_lock'[i] = None
      BY <2>4, WorkEnds
    <3>5. \A s \in DOMAIN sessions : sessions[s] \in Instance
      BY DEF C!TypeOK, C!Range
    <3> QED
      BY <3>1, <3>2, <3>3, <3>4, <3>5 DEF RequestsOK
  <2>5. CASE Clear(c)
    BY <2>5 DEF Clear, registry, RequestsOK
  <2>6. CASE Remove(c)
    BY <2>6, AloneInside DEF Remove, C!RemoveSession, C!control, RequestsOK
  <2>7. CASE BeginAdding(c)
    BY <2>7 DEF BeginAdding, C!Enter, C!maps, RequestsOK
  <2>8. ASSUME NEW i \in Instance, NEW t \in Timeout, Add(c, i, t) PROVE RequestsOK'
    BY <2>8, AloneInside DEF Add, C!AddSession, C!control, RequestsOK
  <2>9. CASE AddFails(c)
    BY <2>9 DEF AddFails, C!Exit, C!maps, RequestsOK
  <2>10. CASE Leave(c)
    BY <2>10 DEF Leave, C!Exit, C!maps, RequestsOK
  <2> QED
    BY <1>2, <2>1, <2>2, <2>3, <2>4, <2>5, <2>6, <2>7, <2>8, <2>9, <2>10 DEF Serve
<1>3. ASSUME NEW m \in Monitor, MonitorMoves(m) PROVE RequestsOK'
  BY <1>3
  DEF MonitorMoves, C!Wake, C!Ends, C!BeginScan, C!EndScan, C!Keep, C!maps, RequestsOK
<1>4. ASSUME NEW m \in Monitor, NEW s \in Session, Expire(m, s) PROVE RequestsOK'
  <2>1. map_lock \notin Caller
    BY <1>4, RegistryAssumption DEF Expire, C!Expire, LockOwner
  <2> QED
    BY <1>4, <2>1, NobodyInside DEF Expire, C!Expire, RequestsOK
<1> QED
  BY <1>1, <1>2, <1>3, <1>4 DEF Next, vars, registry, C!Tick, C!maps, RequestsOK

-----------------------------------------------------------------------------
(* Handlers, sessions and the three maps *)

\* The three maps have the same uuids: the registered ones, without the uuid a
\* DELETE has cleared and not yet removed.
MapsFollow ==
    /\ DOMAIN classifiers = DOMAIN dirty /\ DOMAIN scored_by = DOMAIN dirty
    /\ (\A c \in Caller : ~ AtStage(c, "removing")) => DOMAIN dirty = DOMAIN sessions
    /\ \A c \in Caller : AtStage(c, "removing") =>
         DOMAIN dirty = DOMAIN sessions \ {request[c].sid}

\* What a removal leaves of the session map.
LEMMA SessionRemoved ==
    ASSUME NEW s, C!Removed(s)
    PROVE  /\ DOMAIN sessions' = DOMAIN sessions \ {s}
           /\ \A k \in DOMAIN sessions' : sessions'[k] = sessions[k]
BY DelFacts DEF C!Removed

\* What a creation makes of it.
LEMMA SessionAdded ==
    ASSUME NEW s, NEW i, NEW t, C!Added(s, i, t)
    PROVE  /\ DOMAIN sessions' = DOMAIN sessions \cup {s} /\ sessions'[s] = i
           /\ \A k \in DOMAIN sessions \ {s} : sessions'[k] = sessions[k]
BY DEF C!Added, C!Set

\* What Clear, and the expiration's callback, leave of the three maps.
LEMMA MapsLose ==
    ASSUME NEW s,
           classifiers' = C!Del(classifiers, s), scored_by' = C!Del(scored_by, s),
           dirty' = C!Del(dirty, s)
    PROVE  /\ DOMAIN classifiers' = DOMAIN classifiers \ {s}
           /\ DOMAIN scored_by' = DOMAIN scored_by \ {s}
           /\ DOMAIN dirty' = DOMAIN dirty \ {s}
           /\ \A k \in DOMAIN classifiers' : classifiers'[k] = classifiers[k]
           /\ \A k \in DOMAIN scored_by' : scored_by'[k] = scored_by[k]
           /\ \A k \in DOMAIN dirty' : dirty'[k] = dirty[k]
BY DelFacts

\* What a creation adds to them.
LEMMA MapsGain ==
    ASSUME NEW s,
           classifiers' = C!Set(classifiers, s, None), scored_by' = C!Set(scored_by, s, {}),
           dirty' = C!Set(dirty, s, TRUE)
    PROVE  /\ DOMAIN classifiers' = DOMAIN classifiers \cup {s} /\ classifiers'[s] = None
           /\ DOMAIN scored_by' = DOMAIN scored_by \cup {s} /\ scored_by'[s] = {}
           /\ DOMAIN dirty' = DOMAIN dirty \cup {s} /\ dirty'[s] = TRUE
           /\ \A k \in DOMAIN classifiers \ {s} : classifiers'[k] = classifiers[k]
           /\ \A k \in DOMAIN scored_by \ {s} : scored_by'[k] = scored_by[k]
           /\ \A k \in DOMAIN dirty \ {s} : dirty'[k] = dirty[k]
<1>1. /\ DOMAIN classifiers' = DOMAIN classifiers \cup {s} /\ classifiers'[s] = None
      /\ \A k \in DOMAIN classifiers \ {s} : classifiers'[k] = classifiers[k]
  BY DEF C!Set
<1>2. /\ DOMAIN scored_by' = DOMAIN scored_by \cup {s} /\ scored_by'[s] = {}
      /\ \A k \in DOMAIN scored_by \ {s} : scored_by'[k] = scored_by[k]
  BY DEF C!Set
<1>3. /\ DOMAIN dirty' = DOMAIN dirty \cup {s} /\ dirty'[s] = TRUE
      /\ \A k \in DOMAIN dirty \ {s} : dirty'[k] = dirty[k]
  BY DEF C!Set
<1> QED
  BY <1>1, <1>2, <1>3

\* Steps that take nobody to or from "removing" and change no domain.
LEMMA MapsStay ==
    ASSUME MapsFollow,
           DOMAIN classifiers' = DOMAIN classifiers, DOMAIN scored_by' = DOMAIN scored_by,
           DOMAIN dirty' = DOMAIN dirty, DOMAIN sessions' = DOMAIN sessions,
           \A c \in Caller : /\ AtStage(c, "removing")' <=> AtStage(c, "removing")
                             /\ AtStage(c, "removing") => request'[c].sid = request[c].sid
    PROVE  MapsFollow'
BY DEF MapsFollow

\* The maps of the service follow the session map through every step.
LEMMA MapsFollowStep ==
    RequestTypes /\ C!TypeOK /\ LockOwner /\ RequestsOK /\ MapsFollow /\ [Next]_vars => MapsFollow'
<1> SUFFICES ASSUME RequestTypes, C!TypeOK, LockOwner, RequestsOK, MapsFollow, [Next]_vars
             PROVE  MapsFollow'
  OBVIOUS
<1> USE DEF RequestTypes, Holding, Idle, Serving, Goes, Answers, AtStage
<1>1. ASSUME NEW c \in Caller, Arrive(c) PROVE MapsFollow'
  <2>1. ASSUME NEW s \in Session, NEW stage \in {"use", "delete"}, Begin(c, s, stage)
        PROVE  MapsFollow'
    BY <2>1, MapsStay DEF Begin, C!Enter, C!maps, classifier_maps
  <2>2. ASSUME NEW s \in Session, Check(c, s) PROVE MapsFollow'
    BY <2>2, MapsStay DEF Check, registry, classifier_maps
  <2> QED
    BY <1>1, <2>1, <2>2 DEF Arrive
<1>2. ASSUME NEW c \in Caller, Serve(c) PROVE MapsFollow'
  <2>1. CASE NotFound(c) \/ Lock(c) \/ BeginAdding(c) \/ AddFails(c)
    BY <2>1, MapsStay
    DEF NotFound, Lock, BeginAdding, AddFails, C!Enter, C!Exit, C!maps, classifier_maps
  <2>2. CASE Leave(c)
    BY <2>2, MapsStay DEF Leave, C!Exit, C!maps, classifier_maps
  <2>3. CASE Find(c)
    BY <2>3, MapsStay DEF Find, C!GetSession, C!Touched, classifier_maps
  <2>4. CASE Work(c)
    BY <2>4, WorkEnds, MapsStay DEF registry
  <2>5. CASE Clear(c)
    <3>1. \A b \in Caller : b # c => ~ AtStage(b, "removing") /\ request'[b] = request[b]
      BY <2>5, AloneInside DEF Clear, RequestsOK
    <3>2. ~ AtStage(c, "removing") /\ request'[c].stage = "removing"
          /\ request'[c].sid = request[c].sid /\ DOMAIN sessions' = DOMAIN sessions
      BY <2>5 DEF Clear, registry
    <3>3. /\ DOMAIN classifiers' = DOMAIN classifiers \ {request[c].sid}
          /\ DOMAIN scored_by' = DOMAIN scored_by \ {request[c].sid}
          /\ DOMAIN dirty' = DOMAIN dirty \ {request[c].sid}
      BY <2>5, MapsLose DEF Clear
    <3> QED
      BY <3>1, <3>2, <3>3 DEF MapsFollow
  <2>6. CASE Remove(c)
    <3>1. \A b \in Caller : b # c => ~ AtStage(b, "removing") /\ request'[b] = request[b]
      BY <2>6, AloneInside DEF Remove, RequestsOK
    <3>2. /\ AtStage(c, "removing") /\ request'[c].stage = "removed"
          /\ DOMAIN sessions' = DOMAIN sessions \ {request[c].sid}
          /\ UNCHANGED classifier_maps
      BY <2>6, SessionRemoved DEF Remove, C!RemoveSession
    <3> QED
      BY <3>1, <3>2 DEF MapsFollow, classifier_maps
  <2>7. ASSUME NEW i \in Instance, NEW t \in Timeout, Add(c, i, t) PROVE MapsFollow'
    <3>1. \A b \in Caller : ~ AtStage(b, "removing") /\ request'[b].stage # "removing"
      BY <2>7, AloneInside DEF Add, RequestsOK
    <3>2. DOMAIN sessions' = DOMAIN sessions \cup {request[c].sid}
      BY <2>7, SessionAdded DEF Add, C!AddSession
    <3>3. /\ DOMAIN classifiers' = DOMAIN classifiers \cup {request[c].sid}
          /\ DOMAIN scored_by' = DOMAIN scored_by \cup {request[c].sid}
          /\ DOMAIN dirty' = DOMAIN dirty \cup {request[c].sid}
      BY <2>7, MapsGain DEF Add
    <3> QED
      BY <3>1, <3>2, <3>3 DEF MapsFollow
  <2> QED
    BY <1>2, <2>1, <2>2, <2>3, <2>4, <2>5, <2>6, <2>7 DEF Serve
<1>3. ASSUME NEW m \in Monitor, MonitorMoves(m) PROVE MapsFollow'
  BY <1>3, MapsStay
  DEF MonitorMoves, C!Wake, C!Ends, C!BeginScan, C!EndScan, C!Keep, C!maps, classifier_maps
<1>4. ASSUME NEW m \in Monitor, NEW s \in Session, Expire(m, s) PROVE MapsFollow'
  <2>1. map_lock \notin Caller
    BY <1>4, RegistryAssumption DEF Expire, C!Expire, LockOwner
  <2>2. \A b \in Caller : ~ AtStage(b, "removing") /\ request'[b].stage # "removing"
    BY <1>4, <2>1, NobodyInside DEF Expire
  <2>3. DOMAIN sessions' = DOMAIN sessions \ {s}
    BY <1>4, SessionRemoved DEF Expire, C!Expire
  <2>4. /\ DOMAIN classifiers' = DOMAIN classifiers \ {s}
        /\ DOMAIN scored_by' = DOMAIN scored_by \ {s}
        /\ DOMAIN dirty' = DOMAIN dirty \ {s}
    BY <1>4, MapsLose DEF Expire
  <2> QED
    BY <2>2, <2>3, <2>4 DEF MapsFollow
<1>5. CASE C!Tick /\ UNCHANGED <<session_lock, labels, classifier_maps, request>>
  BY <1>5, MapsStay DEF C!Tick, C!maps, classifier_maps
<1>6. CASE UNCHANGED vars
  BY <1>6, MapsStay DEF vars, registry, classifier_maps
<1> QED
  BY <1>1, <1>2, <1>3, <1>4, <1>5, <1>6 DEF Next

\* A handler at work keeps its session: the session's lock keeps DELETE and the
\* expiration thread from it, and the uuid keeps others out of the map.
LEMMA HandlerStep ==
    RequestTypes /\ C!TypeOK /\ LockOwner /\ RequestsOK /\ MapsFollow /\ HandlerHasSession
      /\ session_lock \in [Instance -> Caller \cup {None}] /\ [Next]_vars => HandlerHasSession'
<1> SUFFICES ASSUME RequestTypes, C!TypeOK, LockOwner, RequestsOK, MapsFollow, HandlerHasSession,
                    session_lock \in [Instance -> Caller \cup {None}], [Next]_vars
             PROVE  HandlerHasSession'
  OBVIOUS
<1>0. \A s \in DOMAIN sessions : sessions[s] \in Instance
  BY DEF C!TypeOK, C!Range
<1> USE <1>0 DEF RequestTypes, Holding, Idle, Serving, Goes, Answers, AtStage
<1>1. ASSUME NEW c \in Caller, Arrive(c) PROVE HandlerHasSession'
  <2>1. ASSUME NEW s \in Session, NEW stage \in {"use", "delete"}, Begin(c, s, stage)
        PROVE  HandlerHasSession'
    BY <2>1 DEF Begin, C!Enter, C!maps, classifier_maps, HandlerHasSession
  <2>2. ASSUME NEW s \in Session, Check(c, s) PROVE HandlerHasSession'
    <3>1. /\ UNCHANGED <<sessions, session_lock, classifier_maps>>
          /\ request'[c].stage # "working"
          /\ \A b \in Caller : b # c => request'[b] = request[b]
      BY <2>2 DEF Check, registry
    <3> QED
      BY <3>1 DEF classifier_maps, HandlerHasSession
  <2> QED
    BY <1>1, <2>1, <2>2 DEF Arrive
<1>2. ASSUME NEW c \in Caller, Serve(c) PROVE HandlerHasSession'
  <2>1. CASE NotFound(c) \/ BeginAdding(c) \/ AddFails(c) \/ Leave(c)
    BY <2>1
    DEF NotFound, BeginAdding, AddFails, Leave, C!Enter, C!Exit, C!maps, classifier_maps,
        HandlerHasSession
  <2>2. CASE Lock(c)
    <3>1. \A b \in Caller : ~ AtStage(b, "removing")
      BY <2>2, AloneInside DEF Lock, RequestsOK
    <3>2. UNCHANGED <<sessions, classifier_maps>>
      BY <2>2 DEF Lock, C!Exit, C!maps
    <3>3. /\ request[c].sid \in DOMAIN sessions /\ sessions[request[c].sid] = request[c].target
          /\ request[c].sid \in DOMAIN classifiers \cap DOMAIN scored_by \cap DOMAIN dirty
      BY <2>2, <3>1 DEF Lock, RequestsOK, MapsFollow
    <3>4. \A b \in Caller : AtStage(b, "working") => request[b].target # request[c].target
      BY <2>2, RegistryAssumption DEF Lock, HandlerHasSession
    <3> QED
      BY <2>2, <3>2, <3>3, <3>4 DEF Lock, classifier_maps, HandlerHasSession
  <2>3. CASE Find(c)
    BY <2>3 DEF Find, C!GetSession, C!Touched, classifier_maps, HandlerHasSession
  <2>4. CASE Work(c)
    <3>1. \A b \in Caller : b # c /\ AtStage(b, "working") => request[b].target # request[c].target
      BY <2>4, WorkEnds DEF HandlerHasSession
    <3>2. request'[c].stage = "idle" /\ \A b \in Caller : b # c => request'[b] = request[b]
      BY <2>4, WorkEnds
    <3>3. \A i \in Instance : i # request[c].target => session_lock'[i] = session_lock[i]
      BY <2>4, WorkEnds
    <3>4. /\ UNCHANGED sessions
          /\ DOMAIN classifiers' = DOMAIN classifiers
          /\ DOMAIN scored_by' = DOMAIN scored_by
          /\ DOMAIN dirty' = DOMAIN dirty
      BY <2>4, WorkEnds DEF registry
    <3> QED
      BY <3>1, <3>2, <3>3, <3>4 DEF HandlerHasSession
  <2>5. CASE Clear(c)
    <3>1. \A b \in Caller : AtStage(b, "working") => request[b].sid # request[c].sid
      BY <2>5, RegistryAssumption DEF Clear, RequestsOK, HandlerHasSession
    <3>2. UNCHANGED <<sessions, session_lock>>
      BY <2>5 DEF Clear, registry
    <3>3. /\ DOMAIN classifiers' = DOMAIN classifiers \ {request[c].sid}
          /\ DOMAIN scored_by' = DOMAIN scored_by \ {request[c].sid}
          /\ DOMAIN dirty' = DOMAIN dirty \ {request[c].sid}
      BY <2>5, MapsLose DEF Clear
    <3> QED
      BY <2>5, <3>1, <3>2, <3>3 DEF Clear, HandlerHasSession
  <2>6. CASE Remove(c)
    <3>1. \A b \in Caller : AtStage(b, "working") => request[b].sid # request[c].sid
      BY <2>6, RegistryAssumption DEF Remove, RequestsOK, HandlerHasSession
    <3>2. /\ DOMAIN sessions' = DOMAIN sessions \ {request[c].sid}
          /\ \A k \in DOMAIN sessions' : sessions'[k] = sessions[k]
      BY <2>6, SessionRemoved DEF Remove, C!RemoveSession
    <3> QED
      BY <2>6, <3>1, <3>2 DEF Remove, classifier_maps, HandlerHasSession
  <2>7. ASSUME NEW i \in Instance, NEW t \in Timeout, Add(c, i, t) PROVE HandlerHasSession'
    <3>1. /\ request[c].sid \notin DOMAIN sessions
          /\ DOMAIN sessions' = DOMAIN sessions \cup {request[c].sid}
          /\ \A k \in DOMAIN sessions : sessions'[k] = sessions[k]
      <4>1. request[c].sid \notin DOMAIN sessions /\ C!Added(request[c].sid, i, t)
        BY <2>7 DEF Add, C!AddSession
      <4> QED
        BY <4>1, SessionAdded
    <3>2. /\ DOMAIN classifiers' = DOMAIN classifiers \cup {request[c].sid}
          /\ DOMAIN scored_by' = DOMAIN scored_by \cup {request[c].sid}
          /\ DOMAIN dirty' = DOMAIN dirty \cup {request[c].sid}
      BY <2>7, MapsGain DEF Add
    <3>3. /\ UNCHANGED session_lock /\ request'[c].stage = "added"
          /\ \A b \in Caller : b # c => request'[b] = request[b]
      BY <2>7 DEF Add
    <3> QED
      BY <3>1, <3>2, <3>3 DEF HandlerHasSession
  <2> QED
    BY <1>2, <2>1, <2>2, <2>3, <2>4, <2>5, <2>6, <2>7 DEF Serve
<1>3. ASSUME NEW m \in Monitor, MonitorMoves(m) PROVE HandlerHasSession'
  BY <1>3
  DEF MonitorMoves, C!Wake, C!Ends, C!BeginScan, C!EndScan, C!Keep, C!maps, classifier_maps,
      HandlerHasSession
<1>4. ASSUME NEW m \in Monitor, NEW s \in Session, Expire(m, s) PROVE HandlerHasSession'
  <2>1. \A b \in Caller : AtStage(b, "working") => request[b].sid # s
    BY <1>4, RegistryAssumption DEF Expire, HandlerHasSession
  <2>2. /\ DOMAIN sessions' = DOMAIN sessions \ {s}
        /\ \A k \in DOMAIN sessions' : sessions'[k] = sessions[k]
    BY <1>4, SessionRemoved DEF Expire, C!Expire
  <2>3. /\ DOMAIN classifiers' = DOMAIN classifiers \ {s}
        /\ DOMAIN scored_by' = DOMAIN scored_by \ {s}
        /\ DOMAIN dirty' = DOMAIN dirty \ {s}
    BY <1>4, MapsLose DEF Expire
  <2> QED
    BY <1>4, <2>1, <2>2, <2>3 DEF Expire, HandlerHasSession
<1> QED
  BY <1>1, <1>2, <1>3, <1>4
  DEF Next, vars, registry, C!Tick, C!maps, classifier_maps, HandlerHasSession

-----------------------------------------------------------------------------
(* Types *)

\* The variables of the service's own.
OwnTypes ==
    /\ session_lock \in [Instance -> Caller \cup {None}]
    /\ labels \in [Instance -> LabelSets]
    /\ \A s \in DOMAIN classifiers :
         classifiers[s] = None \/ classifiers[s] \in [pos : SUBSET Descriptor, neg : SUBSET Descriptor]
    /\ \A s \in DOMAIN dirty : dirty[s] \in BOOLEAN

\* A load leaves sets of descriptors wherever it stops.
LEMMA LoadTypes ==
    ASSUME NEW state \in LabelSets, NEW at \in 1 .. Len(LoadOrder), NEW loaded \in SUBSET Descriptor
    PROVE  LoadedUpTo(state, at, loaded) \in LabelSets
<1>1. DOMAIN NoLabels = {"pos", "neg", "pos_ext", "neg_ext"}
  BY DEF NoLabels
<1>2. \A s \in DOMAIN NoLabels : state[s] \in SUBSET Descriptor
  BY <1>1 DEF LabelSets
<1>3. \A s \in DOMAIN NoLabels : LoadedUpTo(state, at, loaded)[s] \in SUBSET Descriptor
  BY <1>2 DEF LoadedUpTo
<1>4. LoadedUpTo(state, at, loaded) =
        [s \in {"pos", "neg", "pos_ext", "neg_ext"} |-> LoadedUpTo(state, at, loaded)[s]]
  BY <1>1 DEF LoadedUpTo
<1> QED
  BY <1>1, <1>3, <1>4 DEF LabelSets

\* What the handlers make of the labels are label sets again.
LEMMA LabelTypes ==
    ASSUME NEW l \in LabelSets, NEW p \in SUBSET Descriptor, NEW n \in SUBSET Descriptor,
           NEW u \in SUBSET Descriptor
    PROVE  /\ WithExternal(l, p, n) \in LabelSets /\ Adjudicated(l, p, n, u, u) \in LabelSets
           /\ NoLabels \in LabelSets
           /\ Positives(l) \in SUBSET Descriptor /\ Negatives(l) \in SUBSET Descriptor
<1>1. WithExternal(l, p, n) \in LabelSets
  BY DEF WithExternal, LabelSets
<1>2. Adjudicated(l, p, n, u, u) \in LabelSets
  BY DEF Adjudicated, LabelSets
<1>3. NoLabels \in LabelSets
  BY DEF NoLabels, LabelSets
<1>4. Positives(l) \in SUBSET Descriptor /\ Negatives(l) \in SUBSET Descriptor
  BY DEF Positives, Negatives, LabelSets
<1> QED
  BY <1>1, <1>2, <1>3, <1>4

\* A handler's work keeps the types.
LEMMA WorkTypes ==
    ASSUME OwnTypes, C!TypeOK, HandlerHasSession, RequestTypes, NEW c \in Caller, Work(c)
    PROVE  OwnTypes'
<1> USE DEF Finishes, Labelled, MarkDirty, classifier_maps
<1>0. /\ request[c].target \in Instance /\ labels[request[c].target] \in LabelSets
      /\ request[c].sid \in DOMAIN classifiers
      /\ session_lock' \in [Instance -> Caller \cup {None}]
  <2>1. request[c].target \in Instance /\ request[c].sid \in DOMAIN classifiers
    BY WorkEnds DEF HandlerHasSession, C!TypeOK, C!Range
  <2>2. session_lock' \in [Instance -> Caller \cup {None}]
    BY WorkEnds DEF OwnTypes
  <2> QED
    BY <2>1, <2>2 DEF OwnTypes
<1>1. ASSUME NEW status, Look(c, status) PROVE OwnTypes'
  BY <1>0, <1>1 DEF Look, OwnTypes
<1>2. ASSUME NEW p \in SUBSET Descriptor, NEW n \in SUBSET Descriptor, AddExternal(c, p, n)
      PROVE  OwnTypes'
  <2>1. WithExternal(labels[request[c].target], p, n) \in LabelSets
    BY <1>0, LabelTypes
  <2>2. \A s \in DOMAIN dirty' : dirty'[s] \in BOOLEAN
    BY <1>2 DEF AddExternal, OwnTypes
  <2> QED
    BY <1>0, <1>2, <2>1, <2>2 DEF AddExternal, OwnTypes
<1>3. ASSUME NEW p \in SUBSET Descriptor, NEW n \in SUBSET Descriptor, NEW u \in SUBSET Descriptor,
             Adjudicate(c, p, n, u)
      PROVE  OwnTypes'
  <2>1. Adjudicated(labels[request[c].target], p, n, u, u) \in LabelSets
    BY <1>0, LabelTypes
  <2>2. \A s \in DOMAIN dirty' : dirty'[s] \in BOOLEAN
    BY <1>3 DEF Adjudicate, OwnTypes
  <2> QED
    BY <1>0, <1>3, <2>1, <2>2 DEF Adjudicate, OwnTypes
<1>4. ASSUME NEW uuids, Classify(c, uuids) PROVE OwnTypes'
  <2>1. /\ Positives(labels[request[c].target]) \in SUBSET Descriptor
        /\ Negatives(labels[request[c].target]) \in SUBSET Descriptor
    BY <1>0, LabelTypes
  <2>2. \A s \in DOMAIN dirty' : dirty'[s] \in BOOLEAN
    BY <1>4 DEF Classify, OwnTypes
  <2>3. \A s \in DOMAIN classifiers' :
          classifiers'[s] = None \/ classifiers'[s] \in [pos : SUBSET Descriptor, neg : SUBSET Descriptor]
    BY <1>0, <1>4, <2>1 DEF Classify, OwnTypes
  <2> QED
    BY <1>0, <1>4, <2>2, <2>3 DEF Classify, OwnTypes
<1>5. CASE Reset(c)
  <2>1. NoLabels \in LabelSets
    BY <1>0, LabelTypes
  <2>2. \A s \in DOMAIN dirty' : dirty'[s] \in BOOLEAN
    BY <1>5 DEF Reset, OwnTypes
  <2> QED
    BY <1>0, <1>5, <2>1, <2>2 DEF Reset, OwnTypes
<1>6. ASSUME NEW state \in SavedStates, SetState(c, state) PROVE OwnTypes'
  <2>1. /\ state \in LabelSets /\ NoLabels \in LabelSets
        /\ \A at \in 1 .. Len(LoadOrder), loaded \in SUBSET Descriptor :
             LoadedUpTo(state, at, loaded) \in LabelSets
    BY <1>0, LabelledAssumption, LabelTypes, LoadTypes
  <2> QED
    BY <1>0, <1>6, <2>1 DEF SetState, OwnTypes
<1>7. /\ \A x \in External : {x} \in SUBSET Descriptor
      /\ \A x \in AtMostOne(Indexed) : x \in SUBSET Descriptor
      /\ {} \in SUBSET Descriptor
  BY LabelledAssumption DEF AtMostOne
<1> QED
  BY <1>1, <1>2, <1>3, <1>4, <1>5, <1>6, <1>7 DEF Work, CannotClassify

\* Every step keeps the types of the service's own variables.
LEMMA OwnTypesStep ==
    OwnTypes /\ C!TypeOK /\ HandlerHasSession /\ RequestTypes /\ [Next]_vars => OwnTypes'
<1> SUFFICES ASSUME OwnTypes, C!TypeOK, HandlerHasSession, RequestTypes, [Next]_vars
             PROVE  OwnTypes'
  OBVIOUS
<1>0. NoLabels \in LabelSets
  BY DEF NoLabels, LabelSets
<1>1. ASSUME NEW c \in Caller, Arrive(c) PROVE OwnTypes'
  BY <1>1 DEF Arrive, Begin, Check, classifier_maps, OwnTypes
<1>2. ASSUME NEW c \in Caller, Serve(c) PROVE OwnTypes'
  <2>1. CASE NotFound(c) \/ Find(c) \/ Remove(c) \/ BeginAdding(c) \/ AddFails(c) \/ Leave(c)
    BY <2>1
    DEF NotFound, Find, Remove, BeginAdding, AddFails, Leave, classifier_maps, OwnTypes
  <2>2. CASE Lock(c)
    BY <2>2 DEF Lock, classifier_maps, OwnTypes
  <2>3. CASE Work(c)
    BY <2>3, WorkTypes
  <2>4. CASE Clear(c)
    <3>1. UNCHANGED session_lock /\ labels' \in [Instance -> LabelSets]
      BY <1>0, <2>4 DEF Clear, Labelled, OwnTypes
    <3>2. /\ DOMAIN classifiers' \subseteq DOMAIN classifiers /\ DOMAIN dirty' \subseteq DOMAIN dirty
          /\ \A k \in DOMAIN classifiers' : classifiers'[k] = classifiers[k]
          /\ \A k \in DOMAIN dirty' : dirty'[k] = dirty[k]
      BY <2>4, MapsLose DEF Clear
    <3> QED
      BY <3>1, <3>2 DEF OwnTypes
  <2>5. ASSUME NEW i \in Instance, NEW t \in Timeout, Add(c, i, t) PROVE OwnTypes'
    <3>1. UNCHANGED session_lock /\ labels' \in [Instance -> LabelSets]
      BY <1>0, <2>5 DEF Add, OwnTypes
    <3>2. /\ DOMAIN classifiers' = DOMAIN classifiers \cup {request[c].sid}
          /\ classifiers'[request[c].sid] = None
          /\ \A k \in DOMAIN classifiers \ {request[c].sid} : classifiers'[k] = classifiers[k]
      BY <2>5, MapsGain DEF Add
    <3>3. /\ DOMAIN dirty' = DOMAIN dirty \cup {request[c].sid}
          /\ dirty'[request[c].sid] = TRUE
          /\ \A k \in DOMAIN dirty \ {request[c].sid} : dirty'[k] = dirty[k]
      BY <2>5, MapsGain DEF Add
    <3>4. \A k \in DOMAIN dirty' : dirty'[k] \in BOOLEAN
      BY <3>3 DEF OwnTypes
    <3> QED
      BY <3>1, <3>2, <3>4 DEF OwnTypes
  <2> QED
    BY <1>2, <2>1, <2>2, <2>3, <2>4, <2>5 DEF Serve
<1>3. ASSUME NEW m \in Monitor, MonitorMoves(m) PROVE OwnTypes'
  BY <1>3 DEF MonitorMoves, classifier_maps, OwnTypes
<1>4. ASSUME NEW m \in Monitor, NEW s \in Session, Expire(m, s) PROVE OwnTypes'
  BY <1>4, MapsLose DEF Expire, OwnTypes
<1> QED
  BY <1>1, <1>2, <1>3, <1>4 DEF Next, vars, classifier_maps, OwnTypes

-----------------------------------------------------------------------------
(* Classifiers *)

\* Cached scores stay with their classifier: only a training or a reset changes
\* either, and both change the two together.
LEMMA ResultsStep ==
    OwnTypes /\ C!TypeOK /\ RequestTypes /\ MapsFollow /\ HandlerHasSession /\ ResultsOfClassifier
      /\ [Next]_vars => ResultsOfClassifier'
<1> SUFFICES ASSUME OwnTypes, C!TypeOK, RequestTypes, MapsFollow, HandlerHasSession,
                    ResultsOfClassifier, [Next]_vars
             PROVE  ResultsOfClassifier'
  OBVIOUS
<1> USE DEF ResultsOfClassifier
<1>1. ASSUME NEW c \in Caller, Work(c) PROVE ResultsOfClassifier'
  <2>0. /\ request[c].sid \in DOMAIN classifiers /\ request[c].sid \in DOMAIN scored_by
        /\ DOMAIN classifiers = DOMAIN scored_by
        /\ labels[request[c].target] \in LabelSets
    BY <1>1, WorkEnds DEF HandlerHasSession, MapsFollow, OwnTypes, C!TypeOK, C!Range
  <2>1. ASSUME UNCHANGED <<classifiers, scored_by>> PROVE ResultsOfClassifier'
    BY <2>1
  <2>2. ASSUME NEW uuids, Classify(c, uuids) PROVE ResultsOfClassifier'
    <3> DEFINE s == request[c].sid
               now == labels[request[c].target]
               trains == dirty[s] \/ classifiers[s] = None
               used == IF trains THEN [pos |-> Positives(now), neg |-> Negatives(now)]
                       ELSE classifiers[s]
               kept == IF trains THEN {} ELSE scored_by[s]
    <3>1. used # None
      <4>1. [pos |-> Positives(now), neg |-> Negatives(now)]
              \in [pos : SUBSET Descriptor, neg : SUBSET Descriptor]
        BY <2>0, LabelTypes
      <4> QED
        BY <4>1, LabelledAssumption
    <3>2. kept \subseteq {used}
      BY <2>0
    <3>3. /\ classifiers' = [classifiers EXCEPT ![s] = used]
          /\ \/ scored_by' = [scored_by EXCEPT ![s] = kept]
             \/ scored_by' = [scored_by EXCEPT ![s] = kept \cup {used}]
      BY <2>2 DEF Classify
    <3> HIDE DEF s, used, kept
    <3>4. s \in DOMAIN scored_by /\ s \in DOMAIN classifiers
      BY <2>0 DEF s
    <3>5. /\ classifiers'[s] = used /\ scored_by'[s] \subseteq {used}
          /\ DOMAIN scored_by' = DOMAIN scored_by
          /\ \A k \in DOMAIN scored_by \ {s} :
               scored_by'[k] = scored_by[k] /\ classifiers'[k] = classifiers[k]
      BY <2>0, <3>2, <3>3, <3>4
    <3> QED
      BY <3>1, <3>5
  <2>3. CASE Reset(c)
    BY <2>0, <2>3 DEF Reset
  <2> QED
    BY <1>1, <2>1, <2>2, <2>3
    DEF Work, Look, AddExternal, Adjudicate, CannotClassify, SetState, classifier_maps
<1>2. ASSUME NEW c \in Caller, Serve(c), ~ Work(c) PROVE ResultsOfClassifier'
  <2>1. CASE NotFound(c) \/ Find(c) \/ Lock(c) \/ Remove(c) \/ BeginAdding(c) \/ AddFails(c) \/ Leave(c)
    BY <2>1
    DEF NotFound, Find, Lock, Remove, BeginAdding, AddFails, Leave, classifier_maps
  <2>2. CASE Clear(c)
    <3>1. /\ DOMAIN scored_by' = DOMAIN scored_by \ {request[c].sid}
          /\ DOMAIN classifiers' = DOMAIN classifiers \ {request[c].sid}
          /\ \A k \in DOMAIN classifiers' : classifiers'[k] = classifiers[k]
          /\ \A k \in DOMAIN scored_by' : scored_by'[k] = scored_by[k]
      BY <2>2, MapsLose DEF Clear
    <3> QED
      BY <3>1 DEF MapsFollow
  <2>3. ASSUME NEW i \in Instance, NEW t \in Timeout, Add(c, i, t) PROVE ResultsOfClassifier'
    <3>1. /\ DOMAIN scored_by' = DOMAIN scored_by \cup {request[c].sid}
          /\ scored_by'[request[c].sid] = {}
          /\ \A k \in DOMAIN classifiers \ {request[c].sid} : classifiers'[k] = classifiers[k]
          /\ \A k \in DOMAIN scored_by \ {request[c].sid} : scored_by'[k] = scored_by[k]
      BY <2>3, MapsGain DEF Add
    <3> QED
      BY <3>1 DEF MapsFollow
  <2> QED
    BY <1>2, <2>1, <2>2, <2>3 DEF Serve
<1>3. ASSUME NEW m \in Monitor, NEW s \in Session, Expire(m, s) PROVE ResultsOfClassifier'
  <2>1. /\ DOMAIN scored_by' = DOMAIN scored_by \ {s}
        /\ DOMAIN classifiers' = DOMAIN classifiers \ {s}
        /\ \A k \in DOMAIN classifiers' : classifiers'[k] = classifiers[k]
        /\ \A k \in DOMAIN scored_by' : scored_by'[k] = scored_by[k]
    BY <1>3, MapsLose DEF Expire
  <2> QED
    BY <2>1 DEF MapsFollow
<1> QED
  BY <1>1, <1>2, <1>3
  DEF Next, vars, Arrive, Begin, Check, MonitorMoves, classifier_maps

\* No object serves two uuids.
OneUuidEach == \A s, r \in DOMAIN sessions : sessions[s] = sessions[r] => s = r

\* A session's object is new to the registry.
LEMMA UuidsStep == RegistryMoves /\ OneUuidEach => OneUuidEach'
<1> SUFFICES ASSUME RegistryMoves, OneUuidEach PROVE OneUuidEach'
  OBVIOUS
<1> USE DEF OneUuidEach
<1>1. ASSUME NEW s, C!Removed(s) PROVE OneUuidEach'
  BY <1>1, SessionRemoved
<1>2. ASSUME NEW c \in Caller, NEW s \in Session, NEW i \in Instance, NEW t \in Timeout,
             C!AddSession(c, s, i, t)
      PROVE  OneUuidEach'
  <2>1. s \notin DOMAIN sessions /\ C!Added(s, i, t) /\ \A k \in DOMAIN sessions : sessions[k] # i
    BY <1>2 DEF C!AddSession, C!Range
  <2>2. /\ DOMAIN sessions' = DOMAIN sessions \cup {s} /\ sessions'[s] = i
        /\ \A k \in DOMAIN sessions : sessions'[k] = sessions[k]
    BY <2>1, SessionAdded
  <2> QED
    BY <2>1, <2>2
<1>3. ASSUME UNCHANGED sessions PROVE OneUuidEach'
  BY <1>3
<1> QED
  BY <1>1, <1>2, <1>3
  DEF RegistryMoves, registry, C!Tick, C!Enter, C!Exit, C!GetSession, C!Touched, C!RemoveSession,
      C!Wake, C!Ends, C!BeginScan, C!EndScan, C!Keep, C!Expire, C!maps

\* What StaleOnlyAfterLoad says of one uuid.
Accounted(s) ==
    ~ dirty[s] =>
      LET now == labels[sessions[s]]
      IN \/ classifiers[s] = [pos |-> Positives(now), neg |-> Negatives(now)]
         \/ LeftByLoad(now)

\* A handler's work accounts for its own uuid: labels that change mark the
\* classifier dirty, unless a load changes them, and a training uses them all.
LEMMA OwnUuid ==
    ASSUME OwnTypes, C!TypeOK, RequestTypes, HandlerHasSession, NEW c \in Caller, Work(c),
           NEW s, s = request[c].sid, Accounted(s)
    PROVE  Accounted(s)'
<1> DEFINE i == request[c].target
<1> USE DEF Finishes, Labelled, MarkDirty, classifier_maps
<1>0. /\ s \in DOMAIN sessions /\ sessions[s] = i /\ i \in Instance
      /\ s \in DOMAIN classifiers /\ s \in DOMAIN dirty
      /\ labels \in [Instance -> LabelSets]
  BY WorkEnds DEF HandlerHasSession, C!TypeOK, C!Range, OwnTypes
<1>1. UNCHANGED sessions
  BY WorkEnds DEF registry
<1>2. ASSUME dirty'[s] PROVE Accounted(s)'
  BY <1>2 DEF Accounted
<1>3. ASSUME UNCHANGED <<labels, classifiers, dirty>> PROVE Accounted(s)'
  BY <1>1, <1>3 DEF Accounted
<1>4. ASSUME LeftByLoad(labels'[i]) PROVE Accounted(s)'
  BY <1>0, <1>1, <1>4 DEF Accounted
<1>5. ASSUME NEW uuids, Classify(c, uuids) PROVE Accounted(s)'
  <2>1. UNCHANGED labels
    BY <1>5 DEF Classify
  <2>2. CASE dirty[s] \/ classifiers[s] = None
    <3>1. classifiers'[s] = [pos |-> Positives(labels[i]), neg |-> Negatives(labels[i])]
      BY <1>0, <1>5, <2>2 DEF Classify
    <3> QED
      BY <1>0, <1>1, <2>1, <3>1 DEF Accounted
  <2>3. CASE ~ (dirty[s] \/ classifiers[s] = None)
    <3>1. classifiers'[s] = classifiers[s]
      BY <1>0, <1>5, <2>3 DEF Classify
    <3> QED
      BY <1>1, <2>1, <2>3, <3>1 DEF Accounted
  <2> QED
    BY <2>2, <2>3
<1>6. ASSUME NEW p, NEW n, AddExternal(c, p, n) PROVE Accounted(s)'
  BY <1>0, <1>2, <1>6 DEF AddExternal
<1>7. ASSUME NEW p, NEW n, NEW u, Adjudicate(c, p, n, u) PROVE Accounted(s)'
  <2>1. CASE Adjudicated(labels[i], p, n, u, u) # labels[i]
    BY <1>0, <1>2, <1>7, <2>1 DEF Adjudicate
  <2>2. CASE Adjudicated(labels[i], p, n, u, u) = labels[i]
    <3>1. UNCHANGED <<labels, classifiers, dirty>>
      BY <1>0, <1>7, <2>2 DEF Adjudicate
    <3> QED
      BY <1>3, <3>1
  <2> QED
    BY <2>1, <2>2
<1>8. CASE Reset(c)
  BY <1>0, <1>2, <1>8 DEF Reset
<1>9. ASSUME NEW state \in SavedStates, SetState(c, state) PROVE Accounted(s)'
  <2>1. \/ labels'[i] = state \/ labels'[i] = NoLabels
        \/ \E at \in 1 .. Len(LoadOrder), loaded \in SUBSET Descriptor :
             StopsAt(state, Mismatched, at, loaded) /\ labels'[i] = LoadedUpTo(state, at, loaded)
    BY <1>0, <1>9 DEF SetState
  <2>2. LeftByLoad(labels'[i])
    BY <2>1 DEF LeftByLoad
  <2> QED
    BY <1>4, <2>2
<1>10. ASSUME NEW status, Look(c, status) PROVE Accounted(s)'
  BY <1>3, <1>10 DEF Look
<1> QED
  BY <1>5, <1>6, <1>7, <1>8, <1>9, <1>10 DEF Work, CannotClassify

\* A handler's work leaves every other object and uuid alone.
LEMMA WorkIsLocal ==
    ASSUME NEW c \in Caller, Work(c)
    PROVE  /\ \A i \in DOMAIN labels \ {request[c].target} : labels'[i] = labels[i]
           /\ \A s \in DOMAIN classifiers \ {request[c].sid} : classifiers'[s] = classifiers[s]
           /\ \A s \in DOMAIN dirty \ {request[c].sid} : dirty'[s] = dirty[s]
<1> USE DEF Finishes, Labelled, MarkDirty, classifier_maps
<1> DEFINE Local ==
             /\ \A i \in DOMAIN labels \ {request[c].target} : labels'[i] = labels[i]
             /\ \A s \in DOMAIN classifiers \ {request[c].sid} : classifiers'[s] = classifiers[s]
             /\ \A s \in DOMAIN dirty \ {request[c].sid} : dirty'[s] = dirty[s]
<1>1. ASSUME NEW p, NEW n, AddExternal(c, p, n) PROVE Local
  BY <1>1 DEF AddExternal
<1>2. ASSUME NEW p, NEW n, NEW u, Adjudicate(c, p, n, u) PROVE Local
  <2>1. /\ labels' = [labels EXCEPT ![request[c].target] =
                        Adjudicated(labels[request[c].target], p, n, u, u)]
        /\ dirty' = dirty \/ dirty' = [dirty EXCEPT ![request[c].sid] = TRUE]
        /\ classifiers' = classifiers
    BY <1>2 DEF Adjudicate
  <2> QED
    BY <2>1
<1>3. ASSUME NEW uuids, Classify(c, uuids) PROVE Local
  BY <1>3 DEF Classify
<1>4. ASSUME Reset(c) PROVE Local
  BY <1>4 DEF Reset
<1>5. ASSUME NEW state, SetState(c, state) PROVE Local
  <2>1. /\ \E new : labels' = [labels EXCEPT ![request[c].target] = new]
        /\ dirty' = dirty /\ classifiers' = classifiers
    BY <1>5 DEF SetState
  <2> QED
    BY <2>1
<1>6. ASSUME NEW status, Look(c, status) PROVE Local
  BY <1>6 DEF Look
<1> HIDE DEF Local
<1>7. ASSUME CannotClassify(c) PROVE Local
  BY <1>6, <1>7 DEF CannotClassify
<1>8. ASSUME NEW x \in External, AddExternal(c, {x}, {}) \/ AddExternal(c, {}, {x}) PROVE Local
  BY <1>1, <1>8
<1>9. ASSUME \E p, n, u \in AtMostOne(Indexed) : Adjudicate(c, p, n, u) PROVE Local
  BY <1>2, <1>9
<1>10. Local
  BY <1>3, <1>4, <1>5, <1>6, <1>7, <1>8, <1>9 DEF Work
<1> QED
  BY <1>10 DEF Local

\* A handler's work accounts for the other uuids: none has its object.
LEMMA OtherUuids ==
    ASSUME OwnTypes, C!TypeOK, RequestTypes, HandlerHasSession, OneUuidEach, MapsFollow,
           NEW c \in Caller, Work(c),
           NEW s \in DOMAIN dirty \cap DOMAIN sessions, s # request[c].sid, Accounted(s)
    PROVE  Accounted(s)'
<1>1. sessions[s] # request[c].target /\ UNCHANGED sessions
  BY WorkEnds DEF HandlerHasSession, OneUuidEach, registry
<1>2. labels'[sessions[s]] = labels[sessions[s]]
  BY <1>1, WorkIsLocal DEF OwnTypes, C!TypeOK, C!Range
<1>3. classifiers'[s] = classifiers[s] /\ dirty'[s] = dirty[s]
  BY WorkIsLocal DEF MapsFollow
<1> QED
  BY <1>1, <1>2, <1>3 DEF Accounted

\* Every step keeps the account of every uuid.
LEMMA StaleStep ==
    OwnTypes /\ C!TypeOK /\ RequestTypes /\ RequestsOK /\ HandlerHasSession /\ OneUuidEach
      /\ MapsFollow /\ StaleOnlyAfterLoad /\ [Next]_vars => StaleOnlyAfterLoad'
<1> SUFFICES ASSUME OwnTypes, C!TypeOK, RequestTypes, RequestsOK, HandlerHasSession, OneUuidEach,
                    MapsFollow, StaleOnlyAfterLoad, [Next]_vars
             PROVE  StaleOnlyAfterLoad'
  OBVIOUS
<1>0. /\ \A s \in DOMAIN dirty \cap DOMAIN sessions : Accounted(s)
      /\ (\A s \in DOMAIN dirty' \cap DOMAIN sessions' : Accounted(s)') => StaleOnlyAfterLoad'
  BY DEF StaleOnlyAfterLoad, Accounted
<1>1. ASSUME UNCHANGED <<labels, classifiers, dirty>>,
             DOMAIN sessions' \subseteq DOMAIN sessions,
             \A k \in DOMAIN sessions' : sessions'[k] = sessions[k]
      PROVE  StaleOnlyAfterLoad'
  BY <1>0, <1>1 DEF Accounted
<1>2. ASSUME NEW c \in Caller, Arrive(c) PROVE StaleOnlyAfterLoad'
  <2>1. UNCHANGED <<labels, classifiers, dirty, sessions>>
    BY <1>2 DEF Arrive, Begin, Check, C!Enter, C!maps, registry, classifier_maps
  <2> QED
    BY <1>1, <2>1
<1>3. ASSUME NEW c \in Caller, Serve(c) PROVE StaleOnlyAfterLoad'
  <2>1. CASE NotFound(c) \/ Find(c) \/ Lock(c) \/ BeginAdding(c) \/ AddFails(c) \/ Leave(c)
    <3>1. UNCHANGED <<labels, classifiers, dirty, sessions>>
      BY <2>1
      DEF NotFound, Find, Lock, BeginAdding, AddFails, Leave, C!Enter, C!Exit, C!GetSession, C!Touched,
          C!maps, classifier_maps
    <3> QED
      BY <1>1, <3>1
  <2>2. CASE Work(c)
    <3>1. DOMAIN dirty' = DOMAIN dirty /\ UNCHANGED sessions
      BY <2>2, WorkEnds DEF registry
    <3>2. ASSUME NEW s \in DOMAIN dirty \cap DOMAIN sessions PROVE Accounted(s)'
      BY <1>0, <2>2, <3>2, OwnUuid, OtherUuids
    <3> QED
      BY <1>0, <3>1, <3>2
  <2>3. CASE Clear(c)
    <3>1. /\ DOMAIN classifiers' = DOMAIN classifiers \ {request[c].sid}
          /\ DOMAIN dirty' = DOMAIN dirty \ {request[c].sid}
          /\ \A k \in DOMAIN classifiers' : classifiers'[k] = classifiers[k]
          /\ \A k \in DOMAIN dirty' : dirty'[k] = dirty[k]
      BY <2>3, MapsLose DEF Clear
    <3>2. UNCHANGED sessions
      BY <2>3 DEF Clear, registry
    <3>3. \A s \in DOMAIN sessions : s # request[c].sid => labels'[sessions[s]] = labels[sessions[s]]
      BY <2>3 DEF Clear, Labelled, AtStage, RequestsOK, OneUuidEach, OwnTypes
    <3> QED
      BY <1>0, <3>1, <3>2, <3>3 DEF Accounted, MapsFollow
  <2>4. CASE Remove(c)
    <3>1. /\ DOMAIN sessions' \subseteq DOMAIN sessions
          /\ \A k \in DOMAIN sessions' : sessions'[k] = sessions[k]
      BY <2>4, SessionRemoved DEF Remove, C!RemoveSession
    <3>2. UNCHANGED <<labels, classifiers, dirty>>
      BY <2>4 DEF Remove, classifier_maps
    <3> QED
      BY <1>1, <3>1, <3>2
  <2>5. ASSUME NEW i \in Instance, NEW t \in Timeout, Add(c, i, t) PROVE StaleOnlyAfterLoad'
    <3>1. /\ request[c].sid \notin DOMAIN sessions
          /\ C!Added(request[c].sid, i, t) /\ \A k \in DOMAIN sessions : sessions[k] # i
      BY <2>5 DEF Add, C!AddSession, C!Range
    <3>2. /\ DOMAIN sessions' = DOMAIN sessions \cup {request[c].sid}
          /\ \A k \in DOMAIN sessions : sessions'[k] = sessions[k]
      BY <3>1, SessionAdded
    <3>3. /\ DOMAIN dirty' = DOMAIN dirty \cup {request[c].sid}
          /\ dirty'[request[c].sid] = TRUE
          /\ \A k \in DOMAIN classifiers \ {request[c].sid} : classifiers'[k] = classifiers[k]
          /\ \A k \in DOMAIN dirty \ {request[c].sid} : dirty'[k] = dirty[k]
      BY <2>5, MapsGain DEF Add
    <3>4. \A k \in DOMAIN sessions : labels'[sessions[k]] = labels[sessions[k]]
      BY <2>5, <3>1 DEF Add, OwnTypes
    <3>5. ASSUME NEW s \in DOMAIN dirty' \cap DOMAIN sessions', s # request[c].sid PROVE Accounted(s)'
      BY <1>0, <3>2, <3>3, <3>4, <3>5 DEF Accounted, MapsFollow
    <3>6. ASSUME NEW s, s = request[c].sid PROVE Accounted(s)'
      BY <3>3, <3>6 DEF Accounted
    <3> QED
      BY <1>0, <3>5, <3>6
  <2> QED
    BY <1>3, <2>1, <2>2, <2>3, <2>4, <2>5 DEF Serve
<1>4. ASSUME NEW m \in Monitor, MonitorMoves(m) PROVE StaleOnlyAfterLoad'
  <2>1. UNCHANGED <<labels, classifiers, dirty, sessions>>
    BY <1>4
    DEF MonitorMoves, C!Wake, C!Ends, C!BeginScan, C!EndScan, C!Keep, C!maps, classifier_maps
  <2> QED
    BY <1>1, <2>1
<1>5. ASSUME NEW m \in Monitor, NEW s \in Session, Expire(m, s) PROVE StaleOnlyAfterLoad'
  <2>1. /\ DOMAIN classifiers' = DOMAIN classifiers \ {s}
        /\ DOMAIN dirty' = DOMAIN dirty \ {s}
        /\ \A k \in DOMAIN classifiers' : classifiers'[k] = classifiers[k]
        /\ \A k \in DOMAIN dirty' : dirty'[k] = dirty[k]
    BY <1>5, MapsLose DEF Expire
  <2>2. /\ DOMAIN sessions' = DOMAIN sessions \ {s}
        /\ \A k \in DOMAIN sessions' : sessions'[k] = sessions[k]
    BY <1>5, SessionRemoved DEF Expire, C!Expire
  <2>3. UNCHANGED labels
    BY <1>5 DEF Expire
  <2> QED
    BY <1>0, <2>1, <2>2, <2>3 DEF Accounted, MapsFollow
<1>6. CASE C!Tick /\ UNCHANGED <<session_lock, labels, classifier_maps, request>>
  BY <1>1, <1>6 DEF C!Tick, C!maps, classifier_maps
<1>7. CASE UNCHANGED vars
  BY <1>1, <1>7 DEF vars, registry, classifier_maps
<1> QED
  BY <1>2, <1>3, <1>4, <1>5, <1>6, <1>7 DEF Next

-----------------------------------------------------------------------------
(* The theorems *)

\* The inductive invariant.
IInv ==
    /\ C!TypeOK /\ OwnTypes /\ RequestTypes
    /\ LockOwner /\ RequestsOK /\ MapsFollow /\ OneUuidEach
    /\ HandlerHasSession /\ ResultsOfClassifier /\ StaleOnlyAfterLoad

\* The registry starts with no session and nobody in it.
LEMMA RegistryInit == C!Init => C!TypeOK /\ LockOwner /\ OneUuidEach /\ DOMAIN sessions = {}
<1> SUFFICES ASSUME C!Init PROVE C!TypeOK /\ LockOwner /\ OneUuidEach /\ DOMAIN sessions = {}
  OBVIOUS
<1>1. DOMAIN C!NoMap = {} /\ C!Range(C!NoMap) = {}
  BY DEF C!NoMap, C!Range
<1>2. clock = 0 /\ 0 \in 0 .. MaxTime /\ 0 \in 0 .. clock
  BY RegistryAssumption DEF C!Init
<1>3. /\ expire_thread \in Monitor \cup {None} /\ stop_event \in BOOLEAN
      /\ monitor \in [Monitor -> [pc : {"unborn", "waiting", "woken", "scanning", "dead", "ended"},
                                  now : 0 .. clock, todo : SUBSET Session]]
      /\ \A m \in Monitor : monitor[m].pc \in {"unborn", "waiting"}
  <2>1. C!Waiting \in [pc : {"unborn", "waiting", "woken", "scanning", "dead", "ended"},
                       now : 0 .. clock, todo : SUBSET Session]
        /\ C!Waiting.pc = "waiting"
    BY <1>2 DEF C!Waiting
  <2>2. C!NotRunning("unborn") \in [pc : {"unborn", "waiting", "woken", "scanning", "dead", "ended"},
                                    now : 0 .. clock, todo : SUBSET Session]
        /\ C!NotRunning("unborn").pc = "unborn"
    BY <1>2 DEF C!NotRunning
  <2> QED
    BY <2>1, <2>2 DEF C!Init
<1>4. C!TypeOK
  BY <1>1, <1>2, <1>3 DEF C!Init, C!TypeOK
<1>5. LockOwner
  BY <1>3, RegistryAssumption DEF C!Init, LockOwner
<1> QED
  BY <1>1, <1>4, <1>5 DEF C!Init, OneUuidEach

\* The inductive invariant holds throughout.
THEOREM Invariant == Spec => []IInv
<1>1. Init => IInv
  <2> SUFFICES ASSUME Init PROVE IInv
    OBVIOUS
  <2>1. C!TypeOK /\ LockOwner /\ OneUuidEach /\ DOMAIN sessions = {}
    BY RegistryInit DEF Init
  <2>2. DOMAIN classifiers = {} /\ DOMAIN scored_by = {} /\ DOMAIN dirty = {}
    BY DEF Init, C!NoMap
  <2>3. NoLabels \in LabelSets
    BY DEF NoLabels, LabelSets
  <2>4. OwnTypes /\ RequestTypes
    BY <2>2, <2>3 DEF Init, OwnTypes, RequestTypes, Idle
  <2>5. \A c \in Caller : request[c].stage = "idle"
    BY DEF Init, Idle
  <2>6. RequestsOK /\ MapsFollow /\ HandlerHasSession
    BY <2>1, <2>2, <2>5 DEF RequestsOK, MapsFollow, HandlerHasSession, AtStage, Holding
  <2>7. ResultsOfClassifier /\ StaleOnlyAfterLoad
    BY <2>2 DEF ResultsOfClassifier, StaleOnlyAfterLoad
  <2> QED
    BY <2>1, <2>4, <2>6, <2>7 DEF IInv
<1>2. IInv /\ [Next]_vars => IInv'
  <2> SUFFICES ASSUME IInv, [Next]_vars PROVE IInv'
    OBVIOUS
  <2> USE DEF IInv
  <2>1. session_lock \in [Instance -> Caller \cup {None}]
    BY DEF OwnTypes
  <2>2. RegistryMoves
    BY ServiceMoves
  <2>3. C!TypeOK' /\ LockOwner' /\ OneUuidEach'
    BY <2>2, RegistryTypes, LockStep, UuidsStep
  <2>4. OwnTypes' /\ RequestTypes'
    BY OwnTypesStep, RequestTypesStep
  <2>5. RequestsOK' /\ MapsFollow' /\ HandlerHasSession'
    BY <2>1, RequestsStep, MapsFollowStep, HandlerStep
  <2>6. ResultsOfClassifier' /\ StaleOnlyAfterLoad'
    BY ResultsStep, StaleStep
  <2> QED
    BY <2>3, <2>4, <2>5, <2>6
<1> QED
  BY <1>1, <1>2, PTL DEF Spec

\* Each variable of the service and of its registry keeps its type.
THEOREM TypeCorrect == Spec => []TypeOK
<1>1. IInv => TypeOK
  <2> SUFFICES ASSUME IInv PROVE TypeOK
    OBVIOUS
  <2>1. C!TypeOK /\ OwnTypes /\ RequestTypes
    BY DEF IInv
  <2>2. Range(dirty) \subseteq BOOLEAN
    BY <2>1 DEF OwnTypes, Range
  <2>3. \A c \in Caller : request[c].target \in Instance \cup {None}
    BY <2>1 DEF RequestTypes
  <2> QED
    BY <2>1, <2>2, <2>3 DEF TypeOK, OwnTypes
<1> QED
  BY <1>1, Invariant, PTL

\* A handler at work holds the lock of the object its uuid names and finds the
\* uuid in the service's maps, whatever DELETE and expirations do.
THEOREM HandlersHaveSessions == Spec => []HandlerHasSession
BY Invariant, PTL DEF IInv

\* When nobody holds the controller the service's maps have the registered
\* sessions.
THEOREM MapsAlwaysAgree == Spec => []ServiceMapsAgree
<1>1. IInv => ServiceMapsAgree
  <2> SUFFICES ASSUME IInv, map_lock = None PROVE DOMAIN classifiers = DOMAIN sessions
                                                  /\ DOMAIN scored_by = DOMAIN sessions
                                                  /\ DOMAIN dirty = DOMAIN sessions
    BY DEF ServiceMapsAgree
  <2>1. \A c \in Caller : ~ AtStage(c, "removing")
    BY NobodyInside, RegistryAssumption DEF IInv, AtStage, Holding
  <2> QED
    BY <2>1 DEF IInv, MapsFollow
<1> QED
  BY <1>1, Invariant, PTL

\* Cached scores are the present classifier's.
THEOREM ScoresAreCurrent == Spec => []ResultsOfClassifier
BY Invariant, PTL DEF IInv

\* A classifier that is not marked dirty is of the session's labels, or the
\* labels are a load's.
THEOREM StaleOnlyAfterALoad == Spec => []StaleOnlyAfterLoad
BY Invariant, PTL DEF IInv

\* The service uses the registry as IqrController says: every step of the
\* service is one of the registry's or leaves it alone.
THEOREM ServiceUsesRegistry == Spec => C!Spec
<1>1. Init => C!Init
  BY DEF Init
<1>2. IInv /\ [Next]_vars => [C!Next]_(C!vars)
  <2> SUFFICES ASSUME IInv, [Next]_vars PROVE C!Next \/ UNCHANGED C!vars
    OBVIOUS
  <2>1. RegistryMoves
    BY ServiceMoves DEF IInv
  <2> QED
    BY <2>1 DEF RegistryMoves, registry, C!Next, C!MonitorStep, C!vars, C!maps, C!control
<1> QED
  BY <1>1, <1>2, Invariant, PTL DEF Spec, C!Spec
=============================================================================
