------------------------ MODULE IqrControllerProofs ------------------------
(***************************************************************************)
(* The invariants of IqrController, and that the expiration thread removes *)
(* idle sessions only, for any number of sessions, callers and threads.    *)
(***************************************************************************)
EXTENDS IqrController, TLAPS

\* Who holds the lock is where the holder is: a caller inside a `with` block or
\* a join, or a thread in its walk.
LockOwner ==
    /\ \A c \in Caller : caller[c] # "outside" <=> map_lock = c
    /\ \A m \in Monitor : monitor[m].pc = "scanning" <=> map_lock = m

\* A join waits for the thread it has told to stop.
Joining ==
    \A c \in Caller : caller[c] \in {"stopping", "restarting"} => stop_event /\ expire_thread # None

\* The inductive invariant.
IInv == TypeOK /\ LockOwner /\ Joining /\ MapsAgree /\ OneMonitor

-----------------------------------------------------------------------------
(* Maps *)

\* Writing a key.
LEMMA SetFacts ==
    ASSUME NEW f, NEW s, NEW v
    PROVE  /\ DOMAIN Set(f, s, v) = DOMAIN f \cup {s}
           /\ Range(Set(f, s, v)) \subseteq Range(f) \cup {v}
           /\ \A k \in DOMAIN f \cup {s} : Set(f, s, v)[k] = IF k = s THEN v ELSE f[k]
BY DEF Set, Range

\* Deleting a key.
LEMMA DelFacts ==
    ASSUME NEW f, NEW s
    PROVE  /\ DOMAIN Del(f, s) = DOMAIN f \ {s}
           /\ Range(Del(f, s)) \subseteq Range(f)
           /\ \A k \in DOMAIN f \ {s} : Del(f, s)[k] = f[k]
BY DEF Del, Restrict, Range

\* A caller that may use the maps finds no thread in its walk.
LEMMA NobodyScans ==
    ASSUME LockOwner, NEW c \in Caller, CanLock(c)
    PROVE  \A m \in Monitor : monitor[m].pc # "scanning" /\ map_lock # m
BY ThreadAssumption DEF LockOwner, CanLock

-----------------------------------------------------------------------------
(* Type correctness *)

\* What the registry's own methods do to the three maps.
MapTypes(f, g, h) ==
    /\ DOMAIN f \subseteq Session /\ Range(f) \subseteq Instance
    /\ DOMAIN g \subseteq Session /\ Range(g) \subseteq Timeout \ {0}
    /\ DOMAIN h \subseteq Session /\ Range(h) \subseteq 0 .. clock

\* Writing a key keeps the type of a map.
LEMMA SetTypes ==
    ASSUME NEW f, NEW s, NEW v, NEW K, NEW V,
           DOMAIN f \subseteq K, Range(f) \subseteq V, s \in K, v \in V
    PROVE  DOMAIN Set(f, s, v) \subseteq K /\ Range(Set(f, s, v)) \subseteq V
<1>1. DOMAIN Set(f, s, v) = DOMAIN f \cup {s} /\ Range(Set(f, s, v)) \subseteq Range(f) \cup {v}
  BY SetFacts
<1> QED
  BY <1>1

\* So does deleting one.
LEMMA DelTypes ==
    ASSUME NEW f, NEW s, NEW K, NEW V, DOMAIN f \subseteq K, Range(f) \subseteq V
    PROVE  DOMAIN Del(f, s) \subseteq K /\ Range(Del(f, s)) \subseteq V
BY DelFacts

\* add_session and get_session keep the types of the maps.
LEMMA AddedTypes ==
    ASSUME TypeOK, NEW s \in Session, NEW i \in Instance, NEW t \in Timeout, Added(s, i, t)
    PROVE  MapTypes(sessions', timeouts', last_access')
<1>1. clock \in 0 .. clock
  BY TimeAssumption DEF TypeOK
<1>2. t > 0 => t \in Timeout \ {0}
  BY TimeAssumption
<1>3. DOMAIN Set(sessions, s, i) \subseteq Session /\ Range(Set(sessions, s, i)) \subseteq Instance
  BY SetTypes DEF TypeOK
<1>4. t > 0 => /\ DOMAIN Set(timeouts, s, t) \subseteq Session
               /\ Range(Set(timeouts, s, t)) \subseteq Timeout \ {0}
  <2>1. DOMAIN timeouts \subseteq Session /\ Range(timeouts) \subseteq Timeout \ {0}
    BY DEF TypeOK
  <2> QED
    BY <1>2, <2>1, SetTypes
<1>5. /\ DOMAIN Set(last_access, s, clock) \subseteq Session
      /\ Range(Set(last_access, s, clock)) \subseteq 0 .. clock
  <2>1. DOMAIN last_access \subseteq Session /\ Range(last_access) \subseteq 0 .. clock
    BY DEF TypeOK
  <2> QED
    BY <1>1, <2>1, SetTypes
<1> QED
  BY <1>3, <1>4, <1>5 DEF Added, MapTypes, TypeOK

\* A read keeps them too.
LEMMA TouchedTypes ==
    ASSUME TypeOK, NEW s \in Session, Touched(s)
    PROVE  MapTypes(sessions', timeouts', last_access')
<1>1. clock \in 0 .. clock
  BY TimeAssumption DEF TypeOK
<1>2. /\ DOMAIN Set(last_access, s, clock) \subseteq Session
      /\ Range(Set(last_access, s, clock)) \subseteq 0 .. clock
  <2>1. DOMAIN last_access \subseteq Session /\ Range(last_access) \subseteq 0 .. clock
    BY DEF TypeOK
  <2> QED
    BY <1>1, <2>1, SetTypes
<1> QED
  BY <1>2 DEF Touched, MapTypes, TypeOK

\* So does a removal, by a caller or by the thread.
LEMMA RemovedTypes ==
    ASSUME TypeOK, NEW s \in Session, Removed(s)
    PROVE  MapTypes(sessions', timeouts', last_access')
<1>1. DOMAIN Del(sessions, s) \subseteq Session /\ Range(Del(sessions, s)) \subseteq Instance
  BY DelTypes DEF TypeOK
<1>2. DOMAIN Del(timeouts, s) \subseteq Session /\ Range(Del(timeouts, s)) \subseteq Timeout \ {0}
  BY DelTypes DEF TypeOK
<1>3. DOMAIN Del(last_access, s) \subseteq Session /\ Range(Del(last_access, s)) \subseteq 0 .. clock
  BY DelTypes DEF TypeOK
<1> QED
  BY <1>1, <1>2, <1>3 DEF Removed, MapTypes, TypeOK

\* Starting a thread.
LEMMA StartedTypes ==
    ASSUME TypeOK, NEW m \in Monitor, Started(m), clock' = clock
    PROVE  /\ expire_thread' \in Monitor /\ stop_event' = FALSE
           /\ monitor' \in [Monitor -> [pc : {"unborn", "waiting", "woken", "scanning", "dead", "ended"},
                                        now : 0 .. clock, todo : SUBSET Session]]
BY TimeAssumption DEF TypeOK, Started, Waiting

\* TypeOK is inductive.
LEMMA TypeStep == TypeOK /\ [Next]_vars => TypeOK'
<1> SUFFICES ASSUME TypeOK, [Next]_vars PROVE TypeOK'
  OBVIOUS
<1>0. clock \in Nat /\ 0 \in 0 .. clock /\ clock \in 0 .. clock
  BY TimeAssumption DEF TypeOK
<1>1. CASE Tick
  <2>1. clock' \in 0 .. MaxTime /\ 0 .. clock \subseteq 0 .. clock'
    BY <1>0, <1>1, TimeAssumption DEF Tick, TypeOK
  <2> QED
    BY <1>1, <2>1 DEF Tick, TypeOK, maps, control
<1>2. ASSUME NEW c \in Caller, NEW s \in Session, NEW i \in Instance, NEW t \in Timeout,
             AddSession(c, s, i, t)
      PROVE  TypeOK'
  BY <1>2, AddedTypes DEF AddSession, MapTypes, TypeOK, control
<1>3. ASSUME NEW c \in Caller, NEW s \in Session, GetSession(c, s) PROVE TypeOK'
  BY <1>3, TouchedTypes DEF GetSession, MapTypes, TypeOK, control
<1>4. ASSUME NEW c \in Caller, NEW s \in Session, RemoveSession(c, s) PROVE TypeOK'
  BY <1>4, RemovedTypes DEF RemoveSession, MapTypes, TypeOK, control
<1>5. ASSUME NEW c \in Caller, Enter(c) PROVE TypeOK'
  BY <1>5 DEF Enter, TypeOK, maps, control
<1>6. ASSUME NEW c \in Caller, Exit(c) PROVE TypeOK'
  BY <1>6 DEF Exit, TypeOK, maps, control
<1>7. ASSUME NEW c \in Caller, NEW next \in {"stopping", "restarting"}, StopAndJoin(c, next)
      PROVE  TypeOK'
  BY <1>7 DEF StopAndJoin, TypeOK, maps
<1>8. ASSUME NEW c \in Caller, Joined(c) PROVE TypeOK'
  BY <1>8, StartedTypes DEF Joined, TypeOK, maps
<1>9. ASSUME NEW c \in Caller, StartFirst(c) PROVE TypeOK'
  BY <1>9, StartedTypes DEF StartFirst, TypeOK, maps
<1>10. ASSUME NEW m \in Monitor, MonitorStep(m) PROVE TypeOK'
  <2>1. CASE Wake(m)
    BY <1>0, <2>1 DEF Wake, TypeOK, maps, control
  <2>2. CASE Ends(m)
    BY <2>2 DEF Ends, MonitorIs, TypeOK, maps, control
  <2>3. CASE BeginScan(m)
    BY <2>3 DEF BeginScan, TypeOK, maps, control
  <2>4. ASSUME NEW s \in Session, Keep(m, s) PROVE TypeOK'
    BY <2>4 DEF Keep, TypeOK, maps, control
  <2>5. ASSUME NEW s \in Session, Expire(m, s) PROVE TypeOK'
    BY <1>0, <2>5, RemovedTypes DEF Expire, NotRunning, MapTypes, TypeOK, control
  <2>6. CASE EndScan(m)
    BY <1>0, <2>6 DEF EndScan, Waiting, TypeOK, maps, control
  <2> QED
    BY <1>10, <2>1, <2>2, <2>3, <2>4, <2>5, <2>6 DEF MonitorStep
<1>11. CASE UNCHANGED vars
  BY <1>11 DEF vars, maps, control, TypeOK
<1> QED
  BY <1>1, <1>2, <1>3, <1>4, <1>5, <1>6, <1>7, <1>8, <1>9, <1>10, <1>11 DEF Next

\* Initially no session is known, and every variable has its type.
LEMMA InitTypes == Init => TypeOK
<1> SUFFICES ASSUME Init PROVE TypeOK
  OBVIOUS
<1>1. DOMAIN NoMap = {} /\ Range(NoMap) = {}
  BY DEF NoMap, Range
<1>2. clock = 0 /\ 0 \in 0 .. MaxTime /\ 0 \in 0 .. clock
  BY TimeAssumption DEF Init
<1>3. /\ expire_thread \in Monitor \cup {None} /\ stop_event \in BOOLEAN
      /\ monitor \in [Monitor -> [pc : {"unborn", "waiting", "woken", "scanning", "dead", "ended"},
                                  now : 0 .. clock, todo : SUBSET Session]]
  <2>1. Waiting \in [pc : {"unborn", "waiting", "woken", "scanning", "dead", "ended"},
                     now : 0 .. clock, todo : SUBSET Session]
    BY <1>2 DEF Waiting
  <2>2. NotRunning("unborn") \in [pc : {"unborn", "waiting", "woken", "scanning", "dead", "ended"},
                                  now : 0 .. clock, todo : SUBSET Session]
    BY <1>2 DEF NotRunning
  <2> QED
    BY <2>1, <2>2 DEF Init
<1> QED
  BY <1>1, <1>2, <1>3 DEF Init, TypeOK

\* Each variable of the registry keeps its type.
THEOREM TypeCorrect == Spec => []TypeOK
BY InitTypes, TypeStep, PTL DEF Spec

-----------------------------------------------------------------------------
(* The lock, the thread and the maps *)

\* The holder of the lock is the only one where the lock is needed.
LEMMA LockStep == TypeOK /\ LockOwner /\ [Next]_vars => LockOwner'
<1> SUFFICES ASSUME TypeOK, LockOwner, [Next]_vars PROVE LockOwner'
  OBVIOUS
<1> USE ThreadAssumption DEF LockOwner
<1>0. /\ caller \in [Caller -> {"outside", "inside", "stopping", "restarting"}]
      /\ monitor \in [Monitor -> [pc : {"unborn", "waiting", "woken", "scanning", "dead", "ended"},
                                  now : 0 .. clock, todo : SUBSET Session]]
  BY DEF TypeOK
<1>1. ASSUME NEW c \in Caller, Enter(c) PROVE LockOwner'
  BY <1>0, <1>1 DEF Enter
<1>2. ASSUME NEW c \in Caller, Exit(c) PROVE LockOwner'
  BY <1>0, <1>2 DEF Exit
<1>3. ASSUME NEW c \in Caller, NEW next \in {"stopping", "restarting"}, StopAndJoin(c, next)
      PROVE  LockOwner'
  BY <1>0, <1>3 DEF StopAndJoin
<1>4. ASSUME NEW c \in Caller, Joined(c) PROVE LockOwner'
  <2>1. map_lock = c /\ \A m \in Monitor : monitor[m].pc # "scanning"
    BY <1>4 DEF Joined
  <2>2. \A m \in Monitor : monitor'[m].pc # "scanning"
    BY <1>0, <1>4, <2>1 DEF Joined, Started, Waiting
  <2> QED
    BY <1>0, <1>4, <2>1, <2>2 DEF Joined
<1>5. ASSUME NEW c \in Caller, StartFirst(c) PROVE LockOwner'
  <2>1. \A m \in Monitor : monitor[m].pc # "scanning" /\ map_lock # m
    BY <1>5, NobodyScans DEF StartFirst
  <2>2. \A m \in Monitor : monitor'[m].pc # "scanning"
    BY <1>0, <1>5, <2>1 DEF StartFirst, Started, Waiting
  <2> QED
    BY <1>5, <2>1, <2>2 DEF StartFirst
<1>6. ASSUME NEW m \in Monitor, MonitorStep(m) PROVE LockOwner'
  <2>1. CASE Wake(m)
    BY <1>0, <2>1 DEF Wake
  <2>2. CASE Ends(m)
    BY <1>0, <2>2 DEF Ends, MonitorIs
  <2>3. CASE BeginScan(m)
    BY <1>0, <2>3 DEF BeginScan
  <2>4. ASSUME NEW s \in Session, Keep(m, s) PROVE LockOwner'
    BY <1>0, <2>4 DEF Keep
  <2>5. ASSUME NEW s \in Session, Expire(m, s) PROVE LockOwner'
    BY <1>0, <2>5 DEF Expire, NotRunning
  <2>6. CASE EndScan(m)
    BY <1>0, <2>6 DEF EndScan, Waiting
  <2> QED
    BY <1>6, <2>1, <2>2, <2>3, <2>4, <2>5, <2>6 DEF MonitorStep
<1> QED
  BY <1>1, <1>2, <1>3, <1>4, <1>5, <1>6
  DEF Next, vars, Tick, AddSession, GetSession, RemoveSession

\* A join leaves the event set and the thread named until it is over.
LEMMA JoiningStep == TypeOK /\ LockOwner /\ Joining /\ [Next]_vars => Joining'
<1> SUFFICES ASSUME TypeOK, LockOwner, Joining, [Next]_vars PROVE Joining'
  OBVIOUS
<1> USE ThreadAssumption DEF Joining
<1>0. caller \in [Caller -> {"outside", "inside", "stopping", "restarting"}]
  BY DEF TypeOK
<1>1. ASSUME NEW c \in Caller, Joined(c) PROVE Joining'
  <2>1. \A b \in Caller : b # c => caller[b] = "outside"
    BY <1>0, <1>1 DEF Joined, LockOwner
  <2> QED
    BY <1>0, <1>1, <2>1 DEF Joined
<1>2. ASSUME NEW c \in Caller, StartFirst(c) PROVE Joining'
  BY <1>0, <1>2 DEF StartFirst
<1>3. ASSUME NEW c \in Caller, NEW next \in {"stopping", "restarting"}, StopAndJoin(c, next)
      PROVE  Joining'
  BY <1>0, <1>3 DEF StopAndJoin
<1>4. ASSUME NEW c \in Caller, Enter(c) \/ Exit(c) PROVE Joining'
  BY <1>0, <1>4 DEF Enter, Exit, control
<1>5. ASSUME NEW m \in Monitor, MonitorStep(m) PROVE Joining'
  BY <1>5 DEF MonitorStep, Wake, Ends, BeginScan, Keep, Expire, EndScan, control
<1> QED
  BY <1>1, <1>2, <1>3, <1>4, <1>5 DEF Next, vars, control, Tick, AddSession, GetSession, RemoveSession

\* At most one thread runs: a second is started only after a join, or when none
\* was named.
LEMMA MonitorsStep == TypeOK /\ LockOwner /\ Joining /\ OneMonitor /\ [Next]_vars => OneMonitor'
<1> SUFFICES ASSUME TypeOK, LockOwner, Joining, OneMonitor, [Next]_vars PROVE OneMonitor'
  OBVIOUS
<1> USE DEF OneMonitor
<1>0. /\ monitor \in [Monitor -> [pc : {"unborn", "waiting", "woken", "scanning", "dead", "ended"},
                                  now : 0 .. clock, todo : SUBSET Session]]
      /\ None \notin Monitor
  BY ThreadAssumption DEF TypeOK
<1>1. ASSUME NEW n \in Monitor, Started(n), \A m \in Monitor : ~ Alive(m) PROVE OneMonitor'
  <2>1. expire_thread' = n /\ expire_thread' # None
    BY <1>0, <1>1 DEF Started
  <2>2. \A m \in Monitor : m # n => monitor'[m] = monitor[m]
    BY <1>0, <1>1 DEF Started
  <2>3. \A m \in Monitor : m # n => ~ Alive(m)'
    BY <1>1, <2>2 DEF Alive
  <2> QED
    BY <2>1, <2>3
<1>2. ASSUME NEW c \in Caller, Joined(c) PROVE OneMonitor'
  <2>1. \A m \in Monitor : ~ Alive(m)
    BY <1>2 DEF Joined
  <2>2. stop_event
    BY <1>2 DEF Joined, Joining
  <2> QED
    BY <1>1, <1>2, <2>1, <2>2 DEF Joined, Alive
<1>3. ASSUME NEW c \in Caller, StartFirst(c) PROVE OneMonitor'
  <2>1. \A m \in Monitor : ~ Alive(m)
    BY <1>0, <1>3 DEF StartFirst
  <2> QED
    BY <1>1, <1>3, <2>1 DEF StartFirst
<1>4. ASSUME NEW c \in Caller, NEW next \in {"stopping", "restarting"}, StopAndJoin(c, next)
      PROVE  OneMonitor'
  BY <1>4 DEF StopAndJoin, Alive
<1>5. ASSUME NEW m \in Monitor, MonitorStep(m) PROVE OneMonitor'
  <2>1. expire_thread' = expire_thread /\ stop_event' = stop_event
    BY <1>5 DEF MonitorStep, Wake, Ends, BeginScan, Keep, Expire, EndScan, control
  <2>2. \A n \in Monitor : n # m => monitor'[n] = monitor[n]
    BY <1>0, <1>5 DEF MonitorStep, Wake, Ends, MonitorIs, BeginScan, Keep, Expire, EndScan
  <2>3. Alive(m)
    BY <1>5 DEF MonitorStep, Wake, Ends, BeginScan, Keep, Expire, EndScan, Alive
  <2> QED
    BY <2>1, <2>2, <2>3 DEF Alive
<1> QED
  BY <1>2, <1>3, <1>4, <1>5
  DEF Next, vars, control, Tick, AddSession, GetSession, RemoveSession, Enter, Exit, Alive

\* The maps keep step, and a thread's keys stay among them: while it walks,
\* nobody else has the lock.
LEMMA MapsStep == TypeOK /\ LockOwner /\ MapsAgree /\ [Next]_vars => MapsAgree'
<1> SUFFICES ASSUME TypeOK, LockOwner, MapsAgree, [Next]_vars PROVE MapsAgree'
  OBVIOUS
<1> USE DEF MapsAgree
<1>0. monitor \in [Monitor -> [pc : {"unborn", "waiting", "woken", "scanning", "dead", "ended"},
                               now : 0 .. clock, todo : SUBSET Session]]
  BY DEF TypeOK
<1>1. ASSUME NEW c \in Caller, NEW s \in Session, NEW i \in Instance, NEW t \in Timeout,
             AddSession(c, s, i, t)
      PROVE  MapsAgree'
  <2>1. /\ DOMAIN Set(sessions, s, i) = DOMAIN sessions \cup {s}
        /\ DOMAIN Set(timeouts, s, t) = DOMAIN timeouts \cup {s}
        /\ DOMAIN Set(last_access, s, clock) = DOMAIN last_access \cup {s}
    BY SetFacts
  <2>2. \A m \in Monitor : monitor'[m].pc # "scanning"
    BY <1>1, NobodyScans DEF AddSession
  <2> QED
    BY <1>1, <2>1, <2>2 DEF AddSession, Added
<1>2. ASSUME NEW c \in Caller, NEW s \in Session, GetSession(c, s) PROVE MapsAgree'
  <2>1. DOMAIN Set(last_access, s, clock) = DOMAIN last_access \cup {s}
    BY SetFacts
  <2> QED
    BY <1>2, <2>1 DEF GetSession, Touched
<1>3. ASSUME NEW s \in Session, Removed(s), \A m \in Monitor : monitor'[m].pc # "scanning"
      PROVE  MapsAgree'
  <2>1. /\ DOMAIN Del(sessions, s) = DOMAIN sessions \ {s}
        /\ DOMAIN Del(timeouts, s) = DOMAIN timeouts \ {s}
        /\ DOMAIN Del(last_access, s) = DOMAIN last_access \ {s}
    BY DelFacts
  <2> QED
    BY <1>3, <2>1 DEF Removed
<1>4. ASSUME NEW c \in Caller, NEW s \in Session, RemoveSession(c, s) PROVE MapsAgree'
  <2>1. \A m \in Monitor : monitor'[m].pc # "scanning"
    BY <1>4, NobodyScans DEF RemoveSession
  <2> QED
    BY <1>3, <1>4, <2>1 DEF RemoveSession
<1>5. ASSUME NEW m \in Monitor, MonitorStep(m) PROVE MapsAgree'
  <2>1. ASSUME NEW s \in Session, Expire(m, s) PROVE MapsAgree'
    <3>1. \A n \in Monitor : n # m => monitor[n].pc # "scanning"
      BY <2>1 DEF Expire, LockOwner
    <3>2. \A n \in Monitor : monitor'[n].pc # "scanning"
      BY <1>0, <2>1, <3>1 DEF Expire, NotRunning
    <3> QED
      BY <1>3, <2>1, <3>2 DEF Expire
  <2>2. CASE Wake(m)
    BY <1>0, <2>2 DEF Wake, maps
  <2>3. CASE Ends(m)
    BY <1>0, <2>3 DEF Ends, MonitorIs, maps
  <2>4. CASE BeginScan(m)
    BY <1>0, <2>4 DEF BeginScan, maps
  <2>5. ASSUME NEW s \in Session, Keep(m, s) PROVE MapsAgree'
    BY <1>0, <2>5 DEF Keep, maps
  <2>6. CASE EndScan(m)
    BY <1>0, <2>6 DEF EndScan, Waiting, maps
  <2> QED
    BY <1>5, <2>1, <2>2, <2>3, <2>4, <2>5, <2>6 DEF MonitorStep
<1>6. ASSUME NEW c \in Caller, Joined(c) PROVE MapsAgree'
  BY <1>0, <1>6 DEF Joined, Started, Waiting, maps
<1>7. ASSUME NEW c \in Caller, StartFirst(c) PROVE MapsAgree'
  BY <1>0, <1>7 DEF StartFirst, Started, Waiting, maps
<1> QED
  BY <1>1, <1>2, <1>4, <1>5, <1>6, <1>7
  DEF Next, vars, maps, Tick, Enter, Exit, StopAndJoin

\* The inductive invariant holds throughout.
THEOREM Invariant == Spec => []IInv
<1>1. Init => IInv
  <2> SUFFICES ASSUME Init PROVE IInv
    OBVIOUS
  <2>1. TypeOK
    BY InitTypes
  <2>2. \A m \in Monitor : monitor[m].pc \in {"unborn", "waiting"}
    BY DEF Init, Waiting, NotRunning
  <2>3. LockOwner /\ Joining
    BY <2>2, ThreadAssumption DEF Init, LockOwner, Joining
  <2>4. MapsAgree
    BY <2>2 DEF Init, MapsAgree, NoMap
  <2>5. OneMonitor
    BY ThreadAssumption DEF Init, OneMonitor, Alive, Waiting, NotRunning
  <2> QED
    BY <2>1, <2>3, <2>4, <2>5 DEF IInv
<1>2. IInv /\ [Next]_vars => IInv'
  BY TypeStep, LockStep, JoiningStep, MapsStep, MonitorsStep DEF IInv
<1> QED
  BY <1>1, <1>2, PTL DEF Spec

\* The session, timeout and last-access maps agree, also under the monitor's
\* walk, for any number of sessions and threads.
THEOREM MapsAlwaysAgree == Spec => []MapsAgree
BY Invariant, PTL DEF IInv

\* No start, restart or stop ever leaves two expiration threads running.
THEOREM OneMonitorOnly == Spec => []OneMonitor
BY Invariant, PTL DEF IInv

\* The expiration thread removes a session only when it is overdue.
THEOREM OnlyIdleExpire == Spec => ExpiresOnlyIdle
<1>1. IInv /\ [Next]_vars
      => [ (\E m \in Monitor : map_lock = m)
             => \A s \in DOMAIN sessions \ DOMAIN sessions' : Overdue(s) ]_vars
  <2> SUFFICES ASSUME IInv, [Next]_vars,
                      NEW m \in Monitor, map_lock = m,
                      NEW s \in DOMAIN sessions \ DOMAIN sessions'
               PROVE  Overdue(s)
    OBVIOUS
  <2>1. \A c \in Caller : ~ CanLock(c) /\ map_lock # c /\ caller[c] = "outside"
    BY ThreadAssumption DEF IInv, LockOwner, CanLock
  <2>2. sessions' # sessions
    OBVIOUS
  <2>3. PICK n \in Monitor, x \in Session : Expire(n, x)
    <3>1. ASSUME NEW c \in Caller, NEW x \in Session
          PROVE  /\ ~ GetSession(c, x) /\ ~ RemoveSession(c, x)
                 /\ \A i \in Instance, t \in Timeout : ~ AddSession(c, x, i, t)
      BY <2>1 DEF GetSession, RemoveSession, AddSession
    <3>2. ASSUME NEW n \in Monitor, MonitorStep(n) PROVE \E x \in Session : Expire(n, x)
      BY <2>2, <3>2 DEF MonitorStep, Wake, Ends, BeginScan, Keep, EndScan, maps
    <3>3. /\ ~ Tick
          /\ \A c \in Caller : ~ Enter(c) /\ ~ Exit(c) /\ ~ Joined(c) /\ ~ StartFirst(c)
          /\ \A c \in Caller, next \in {"stopping", "restarting"} : ~ StopAndJoin(c, next)
          /\ ~ UNCHANGED vars
      BY <2>2 DEF Tick, Enter, Exit, Joined, StartFirst, StopAndJoin, vars, maps
    <3> QED
      BY <3>1, <3>2, <3>3 DEF Next
  <2>4. s = x
    <3>1. DOMAIN sessions' = DOMAIN sessions \ {x}
      BY <2>3, DelFacts DEF Expire, Removed
    <3> QED
      BY <3>1
  <2>5. x \in DOMAIN timeouts /\ x \in DOMAIN last_access
    BY <2>3 DEF Expire, IInv, MapsAgree
  <2>6. /\ monitor[n].now \in 0 .. clock /\ clock \in Nat
        /\ timeouts[x] \in Nat /\ last_access[x] \in Nat
    <3>0. TypeOK
      BY DEF IInv
    <3>1. clock \in Nat /\ Range(last_access) \subseteq Nat /\ Range(timeouts) \subseteq Nat
      <4>1. clock \in 0 .. MaxTime /\ Range(last_access) \subseteq 0 .. clock
            /\ Range(timeouts) \subseteq Timeout
        BY <3>0 DEF TypeOK
      <4>2. clock \in Nat
        BY <4>1, TimeAssumption
      <4>3. Range(last_access) \subseteq Nat
        BY <4>1, <4>2
      <4> QED
        BY <4>1, <4>2, <4>3, TimeAssumption
    <3>2. timeouts[x] \in Range(timeouts) /\ last_access[x] \in Range(last_access)
      BY <2>5 DEF Range
    <3>3. monitor[n].now \in 0 .. clock
      BY DEF IInv, TypeOK
    <3> QED
      BY <3>1, <3>2, <3>3
  <2> QED
    BY <2>3, <2>4, <2>5, <2>6 DEF Expire, TimedOut, Overdue
<1>2. QED
  BY <1>1, Invariant, PTL DEF Spec, ExpiresOnlyIdle
=============================================================================
