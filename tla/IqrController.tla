--------------------------- MODULE IqrController ---------------------------
(***************************************************************************)
(* The registry of sessions (smqtk_iqr/iqr/iqr_controller.py): the session *)
(* map, the timeout and last-access maps, the re-entrant lock over the     *)
(* three, and the thread that expires idle sessions.                       *)
(*                                                                         *)
(* A method that takes and gives back the lock is one step, as nothing can *)
(* see it half-way.  The steps that can be interleaved are kept apart: a   *)
(* caller's `with controller:` block, the monitor's wait, its reading of   *)
(* the clock before it asks for the lock, its walk over the timeout map    *)
(* one key at a time, and a join that waits with the lock held.            *)
(***************************************************************************)
EXTENDS Naturals, FiniteSets, Functions

CONSTANTS
    Session,        \* session uuids
    Instance,       \* IqrSession objects: one uuid may name several in turn
    Caller,         \* threads that call the controller
    Monitor,        \* the expiration threads that may be started
    Timeout,        \* the timeouts, in ticks, add_session may be given
    MaxTime,        \* bound: the clock stops there
    ExpireEnabled,  \* expire_enabled
    None            \* Python's None

ASSUME TimeAssumption == Timeout \subseteq Nat /\ MaxTime \in Nat
ASSUME ThreadAssumption ==
    /\ Caller \cap Monitor = {}
    /\ None \notin Caller \cup Monitor \cup Instance
    /\ ExpireEnabled \in BOOLEAN

VARIABLES
    clock,        \* time.time()
    sessions,     \* _iqr_sessions: uuid -> object
    timeouts,     \* _iqr_session_timeout: uuid -> ticks
    last_access,  \* _iqr_session_last_access: uuid -> time
    map_lock,     \* who holds _map_rlock
    stop_event,   \* _expire_thread_stop_event
    expire_thread, \* _expire_thread, or None
    monitor,      \* the expiration threads: where they are, their `now`, keys to visit
    caller        \* where each caller is

maps    == <<sessions, timeouts, last_access>>
control == <<stop_event, expire_thread>>
vars    == <<clock, maps, map_lock, control, monitor, caller>>

\* A thread runs until its function returns or raises.
Alive(m) == monitor[m].pc \in {"waiting", "woken", "scanning"}

NotRunning(why) == [pc |-> why, now |-> 0, todo |-> {}]
Waiting         == [pc |-> "waiting", now |-> 0, todo |-> {}]

\* The map f with s set to v, and without s.
Set(f, s, v) == [k \in DOMAIN f \cup {s} |-> IF k = s THEN v ELSE f[k]]
Del(f, s)    == Restrict(f, DOMAIN f \ {s})

NoMap == [s \in {} |-> s]

\* __init__ starts the monitor when expiration is enabled.
Init ==
    /\ clock = 0
    /\ sessions = NoMap /\ timeouts = NoMap /\ last_access = NoMap
    /\ map_lock = None
    /\ IF ExpireEnabled
       THEN \E m \in Monitor :
              /\ expire_thread = m /\ stop_event = FALSE
              /\ monitor = [k \in Monitor |-> IF k = m THEN Waiting ELSE NotRunning("unborn")]
       ELSE /\ expire_thread = None /\ stop_event = TRUE
            /\ monitor = [k \in Monitor |-> NotRunning("unborn")]
    /\ caller = [c \in Caller |-> "outside"]

Tick ==
    /\ clock < MaxTime
    /\ clock' = clock + 1
    /\ UNCHANGED <<maps, map_lock, control, monitor, caller>>

-----------------------------------------------------------------------------
(* The session maps.  The lock is re-entrant: a caller inside a `with` block *)
(* holds it already, any other needs it free for the length of the call.     *)

CanLock(c) == map_lock = None \/ caller[c] = "inside"

\* The maps as add_session, get_session and remove_session leave them.
Added(s, i, t) ==
    /\ sessions' = Set(sessions, s, i)
    /\ timeouts' = IF t > 0 THEN Set(timeouts, s, t) ELSE timeouts
    /\ last_access' = IF t > 0 THEN Set(last_access, s, clock) ELSE last_access

\* (Mutant.) The time the session will expire in place of the time of access.
TouchedAhead(s) ==
    /\ last_access' = IF s \in DOMAIN timeouts THEN Set(last_access, s, clock + timeouts[s])
                      ELSE last_access
    /\ UNCHANGED <<sessions, timeouts>>

Touched(s) ==
    /\ last_access' = IF s \in DOMAIN timeouts THEN Set(last_access, s, clock) ELSE last_access
    /\ UNCHANGED <<sessions, timeouts>>

\* (Mutant.) The time of last access stays behind.
RemovedButAccess(s) ==
    /\ sessions' = Del(sessions, s)
    /\ timeouts' = IF s \in DOMAIN timeouts THEN Del(timeouts, s) ELSE timeouts
    /\ UNCHANGED last_access

Removed(s) ==
    /\ sessions' = Del(sessions, s)
    /\ timeouts' = IF s \in DOMAIN timeouts THEN Del(timeouts, s) ELSE timeouts
    /\ last_access' = IF s \in DOMAIN timeouts THEN Del(last_access, s) ELSE last_access

\* A uuid already registered is a RuntimeError that changes nothing.
AddSession(c, s, i, t) ==
    /\ CanLock(c)
    /\ s \notin DOMAIN sessions
    /\ i \notin Range(sessions)
    /\ Added(s, i, t)
    /\ UNCHANGED <<clock, map_lock, control, monitor, caller>>

\* An unknown uuid is a KeyError, raised after the access time was looked at.
GetSession(c, s) ==
    /\ CanLock(c)
    /\ s \in DOMAIN sessions
    /\ Touched(s)
    /\ UNCHANGED <<clock, map_lock, control, monitor, caller>>

RemoveSession(c, s) ==
    /\ CanLock(c)
    /\ s \in DOMAIN sessions
    /\ Removed(s)
    /\ UNCHANGED <<clock, map_lock, control, monitor, caller>>

\* with controller: ...
Enter(c) ==
    /\ caller[c] = "outside" /\ map_lock = None
    /\ map_lock' = c
    /\ caller' = [caller EXCEPT ![c] = "inside"]
    /\ UNCHANGED <<clock, maps, control, monitor>>

Exit(c) ==
    /\ caller[c] = "inside"
    /\ map_lock' = None
    /\ caller' = [caller EXCEPT ![c] = "outside"]
    /\ UNCHANGED <<clock, maps, control, monitor>>

-----------------------------------------------------------------------------
(* The expiration thread *)

MonitorIs(m, pc) == monitor' = [monitor EXCEPT ![m].pc = pc]

\* wait() returns false when the interval has passed: the clock is read, and
\* only then the lock asked for.
Wake(m) ==
    /\ monitor[m].pc = "waiting" /\ ~ stop_event
    /\ monitor' = [monitor EXCEPT ![m].pc = "woken", ![m].now = clock]
    /\ UNCHANGED <<clock, maps, map_lock, control, caller>>

\* wait() returns true: the thread ends.
Ends(m) ==
    /\ monitor[m].pc = "waiting" /\ stop_event
    /\ MonitorIs(m, "ended")
    /\ UNCHANGED <<clock, maps, map_lock, control, caller>>

BeginScan(m) ==
    /\ monitor[m].pc = "woken" /\ map_lock = None
    /\ map_lock' = m
    /\ monitor' = [monitor EXCEPT ![m].pc = "scanning", ![m].todo = DOMAIN timeouts]
    /\ UNCHANGED <<clock, maps, control, caller>>

\* (Mutants.) Expired at its timeout already; expired before it only.
TimedOutEarly(m, s) == monitor[m].now >= last_access[s] + timeouts[s]

TimedOutReversed(m, s) == monitor[m].now < last_access[s] + timeouts[s]

TimedOut(m, s) == monitor[m].now > last_access[s] + timeouts[s]

Keep(m, s) ==
    /\ monitor[m].pc = "scanning"
    /\ s \in monitor[m].todo /\ ~ TimedOut(m, s)
    /\ monitor' = [monitor EXCEPT ![m].todo = @ \ {s}]
    /\ UNCHANGED <<clock, maps, map_lock, control, caller>>

\* The session is given to the callback and removed.  That changes the map the
\* loop is walking over: its next turn, even after the last key, is a
\* RuntimeError that nothing catches, so the lock is released and the thread
\* is gone.
Expire(m, s) ==
    /\ monitor[m].pc = "scanning"
    /\ s \in monitor[m].todo /\ TimedOut(m, s)
    /\ Removed(s)
    /\ map_lock' = None
    /\ monitor' = [monitor EXCEPT ![m] = NotRunning("dead")]
    /\ UNCHANGED <<clock, control, caller>>

EndScan(m) ==
    /\ monitor[m].pc = "scanning" /\ monitor[m].todo = {}
    /\ map_lock' = None
    /\ monitor' = [monitor EXCEPT ![m] = Waiting]
    /\ UNCHANGED <<clock, maps, control, caller>>

-----------------------------------------------------------------------------
(* Starting and stopping the expiration thread *)

\* stop_expiration_monitor, and start_expiration_monitor which calls it first:
\* the event is set and the thread joined, with the lock held throughout.
StopAndJoin(c, next) ==
    /\ caller[c] = "outside" /\ map_lock = None
    /\ expire_thread # None
    /\ stop_event' = TRUE
    /\ map_lock' = c
    /\ caller' = [caller EXCEPT ![c] = next]
    /\ UNCHANGED <<clock, maps, expire_thread, monitor>>

Started(m) ==
    /\ expire_thread' = m
    /\ stop_event' = FALSE
    /\ monitor' = [monitor EXCEPT ![m] = Waiting]

\* (Mutant.) The old thread is not waited for.
JoinedAtOnce(c) ==
    /\ caller[c] \in {"stopping", "restarting"}
    /\ IF caller[c] = "restarting" /\ ExpireEnabled
       THEN \E m \in Monitor : ~ Alive(m) /\ Started(m)
       ELSE expire_thread' = None /\ UNCHANGED <<stop_event, monitor>>
    /\ map_lock' = None
    /\ caller' = [caller EXCEPT ![c] = "outside"]
    /\ UNCHANGED <<clock, maps>>

Joined(c) ==
    /\ caller[c] \in {"stopping", "restarting"}
    /\ ~ Alive(expire_thread)
    /\ IF caller[c] = "restarting" /\ ExpireEnabled
       THEN \E m \in Monitor : ~ Alive(m) /\ Started(m)
       ELSE expire_thread' = None /\ UNCHANGED <<stop_event, monitor>>
    /\ map_lock' = None
    /\ caller' = [caller EXCEPT ![c] = "outside"]
    /\ UNCHANGED <<clock, maps>>

\* start_expiration_monitor when no thread was started before.
StartFirst(c) ==
    /\ CanLock(c) /\ expire_thread = None /\ ExpireEnabled
    /\ \E m \in Monitor : ~ Alive(m) /\ Started(m)
    /\ UNCHANGED <<clock, maps, map_lock, caller>>

-----------------------------------------------------------------------------

MonitorStep(m) ==
    \/ Wake(m)
    \/ Ends(m)
    \/ BeginScan(m)
    \/ \E s \in Session : Keep(m, s)
    \/ \E s \in Session : Expire(m, s)
    \/ EndScan(m)

Next ==
    \/ Tick
    \/ \E c \in Caller, s \in Session, i \in Instance, t \in Timeout : AddSession(c, s, i, t)
    \/ \E c \in Caller, s \in Session : GetSession(c, s)
    \/ \E c \in Caller, s \in Session : RemoveSession(c, s)
    \/ \E c \in Caller : Enter(c)
    \/ \E c \in Caller : Exit(c)
    \/ \E c \in Caller, next \in {"stopping", "restarting"} : StopAndJoin(c, next)
    \/ \E c \in Caller : Joined(c)
    \/ \E c \in Caller : StartFirst(c)
    \/ \E m \in Monitor : MonitorStep(m)

Spec == Init /\ [][Next]_vars

\* Time passes, a `with` block ends, and a thread that can go on does.  A lock
\* that keeps becoming free is eventually given to a thread that waits for it.
Fairness ==
    /\ WF_vars(Tick)
    /\ \A c \in Caller : WF_vars(Exit(c)) /\ WF_vars(Joined(c))
    /\ \A m \in Monitor : WF_vars(MonitorStep(m)) /\ SF_vars(BeginScan(m))

FairSpec == Spec /\ Fairness

-----------------------------------------------------------------------------
(* Properties *)

\* Each variable has its type; no session was last used in the future.
TypeOK ==
    /\ clock \in 0 .. MaxTime
    /\ DOMAIN sessions \subseteq Session /\ Range(sessions) \subseteq Instance
    /\ DOMAIN timeouts \subseteq Session /\ Range(timeouts) \subseteq Timeout \ {0}
    /\ DOMAIN last_access \subseteq Session /\ Range(last_access) \subseteq 0 .. clock
    /\ map_lock \in Caller \cup Monitor \cup {None}
    /\ stop_event \in BOOLEAN
    /\ expire_thread \in Monitor \cup {None}
    /\ monitor \in [Monitor -> [pc : {"unborn", "waiting", "woken", "scanning", "dead", "ended"},
                               now : 0 .. clock, todo : SUBSET Session]]
    /\ caller \in [Caller -> {"outside", "inside", "stopping", "restarting"}]

\* The three maps stay in step: the monitor finds the last access and the
\* object of every uuid it finds a timeout for, also half-way through a scan,
\* so its walk raises no KeyError.
MapsAgree ==
    /\ DOMAIN timeouts = DOMAIN last_access
    /\ DOMAIN timeouts \subseteq DOMAIN sessions
    /\ \A m \in Monitor : monitor[m].pc = "scanning" => monitor[m].todo \subseteq DOMAIN timeouts

\* A running expiration thread is the one `_expire_thread` names: a restart
\* never leaves a second thread behind, and a stop waits for the first.
OneMonitor ==
    /\ \A m \in Monitor : Alive(m) => expire_thread = m
    /\ expire_thread = None => stop_event

Overdue(s) == s \in DOMAIN timeouts /\ clock > last_access[s] + timeouts[s]

\* The monitor removes a session only when, at the moment of removal and not
\* just at the earlier moment it read the clock, the session has gone unused
\* for longer than its timeout; and never a session without one.
ExpiresOnlyIdle ==
    [][ (\E m \in Monitor : map_lock = m)
          => \A s \in DOMAIN sessions \ DOMAIN sessions' : Overdue(s) ]_vars

\* As long as the thread has not been told to stop and has not died, an overdue
\* session is found: the wait, the stale `now` and callers that keep taking the
\* lock do not keep the first expiration from happening.
FirstExpiration ==
    \A s \in Session :
      Overdue(s) ~> (~ Overdue(s) \/ stop_event \/ ~ Alive(expire_thread))

-----------------------------------------------------------------------------
(* What the repository says of the controller and the code does not do *)

\* "periodic checks and removals of sessions that have expired"
\* (iqr_controller.py:95): every overdue session goes, unless it is used again
\* or the monitor is stopped.
OverdueSessionsGo ==
    \A s \in Session : Overdue(s) ~> (~ Overdue(s) \/ stop_event)

\* "Stop the session expiration monitoring thread if one has been started"
\* (iqr_controller.py:141), as one of the methods that "are thread-safe": the
\* call returns.
StopReturns ==
    \A c \in Caller : caller[c] \in {"stopping", "restarting"} ~> caller[c] = "outside"
=============================================================================
