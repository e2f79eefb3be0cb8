---------------------------- MODULE MCSearchApp -----------------------------
(***************************************************************************)
(* Two requests at a time, two examples to upload and a state file.         *)
(***************************************************************************)
EXTENDS SearchApp, TLC

CONSTANTS t1, t2, e1, e2, z

Handlers == {t1, t2}
Threads  == Permutations(Handlers)

Visit(events) == [e \in Event |-> IF e \in DOMAIN events THEN events[e] ELSE 0]

\* A state of the service's own, with no data, and one of another session.
MCForeign == { [external |-> {e1}, working |-> {}],
               [external |-> {e2}, working |-> {e1, e2}] }

MCVisits ==
    { Visit([ingest |-> 2, save |-> 1, look |-> 1, failure |-> 1]),
      Visit([ingest |-> 1, load |-> 1, reset |-> 1, save |-> 1]),
      Visit([ingest |-> 2, save |-> 1, load |-> 1, expiry |-> 1]),
      Visit([ingest |-> 2, reset |-> 1, load |-> 1]),
      Visit([ingest |-> 2, reset |-> 1, expiry |-> 1]),
      Visit([ingest |-> 1, load |-> 2, upload |-> 1, failure |-> 1]),
      Visit([ingest |-> 2, reset |-> 1, upload |-> 1, restart |-> 1]),
      Visit([ingest |-> 2, look |-> 1, expiry |-> 1, restart |-> 1]) }
=============================================================================
