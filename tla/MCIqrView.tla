----------------------------- MODULE MCIqrView ------------------------------
(***************************************************************************)
(* Up to four elements, shown two at a time.  A visit is a few presses of   *)
(* some buttons, with the failures that go with them.                       *)
(***************************************************************************)
EXTENDS IqrView, TLC

CONSTANTS u1, u2, u3, u4, e1, e2

MCUuid     == {u1, u2, u3, u4}
MCExample  == {e1, e2}
MCRankings == {<<u1, u2, u3>>, <<u2, u3>>}
MCShuffles == {<<u1, u2, u3, u4>>, <<u3, u1, u4, u2>>}
MCSaved    == {e1}

Visit(events) == [e \in Event |-> IF e \in DOMAIN events THEN events[e] ELSE 0]

MCVisits ==
    { Visit([initialize |-> 2, more |-> 1]),
      Visit([initialize |-> 1, refine |-> 1, more |-> 1, failure |-> 1]),
      Visit([initialize |-> 1, reset |-> 1]),
      Visit([refine |-> 2, failure |-> 1]),
      Visit([load |-> 1, failure |-> 1]),
      Visit([ingest |-> 2, expiry |-> 1]),
      Visit([reset |-> 1, ingest |-> 1, failure |-> 1]),
      Visit([toggle |-> 3, random_more |-> 1]),
      Visit([toggle |-> 1, random_refresh |-> 1, random_more |-> 2, failure |-> 1]) }

\* A user who presses Refine, where nothing fails by itself.
MCOneRefine == {Visit([refine |-> 1])}
=============================================================================
