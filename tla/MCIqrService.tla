---------------------------- MODULE MCIqrService ----------------------------
(***************************************************************************)
(* Two request threads and the monitor on one session uuid, which two      *)
(* objects may have in turn.  d is in the descriptor set, e describes      *)
(* external data.  One saved state loads, the other stops at d.            *)
(***************************************************************************)
EXTENDS IqrService, TLC

CONSTANTS s1, i1, i2, c1, c2, m1, d, e

MCSession    == {s1}
MCInstance   == {i1, i2}
MCCaller     == {c1, c2}
MCMonitor    == {m1}
MCDescriptor == {d, e}
MCIndexed    == {d}
MCExternal   == {e}
MCMismatched == {d}
MCSavedStates == { [pos |-> {}, neg |-> {}, pos_ext |-> {}, neg_ext |-> {e}],
                   [pos |-> {d}, neg |-> {}, pos_ext |-> {e}, neg_ext |-> {}] }
=============================================================================
