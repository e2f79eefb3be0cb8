----------------------------- MODULE MCDataView -----------------------------
(***************************************************************************)
(* An element with two views, say in the refine and in the random pane.      *)
(***************************************************************************)
EXTENDS DataView, TLC

CONSTANTS v1, v2, a

MCView      == {v1, v2}
MCElement   == {a}
MCElementOf == (v1 :> a @@ v2 :> a)
MCVisits    == { [views |-> {v1}, clicks |-> 3, failures |-> 1],
                 [views |-> {v1, v2}, clicks |-> 2, failures |-> 0] }
=============================================================================
