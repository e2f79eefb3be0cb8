---------------------------- MODULE MCIqrSession ----------------------------
(***************************************************************************)
(* Two indexed descriptors, one of which external data may be described by *)
(* as well.  The index answers a query for b with b alone, or misses it.   *)
(* One saved state loads, the other holds a vector that does not match.    *)
(***************************************************************************)
EXTENDS IqrSession, TLC

CONSTANTS a, b

MCDescriptor == {a, b}
MCIndexed    == {a, b}
MCExternal   == {a}
MCMismatched == {b}
MCNeighbors  == (a :> {{a, b}} @@ b :> {{b}, {}})
MCSavedStates == { [pos |-> {a}, neg |-> {}, pos_ext |-> {}, neg_ext |-> {}],
                   [pos |-> {}, neg |-> {a, b}, pos_ext |-> {a}, neg_ext |-> {}] }
=============================================================================
