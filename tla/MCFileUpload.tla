---------------------------- MODULE MCFileUpload ----------------------------
(***************************************************************************)
(* Two visits: two pages are given the same file, or one page two files,   *)
(* at once or one at a time, and the user may log out.  File a has 5       *)
(* bytes, so that its second chunk is longer than ChunkSize; b has 4.      *)
(* Namesakes are two files of one identifier, in one list.                 *)
(***************************************************************************)
EXTENDS FileUpload, TLC

CONSTANTS w1, w2, a, b, i1, i2

MCFlow   == {w1, w2}
MCFile   == {a, b}
MCFid    == {i1, i2}
MCFidOf  == (a :> i1 @@ b :> i2)
MCSizeOf == (i1 :> 5 @@ i2 :> 4)
MCVisits == { [drops |-> (w1 :> {{a}} @@ w2 :> {{a}}), logs_out |-> FALSE],
              [drops |-> (w1 :> {{a, b}, {b}} @@ w2 :> {}), logs_out |-> TRUE] }

Namesakes       == (a :> i1 @@ b :> i1)
NamesakesVisits == { [drops |-> (w1 :> {{a, b}} @@ w2 :> {}), logs_out |-> FALSE] }
=============================================================================
