------------------------------- MODULE Labels -------------------------------
(***************************************************************************)
(* The four label sets of an IQR session and how its methods change them   *)
(* (smqtk_iqr/iqr/iqr_session.py): positive and negative adjudications,    *)
(* and positive and negative examples from external data.                  *)
(***************************************************************************)
EXTENDS Naturals, Sequences

CONSTANT Descriptor         \* every descriptor element, named by its uuid

LabelSets == [pos : SUBSET Descriptor, neg : SUBSET Descriptor,
              pos_ext : SUBSET Descriptor, neg_ext : SUBSET Descriptor]

NoLabels == [pos |-> {}, neg |-> {}, pos_ext |-> {}, neg_ext |-> {}]

\* adjudicate and external_descriptors each keep their two sets apart.
Apart(l) == l.pos \cap l.neg = {} /\ l.pos_ext \cap l.neg_ext = {}

\* What the neighbour queries, the ranker and the classifier learn from.
Positives(l) == l.pos \cup l.pos_ext
Negatives(l) == l.neg \cup l.neg_ext

WithExternal(l, positive, negative) ==
    [l EXCEPT !.pos_ext = (@ \cup positive) \ negative,
              !.neg_ext = (@ \cup negative) \ positive]

\* (Mutant.) A new negative label does not take back a positive one.
AdjudicatedOneSided(l, new_pos, new_neg, un_pos, un_neg) ==
    [l EXCEPT !.pos = (@ \cup new_pos) \ un_pos,
              !.neg = ((@ \cup new_neg) \ un_neg) \ new_pos]

Adjudicated(l, new_pos, new_neg, un_pos, un_neg) ==
    [l EXCEPT !.pos = ((@ \cup new_pos) \ un_pos) \ new_neg,
              !.neg = ((@ \cup new_neg) \ un_neg) \ new_pos]

\* The sets a saved state is loaded in, one descriptor at a time, and what is
\* there when the load stops in the at-th of them.
LoadOrder == <<"pos_ext", "neg_ext", "pos", "neg">>

LoadedUpTo(state, at, loaded) ==
    [s \in DOMAIN NoLabels |->
       CASE \E k \in 1 .. at - 1 : LoadOrder[k] = s -> state[s]
         [] LoadOrder[at] = s -> loaded
         [] OTHER -> {}]

\* A load stops at a descriptor whose stored vector is not the saved one.
StopsAt(state, mismatched, at, loaded) ==
    /\ loaded \subseteq state[LoadOrder[at]] \ mismatched
    /\ state[LoadOrder[at]] \cap mismatched # {}
    /\ \A k \in 1 .. at - 1 : state[LoadOrder[k]] \cap mismatched = {}
=============================================================================
