---------------------------- MODULE RefinedViews ----------------------------
(***************************************************************************)
(* What an IQR session promises the readers of its results.                *)
(*                                                                         *)
(* A reader only ever sees the outcome of the last refinement: the ranking *)
(* it produced, split by the examples that went into it.  Nothing here is  *)
(* cached, and no labelling call appears: labels given after a refinement  *)
(* are invisible until the next one.  IqrSession, with its four lazily     *)
(* filled caches and the code that invalidates them, implements this.      *)
(***************************************************************************)
EXTENDS Functions

CONSTANTS
    Descriptor,   \* descriptor elements, each named by its uuid
    Ranking,      \* the lists of descriptors, best first: position -> descriptor
    None          \* Python's None: no ranking yet

\* The four filtered views a session keeps a cache for.
View == {"all", "pos", "neg", "non_adj"}

EmptyRanking == [i \in {} |-> i]

\* A filtered list keeps the positions its elements have in the ranking it was
\* taken from, so its order is the ranking's.
Filter(list, keep) == Restrict(list, {i \in DOMAIN list : list[i] \in keep})

\* The part of a ranking that view v shows, given the positive and negative
\* examples (labelled and external alike) of the refinement that produced it.
Shows(v, list, positive, negative) ==
    CASE v = "all"     -> list
      [] v = "pos"     -> Filter(list, positive)
      [] v = "neg"     -> Filter(list, negative)
      [] v = "non_adj" -> Filter(list, Descriptor \ (positive \cup negative))

NoReply == [view |-> "none", list |-> EmptyRanking]

VARIABLES
    ranking,     \* the ranking of the last refinement, or None
    positive,    \* the positive examples that refinement used
    negative,    \* the negative examples that refinement used
    recommended, \* the descriptors it recommends for adjudication, or None
    answer       \* what the last call returned, if it asked for a view

vars == <<ranking, positive, negative, recommended, answer>>

Init ==
    /\ ranking = None
    /\ positive = {} /\ negative = {}
    /\ recommended = None
    /\ answer = NoReply

\* A refinement replaces the ranking and remembers its examples; without a
\* positive example there is no refinement.
Refine ==
    /\ ranking' \in Ranking
    /\ positive' \in (SUBSET Descriptor) \ {{}}
    /\ negative' \in SUBSET Descriptor
    /\ recommended' \in Ranking
    /\ answer' = NoReply

\* A reset, or loading a saved state, forgets the refinement.
Discard ==
    /\ ranking' = None
    /\ positive' = {} /\ negative' = {}
    /\ recommended' = None
    /\ answer' = NoReply

\* Reading a view computes it from the last refinement.
Read(v) ==
    /\ answer' = [view |-> v,
                  list |-> IF ranking = None THEN EmptyRanking
                           ELSE Shows(v, ranking, positive, negative)]
    /\ UNCHANGED <<ranking, positive, negative, recommended>>

\* The recommendations come from the same refinement.
ReadFeedback ==
    /\ answer' = [view |-> "feedback",
                  list |-> IF recommended = None THEN EmptyRanking ELSE recommended]
    /\ UNCHANGED <<ranking, positive, negative, recommended>>

\* Every other call, failed ones included, leaves the refinement alone.
OtherCall ==
    /\ answer' = NoReply
    /\ UNCHANGED <<ranking, positive, negative, recommended>>

Next ==
    \/ Refine
    \/ Discard
    \/ \E v \in View : Read(v)
    \/ ReadFeedback
    \/ OtherCall

Spec == Init /\ [][Next]_vars

=============================================================================
