-------------------------- MODULE IqrSessionProofs --------------------------
(***************************************************************************)
(* The invariants of IqrSession, and that it implements RefinedViews, for  *)
(* every set of descriptors, neighbour index, ranker and bound.            *)
(***************************************************************************)
EXTENDS IqrSession, FiniteSetTheorems, TLAPS

-----------------------------------------------------------------------------
(* Lists *)

\* An order of some descriptors, as the ranker returns, is a list.
LEMMA OrderIsRanking ==
    ASSUME NEW S \in SUBSET Descriptor, NEW r \in SetToSeqs(S)
    PROVE  r \in Ranking /\ Range(r) \subseteq S
<1>1. IsFiniteSet(S) /\ Cardinality(S) <= Cardinality(Descriptor)
  BY DescriptorAssumption, FS_Subset
<1>2. Cardinality(S) \in Nat /\ Cardinality(Descriptor) \in Nat
  BY <1>1, DescriptorAssumption, FS_CardinalityType
<1>3. 1 .. Cardinality(S) \subseteq 1 .. Cardinality(Descriptor)
  BY <1>1, <1>2
<1>4. r \in [1 .. Cardinality(S) -> S]
  BY DEF SetToSeqs
<1>5. r \in [1 .. Cardinality(S) -> Descriptor]
  BY <1>4
<1> QED
  BY <1>3, <1>4, <1>5 DEF Ranking, Range

\* The order names every one of them.
LEMMA OrderIsComplete ==
    ASSUME NEW S \in SUBSET Descriptor, NEW r \in SetToSeqs(S)
    PROVE  Range(r) = S
<1> DEFINE n == Cardinality(S)
<1>1. IsFiniteSet(S) /\ n \in Nat
  BY DescriptorAssumption, FS_Subset, FS_CardinalityType
<1>2. IsFiniteSet(1 .. n) /\ Cardinality(1 .. n) = n
  BY <1>1, FS_Interval
<1>3. r \in Injection(1 .. n, S)
  BY DEF SetToSeqs, Injection, IsInjective
<1> HIDE DEF n
<1>4. r \in Surjection(1 .. n, S)
  <2>1. Cardinality(1 .. n) = Cardinality(S)
    BY <1>2 DEF n
  <2> QED
    BY <1>1, <1>3, <2>1, FS_Injection
<1> QED
  BY <1>4 DEF Surjection, Range

\* Filtering a list gives a list, and the whole list when nothing is dropped.
LEMMA FilterIsRanking ==
    ASSUME NEW r \in Ranking, NEW S
    PROVE  Restrict(r, {i \in DOMAIN r : r[i] \in S}) \in Ranking
<1> DEFINE J == {i \in DOMAIN r : r[i] \in S}
<1>1. PICK I \in SUBSET (1 .. Cardinality(Descriptor)) : r \in [I -> Descriptor]
  BY DEF Ranking
<1>2. J \in SUBSET (1 .. Cardinality(Descriptor)) /\ J \subseteq I
  BY <1>1
<1>3. [i \in J |-> r[i]] \in [J -> Descriptor]
  BY <1>1, <1>2
<1> QED
  BY <1>2, <1>3 DEF Ranking, Restrict

\* A ranking filtered by its own members is itself, as when the labels shown
\* are all of its.
LEMMA FilterAll ==
    ASSUME NEW r \in Ranking
    PROVE  Restrict(r, {i \in DOMAIN r : r[i] \in Range(r)}) = r
<1>1. {i \in DOMAIN r : r[i] \in Range(r)} = DOMAIN r
  BY DEF Range
<1>2. r = [i \in DOMAIN r |-> r[i]]
  BY DEF Ranking
<1> QED
  BY <1>1, <1>2 DEF Restrict

\* A list nobody has filled is a ranking.
LEMMA EmptyIsRanking == EmptyRanking \in Ranking
BY DEF EmptyRanking, Ranking

\* A view of no results is empty, whatever is shown.
LEMMA FilterEmpty ==
    ASSUME NEW S
    PROVE  Restrict(EmptyRanking, {i \in DOMAIN EmptyRanking : EmptyRanking[i] \in S})
             = EmptyRanking
BY DEF EmptyRanking, Restrict

-----------------------------------------------------------------------------
(* Types *)

\* The list a view starts from is a ranking, cached or not.
LEMMA OrderedIsRanking ==
    TypeOK => Ordered \in Ranking /\ OrderedCache \in Ranking \cup {None}
BY EmptyIsRanking DEF TypeOK, Ordered, OrderedCache, View

\* Clearing a session, and the replies without a list, have their types.
LEMMA ClearedTypes ==
    /\ Cleared => /\ rank_contrib' \in LabelSets
                  /\ working_set' \subseteq Indexed /\ seeds_used' \subseteq Descriptor
                  /\ results' \in Ranking \cup {None}
                  /\ feedback_list' \in Ranking \cup {None}
                  /\ cache' \in [View -> Ranking \cup {None}]
    /\ \A call, error : Returned(call).list \in Ranking /\ Raised(call, error).list \in Ranking
    /\ NoLabels \in LabelSets
BY EmptyIsRanking DEF Cleared, NoLabels, NoCache, LabelSets, Returned, Raised

\* What a failed load leaves is a part of the saved state.
LEMMA PartialLoad ==
    ASSUME NEW s \in LabelSets, NEW at \in 1 .. Len(LoadOrder), NEW l \in SUBSET Descriptor,
           SetStateBytesFails(s, at, l)
    PROVE  labels' \in LabelSets /\ (Apart(s) => Apart(labels'))
<1>1. at \in 1 .. 4
  BY DEF LoadOrder
<1>2. LoadOrder[1] = "pos_ext" /\ LoadOrder[2] = "neg_ext" /\ LoadOrder[3] = "pos" /\ LoadOrder[4] = "neg"
  BY DEF LoadOrder
<1> DEFINE L(k) == CASE \E j \in 1 .. at - 1 : LoadOrder[j] = k -> s[k]
                     [] LoadOrder[at] = k -> l
                     [] OTHER -> {}
<1>3. labels' = [k \in {"pos", "neg", "pos_ext", "neg_ext"} |-> L(k)]
  BY DEF SetStateBytesFails, LoadedUpTo, NoLabels
<1>4. \A k \in {"pos", "neg", "pos_ext", "neg_ext"} : L(k) \subseteq s[k]
  <2>1. l \subseteq s[LoadOrder[at]]
    BY DEF SetStateBytesFails, StopsAt
  <2> QED
    BY <2>1
<1>5. \A k \in {"pos", "neg", "pos_ext", "neg_ext"} : L(k) \subseteq Descriptor
  BY <1>4 DEF LabelSets
<1> HIDE DEF L
<1>6. labels' = [pos |-> L("pos"), neg |-> L("neg"), pos_ext |-> L("pos_ext"), neg_ext |-> L("neg_ext")]
  BY <1>3
<1>7. labels' \in LabelSets
  BY <1>5, <1>6 DEF LabelSets
<1>8. Apart(s) => Apart(labels')
  BY <1>4, <1>6 DEF Apart
<1> QED
  BY <1>7, <1>8

\* Computing and caching a filtered view keeps the types.
LEMMA FilteredViewTypes ==
    ASSUME TypeOK, NEW v \in View, NEW shown, FilteredView(v, shown)
    PROVE  TypeOK'
<1> DEFINE filtered == Restrict(Ordered, {i \in DOMAIN Ordered : Ordered[i] \in shown})
<1>1. filtered \in Ranking /\ OrderedCache \in Ranking \cup {None}
  BY OrderedIsRanking, FilterIsRanking
<1>2. UNCHANGED <<labels, pool, refined>>
  BY DEF FilteredView
<1>3. CASE cache[v] # None
  <2>1. cache' = cache /\ reply' = Listed(v, cache[v])
    BY <1>3 DEF FilteredView
  <2> QED
    BY <1>2, <2>1, <1>3 DEF TypeOK, Listed, pool, refined
<1>4. CASE cache[v] = None
  <2>1. /\ cache' = [cache EXCEPT !["all"] = OrderedCache, ![v] = filtered]
        /\ reply' = Listed(v, filtered)
    BY <1>4 DEF FilteredView
  <2> HIDE DEF filtered
  <2>2. cache' \in [View -> Ranking \cup {None}] /\ reply'.list \in Ranking
    BY <1>1, <2>1 DEF TypeOK, Listed
  <2> QED
    BY <1>2, <2>2 DEF TypeOK, pool, refined
<1> QED
  BY <1>3, <1>4

\* Every step keeps every variable in its type.
LEMMA TypeStep == TypeOK /\ [Next]_vars => TypeOK'
<1> SUFFICES ASSUME TypeOK, [Next]_vars PROVE TypeOK'
  OBVIOUS
<1> USE ClearedTypes DEF TypeOK, pool, refined
<1>1. ASSUME NEW p \in Batch(External), NEW n \in Batch(External), ExternalDescriptors(p, n)
      PROVE  TypeOK'
  BY <1>1, DescriptorAssumption DEF ExternalDescriptors, WithExternal, LabelSets, Batch
<1>2. ASSUME NEW np \in Batch(Indexed), NEW nn \in Batch(Indexed),
             NEW up \in Batch(Indexed), NEW un \in Batch(Indexed),
             Adjudicate(np, nn, up, un)
      PROVE  TypeOK'
  <2>1. labels' \in LabelSets
    BY <1>2, DescriptorAssumption DEF Adjudicate, Adjudicated, LabelSets, Batch
  <2>2. cache' \in [View -> Ranking \cup {None}]
    BY <1>2 DEF Adjudicate, AfterLabelling
  <2> QED
    BY <1>2, <2>1, <2>2 DEF Adjudicate
<1>3. CASE NoPositiveToQuery
  BY <1>3 DEF NoPositiveToQuery
<1>4. ASSUME NEW done, NEW answer \in [done -> SUBSET Indexed], UpdateWorkingSet(done, answer)
      PROVE  TypeOK'
  <2>1. working_set' \subseteq Indexed
    BY <1>4 DEF UpdateWorkingSet
  <2>2. seeds_used' \subseteq Descriptor
    BY <1>4 DEF UpdateWorkingSet, Positives, LabelSets
  <2>3. reply'.list \in Ranking
    BY <1>4 DEF UpdateWorkingSet
  <2> QED
    BY <1>4, <2>1, <2>2, <2>3 DEF UpdateWorkingSet
<1>5. ASSUME NEW error, RefineFails(error)
      PROVE  TypeOK'
  <2>1. reply'.list \in Ranking /\ UNCHANGED <<labels, pool, refined, cache>>
    BY <1>5 DEF RefineFails
  <2> QED
    BY <2>1
<1>6. ASSUME NEW r \in Rank, NEW f \in Feedback, Refine(r, f)
      PROVE  TypeOK'
  <2>1. r \in Ranking
    BY OrderIsRanking, DescriptorAssumption DEF Rank
  <2>2. f \in Ranking
    <3>1. PICK S \in SUBSET working_set : f \in SetToSeqs(S)
      BY DEF Feedback
    <3> QED
      BY <3>1, OrderIsRanking, DescriptorAssumption
  <2>3. cache' \in [View -> Ranking \cup {None}]
    BY <1>6 DEF Refine, NoCache
  <2> QED
    BY <1>6, <2>1, <2>2, <2>3 DEF Refine
<1>7. CASE OrderedResults
  BY <1>7, OrderedIsRanking DEF OrderedResults, Listed
<1>8. CASE GetPositiveAdjudicationRelevancy
  BY <1>8, FilteredViewTypes DEF GetPositiveAdjudicationRelevancy, View
<1>9. CASE GetNegativeAdjudicationRelevancy
  BY <1>9, FilteredViewTypes DEF GetNegativeAdjudicationRelevancy, View
<1>10. CASE GetUnadjudicatedRelevancy
  BY <1>10, FilteredViewTypes DEF GetUnadjudicatedRelevancy, View
<1>11. CASE FeedbackResults
  BY <1>11, EmptyIsRanking DEF FeedbackResults, Listed
<1>12. CASE Reset
  BY <1>12 DEF Reset
<1>13. CASE SetStateBytesUnreadable
  BY <1>13 DEF SetStateBytesUnreadable
<1>14. CASE SetStateBytesIncomplete
  BY <1>14 DEF SetStateBytesIncomplete
<1>15. ASSUME NEW s \in SavedStates, SetStateBytes(s)
       PROVE  TypeOK'
  BY <1>15, SavedAssumption DEF SetStateBytes
<1>16. ASSUME NEW s \in SavedStates, NEW at \in 1 .. Len(LoadOrder), NEW l \in SUBSET Descriptor,
              SetStateBytesFails(s, at, l)
       PROVE  TypeOK'
  <2>1. labels' \in LabelSets
    BY <1>16, PartialLoad, SavedAssumption
  <2> QED
    BY <1>16, <2>1 DEF SetStateBytesFails
<1>17. CASE UNCHANGED vars
  BY <1>17 DEF vars
<1> QED
  BY <1>1, <1>2, <1>3, <1>4, <1>5, <1>6, <1>7, <1>8, <1>9, <1>10, <1>11, <1>12, <1>13, <1>14,
     <1>15, <1>16, <1>17 DEF Next

\* Every variable keeps its type in every behaviour.
THEOREM TypeCorrect == Spec => []TypeOK
<1>1. Init => TypeOK
  BY ClearedTypes, EmptyIsRanking DEF Init, TypeOK, NoCache, LabelSets, NoLabels
<1> QED
  BY <1>1, TypeStep, PTL DEF Spec

-----------------------------------------------------------------------------
(* Labels *)

\* Every step keeps the positive and the negative labels apart.
LEMMA LabelsStep == TypeOK /\ LabelsApart /\ [Next]_vars => LabelsApart'
<1> SUFFICES ASSUME TypeOK, LabelsApart, [Next]_vars PROVE LabelsApart'
  OBVIOUS
<1>0. Cleared => Apart(rank_contrib')
  BY DEF Cleared, NoLabels, Apart
<1> USE DEF LabelsApart, GetStateBytes
<1>1. ASSUME NEW p \in Batch(External), NEW n \in Batch(External), ExternalDescriptors(p, n)
      PROVE  LabelsApart'
  BY <1>1 DEF ExternalDescriptors, WithExternal, Apart, refined, TypeOK, LabelSets
<1>2. ASSUME NEW np, NEW nn, NEW up, NEW un, Adjudicate(np, nn, up, un)
      PROVE  LabelsApart'
  BY <1>2 DEF Adjudicate, Adjudicated, Apart, refined, TypeOK, LabelSets
<1>3. ASSUME NEW r, NEW f, Refine(r, f)
      PROVE  LabelsApart'
  BY <1>3 DEF Refine
<1>4. CASE Reset \/ SetStateBytesIncomplete
  BY <1>4, <1>0 DEF Reset, SetStateBytesIncomplete, NoLabels, Apart
<1>5. ASSUME NEW s \in SavedStates, SetStateBytes(s)
      PROVE  LabelsApart'
  BY <1>5, <1>0, SavedAssumption DEF SetStateBytes
<1>6. ASSUME NEW s \in SavedStates, NEW at \in 1 .. Len(LoadOrder), NEW l \in SUBSET Descriptor,
             SetStateBytesFails(s, at, l)
      PROVE  LabelsApart'
  <2>1. Cleared
    BY <1>6 DEF SetStateBytesFails
  <2>2. Apart(labels')
    BY <1>6, PartialLoad, SavedAssumption
  <2> QED
    BY <2>1, <2>2, <1>0
<1>7. ASSUME UNCHANGED <<labels, rank_contrib>>
      PROVE  LabelsApart'
  BY <1>7
<1> QED
  BY <1>1, <1>2, <1>3, <1>4, <1>5, <1>6, <1>7
  DEF Next, vars, refined, NoPositiveToQuery, UpdateWorkingSet, RefineFails, OrderedResults,
      GetPositiveAdjudicationRelevancy, GetNegativeAdjudicationRelevancy,
      GetUnadjudicatedRelevancy, FilteredView, FeedbackResults, SetStateBytesUnreadable

\* No descriptor is ever labelled both ways within one of the two kinds.
THEOREM LabelsStayApart == Spec => []LabelsApart
<1>1. Init => LabelsApart
  BY DEF Init, LabelsApart, GetStateBytes, Apart, NoLabels
<1> QED
  BY <1>1, LabelsStep, TypeCorrect, PTL DEF Spec

-----------------------------------------------------------------------------
(* The working set *)

\* Every step keeps the working set and the used seeds in step.
LEMMA PoolStep == TypeOK /\ PoolFromSeeds /\ [Next]_vars => PoolFromSeeds'
<1> SUFFICES ASSUME TypeOK, PoolFromSeeds, [Next]_vars PROVE PoolFromSeeds'
  OBVIOUS
<1>1. ASSUME NEW done, NEW answer \in [done -> SUBSET Indexed], UpdateWorkingSet(done, answer)
      PROVE  PoolFromSeeds'
  <2>1. /\ \A p \in done : answer[p] \in Neighbors[p]
        /\ working_set' = working_set \cup UNION { answer[p] : p \in done }
        /\ seeds_used' = seeds_used \cup done
    BY <1>1 DEF UpdateWorkingSet
  <2>2. ASSUME NEW s \in seeds_used'
        PROVE  \E an \in Neighbors[s] : an \subseteq working_set'
    <3>1. CASE s \in done
      BY <2>1, <3>1
    <3>2. CASE s \in seeds_used
      BY <2>1, <3>2 DEF PoolFromSeeds
    <3> QED
      BY <2>1, <3>1, <3>2
  <2>3. ASSUME NEW d \in working_set'
        PROVE  \E s \in seeds_used' : d \in UNION Neighbors[s]
    <3>1. CASE d \in working_set
      BY <2>1, <3>1 DEF PoolFromSeeds
    <3>2. CASE \E p \in done : d \in answer[p]
      BY <2>1, <3>2
    <3> QED
      BY <2>1, <3>1, <3>2
  <2> QED
    BY <2>2, <2>3 DEF PoolFromSeeds
<1>2. CASE Cleared
  BY <1>2 DEF Cleared, PoolFromSeeds
<1>3. CASE UNCHANGED pool
  BY <1>3 DEF pool, PoolFromSeeds
<1> QED
  BY <1>1, <1>2, <1>3
  DEF Next, vars, pool, ExternalDescriptors, Adjudicate, NoPositiveToQuery, RefineFails, Refine,
      OrderedResults, GetPositiveAdjudicationRelevancy, GetNegativeAdjudicationRelevancy,
      GetUnadjudicatedRelevancy, FilteredView, FeedbackResults, Reset, SetStateBytesUnreadable,
      SetStateBytesIncomplete, SetStateBytes, SetStateBytesFails

\* The working set is always what its seeds account for, failed queries
\* included.
THEOREM PoolIsFromSeeds == Spec => []PoolFromSeeds
<1>1. Init => PoolFromSeeds
  BY DEF Init, PoolFromSeeds
<1> QED
  BY <1>1, PoolStep, TypeCorrect, PTL DEF Spec

-----------------------------------------------------------------------------
(* One refinement *)

\* Every step keeps results, feedback and examples those of one refinement.
LEMMA RefinementStep ==
    TypeOK /\ OneRefinement /\ [Next]_vars => OneRefinement'
<1> SUFFICES ASSUME TypeOK, OneRefinement, [Next]_vars PROVE OneRefinement'
  OBVIOUS
<1>1. ASSUME NEW r \in Rank, NEW f \in Feedback, Refine(r, f)
      PROVE  OneRefinement'
  <2>1. r \in Ranking /\ Range(r) = working_set
    BY OrderIsRanking, OrderIsComplete, DescriptorAssumption DEF Rank, TypeOK
  <2>2. f \in Ranking /\ Range(f) \subseteq working_set
    <3>1. PICK S \in SUBSET working_set : f \in SetToSeqs(S)
      BY DEF Feedback
    <3> QED
      BY <3>1, OrderIsRanking, DescriptorAssumption DEF TypeOK
  <2>3. r # None /\ f # None
    BY <2>1, <2>2, NoneAssumption
  <2>4. Positives(labels) # {} /\ labels # NoLabels
    BY <1>1 DEF Refine, Positives, NoLabels
  <2> QED
    BY <1>1, <2>1, <2>2, <2>3, <2>4 DEF Refine, OneRefinement, pool
<1>2. CASE Cleared
  BY <1>2 DEF Cleared, OneRefinement
<1>3. CASE UNCHANGED refined /\ working_set \subseteq working_set'
  BY <1>3 DEF refined, OneRefinement
<1> QED
  BY <1>1, <1>2, <1>3
  DEF Next, vars, pool, refined, ExternalDescriptors, Adjudicate, NoPositiveToQuery,
      UpdateWorkingSet, RefineFails, OrderedResults,
      GetPositiveAdjudicationRelevancy, GetNegativeAdjudicationRelevancy,
      GetUnadjudicatedRelevancy, FilteredView, FeedbackResults, Reset, SetStateBytesUnreadable,
      SetStateBytesIncomplete, SetStateBytes, SetStateBytesFails

\* Results, feedback and contributing examples always belong together.
THEOREM ResultsBelongTogether == Spec => []OneRefinement
<1>1. Init => OneRefinement
  BY DEF Init, OneRefinement
<1> QED
  BY <1>1, RefinementStep, TypeCorrect, PTL DEF Spec

-----------------------------------------------------------------------------
(* The caches *)

\* What a read of view v should return: computed, not cached.
Fresh(v) == IF results = None THEN EmptyRanking
            ELSE Restrict(results, {i \in DOMAIN results : results[i] \in Shown(v)})

\* The unfiltered list a read starts from is the last refinement's, whichever
\* cache it comes from.
LEMMA OrderedIsFresh ==
    TypeOK /\ CacheCoherent => /\ Ordered = IF results = None THEN EmptyRanking ELSE results
                               /\ Ordered = Fresh("all")
                               /\ results = None => OrderedCache = None
                               /\ results # None => OrderedCache = results
<1> SUFFICES ASSUME TypeOK, CacheCoherent
    PROVE  /\ Ordered = IF results = None THEN EmptyRanking ELSE results
           /\ Ordered = Fresh("all")
           /\ results = None => OrderedCache = None
           /\ results # None => OrderedCache = results
  OBVIOUS
<1>1. CASE results = None
  <2>1. cache["all"] = None
    BY <1>1 DEF CacheCoherent, View
  <2> QED
    BY <1>1, <2>1 DEF Ordered, OrderedCache, Fresh
<1>2. CASE results # None
  <2>1. results \in Ranking
    BY <1>2 DEF TypeOK
  <2>2. Restrict(results, {i \in DOMAIN results : results[i] \in Shown("all")}) = results
    BY <2>1, FilterAll DEF Shown
  <2>3. cache["all"] # None => cache["all"] = results
    BY <1>2, <2>2 DEF CacheCoherent, View
  <2> QED
    BY <1>2, <2>2, <2>3 DEF Ordered, OrderedCache, Fresh
<1> QED
  BY <1>1, <1>2

\* A filtered view, cached or not, returns what a fresh computation would, and
\* leaves the caches coherent.
LEMMA FilteredViewIsFresh ==
    ASSUME TypeOK, CacheCoherent, NEW v \in View \ {"all"}, FilteredView(v, Shown(v))
    PROVE  CacheCoherent' /\ reply' = Listed(v, Fresh(v))
<1> DEFINE filtered == Restrict(Ordered, {i \in DOMAIN Ordered : Ordered[i] \in Shown(v)})
<1>1. UNCHANGED <<results, rank_contrib>>
  BY DEF FilteredView, refined
<1>2. filtered = Fresh(v)
  BY OrderedIsFresh, FilterEmpty DEF Fresh
<1>3. \A u \in View : Shown(u)' = Shown(u) /\ Fresh(u)' = Fresh(u)
  BY <1>1 DEF View, Shown, Fresh
<1>4. \A u \in View : cache'[u] # None =>
                        /\ cache'[u] = Fresh(u)
                        /\ results = None => u # "all"
  <2>1. ASSUME NEW u \in View, cache[u] # None
        PROVE  cache[u] = Fresh(u) /\ (results = None => u # "all")
    BY <2>1 DEF CacheCoherent, Fresh
  <2>2. CASE cache[v] # None
    BY <2>1, <2>2 DEF FilteredView
  <2>3. CASE cache[v] = None
    <3>1. cache' = [cache EXCEPT !["all"] = OrderedCache, ![v] = filtered]
      BY <2>3 DEF FilteredView
    <3> HIDE DEF filtered
    <3>2. OrderedCache # None => OrderedCache = Fresh("all") /\ results # None
      BY OrderedIsFresh
    <3>3. cache'["all"] = OrderedCache /\ cache'[v] = filtered
          /\ \A u \in View \ {"all", v} : cache'[u] = cache[u]
      BY <3>1 DEF TypeOK, View
    <3> QED
      BY <1>2, <2>1, <3>2, <3>3
  <2> QED
    BY <2>2, <2>3
<1>5. CacheCoherent'
  BY <1>1, <1>3, <1>4 DEF CacheCoherent, Fresh
<1>6. reply' = Listed(v, Fresh(v))
  <2>1. CASE cache[v] # None
    BY <2>1 DEF FilteredView, CacheCoherent, Fresh
  <2>2. CASE cache[v] = None
    BY <1>2, <2>2 DEF FilteredView
  <2> QED
    BY <2>1, <2>2
<1> QED
  BY <1>5, <1>6

\* Each of the three filtered views asks for what Shown says.
LEMMA ViewCalls ==
    /\ GetPositiveAdjudicationRelevancy <=> FilteredView("pos", Shown("pos"))
    /\ GetNegativeAdjudicationRelevancy <=> FilteredView("neg", Shown("neg"))
    /\ GetUnadjudicatedRelevancy <=> FilteredView("non_adj", Shown("non_adj"))
    /\ {"pos", "neg", "non_adj"} \subseteq View \ {"all"}
<1>1. /\ Shown("pos") = Positives(rank_contrib)
      /\ Shown("neg") = Negatives(rank_contrib)
      /\ Shown("non_adj") = Descriptor \ (Positives(rank_contrib) \cup Negatives(rank_contrib))
  BY DEF Shown
<1> QED
  BY <1>1 DEF GetPositiveAdjudicationRelevancy, GetNegativeAdjudicationRelevancy,
              GetUnadjudicatedRelevancy, View

\* Reading the whole ranking returns it and leaves the caches coherent.
LEMMA OrderedResultsIsFresh ==
    ASSUME TypeOK, CacheCoherent, OrderedResults
    PROVE  CacheCoherent' /\ reply' = Listed("all", Fresh("all"))
<1>1. UNCHANGED <<results, rank_contrib>>
  BY DEF OrderedResults, refined
<1>2. \A u \in View : Shown(u)' = Shown(u)
  BY <1>1 DEF View, Shown
<1>3. cache'["all"] = OrderedCache /\ \A u \in View \ {"all"} : cache'[u] = cache[u]
  BY DEF OrderedResults, TypeOK, View
<1>4. OrderedCache # None => results # None /\ OrderedCache = Fresh("all")
  BY OrderedIsFresh
<1>5. CacheCoherent'
  BY <1>1, <1>2, <1>3, <1>4 DEF CacheCoherent, Fresh
<1> QED
  BY <1>5, OrderedIsFresh DEF OrderedResults

\* Every step keeps the caches coherent.
LEMMA CacheStep == TypeOK /\ CacheCoherent /\ [Next]_vars => CacheCoherent'
<1> SUFFICES ASSUME TypeOK, CacheCoherent, [Next]_vars PROVE CacheCoherent'
  OBVIOUS
<1>1. ASSUME cache' = NoCache
      PROVE  CacheCoherent'
  BY <1>1 DEF CacheCoherent, NoCache
<1>2. ASSUME NEW np, NEW nn, NEW up, NEW un, Adjudicate(np, nn, up, un)
      PROVE  CacheCoherent'
  <2>1. UNCHANGED <<results, rank_contrib>>
    BY <1>2 DEF Adjudicate, refined
  <2>2. \A v \in View : cache'[v] = cache[v] \/ cache'[v] = None
    BY <1>2 DEF Adjudicate, AfterLabelling
  <2>3. \A v \in View : Shown(v)' = Shown(v)
    BY <2>1 DEF View, Shown
  <2> QED
    BY <2>1, <2>2, <2>3 DEF CacheCoherent
<1>3. CASE \/ OrderedResults
          \/ GetPositiveAdjudicationRelevancy
          \/ GetNegativeAdjudicationRelevancy
          \/ GetUnadjudicatedRelevancy
  BY <1>3, OrderedResultsIsFresh, FilteredViewIsFresh, ViewCalls
<1>4. ASSUME UNCHANGED <<results, rank_contrib, cache>>
      PROVE  CacheCoherent'
  <2>1. \A v \in View : Shown(v)' = Shown(v)
    BY <1>4 DEF View, Shown
  <2> QED
    BY <1>4, <2>1 DEF CacheCoherent
<1> QED
  BY <1>1, <1>2, <1>3, <1>4
  DEF Next, vars, refined, ExternalDescriptors, NoPositiveToQuery, UpdateWorkingSet, RefineFails,
      Refine, FeedbackResults, Reset, SetStateBytesUnreadable, SetStateBytesIncomplete,
      SetStateBytes, SetStateBytesFails, Cleared

\* A cached view is always the view of the last refinement.
THEOREM CachesAreCoherent == Spec => []CacheCoherent
<1>1. Init => CacheCoherent
  BY DEF Init, CacheCoherent, NoCache
<1> QED
  BY <1>1, CacheStep, TypeCorrect, PTL DEF Spec

-----------------------------------------------------------------------------
(* RefinedViews *)

\* The two modules write the same lists and the same filters.
LEMMA SameLists ==
    /\ Views!View = View /\ Views!EmptyRanking = EmptyRanking
    /\ TypeOK /\ results # None =>
         \A v \in View : Views!Shows(v, results, Positives(rank_contrib), Negatives(rank_contrib))
                           = Fresh(v)
<1>1. Views!View = View /\ Views!EmptyRanking = EmptyRanking
  BY DEF Views!View, View, Views!EmptyRanking, EmptyRanking
<1>2. ASSUME TypeOK, results # None, NEW v \in View
      PROVE  Views!Shows(v, results, Positives(rank_contrib), Negatives(rank_contrib)) = Fresh(v)
  <2>1. Restrict(results, {i \in DOMAIN results : results[i] \in Range(results)}) = results
    BY <1>2, FilterAll DEF TypeOK
  <2> QED
    BY <1>2, <2>1 DEF Views!Shows, Views!Filter, Views!Restrict, Restrict, Fresh, Shown, View
<1> QED
  BY <1>1, <1>2

\* A returned view is the answer RefinedViews gives.
LEMMA ReadImplements ==
    ASSUME TypeOK, NEW v \in View, reply' = Listed(v, Fresh(v)), UNCHANGED refined
    PROVE  Views!Read(v)
BY SameLists DEF Views!Read, Listed, Fresh, refined, View

\* The reply of a call that is not a read.
Quiet(r) == r.call \notin View \cup {"feedback"} /\ r.list = EmptyRanking

\* A quiet call that leaves the refinement alone is any other call.
LEMMA OtherImplements ==
    ASSUME Quiet(reply'), UNCHANGED refined
    PROVE  Views!OtherCall
BY SameLists DEF Quiet, Views!OtherCall, Views!NoReply, refined

\* A quiet call that clears the session discards the refinement.
LEMMA DiscardImplements ==
    ASSUME Quiet(reply'), Cleared
    PROVE  Views!Discard
BY SameLists DEF Quiet, Views!Discard, Views!NoReply, Cleared, Positives, Negatives, NoLabels

\* Every call that is not a read is quiet, whether it returns or raises.
LEMMA QuietCalls ==
    \A call \in {"init", "external_descriptors", "adjudicate", "update_working_set", "refine",
                 "reset", "set_state_bytes"} :
      \A error : Quiet(Returned(call)) /\ Quiet(Raised(call, error))
BY DEF Quiet, Returned, Raised, View

\* Every step of a session is a step, or a stutter, of RefinedViews.
LEMMA RefinesStep == TypeOK /\ CacheCoherent /\ [Next]_vars => [Views!Next]_Views!vars
<1> SUFFICES ASSUME TypeOK, CacheCoherent, [Next]_vars
    PROVE  [Views!Next]_Views!vars
  OBVIOUS
<1> USE QuietCalls
<1>1. ASSUME NEW p, NEW n, ExternalDescriptors(p, n)
      PROVE  Views!OtherCall
  BY <1>1, OtherImplements DEF ExternalDescriptors
<1>2. ASSUME NEW np, NEW nn, NEW up, NEW un, Adjudicate(np, nn, up, un)
      PROVE  Views!OtherCall
  <2>1. Quiet(reply') /\ UNCHANGED refined
    BY <1>2 DEF Adjudicate
  <2> QED
    BY <2>1, OtherImplements
<1>3. ASSUME NoPositiveToQuery
      PROVE  Views!OtherCall
  BY <1>3, OtherImplements DEF NoPositiveToQuery
<1>4. ASSUME NEW done, NEW answer, UpdateWorkingSet(done, answer)
      PROVE  Views!OtherCall
  <2>1. Quiet(reply') /\ UNCHANGED refined
    BY <1>4 DEF UpdateWorkingSet
  <2> QED
    BY <2>1, OtherImplements
<1>5. ASSUME NEW error, RefineFails(error)
      PROVE  Views!OtherCall
  <2>1. Quiet(reply') /\ UNCHANGED refined
    BY <1>5 DEF RefineFails
  <2> QED
    BY <2>1, OtherImplements
<1>6. ASSUME NEW r \in Rank, NEW f \in Feedback, Refine(r, f)
      PROVE  Views!Refine
  <2>1. r \in Ranking /\ f \in Ranking
    <3>1. PICK S \in SUBSET working_set : f \in SetToSeqs(S)
      BY DEF Feedback
    <3> QED
      BY <3>1, OrderIsRanking, DescriptorAssumption DEF Rank, TypeOK
  <2>2. /\ results' = r /\ feedback_list' = f /\ rank_contrib' = labels
        /\ Positives(labels) # {} /\ reply' = Returned("refine")
    BY <1>6 DEF Refine
  <2>3. Positives(labels) \in (SUBSET Descriptor) \ {{}} /\ Negatives(labels) \in SUBSET Descriptor
    BY <2>2 DEF TypeOK, LabelSets, Positives, Negatives
  <2>4. Positives(rank_contrib)' = Positives(labels) /\ Negatives(rank_contrib)' = Negatives(labels)
    BY <2>2 DEF Positives, Negatives
  <2>5. Quiet(reply')
    BY <2>2
  <2> QED
    BY <2>1, <2>2, <2>3, <2>4, <2>5, SameLists DEF Views!Refine, Views!NoReply, Quiet
<1>7. CASE OrderedResults
  <2>1. Views!Read("all")
    BY <1>7, OrderedResultsIsFresh, ReadImplements DEF OrderedResults, View
  <2> QED
    BY <2>1, SameLists DEF Views!Next, View
<1>8. ASSUME NEW v \in View \ {"all"}, FilteredView(v, Shown(v))
      PROVE  Views!Next
  <2>1. Views!Read(v)
    BY <1>8, FilteredViewIsFresh, ReadImplements DEF FilteredView
  <2> QED
    BY <2>1, SameLists DEF Views!Next
<1>9. CASE FeedbackResults
  <2>1. Views!ReadFeedback
    BY <1>9, SameLists DEF FeedbackResults, Views!ReadFeedback, Listed, refined
  <2> QED
    BY <2>1 DEF Views!Next
<1>10. CASE Reset \/ SetStateBytesIncomplete
  BY <1>10, DiscardImplements DEF Reset, SetStateBytesIncomplete, Views!Next
<1>11. ASSUME SetStateBytesUnreadable
       PROVE  Views!OtherCall
  BY <1>11, OtherImplements DEF SetStateBytesUnreadable
<1>12. ASSUME NEW s, SetStateBytes(s)
       PROVE  Views!Discard
  <2>1. Cleared /\ Quiet(reply')
    BY <1>12 DEF SetStateBytes
  <2> QED
    BY <2>1, DiscardImplements
<1>13. ASSUME NEW s, NEW at, NEW l, SetStateBytesFails(s, at, l)
       PROVE  Views!Discard
  <2>1. Cleared /\ Quiet(reply')
    BY <1>13 DEF SetStateBytesFails
  <2> QED
    BY <2>1, DiscardImplements
<1>14. CASE UNCHANGED vars
  BY <1>14 DEF vars, refined, Views!vars, Positives, Negatives
<1>15. Views!OtherCall \/ Views!Discard \/ Views!Refine => Views!Next
  BY DEF Views!Next
<1> QED
  BY <1>1, <1>2, <1>3, <1>4, <1>5, <1>6, <1>7, <1>8, <1>9, <1>10, <1>11, <1>12, <1>13, <1>14,
     <1>15, ViewCalls DEF Next

\* A session, with its caches and its failures, implements RefinedViews.
THEOREM SessionImplementsViews == Spec => ImplementsViews
<1>1. Init => Views!Init
  BY SameLists, QuietCalls
  DEF Init, Views!Init, Views!NoReply, Quiet, Positives, Negatives, NoLabels
<1> QED
  BY <1>1, RefinesStep, TypeCorrect, CachesAreCoherent, PTL DEF Spec, ImplementsViews, Views!Spec
=============================================================================
