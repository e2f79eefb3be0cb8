----------------------------- MODULE IqrSession -----------------------------
(***************************************************************************)
(* One IQR session (smqtk_iqr/iqr/iqr_session.py): the labels a user gives *)
(* to descriptors, the working set of neighbours queried for the positive  *)
(* ones, the ranking of the last refinement, and the lazily filled caches  *)
(* of the views of that ranking.                                           *)
(*                                                                         *)
(* Every method runs under the session's lock (its own `with self.lock`,   *)
(* or the lock the service's handler holds around update_working_set), so  *)
(* each call is one step.  A call that raises is a step too: it leaves the *)
(* state the code leaves at the raise, and `reply` carries the exception.  *)
(*                                                                         *)
(* A descriptor element is a model value: its uuid.  The vectors and the   *)
(* scores matter through what the external algorithms make of them: the    *)
(* neighbour index answers with any of a descriptor's Neighbors, the       *)
(* ranker with any order of the working set, and the farthest descriptors  *)
(* picked as automatic negatives are any of the right number.              *)
(***************************************************************************)
EXTENDS Labels, FiniteSets, Functions, SequencesExt

CONSTANTS
    Indexed,            \* those in the service's descriptor set
    External,           \* those external data may be described by
    Neighbors,          \* Neighbors[d]: the answers nn_index.nn(d) may give
    AutonegSelectRatio, \* autoneg_select_ratio: negatives picked per positive
    Mismatched,         \* uuids whose stored vector is not the saved one
    SavedStates,        \* the saved states set_state_bytes is given
    MaxFeedback,        \* the longest feedback list the ranker returns
    MaxBatch,           \* bound: descriptors named in one labelling call
    None                \* Python's None

ASSUME DescriptorAssumption ==
    IsFiniteSet(Descriptor) /\ Indexed \subseteq Descriptor /\ External \subseteq Descriptor
ASSUME NeighborsAssumption == Neighbors \in [Descriptor -> SUBSET SUBSET Indexed]
ASSUME AutonegAssumption == AutonegSelectRatio \in Nat \ {0}
ASSUME SavedAssumption ==
    Mismatched \subseteq Descriptor /\ \A s \in SavedStates : s \in LabelSets /\ Apart(s)
ASSUME BoundsAssumption == MaxFeedback \in Nat /\ MaxBatch \in Nat

View == {"all", "pos", "neg", "non_adj"}

\* A list of descriptors, best first.  A filtered list keeps the positions of
\* the list it was filtered from (see RefinedViews).
Ranking == UNION { [I -> Descriptor] : I \in SUBSET (1 .. Cardinality(Descriptor)) }

EmptyRanking == [i \in {} |-> i]

ASSUME NoneAssumption == None \notin Ranking

VARIABLES
    labels,        \* positive/negative_descriptors and external_*_descriptors
    working_set,   \* the descriptors to be ranked
    seeds_used,    \* _wi_seeds_used: positives whose neighbours were fetched
    rank_contrib,  \* the four label sets as of the last refinement
    results,       \* the ranking its scores give, or None
    feedback_list, \* what the ranker recommends to adjudicate, or None
    cache,         \* _ordered_results, _ordered_pos, _ordered_neg, _ordered_non_adj
    reply          \* the last call's answer or exception

pool    == <<working_set, seeds_used>>
refined == <<rank_contrib, results, feedback_list>>
vars    == <<labels, pool, refined, cache, reply>>

NoCache  == [v \in View |-> None]

Returned(call)      == [call |-> call, raised |-> "nothing", list |-> EmptyRanking]
Raised(call, error) == [call |-> call, raised |-> error, list |-> EmptyRanking]
Listed(call, list)  == [call |-> call, raised |-> "nothing", list |-> list]

Init ==
    /\ labels = NoLabels
    /\ working_set = {} /\ seeds_used = {}
    /\ rank_contrib = NoLabels /\ results = None /\ feedback_list = None
    /\ cache = NoCache
    /\ reply = Returned("init")

-----------------------------------------------------------------------------
(* Labels *)

ExternalDescriptors(positive, negative) ==
    /\ labels' = WithExternal(labels, positive, negative)
    /\ reply' = Returned("external_descriptors")
    /\ UNCHANGED <<pool, refined, cache>>

\* What the caches keep when the labels change: each view of a changed side,
\* and the unadjudicated one with either, is dropped.
AfterLabelling(pos_changed, neg_changed) ==
    [v \in View |-> IF \/ v = "pos" /\ pos_changed
                       \/ v = "neg" /\ neg_changed
                       \/ v = "non_adj" /\ (pos_changed \/ neg_changed)
                    THEN None ELSE cache[v]]

Adjudicate(new_pos, new_neg, un_pos, un_neg) ==
    LET new == Adjudicated(labels, new_pos, new_neg, un_pos, un_neg)
    IN /\ labels' = new
       /\ cache' = AfterLabelling(new.pos # labels.pos, new.neg # labels.neg)
       /\ reply' = Returned("adjudicate")
       /\ UNCHANGED <<pool, refined>>

-----------------------------------------------------------------------------
(* The working set *)

NoPositiveToQuery ==
    /\ Positives(labels) = {}
    /\ reply' = Raised("update_working_set", "RuntimeError")
    /\ UNCHANGED <<labels, pool, refined, cache>>

\* The new positives are queried one by one, in the arbitrary order of a set;
\* `done` are those answered before the index raised, all of them if it never
\* did.  What was added before the raise stays.
UpdateWorkingSet(done, answer) ==
    LET todo == Positives(labels) \ seeds_used
    IN /\ Positives(labels) # {}
       /\ done \subseteq todo
       /\ \A p \in done : answer[p] \in Neighbors[p]
       /\ working_set' = working_set \cup UNION { answer[p] : p \in done }
       /\ seeds_used' = seeds_used \cup done
       /\ reply' = IF done = todo THEN Returned("update_working_set")
                   ELSE Raised("update_working_set", "NnError")
       /\ UNCHANGED <<labels, refined, cache>>

-----------------------------------------------------------------------------
(* Refinement *)

\* The automatic negatives: for each positive example the AutonegSelectRatio
\* farthest descriptors of the working set, less the positive examples.
AutoNegatives ==
    { UNION { far[p] : p \in Positives(labels) } \ Positives(labels) :
        far \in [Positives(labels) ->
                   {f \in SUBSET working_set : Cardinality(f) = AutonegSelectRatio}] }

RefineFails(error) ==
    /\ \/ error = "RuntimeError" /\ Positives(labels) = {}
       \* zip(*items) of an empty working set cannot be unpacked
       \/ error = "ValueError" /\ Positives(labels) # {} /\ working_set = {}
       \* argpartition cannot pick more elements than the working set has
       \/ /\ error = "ValueError"
          /\ Positives(labels) # {} /\ Negatives(labels) = {}
          /\ Cardinality(working_set) < AutonegSelectRatio
       \* every automatic negative is a positive example
       \/ /\ error = "RuntimeError"
          /\ Positives(labels) # {} /\ Negatives(labels) = {}
          /\ working_set # {}
          /\ {} \in AutoNegatives
       \* the ranker raises
       \/ /\ error = "RankError"
          /\ Positives(labels) # {} /\ working_set # {}
          /\ \/ Negatives(labels) # {}
             \/ \E auto \in AutoNegatives : auto # {}
    /\ reply' = Raised("refine", error)
    /\ UNCHANGED <<labels, pool, refined, cache>>

Refine(ranking, feedback) ==
    /\ Positives(labels) # {} /\ working_set # {}
    /\ \/ Negatives(labels) # {}
       \/ \E auto \in AutoNegatives : auto # {}
    /\ results' = ranking
    /\ feedback_list' = feedback
    /\ rank_contrib' = labels
    /\ cache' = NoCache
    /\ reply' = Returned("refine")
    /\ UNCHANGED <<labels, pool>>

-----------------------------------------------------------------------------
(* Views of the last refinement *)

\* (Mutant.) No test for results before they are ordered.
OrderedUnguarded == IF cache["all"] # None THEN cache["all"] ELSE results

\* ordered_results fills its cache only when there are results.
Ordered == CASE cache["all"] # None -> cache["all"]
             [] results = None      -> EmptyRanking
             [] OTHER               -> results

OrderedCache == IF results = None THEN cache["all"] ELSE Ordered

OrderedResults ==
    /\ cache' = [cache EXCEPT !["all"] = OrderedCache]
    /\ reply' = Listed("all", Ordered)
    /\ UNCHANGED <<labels, pool, refined>>

\* The other views filter ordered_results() and cache what they get, an empty
\* list included.
FilteredView(v, shown) ==
    LET filtered == Restrict(Ordered, {i \in DOMAIN Ordered : Ordered[i] \in shown})
    IN /\ IF cache[v] # None
          THEN cache' = cache /\ reply' = Listed(v, cache[v])
          ELSE /\ cache' = [cache EXCEPT !["all"] = OrderedCache, ![v] = filtered]
               /\ reply' = Listed(v, filtered)
       /\ UNCHANGED <<labels, pool, refined>>

\* (Mutant.) The labels of now in place of those the refinement used.
PositiveRelevancyOfNow == FilteredView("pos", Positives(labels))

GetPositiveAdjudicationRelevancy == FilteredView("pos", Positives(rank_contrib))

GetNegativeAdjudicationRelevancy == FilteredView("neg", Negatives(rank_contrib))

GetUnadjudicatedRelevancy ==
    FilteredView("non_adj",
                 Descriptor \ (Positives(rank_contrib) \cup Negatives(rank_contrib)))

FeedbackResults ==
    /\ reply' = Listed("feedback", IF feedback_list = None THEN EmptyRanking
                                   ELSE feedback_list)
    /\ UNCHANGED <<labels, pool, refined, cache>>

-----------------------------------------------------------------------------
(* Reset, and saved states *)

\* (Mutant.) The seeds are remembered while their neighbours are dropped.
ClearedButSeeds ==
    /\ working_set' = {} /\ UNCHANGED seeds_used
    /\ rank_contrib' = NoLabels /\ results' = None /\ feedback_list' = None
    /\ cache' = NoCache

\* (Mutant.) The recommendations of the last refinement survive.
ClearedButFeedback ==
    /\ working_set' = {} /\ seeds_used' = {}
    /\ rank_contrib' = NoLabels /\ results' = None /\ UNCHANGED feedback_list
    /\ cache' = NoCache

\* (Mutant.) The cached views survive.
ClearedButCache ==
    /\ working_set' = {} /\ seeds_used' = {}
    /\ rank_contrib' = NoLabels /\ results' = None /\ feedback_list' = None
    /\ UNCHANGED cache

Cleared ==
    /\ working_set' = {} /\ seeds_used' = {}
    /\ rank_contrib' = NoLabels /\ results' = None /\ feedback_list' = None
    /\ cache' = NoCache

Reset ==
    /\ Cleared
    /\ labels' = NoLabels
    /\ reply' = Returned("reset")

\* get_state_bytes writes the four label sets and nothing else.
GetStateBytes == labels

\* The bytes are not a zip with the expected file: nothing is touched.
SetStateBytesUnreadable ==
    /\ reply' = Raised("set_state_bytes", "ValueError")
    /\ UNCHANGED <<labels, pool, refined, cache>>

\* The file lacks one of the four lists, which shows only after the reset.
SetStateBytesIncomplete ==
    /\ Cleared
    /\ labels' = NoLabels
    /\ reply' = Raised("set_state_bytes", "KeyError")

SetStateBytes(state) ==
    /\ Positives(state) \cup Negatives(state) \subseteq Descriptor \ Mismatched
    /\ Cleared
    /\ labels' = state
    /\ reply' = Returned("set_state_bytes")

\* A stored vector differs from the saved one: the session has been reset, and
\* keeps what was loaded before the assertion failed.
SetStateBytesFails(state, at, loaded) ==
    /\ StopsAt(state, Mismatched, at, loaded)
    /\ Cleared
    /\ labels' = LoadedUpTo(state, at, loaded)
    /\ reply' = Raised("set_state_bytes", "AssertionError")

-----------------------------------------------------------------------------

Batch(S) == {b \in SUBSET S : Cardinality(b) <= MaxBatch}

\* What the ranker may return: an order of the working set.
Rank == SetToSeqs(working_set)

\* The feedback is some of the ranked descriptors, in an order of its own.
Feedback == UNION { SetToSeqs(S) : S \in {S \in SUBSET working_set : Cardinality(S) <= MaxFeedback} }

Next ==
    \/ \E p, n \in Batch(External) : ExternalDescriptors(p, n)
    \/ \E np, nn, up, un \in Batch(Indexed) :
         Cardinality(np \cup nn \cup up \cup un) <= MaxBatch /\ Adjudicate(np, nn, up, un)
    \/ NoPositiveToQuery
    \/ \E done \in SUBSET (Positives(labels) \ seeds_used) :
         \E answer \in [done -> SUBSET Indexed] : UpdateWorkingSet(done, answer)
    \/ \E error \in {"RuntimeError", "ValueError", "RankError"} : RefineFails(error)
    \/ \E r \in Rank, f \in Feedback : Refine(r, f)
    \/ OrderedResults
    \/ GetPositiveAdjudicationRelevancy
    \/ GetNegativeAdjudicationRelevancy
    \/ GetUnadjudicatedRelevancy
    \/ FeedbackResults
    \/ Reset
    \/ SetStateBytesUnreadable
    \/ SetStateBytesIncomplete
    \/ \E s \in SavedStates : SetStateBytes(s)
    \/ \E s \in SavedStates, at \in 1 .. Len(LoadOrder), l \in SUBSET Descriptor :
         SetStateBytesFails(s, at, l)

Spec == Init /\ [][Next]_vars

-----------------------------------------------------------------------------
(* Properties *)

\* Each variable has its type; in particular every cached list and every reply
\* is a list of descriptors.
TypeOK ==
    /\ labels \in LabelSets /\ rank_contrib \in LabelSets
    /\ working_set \subseteq Indexed /\ seeds_used \subseteq Descriptor
    /\ results \in Ranking \cup {None} /\ feedback_list \in Ranking \cup {None}
    /\ cache \in [View -> Ranking \cup {None}]
    /\ reply.list \in Ranking

\* No descriptor is adjudicated, or given as an external example, both
\* positively and negatively, whatever mix of new and withdrawn labels a call
\* carries (the order of the set updates in adjudicate and
\* external_descriptors); so a saved state always loads apart as well.
LabelsApart == Apart(GetStateBytes) /\ Apart(rank_contrib)

\* The working set is exactly what its seeds account for: every seed's query
\* was answered into it, and nothing else is in it.  A query that raised
\* half-way (update_working_set) and a reset keep the two in step; a seed
\* recorded without its neighbours would never be queried again.
PoolFromSeeds ==
    /\ \A s \in seeds_used : \E answer \in Neighbors[s] : answer \subseteq working_set
    /\ \A d \in working_set : \E s \in seeds_used : d \in UNION Neighbors[s]

\* Results, feedback and contributing examples are those of one refinement:
\* present together, absent together, and about descriptors of the working
\* set, which has not lost any since (refine, reset, set_state_bytes).
OneRefinement ==
    /\ results = None <=> feedback_list = None
    /\ results = None <=> rank_contrib = NoLabels
    /\ results # None => /\ Positives(rank_contrib) # {}
                         /\ Range(results) \subseteq working_set
                         /\ Range(feedback_list) \subseteq Range(results)

\* What view v of the last refinement shows.
Shown(v) ==
    CASE v = "all"     -> Range(results)
      [] v = "pos"     -> Positives(rank_contrib)
      [] v = "neg"     -> Negatives(rank_contrib)
      [] v = "non_adj" -> Descriptor \ (Positives(rank_contrib) \cup Negatives(rank_contrib))

\* A cached view is the view of the last refinement, not of an earlier one and
\* not of labels given since, after any sequence of labelling, refining,
\* reading, resetting and loading.
CacheCoherent ==
    \A v \in View :
      cache[v] # None =>
        IF results = None THEN v # "all" /\ cache[v] = EmptyRanking
        ELSE cache[v] = Restrict(results, {i \in DOMAIN results : results[i] \in Shown(v)})

\* What the readers see is what RefinedViews promises: the caches never show.
Views == INSTANCE RefinedViews WITH
    ranking     <- results,
    positive    <- Positives(rank_contrib),
    negative    <- Negatives(rank_contrib),
    recommended <- feedback_list,
    answer      <- [view |-> IF reply.call \in View \cup {"feedback"} THEN reply.call ELSE "none",
                    list |-> reply.list]

\* A session, caches and failures included, implements RefinedViews.
ImplementsViews == Views!Spec

-----------------------------------------------------------------------------
(* What the repository says of a session and the code does not do *)

\* ":raises RuntimeError: No working set has been initialized"
\* (iqr_session.py:312): refine fails on an empty working set with ValueError.
EmptyWorkingSetIsRuntimeError ==
    reply.call = "refine" /\ reply.raised # "nothing" /\ working_set = {}
      => reply.raised = "RuntimeError"

\* "This does *not* include external positive adjudications"
\* (iqr_session.py:451): get_positive_adjudication_relevancy does include those
\* the working set holds.
PositiveViewIsAdjudicated == reply.call = "pos" => Range(reply.list) \subseteq rank_contrib.pos

\* "one of the two, or neither, are labeled True" (iqr_search.py:534): an
\* adjudicated descriptor can be an external example of the other kind.
AtMostOneLabel == Positives(labels) \cap Negatives(labels) = {}
=============================================================================
