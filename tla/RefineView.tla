----------------------------- MODULE RefineView -----------------------------
(***************************************************************************)
(* The page's results: the refine pane and the random pane of              *)
(* smqtk.iqr_refine_view.js, and the requests the page sends.  JavaScript   *)
(* runs one callback at a time, but the requests are independent: the       *)
(* server takes them, and the browser hears of them, in any order.          *)
(***************************************************************************)
EXTENDS Integers, SequencesExt, FiniteSetsExt, Bags

CONSTANTS
    Uuid,     \* data elements
    Example,  \* uploaded examples
    Rankings, \* the orders in which a refine may put the working set
    Shuffles, \* the orders in which get_random_uids may put the data set
    Step      \* show_more_step

ASSUME StepAssumption == Step \in Nat \ {0}
ASSUME RankingsAssumption == Rankings \subseteq Seq(Uuid) /\ Shuffles \subseteq Seq(Uuid)

VARIABLES
    pane,    \* the refine pane
    random,  \* the random pane
    sent,    \* the requests the server has not taken yet, a bag of calls
    answers, \* the answers whose callback has not run yet, a bag of them
    spoilt   \* which of the views may be off for a known cause (a history variable)

pageVars == <<pane, random, sent, answers, spoilt>>

Call == {"info", "results", "refine", "random",
         "status", "initialize", "reset", "load_reset", "set_state", "ingest"}

\* What an answer carries: "yes" is wi_count > 0 of the session's information and
\* data.success of iqr_initialize.
Answer == [call : Call, ok : BOOLEAN, yes : BOOLEAN, pos : SUBSET Example, list : Seq(Uuid)]
View   == {"pane", "random", "status"}

Send(calls) == sent' = sent (+) SetToBag(calls)
Heard(a)    == answers' = answers (-) SetToBag({a})

Outstanding(call) == BagIn(call, sent) \/ \E a \in BagToSet(answers) : a.call = call
Refreshing        == Outstanding("info") \/ Outstanding("results")
Quiet             == sent = EmptyBag /\ answers = EmptyBag

-----------------------------------------------------------------------------
(* The refine pane *)

\* (Mutant.)  The list is emptied and the count of those displayed is not.
ClearedList(p) == [p EXCEPT !.uuids = <<>>]

Cleared(p) == [p EXCEPT !.uuids = <<>>, !.displayed = 0]

\* The children of button_container_refine_top: the toggle is one of them while
\* the random pane is off.
SetTop(p, on) == [p EXCEPT !.top = on, !.toggle = IF random.enabled THEN @ ELSE on]

SetButtons(p, on) == [SetTop(p, on) EXCEPT !.bottom = on]

\* show_more_refine_results
ShowMore(p) ==
    LET n == Min({Len(p.uuids), p.displayed + Step})
    IN IF n = 0
       THEN [p EXCEPT !.bottom_shown = FALSE]
       ELSE [p EXCEPT !.displayed = n, !.bottom_shown = TRUE, !.more_shown = n # Len(p.uuids)]

\* update_refine_pane, from pane p: the rest is left to the answer.
Refresh(p, calls) ==
    /\ pane' = Cleared(p)
    /\ Send(calls \cup {"info"})

\* The refresh starts alone, or beside another that will add its results too.
RefreshSpoils(s) == [s EXCEPT !["pane"] = Refreshing]

\* iqr_refine
Refine ==
    /\ pane' = [SetButtons(pane, FALSE) EXCEPT !.bar = TRUE]
    /\ Send({"refine"})

OnInfo(a) ==
    /\ a.call = "info"
    /\ Heard(a)
    /\ \/ /\ a.ok /\ a.yes
          /\ pane' = SetTop(pane, TRUE)
          /\ Send({"results"})
          /\ UNCHANGED spoilt
       \/ /\ a.ok /\ ~a.yes
          /\ pane' = [SetTop(pane, TRUE) EXCEPT !.bottom_shown = FALSE]
          /\ UNCHANGED <<sent, spoilt>>
       \/ /\ ~a.ok
          /\ spoilt' = [spoilt EXCEPT !["pane"] = TRUE]
          /\ UNCHANGED <<pane, sent>>
    /\ UNCHANGED random

OnResults(a) ==
    /\ a.call = "results"
    /\ Heard(a)
    /\ \/ /\ a.ok
          /\ LET p == [pane EXCEPT !.uuids = @ \o a.list]
             IN pane' = IF p.uuids = <<>> THEN p ELSE ShowMore(p)
          /\ UNCHANGED spoilt
       \/ /\ ~a.ok
          /\ spoilt' = [spoilt EXCEPT !["pane"] = TRUE]
          /\ UNCHANGED pane
    /\ UNCHANGED <<random, sent>>

\* (Mutant.)  The error handler does not call restore.
OnRefineWithoutRestore(a) ==
    /\ a.call = "refine"
    /\ Heard(a)
    /\ \/ /\ a.ok
          /\ Refresh([SetButtons(pane, TRUE) EXCEPT !.bar = FALSE], {})
          /\ spoilt' = RefreshSpoils(spoilt)
       \/ /\ ~a.ok
          /\ UNCHANGED <<pane, sent, spoilt>>
    /\ UNCHANGED random

\* An error leaves the buttons as iqr_refine has set them.
OnRefine(a) ==
    /\ a.call = "refine"
    /\ Heard(a)
    /\ \/ /\ a.ok
          /\ Refresh([SetButtons(pane, TRUE) EXCEPT !.bar = FALSE], {})
          /\ spoilt' = RefreshSpoils(spoilt)
       \/ /\ ~a.ok
          /\ pane' = [pane EXCEPT !.bar = FALSE]
          /\ UNCHANGED <<sent, spoilt>>
    /\ UNCHANGED random

-----------------------------------------------------------------------------
(* The random pane *)

\* show_random_functionals
Functionals(r) == [r EXCEPT !.refresh_shown = TRUE, !.more_shown = Len(r.shown) > 0]

\* display_random_results_range: the ids from the s-th, counted from 0, to the
\* e-th are added to the views, whatever these are.
DisplayRange(r, s, e) ==
    LET views == r.shown \o SubSeq(r.ids, s + 1, Min({e, Len(r.ids)}))
    IN [Functionals([r EXCEPT !.shown = views]) EXCEPT
           !.more_shown = @ /\ Len(views) # Len(r.ids)]

\* refresh_random_ids, from pane r
RefreshRandom(r) ==
    /\ random' = [r EXCEPT !.refresh_shown = FALSE, !.more_shown = FALSE,
                           !.shown = <<>>, !.bar = TRUE]
    /\ Send({"random"})
    /\ spoilt' = [spoilt EXCEPT !["random"] = Outstanding("random")]

\* (Mutant.)  The range starts one too late.
MoreRandomSkips ==
    random' = DisplayRange(random, Len(random.shown) + 1, Len(random.shown) + 1 + Step)

\* iterate_more_random_results
MoreRandom ==
    random' = DisplayRange(random, Len(random.shown), Len(random.shown) + Step)

OnRandom(a) ==
    /\ a.call = "random"
    /\ Heard(a)
    /\ random' = LET r == IF a.ok THEN DisplayRange([random EXCEPT !.ids = a.list], 0, Step)
                                  ELSE random
                 IN [Functionals(r) EXCEPT !.bar = FALSE]
    /\ UNCHANGED <<pane, sent, spoilt>>

\* toggle_random_pane.  The toggle goes with the pane; it is enabled where it
\* is until a handler sets the buttons of the pane it is in.
ToggleOff(r) == [r EXCEPT !.enabled = FALSE]

Toggle ==
    \/ /\ random.enabled
       /\ random' = ToggleOff(random)
       /\ UNCHANGED <<sent, spoilt>>
    \/ /\ ~random.enabled
       /\ RefreshRandom([random EXCEPT !.enabled = TRUE])
=============================================================================
