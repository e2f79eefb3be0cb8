------------------------------ MODULE DataView ------------------------------
(***************************************************************************)
(* The views of data elements (smqtk.data_view.js) and the labels the       *)
(* session keeps for the elements.  A click changes what the view shows at  *)
(* once and is then told to the server; nobody waits for the answer.  One   *)
(* element may have several views, in the refine pane, in the random pane   *)
(* and, after a refresh, again.                                             *)
(***************************************************************************)
EXTENDS Integers, Bags

CONSTANTS
    View,        \* the views there may be
    Element,     \* the data elements
    ElementOf,   \* the element each view is of
    Visits       \* what may happen: the views made, and how many clicks and failed
                 \* requests there are at most

ASSUME ViewAssumption  == ElementOf \in [View -> Element]
ASSUME VisitsAssumption == Visits \subseteq [views : SUBSET View, clicks : Nat, failures : Nat]

VARIABLES
    made,     \* the views constructed
    is_positive, is_negative,
    image,    \* what the picture of each view shows
    loaded,   \* image_loaded
    label,    \* the session's adjudication of each element
    sent,     \* the requests the server has not taken yet, a bag
    answers,  \* the answers whose callback has not run yet, a bag
    left,     \* what is left of the visit
    spoilt    \* the views that may be off for a known cause (a history variable)

viewVars == <<made, is_positive, is_negative, image, loaded>>
vars == <<viewVars, label, sent, answers, left, spoilt>>

Label == {"positive", "negative", "neutral"}
Picture == {"loading", "preview", "rejected", "broken"}

\* What a click tells the server: add_pos, remove_pos, add_neg or remove_neg.
Adjudication == {"add_pos", "remove_pos", "add_neg", "remove_neg"}
Call    == Adjudication \cup {"get_adjudication", "get_preview"}
Request == [view : View, call : Call]

\* The two flags are is_pos and is_neg of an adjudication; yes is data.success
\* of a preview.
Answer  == [view : View, call : Call, ok : BOOLEAN, is_pos : BOOLEAN, is_neg : BOOLEAN,
            yes : BOOLEAN]

Send(v, calls) == sent' = sent (+) SetToBag({[view |-> v, call |-> c] : c \in calls})
Heard(a)       == answers' = answers (-) SetToBag({a})
Waiting        == BagToSet(sent) \cup {[view |-> a.view, call |-> a.call] : a \in BagToSet(answers)}
Quiet          == Waiting = {}

\* The view's own label, as update_adj_button_view shows it.
Shown(v) == IF is_positive[v] THEN "positive"
            ELSE IF is_negative[v] THEN "negative" ELSE "neutral"

Init ==
    /\ made = {}
    /\ is_positive = [v \in View |-> FALSE]
    /\ is_negative = [v \in View |-> FALSE]
    /\ image = [v \in View |-> "loading"]
    /\ loaded = [v \in View |-> FALSE]
    /\ label \in [Element -> Label]
    /\ sent = EmptyBag /\ answers = EmptyBag
    /\ left \in Visits
    /\ spoilt = {}

-----------------------------------------------------------------------------
(* The views *)

Others(v) == {w \in View : ElementOf[w] = ElementOf[v]} \ {v}

\* An adjudication of the element of v, or the view's own first look at it, is
\* under way.
Unsettled(v) ==
    \E r \in Waiting : \/ r.call \in Adjudication /\ ElementOf[r.view] = ElementOf[v]
                       \/ r.call = "get_adjudication" /\ r.view = v

\* The constructor, whose update_view(true) asks for the label and the picture.
Make(v) ==
    /\ v \in left.views \ made
    /\ made' = made \cup {v}
    /\ Send(v, {"get_adjudication", "get_preview"})
    /\ spoilt' = IF Unsettled(v) THEN spoilt \cup {v} ELSE spoilt \ {v}
    /\ UNCHANGED <<is_positive, is_negative, image, loaded, label, answers, left>>

\* What set_positive and set_negative have in common.  update_view asks for the
\* picture again as long as it has not been loaded.
Click(v, call) ==
    /\ v \in made
    /\ left.clicks > 0
    /\ left' = [left EXCEPT !.clicks = @ - 1]
    /\ Send(v, {call} \cup IF loaded[v] THEN {} ELSE {"get_preview"})
    /\ spoilt' = (IF Unsettled(v) THEN spoilt \cup {v} ELSE spoilt \ {v}) \cup Others(v)
    /\ UNCHANGED <<made, image, loaded, label, answers>>

\* (Mutant.)  A view that was negative keeps its flag.
SetPositiveOnly(v) ==
    \/ /\ ~is_positive[v]
       /\ is_positive' = [is_positive EXCEPT ![v] = TRUE]
       /\ UNCHANGED is_negative
       /\ Click(v, "add_pos")
    \/ /\ is_positive[v]
       /\ is_positive' = [is_positive EXCEPT ![v] = FALSE]
       /\ UNCHANGED is_negative
       /\ Click(v, "remove_pos")

SetPositive(v) ==
    \/ /\ ~is_positive[v]
       /\ is_positive' = [is_positive EXCEPT ![v] = TRUE]
       /\ is_negative' = [is_negative EXCEPT ![v] = FALSE]
       /\ Click(v, "add_pos")
    \/ /\ is_positive[v]
       /\ is_positive' = [is_positive EXCEPT ![v] = FALSE]
       /\ UNCHANGED is_negative
       /\ Click(v, "remove_pos")

SetNegative(v) ==
    \/ /\ ~is_negative[v]
       /\ is_positive' = [is_positive EXCEPT ![v] = FALSE]
       /\ is_negative' = [is_negative EXCEPT ![v] = TRUE]
       /\ Click(v, "add_neg")
    \/ /\ is_negative[v]
       /\ is_negative' = [is_negative EXCEPT ![v] = FALSE]
       /\ UNCHANGED is_positive
       /\ Click(v, "remove_neg")

\* The label the server had when it was asked, whatever was clicked since.
OnAdjudication(a) ==
    /\ a.call = "get_adjudication"
    /\ \/ /\ a.ok
          /\ is_positive' = [is_positive EXCEPT ![a.view] = a.is_pos]
          /\ is_negative' = [is_negative EXCEPT ![a.view] = a.is_neg]
          /\ UNCHANGED spoilt
       \/ /\ ~a.ok
          /\ spoilt' = spoilt \cup {a.view}
          /\ UNCHANGED <<is_positive, is_negative>>
    /\ UNCHANGED <<image, loaded>>

\* (Mutant.)  The error handler does not update the image.
OnPreviewSilent(a) ==
    /\ a.call = "get_preview"
    /\ \/ a.ok /\ a.yes /\ image' = [image EXCEPT ![a.view] = "preview"]
                        /\ loaded' = [loaded EXCEPT ![a.view] = TRUE]
       \/ a.ok /\ ~a.yes /\ image' = [image EXCEPT ![a.view] = "rejected"] /\ UNCHANGED loaded
       \/ ~a.ok /\ UNCHANGED <<image, loaded>>
    /\ UNCHANGED <<is_positive, is_negative, spoilt>>

\* A late failure replaces a picture that has been loaded.
OnPreview(a) ==
    /\ a.call = "get_preview"
    /\ \/ a.ok /\ a.yes /\ image' = [image EXCEPT ![a.view] = "preview"]
                        /\ loaded' = [loaded EXCEPT ![a.view] = TRUE]
       \/ a.ok /\ ~a.yes /\ image' = [image EXCEPT ![a.view] = "rejected"] /\ UNCHANGED loaded
       \/ ~a.ok /\ image' = [image EXCEPT ![a.view] = "broken"] /\ UNCHANGED loaded
    /\ UNCHANGED <<is_positive, is_negative, spoilt>>

\* The callbacks of an adjudication change nothing; an error is shown.
OnAdjudicated(a) ==
    /\ a.call \in Adjudication
    /\ spoilt' = IF a.ok THEN spoilt ELSE spoilt \cup {a.view} \cup Others(a.view)
    /\ UNCHANGED <<is_positive, is_negative, image, loaded>>

Callback ==
    \E a \in BagToSet(answers) :
        /\ Heard(a)
        /\ OnAdjudication(a) \/ OnPreview(a) \/ OnAdjudicated(a)
        /\ UNCHANGED <<made, label, sent, left>>

-----------------------------------------------------------------------------
(* The server *)

\* (Mutant.)  The search app passes on only the positives that are withdrawn.
AdjudicatedWithoutNeg(call, was) ==
    CASE call = "add_pos"    -> "positive"
      [] call = "add_neg"    -> "negative"
      [] call = "remove_pos" -> "neutral"
      [] OTHER               -> was

\* adjudicate of the search app: what is removed from either side is neutral.
Adjudicated(call, was) ==
    CASE call = "add_pos" -> "positive"
      [] call = "add_neg" -> "negative"
      [] OTHER            -> "neutral"

Answered(r, ok, yes) ==
    LET e     == ElementOf[r.view]
        asked == ok /\ r.call = "get_adjudication"
    IN answers' = answers (+) SetToBag({
           [view |-> r.view, call |-> r.call, ok |-> ok, yes |-> yes,
            is_pos |-> asked /\ label[e] = "positive", is_neg |-> asked /\ label[e] = "negative"]})

CarryOut(r) ==
    label' = IF r.call \in Adjudication
             THEN [label EXCEPT ![ElementOf[r.view]] = Adjudicated(r.call, @)]
             ELSE label

Fails == left.failures > 0 /\ left' = [left EXCEPT !.failures = @ - 1]

\* A request that fails may have been carried out first.  The picture of an
\* element that neither the data set nor the session's examples have is
\* answered, with success false.
Serve ==
    \E r \in BagToSet(sent) :
        /\ sent' = sent (-) SetToBag({r})
        /\ \/ CarryOut(r) /\ Answered(r, TRUE, r.call = "get_preview") /\ UNCHANGED left
           \/ r.call = "get_preview" /\ Answered(r, TRUE, FALSE) /\ Fails /\ UNCHANGED label
           \/ (CarryOut(r) \/ UNCHANGED label) /\ Answered(r, FALSE, FALSE) /\ Fails
        /\ UNCHANGED <<viewVars, spoilt>>

Next ==
    \/ \E v \in View : Make(v) \/ SetPositive(v) \/ SetNegative(v)
    \/ Serve
    \/ Callback

Spec == Init /\ [][Next]_vars

\* A server answers what it is asked, or the browser gives up, and a browser
\* runs the callbacks of what it has heard.
FairSpec == Spec /\ WF_vars(Serve) /\ WF_vars(Callback)

-----------------------------------------------------------------------------
(* Properties *)

\* No view is positive and negative at once, whatever order its clicks and the
\* answers come in.
TypeOK ==
    /\ made \subseteq View
    /\ is_positive \in [View -> BOOLEAN] /\ is_negative \in [View -> BOOLEAN]
    /\ \A v \in View : ~(is_positive[v] /\ is_negative[v])
    /\ image \in [View -> Picture] /\ loaded \in [View -> BOOLEAN]
    /\ label \in [Element -> Label] /\ left \in [views : SUBSET View, clicks : Nat, failures : Nat]
    /\ BagToSet(sent) \subseteq Request /\ BagToSet(answers) \subseteq Answer
    /\ spoilt \subseteq View

\* "Set display to positive indication and let the server know of change": at
\* rest a view shows the label the session has, unless it was clicked while
\* another request about its element was under way, another view of the element
\* was clicked since, or a request failed.
ViewShowsLabel ==
    Quiet => \A v \in made \ spoilt : Shown(v) = label[ElementOf[v]]

\* The loading picture of a view is replaced in the end, by the preview or by a
\* picture that says there is none.
LoadingEnds == \A v \in View : v \in made /\ image[v] = "loading" ~> image[v] # "loading"
=============================================================================
