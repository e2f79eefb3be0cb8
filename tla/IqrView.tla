------------------------------ MODULE IqrView -------------------------------
(***************************************************************************)
(* The IQR page: its control buttons and what follows an upload            *)
(* (smqtk.iqr_view.js), the view of the positive examples                   *)
(* (smqtk.iqr_status_view.js), the results of RefineView, and the           *)
(* session they show.  What the search app makes of one request is one step *)
(* here; the server may fail before or after its effect.                    *)
(***************************************************************************)
EXTENDS RefineView

CONSTANTS
    Saved,  \* the examples of the state file the user has
    Visits  \* what may happen in a visit: how often each event of Event, at most

Event == {"refine", "more", "toggle", "random_refresh", "random_more",
          "initialize", "reset", "load", "ingest", "expiry", "failure"}

ASSUME SavedAssumption  == Saved \subseteq Example
ASSUME VisitsAssumption == Visits \subseteq [Event -> Nat]

VARIABLES
    examples_shown, \* the elements of the positive example zone
    wi,             \* wi_count > 0 in the session
    ranking,        \* the session's ordered results
    examples,       \* the session's external positive examples
    left            \* what is left of the visit

serverVars == <<wi, ranking, examples>>
vars == <<pageVars, examples_shown, serverVars, left>>

\* A page load constructs the views, and each asks for the session's information.
Init ==
    /\ pane = [uuids |-> <<>>, displayed |-> 0, top |-> TRUE, bottom |-> TRUE, toggle |-> TRUE,
               bottom_shown |-> FALSE, more_shown |-> TRUE, bar |-> FALSE]
    /\ random = [enabled |-> FALSE, ids |-> <<>>, shown |-> <<>>, bar |-> FALSE,
                 refresh_shown |-> TRUE, more_shown |-> FALSE]
    /\ sent = SetToBag({"info", "status"})
    /\ answers = EmptyBag
    /\ spoilt = [v \in View |-> FALSE]
    /\ examples_shown = {}
    /\ \/ wi = FALSE /\ ranking = <<>> /\ examples = {}
       \/ wi = TRUE /\ ranking \in Rankings /\ examples = Saved
    /\ left \in Visits

-----------------------------------------------------------------------------
(* What the user does *)

Takes(event) == left[event] > 0 /\ left' = [left EXCEPT ![event] = @ - 1]

ClickRefine ==
    /\ Takes("refine")
    /\ pane.top \/ (pane.bottom_shown /\ pane.bottom)
    /\ Refine
    /\ UNCHANGED <<random, answers, spoilt, examples_shown, serverVars>>

ClickMore ==
    /\ Takes("more")
    /\ pane.bottom_shown /\ pane.bottom /\ pane.more_shown
    /\ pane' = ShowMore(pane)
    /\ UNCHANGED <<random, sent, answers, spoilt, examples_shown, serverVars>>

ClickToggle ==
    /\ Takes("toggle")
    /\ pane.toggle
    /\ Toggle
    /\ UNCHANGED <<pane, answers, examples_shown, serverVars>>

ClickRandomRefresh ==
    /\ Takes("random_refresh")
    /\ random.enabled /\ random.refresh_shown
    /\ RefreshRandom(random)
    /\ UNCHANGED <<pane, answers, examples_shown, serverVars>>

ClickRandomMore ==
    /\ Takes("random_more")
    /\ random.enabled /\ random.more_shown
    /\ MoreRandom
    /\ UNCHANGED <<pane, sent, answers, spoilt, examples_shown, serverVars>>

ClickInitialize ==
    /\ Takes("initialize")
    /\ Send({"initialize"})
    /\ UNCHANGED <<pane, random, answers, spoilt, examples_shown, serverVars>>

ClickReset ==
    /\ Takes("reset")
    /\ Send({"reset"})
    /\ UNCHANGED <<pane, random, answers, spoilt, examples_shown, serverVars>>

\* An upload is complete: onFileSuccess of the drop zone or of the load button.
Uploaded(event, call) ==
    /\ Takes(event)
    /\ Send({call})
    /\ UNCHANGED <<pane, random, answers, spoilt, examples_shown, serverVars>>

-----------------------------------------------------------------------------
(* What the server does *)

Reply(call, ok) == [call |-> call, ok |-> ok, yes |-> FALSE, pos |-> {}, list |-> <<>>]

\* The request is taken and answered with a; an error needs a failure.
Served(call, a) ==
    /\ BagIn(call, sent)
    /\ sent' = sent (-) SetToBag({call})
    /\ answers' = answers (+) SetToBag({IF a.ok THEN a ELSE Reply(call, FALSE)})

\* A change whose request is not answered, or whose callback does not refresh
\* the view, leaves the view behind.
Unheard(ok, pane_refreshed, status_updated) ==
    spoilt' = [spoilt EXCEPT
        !["pane"]   = @ \/ (ranking' # ranking /\ ~(ok /\ pane_refreshed)),
        !["status"] = @ \/ (examples' # examples /\ ~(ok /\ status_updated))]

Fate(ok) ==
    \/ ok = TRUE /\ UNCHANGED left
    \/ ok = FALSE /\ Takes("failure")

ServeInfo(call, ok) ==
    /\ Served(call, [Reply(call, ok) EXCEPT !.yes = wi, !.pos = IF call = "status" THEN examples ELSE {}])
    /\ UNCHANGED <<serverVars, spoilt>>

ServeResults(ok) ==
    /\ Served("results", [Reply("results", ok) EXCEPT !.list = ranking])
    /\ UNCHANGED <<serverVars, spoilt>>

ServeRandom(ok) ==
    /\ \E list \in Shuffles : Served("random", [Reply("random", ok) EXCEPT !.list = list])
    /\ UNCHANGED <<serverVars, spoilt>>

\* A session without a working set cannot be refined.
ServeRefine(ok) ==
    /\ wi
    /\ Served("refine", Reply("refine", ok))
    /\ ranking' \in Rankings
    /\ UNCHANGED <<wi, examples>>
    /\ Unheard(ok, TRUE, FALSE)

RefuseRefine ==
    /\ ~wi
    /\ Served("refine", Reply("refine", FALSE))
    /\ UNCHANGED <<serverVars, spoilt>>

\* The positives are the examples and what the user has adjudicated.  Without
\* any the working set stays as it is.
ServeInitialize(ok) ==
    \E yes \in IF examples # {} THEN {TRUE} ELSE BOOLEAN :
        /\ Served("initialize", [Reply("initialize", ok) EXCEPT !.yes = yes])
        /\ wi' = (wi \/ yes)
        /\ UNCHANGED <<ranking, examples, spoilt>>

ServeReset(call, ok) ==
    /\ Served(call, Reply(call, ok))
    /\ wi' = FALSE /\ ranking' = <<>> /\ examples' = {}
    /\ Unheard(ok, TRUE, TRUE)

\* The app does not look at what the service answers to the state it puts.
ServeSetState(ok) ==
    /\ Served("set_state", Reply("set_state", ok))
    /\ \/ wi' = FALSE /\ ranking' = <<>> /\ examples' = Saved
       \/ UNCHANGED serverVars
    /\ Unheard(ok, FALSE, TRUE)

ServeIngest(ok) ==
    /\ Served("ingest", Reply("ingest", ok))
    /\ \E e \in Example : examples' = examples \cup {e}
    /\ UNCHANGED <<wi, ranking>>
    /\ Unheard(ok, FALSE, TRUE)

\* The request fails before it has any effect.
Refuse(call) ==
    /\ Takes("failure")
    /\ Served(call, Reply(call, FALSE))
    /\ UNCHANGED <<serverVars, spoilt>>

ServerStep ==
    /\ \/ \E ok \in BOOLEAN :
           /\ Fate(ok)
           /\ \/ \E call \in {"info", "status"} : ServeInfo(call, ok)
              \/ ServeResults(ok)
              \/ ServeRandom(ok)
              \/ ServeRefine(ok)
              \/ ServeInitialize(ok)
              \/ \E call \in {"reset", "load_reset"} : ServeReset(call, ok)
              \/ ServeSetState(ok)
              \/ ServeIngest(ok)
       \/ \E call \in Call : Refuse(call)
       \/ RefuseRefine /\ UNCHANGED left
    /\ UNCHANGED <<pane, random, examples_shown>>

\* The service drops a session that has not been used for its timeout; the app
\* creates it again, empty, at the next request.
Expire ==
    /\ Takes("expiry")
    /\ wi' = FALSE /\ ranking' = <<>> /\ examples' = {}
    /\ Unheard(FALSE, FALSE, FALSE)
    /\ UNCHANGED <<pane, random, sent, answers, examples_shown>>

-----------------------------------------------------------------------------
(* The callbacks of the controls and of the status view *)

StatusSpoils(s) == [s EXCEPT !["status"] = Outstanding("status")]

OnStatus(a) ==
    /\ a.call = "status"
    /\ Heard(a)
    /\ \/ a.ok /\ examples_shown' = a.pos /\ UNCHANGED spoilt
       \/ ~a.ok /\ spoilt' = [spoilt EXCEPT !["status"] = TRUE] /\ UNCHANGED examples_shown
    /\ UNCHANGED <<pane, random, sent>>

\* There is no error handler.
OnInitialize(a) ==
    /\ a.call = "initialize"
    /\ Heard(a)
    /\ IF a.ok /\ a.yes THEN Refine ELSE UNCHANGED <<pane, sent>>
    /\ UNCHANGED <<random, spoilt, examples_shown>>

\* (Mutant.)  What follows the reset of a state load is left out.
OnResetForgetsLoad(a) ==
    /\ a.call \in {"reset", "load_reset"}
    /\ Heard(a)
    /\ \/ /\ a.ok
          /\ Refresh(pane, {"status"})
          /\ random' = ToggleOff(random)
          /\ spoilt' = StatusSpoils(RefreshSpoils(spoilt))
       \/ /\ ~a.ok
          /\ UNCHANGED <<pane, random, sent, spoilt>>
    /\ UNCHANGED examples_shown

\* (Mutant.)  A reset leaves the results in the pane.
OnResetPaneLeft(a) ==
    /\ a.call \in {"reset", "load_reset"}
    /\ Heard(a)
    /\ \/ /\ a.ok
          /\ Send({"status"} \cup IF a.call = "load_reset" THEN {"set_state"} ELSE {})
          /\ random' = ToggleOff(random)
          /\ spoilt' = StatusSpoils(spoilt)
       \/ /\ ~a.ok
          /\ UNCHANGED <<random, sent, spoilt>>
    /\ UNCHANGED <<pane, examples_shown>>

\* reset_session, and what a state load does after it
OnReset(a) ==
    /\ a.call \in {"reset", "load_reset"}
    /\ Heard(a)
    /\ \/ /\ a.ok
          /\ Refresh(pane, {"status"} \cup IF a.call = "load_reset" THEN {"set_state"} ELSE {})
          /\ random' = ToggleOff(random)
          /\ spoilt' = StatusSpoils(RefreshSpoils(spoilt))
       \/ /\ ~a.ok
          /\ UNCHANGED <<pane, random, sent, spoilt>>
    /\ UNCHANGED examples_shown

\* (Mutant.)  The index is initialized and the examples are not looked up again.
OnSetStateNoStatus(a) ==
    /\ a.call = "set_state"
    /\ Heard(a)
    /\ \/ /\ a.ok
          /\ Send({"initialize"})
       \/ /\ ~a.ok
          /\ UNCHANGED sent
    /\ UNCHANGED <<pane, random, spoilt, examples_shown>>

OnSetState(a) ==
    /\ a.call = "set_state"
    /\ Heard(a)
    /\ \/ /\ a.ok
          /\ Send({"status", "initialize"})
          /\ spoilt' = StatusSpoils(spoilt)
       \/ /\ ~a.ok
          /\ UNCHANGED <<sent, spoilt>>
    /\ UNCHANGED <<pane, random, examples_shown>>

OnIngest(a) ==
    /\ a.call = "ingest"
    /\ Heard(a)
    /\ \/ /\ a.ok
          /\ Send({"status"})
          /\ spoilt' = StatusSpoils(spoilt)
       \/ /\ ~a.ok
          /\ UNCHANGED <<sent, spoilt>>
    /\ UNCHANGED <<pane, random, examples_shown>>

Callback ==
    /\ \E a \in BagToSet(answers) :
        \/ (OnInfo(a) \/ OnResults(a) \/ OnRefine(a) \/ OnRandom(a)) /\ UNCHANGED examples_shown
        \/ OnStatus(a)
        \/ OnInitialize(a)
        \/ OnReset(a)
        \/ OnSetState(a)
        \/ OnIngest(a)
    /\ UNCHANGED <<serverVars, left>>

Next ==
    \/ ClickRefine \/ ClickMore \/ ClickToggle \/ ClickRandomRefresh \/ ClickRandomMore
    \/ ClickInitialize \/ ClickReset
    \/ Uploaded("ingest", "ingest") \/ Uploaded("load", "load_reset")
    \/ ServerStep \/ Expire
    \/ Callback

Spec == Init /\ [][Next]_vars

\* A server answers what it is asked, or the browser gives up, and a browser
\* runs the callbacks of what it has heard.
FairSpec == Spec /\ WF_vars(ServerStep) /\ WF_vars(Callback)

-----------------------------------------------------------------------------
(* Properties *)

\* The page keeps the values its code assigns it; a pane never counts more
\* results as displayed than it has.
TypeOK ==
    /\ pane \in [uuids : Seq(Uuid), displayed : Nat, top : BOOLEAN, bottom : BOOLEAN, toggle : BOOLEAN,
                 bottom_shown : BOOLEAN, more_shown : BOOLEAN, bar : BOOLEAN]
    /\ pane.displayed <= Len(pane.uuids)
    /\ random \in [enabled : BOOLEAN, ids : Seq(Uuid), shown : Seq(Uuid), bar : BOOLEAN,
                   refresh_shown : BOOLEAN, more_shown : BOOLEAN]
    /\ BagToSet(sent) \subseteq Call /\ BagToSet(answers) \subseteq Answer
    /\ spoilt \in [View -> BOOLEAN]
    /\ examples_shown \subseteq Example
    /\ wi \in BOOLEAN /\ ranking \in Seq(Uuid) /\ examples \subseteq Example
    /\ left \in [Event -> Nat]

\* "Refresh the view of the refine pane based on server-side model": once every
\* request has been answered, the pane lists the session's results, shows the
\* first of them and, if there are any, shows the button for more exactly when
\* there are more; unless two refreshes overlapped, and none has been sent alone
\* since, or the page could not hear of a change.
PaneShowsModel ==
    Quiet /\ ~spoilt["pane"] =>
        /\ pane.uuids = ranking
        /\ pane.displayed >= Min({Step, Len(ranking)})
        /\ ranking # <<>> =>
               ((pane.bottom_shown /\ pane.more_shown) <=> pane.displayed < Len(ranking))

\* "Update content shown in positive example view based on server state": at
\* rest, the examples shown are those of the session, unless two updates
\* overlapped or the page could not hear of a change.
ExamplesShown == Quiet /\ ~spoilt["status"] => examples_shown = examples

\* The random pane shows the ids in their order from the first, each once, and
\* offers more while there are more, unless two refreshes of it overlapped.  (It
\* may offer more when there is none: restore shows the button again.)
RandomInOrder ==
    ~spoilt["random"] =>
        /\ IsPrefix(random.shown, random.ids)
        /\ random.shown # <<>> /\ ~random.more_shown => random.shown = random.ids

\* A refine ends: the bar of the refine pane does not stay up.
RefineEnds == pane.bar ~> ~pane.bar

\* A state file that was uploaded is loaded and the index initialized from it,
\* unless a request fails.
LoadIsFollowedUp ==
    Outstanding("load_reset") ~>
        Outstanding("initialize") \/ \E a \in BagToSet(answers) : ~a.ok

\* "Fails gracefully if there are no positive[/negative] adjudications"
\* (iqr_refine of the search app): when all is answered the user can press
\* Refine, whatever a refine before has come to.
RefineFailsGracefully == Quiet => pane.top
=============================================================================
