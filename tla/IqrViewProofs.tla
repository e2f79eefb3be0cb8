--------------------------- MODULE IqrViewProofs ---------------------------
(***************************************************************************)
(* The invariants of IqrView, for any data, rankings and visits.           *)
(***************************************************************************)
EXTENDS IqrView, SequenceTheorems, TLAPS

Pane == [uuids : Seq(Uuid), displayed : Nat, top : BOOLEAN, bottom : BOOLEAN, toggle : BOOLEAN,
         bottom_shown : BOOLEAN, more_shown : BOOLEAN, bar : BOOLEAN]

RandomPane == [enabled : BOOLEAN, ids : Seq(Uuid), shown : Seq(Uuid), bar : BOOLEAN,
               refresh_shown : BOOLEAN, more_shown : BOOLEAN]

-----------------------------------------------------------------------------
(* The operators on the panes *)

\* The smaller of two.
LEMMA MinFacts ==
    ASSUME NEW a \in Nat, NEW b \in Nat
    PROVE  /\ Min({a, b}) \in Nat /\ Min({a, b}) <= a /\ Min({a, b}) <= b
           /\ Min({a, b}) = a \/ Min({a, b}) = b
<1>1. PICK m \in {a, b} : \A y \in {a, b} : m <= y
  OBVIOUS
<1> QED
  BY <1>1 DEF Min

\* SetTop and SetButtons touch the buttons only.
LEMMA ButtonFacts ==
    ASSUME NEW p \in Pane, NEW on \in BOOLEAN, random \in RandomPane
    PROVE  /\ SetTop(p, on) \in Pane /\ SetTop(p, on).uuids = p.uuids
           /\ SetTop(p, on).displayed = p.displayed
           /\ SetTop(p, on).bottom_shown = p.bottom_shown
           /\ SetTop(p, on).more_shown = p.more_shown
           /\ SetButtons(p, on) \in Pane /\ SetButtons(p, on).uuids = p.uuids
           /\ SetButtons(p, on).displayed = p.displayed
           /\ SetButtons(p, on).bottom_shown = p.bottom_shown
           /\ SetButtons(p, on).more_shown = p.more_shown
<1>1. /\ SetTop(p, on) \in Pane /\ SetTop(p, on).uuids = p.uuids
      /\ SetTop(p, on).displayed = p.displayed
      /\ SetTop(p, on).bottom_shown = p.bottom_shown
      /\ SetTop(p, on).more_shown = p.more_shown
  BY DEF SetTop, Pane, RandomPane
<1> DEFINE q == SetTop(p, on)
<1>2. q \in Pane /\ SetButtons(p, on) = [q EXCEPT !.bottom = on]
  BY <1>1 DEF SetButtons
<1> HIDE DEF q
<1>3. /\ SetButtons(p, on) \in Pane /\ SetButtons(p, on).uuids = q.uuids
      /\ SetButtons(p, on).displayed = q.displayed
      /\ SetButtons(p, on).bottom_shown = q.bottom_shown
      /\ SetButtons(p, on).more_shown = q.more_shown
  BY <1>2 DEF Pane
<1> QED
  BY <1>1, <1>3 DEF q

\* ShowMore shows the first results, and offers more when there are more.
LEMMA ShowMoreFacts ==
    ASSUME NEW p \in Pane, p.displayed <= Len(p.uuids)
    PROVE  /\ ShowMore(p) \in Pane /\ ShowMore(p).uuids = p.uuids
           /\ ShowMore(p).displayed <= Len(p.uuids)
           /\ p.displayed <= ShowMore(p).displayed
           /\ p.uuids # <<>> =>
                /\ Min({Step, Len(p.uuids)}) <= ShowMore(p).displayed
                /\ ShowMore(p).bottom_shown
                /\ ShowMore(p).more_shown <=> ShowMore(p).displayed # Len(p.uuids)
<1> DEFINE n == Min({Len(p.uuids), p.displayed + Step})
<1>1. /\ Step \in Nat \ {0} /\ Len(p.uuids) \in Nat /\ p.displayed \in Nat
      /\ p.uuids # <<>> => Len(p.uuids) > 0
  BY StepAssumption DEF Pane
<1>2. n \in Nat /\ n <= Len(p.uuids) /\ n <= p.displayed + Step
      /\ (n = Len(p.uuids) \/ n = p.displayed + Step)
  BY <1>1, MinFacts
<1>3. Min({Step, Len(p.uuids)}) <= Step /\ Min({Step, Len(p.uuids)}) <= Len(p.uuids)
      /\ Min({Step, Len(p.uuids)}) \in Nat
  BY <1>1, MinFacts
<1>4. ShowMore(p) = IF n = 0 THEN [p EXCEPT !.bottom_shown = FALSE]
                    ELSE [p EXCEPT !.displayed = n, !.bottom_shown = TRUE, !.more_shown = n # Len(p.uuids)]
  BY DEF ShowMore
<1> HIDE DEF n
<1>5. CASE n = 0
  <2>1. ShowMore(p) = [p EXCEPT !.bottom_shown = FALSE]
    BY <1>4, <1>5
  <2>2. ShowMore(p) \in Pane /\ ShowMore(p).uuids = p.uuids /\ ShowMore(p).displayed = p.displayed
    BY <2>1 DEF Pane
  <2>3. p.uuids = <<>>
    BY <1>1, <1>2, <1>5
  <2> QED
    BY <1>1, <2>2, <2>3
<1>6. CASE n # 0
  <2>1. ShowMore(p) \in Pane /\ ShowMore(p).uuids = p.uuids /\ ShowMore(p).displayed = n
        /\ ShowMore(p).bottom_shown = TRUE /\ (ShowMore(p).more_shown <=> n # Len(p.uuids))
    BY <1>2, <1>4, <1>6 DEF Pane
  <2> QED
    BY <1>1, <1>2, <1>3, <2>1
<1> QED
  BY <1>5, <1>6

\* DisplayRange keeps the type of the random pane.
LEMMA RandomFacts ==
    ASSUME NEW r \in RandomPane, NEW s \in Nat, NEW e \in Nat
    PROVE  Functionals(r) \in RandomPane /\ DisplayRange(r, s, e) \in RandomPane
<1>1. ASSUME NEW q \in RandomPane PROVE Functionals(q) \in RandomPane
  <2> DEFINE some == Len(q.shown) > 0
  <2>1. some \in BOOLEAN /\ Functionals(q) = [q EXCEPT !.refresh_shown = TRUE, !.more_shown = some]
    BY DEF Functionals
  <2> HIDE DEF some
  <2> QED
    BY <1>1, <2>1 DEF RandomPane
<1> DEFINE n == Min({e, Len(r.ids)})
           views == r.shown \o SubSeq(r.ids, s + 1, n)
           q == [r EXCEPT !.shown = views]
<1>2. r.ids \in Seq(Uuid) /\ r.shown \in Seq(Uuid) /\ Len(r.ids) \in Nat
  BY DEF RandomPane
<1>3. n \in Nat /\ n <= Len(r.ids)
  BY <1>2, MinFacts
<1> HIDE DEF n
<1>4. views \in Seq(Uuid)
  <2>1. SubSeq(r.ids, s + 1, n) \in Seq(Uuid)
    BY <1>2, <1>3, SubSeqProperties
  <2> QED
    BY <1>2, <2>1
<1> HIDE DEF views
<1>5. q \in RandomPane
  BY <1>4 DEF RandomPane
<1>6. DisplayRange(r, s, e) = [Functionals(q) EXCEPT !.more_shown = @ /\ Len(views) # Len(r.ids)]
  BY DEF DisplayRange, views, n
<1>7. Functionals(q) \in RandomPane
  BY <1>1, <1>5
<1> QED
  BY <1>1, <1>6, <1>7 DEF RandomPane

-----------------------------------------------------------------------------
(* The requests and the answers under way *)

\* One of each of some calls has been sent.
Posted(calls) ==
    /\ IsABag(sent')
    /\ DOMAIN sent' = DOMAIN sent \cup calls
    /\ \A c \in DOMAIN sent : c \notin calls => sent'[c] = sent[c]
    /\ \A c \in calls : c \notin DOMAIN sent => sent'[c] = 1

\* One request of a call has been taken.
Taken(call) ==
    /\ call \in DOMAIN sent
    /\ IsABag(sent')
    /\ DOMAIN sent' \subseteq DOMAIN sent
    /\ \A c \in DOMAIN sent : c # call => c \in DOMAIN sent' /\ sent'[c] = sent[c]
    /\ sent[call] = 1 => call \notin DOMAIN sent'

\* It has been answered with b.
Given(b) ==
    /\ IsABag(answers')
    /\ DOMAIN answers' = DOMAIN answers \cup {b}
    /\ \A a \in DOMAIN answers : a # b => answers'[a] = answers[a]
    /\ b \notin DOMAIN answers => answers'[b] = 1

\* The callback of answer a has run.
Gone(a) ==
    /\ IsABag(answers')
    /\ DOMAIN answers' \subseteq DOMAIN answers
    /\ \A b \in DOMAIN answers : b # a => b \in DOMAIN answers' /\ answers'[b] = answers[b]
    /\ answers[a] = 1 => a \notin DOMAIN answers'

\* The types, with bags of requests and of answers.
Typed == TypeOK /\ IsABag(sent) /\ IsABag(answers)

\* What Send does.
LEMMA SendFacts == ASSUME Typed, NEW calls, Send(calls) PROVE Posted(calls)
BY DEF Typed, Send, Posted, (+), SetToBag, IsABag

\* What Heard does.
LEMMA HeardFacts == ASSUME Typed, NEW a \in DOMAIN answers, Heard(a) PROVE Gone(a)
BY DEF Typed, Heard, Gone, (-), SetToBag, IsABag

\* What Served does.
LEMMA ServedFacts ==
    ASSUME Typed, NEW call \in Call, NEW a \in Answer, Served(call, a), a.call = call
    PROVE  \E b \in Answer : /\ Taken(call) /\ Given(b)
                             /\ b.call = call /\ (b.ok <=> a.ok) /\ (b.ok => b = a)
<1> DEFINE b == IF a.ok THEN a ELSE Reply(call, FALSE)
<1>1. Reply(call, FALSE) \in Answer /\ Reply(call, FALSE).call = call /\ ~ Reply(call, FALSE).ok
  BY DEF Reply, Answer
<1>2. b \in Answer /\ b.call = call /\ (b.ok <=> a.ok) /\ (b.ok => b = a)
  BY <1>1
<1>3. sent' = sent (-) SetToBag({call}) /\ answers' = answers (+) SetToBag({b}) /\ call \in DOMAIN sent
  BY DEF Served, BagIn, BagToSet
<1> HIDE DEF b
<1>4. Taken(call)
  BY <1>3 DEF Typed, Taken, (-), SetToBag, IsABag
<1>5. Given(b)
  BY <1>3 DEF Typed, Given, (+), SetToBag, IsABag
<1> QED
  BY <1>2, <1>4, <1>5

-----------------------------------------------------------------------------
(* The server *)

\* The calls whose callbacks bring the examples shown, and the pane, up to date.
Updating   == {"reset", "load_reset", "set_state", "ingest"}
Refreshers == {"refine", "reset", "load_reset"}

\* What is noted of a change: one that no callback will follow up leaves its
\* view spoilt.
Noted(ok, call) ==
    /\ spoilt' \in [View -> BOOLEAN] /\ spoilt'["random"] = spoilt["random"]
    /\ ~ spoilt'["status"] => /\ ~ spoilt["status"]
                              /\ examples' = examples \/ (ok /\ call \in Updating)
    /\ ~ spoilt'["pane"] => /\ ~ spoilt["pane"]
                            /\ ranking' = ranking \/ (ok /\ call \in Refreshers)

\* What Unheard notes.
LEMMA UnheardFacts ==
    ASSUME Typed, NEW ok \in BOOLEAN, NEW r \in BOOLEAN, NEW u \in BOOLEAN, NEW call,
           Unheard(ok, r, u), r => call \in Refreshers, u => call \in Updating
    PROVE  Noted(ok, call)
<1> DEFINE x == spoilt["pane"] \/ (ranking' # ranking /\ ~(ok /\ r))
           y == spoilt["status"] \/ (examples' # examples /\ ~(ok /\ u))
<1>1. spoilt \in [View -> BOOLEAN] /\ "pane" \in View /\ "status" \in View /\ "pane" # "status"
  BY DEF Typed, TypeOK, View
<1>2. spoilt' = [spoilt EXCEPT !["pane"] = x, !["status"] = y]
  BY DEF Unheard
<1>3. x \in BOOLEAN /\ y \in BOOLEAN
  BY <1>1
<1>4. ~ x => ~ spoilt["pane"] /\ (ranking' = ranking \/ (ok /\ r))
  OBVIOUS
<1>5. ~ y => ~ spoilt["status"] /\ (examples' = examples \/ (ok /\ u))
  OBVIOUS
<1> HIDE DEF x, y
<1>6. /\ spoilt' \in [View -> BOOLEAN] /\ spoilt'["pane"] = x /\ spoilt'["status"] = y
      /\ spoilt'["random"] = spoilt["random"]
  BY <1>1, <1>2, <1>3 DEF View
<1> QED
  BY <1>4, <1>5, <1>6 DEF Noted

\* What an answer tells of the session.
Told(b) ==
    /\ b.call = "status" /\ b.ok => b.pos = examples /\ examples' = examples
    /\ b.call = "info" /\ b.ok => (b.yes <=> wi) /\ ranking' = ranking
    /\ b.call = "results" /\ b.ok => b.list = ranking /\ ranking' = ranking

\* What the server does of the session itself.
ServerTypes ==
    /\ left' \in [Event -> Nat]
    /\ wi' \in BOOLEAN /\ ranking' \in Seq(Uuid) /\ examples' \subseteq Example
    /\ (~ wi => ranking = <<>>) => (~ wi' => ranking' = <<>>)

\* An event is taken from the visit.
LEMMA TakesTypes == ASSUME Typed, NEW event \in Event, Takes(event) PROVE left' \in [Event -> Nat]
BY DEF Typed, TypeOK, Takes

\* Every request the server takes has one answer, which tells what was, and what
\* it changes is noted.
LEMMA ServerFacts ==
    ASSUME Typed, ServerStep
    PROVE  /\ \E call \in Call, b \in Answer :
                Taken(call) /\ Given(b) /\ b.call = call /\ Noted(b.ok, call) /\ Told(b)
           /\ ServerTypes
           /\ UNCHANGED <<pane, random, examples_shown>>
<1> DEFINE Goal == \E call \in Call, b \in Answer :
                      Taken(call) /\ Given(b) /\ b.call = call /\ Noted(b.ok, call) /\ Told(b)
<1>0. TypeOK /\ UNCHANGED <<pane, random, examples_shown>>
  BY DEF Typed, ServerStep
<1>a. \A call \in Call, ok \in BOOLEAN :
        /\ Reply(call, ok) \in Answer
        /\ Reply(call, ok).call = call /\ (Reply(call, ok).ok <=> ok)
  BY DEF Reply, Answer
<1>b. \A ok \in BOOLEAN : Fate(ok) => left' \in [Event -> Nat]
  <2> SUFFICES ASSUME NEW ok \in BOOLEAN, Fate(ok) PROVE left' \in [Event -> Nat]
    OBVIOUS
  <2>1. CASE UNCHANGED left
    BY <1>0, <2>1 DEF TypeOK
  <2>2. CASE Takes("failure")
    BY <2>2, TakesTypes DEF Event
  <2> QED
    BY <2>1, <2>2 DEF Fate
<1>c. ASSUME UNCHANGED <<serverVars, spoilt>>
      PROVE  /\ \A ok, call : Noted(ok, call)
             /\ wi' \in BOOLEAN /\ ranking' \in Seq(Uuid) /\ examples' \subseteq Example
             /\ (~ wi => ranking = <<>>) => (~ wi' => ranking' = <<>>)
  BY <1>0, <1>c DEF serverVars, Noted, TypeOK
<1>1. ASSUME NEW ok \in BOOLEAN, Fate(ok), NEW call \in {"info", "status"}, ServeInfo(call, ok)
      PROVE  Goal /\ ServerTypes
  <2> DEFINE a == [Reply(call, ok) EXCEPT !.yes = wi, !.pos = IF call = "status" THEN examples ELSE {}]
  <2>1. Served(call, a) /\ UNCHANGED <<serverVars, spoilt>>
    BY <1>1 DEF ServeInfo
  <2>2. /\ call \in Call /\ a \in Answer /\ a.call = call /\ (a.ok <=> ok) /\ (a.yes <=> wi)
        /\ call = "status" => a.pos = examples
    <3> DEFINE r == Reply(call, ok)
    <3>1. call \in Call
      BY DEF Call
    <3>2. r \in Answer /\ r.call = call /\ (r.ok <=> ok)
      BY <1>a, <3>1
    <3>3. a = [r EXCEPT !.yes = wi, !.pos = IF call = "status" THEN examples ELSE {}]
      OBVIOUS
    <3> HIDE DEF r, a
    <3>4. wi \in BOOLEAN /\ examples \subseteq Example
      BY <1>0 DEF TypeOK
    <3> QED
      BY <3>1, <3>2, <3>3, <3>4 DEF Answer
  <2> HIDE DEF a
  <2>3. PICK b \in Answer : Taken(call) /\ Given(b) /\ b.call = call /\ (b.ok => b = a)
    BY <2>1, <2>2, ServedFacts
  <2>4. Told(b)
    BY <1>1, <2>1, <2>2, <2>3 DEF Told, serverVars
  <2> QED
    BY <1>1, <1>b, <1>c, <2>1, <2>2, <2>3, <2>4 DEF ServerTypes
<1>2. ASSUME NEW ok \in BOOLEAN, Fate(ok), ServeResults(ok) PROVE Goal /\ ServerTypes
  <2> DEFINE a == [Reply("results", ok) EXCEPT !.list = ranking]
  <2>1. Served("results", a) /\ UNCHANGED <<serverVars, spoilt>>
    BY <1>2 DEF ServeResults
  <2>2. "results" \in Call /\ a \in Answer /\ a.call = "results" /\ (a.ok <=> ok) /\ a.list = ranking
    BY <1>0 DEF Call, Reply, Answer, TypeOK
  <2> HIDE DEF a
  <2>3. PICK b \in Answer : Taken("results") /\ Given(b) /\ b.call = "results" /\ (b.ok => b = a)
    BY <2>1, <2>2, ServedFacts
  <2>4. Told(b)
    BY <2>1, <2>2, <2>3 DEF Told, serverVars
  <2> QED
    BY <1>2, <1>b, <1>c, <2>1, <2>2, <2>3, <2>4 DEF ServerTypes
<1>3. ASSUME NEW ok \in BOOLEAN, Fate(ok), ServeRandom(ok) PROVE Goal /\ ServerTypes
  <2>1. PICK list \in Shuffles : Served("random", [Reply("random", ok) EXCEPT !.list = list])
    BY <1>3 DEF ServeRandom
  <2> DEFINE a == [Reply("random", ok) EXCEPT !.list = list]
  <2>2. "random" \in Call /\ a \in Answer /\ a.call = "random"
    BY RankingsAssumption DEF Call, Reply, Answer
  <2> HIDE DEF a
  <2>3. PICK b \in Answer : Taken("random") /\ Given(b) /\ b.call = "random"
    BY <2>1, <2>2, ServedFacts DEF a
  <2>4. Told(b)
    BY <2>3 DEF Told
  <2> QED
    BY <1>3, <1>b, <1>c, <2>2, <2>3, <2>4 DEF ServerTypes, ServeRandom
<1>d. ASSUME NEW ok \in BOOLEAN, NEW call \in Call \ {"status", "info", "results"},
             Served(call, Reply(call, ok)), Noted(ok, call)
      PROVE  Goal
  <2>1. PICK b \in Answer : Taken(call) /\ Given(b) /\ b.call = call /\ (b.ok <=> ok)
    BY <1>a, <1>d, ServedFacts
  <2>2. Told(b)
    BY <2>1 DEF Told
  <2>3. Noted(b.ok, call)
    BY <1>d, <2>1 DEF Noted
  <2> QED
    BY <2>1, <2>2, <2>3
<1>4. ASSUME NEW ok \in BOOLEAN, Fate(ok), ServeRefine(ok) PROVE Goal /\ ServerTypes
  <2>1. Noted(ok, "refine")
    BY <1>4, UnheardFacts DEF ServeRefine, Refreshers
  <2>2. "refine" \in Call
    BY DEF Call
  <2> QED
    BY <1>0, <1>4, <1>b, <1>d, <2>1, <2>2, RankingsAssumption DEF ServeRefine, ServerTypes, TypeOK
<1>5. ASSUME NEW ok \in BOOLEAN, Fate(ok), ServeInitialize(ok) PROVE Goal /\ ServerTypes
  <2>1. PICK yes \in IF examples # {} THEN {TRUE} ELSE BOOLEAN :
          /\ Served("initialize", [Reply("initialize", ok) EXCEPT !.yes = yes])
          /\ wi' = (wi \/ yes)
          /\ UNCHANGED <<ranking, examples, spoilt>>
    BY <1>5 DEF ServeInitialize
  <2>0. yes \in BOOLEAN /\ wi' \in BOOLEAN /\ (wi => wi')
    BY <2>1
  <2> DEFINE a == [Reply("initialize", ok) EXCEPT !.yes = yes]
  <2>2. "initialize" \in Call /\ a \in Answer /\ a.call = "initialize"
    <3> DEFINE r == Reply("initialize", ok)
    <3>1. "initialize" \in Call
      BY DEF Call
    <3>2. r \in Answer /\ r.call = "initialize" /\ a = [r EXCEPT !.yes = yes]
      BY <1>a, <3>1
    <3> HIDE DEF r, a
    <3> QED
      BY <2>0, <3>1, <3>2 DEF Answer
  <2> HIDE DEF a
  <2>3. PICK b \in Answer : Taken("initialize") /\ Given(b) /\ b.call = "initialize"
    BY <2>1, <2>2, ServedFacts DEF a
  <2>4. Told(b) /\ Noted(b.ok, "initialize")
    BY <1>0, <2>1, <2>3 DEF Told, Noted, TypeOK
  <2>5. ServerTypes
    BY <1>0, <1>5, <1>b, <2>0, <2>1 DEF ServerTypes, TypeOK
  <2> QED
    BY <2>2, <2>3, <2>4, <2>5
<1>6. ASSUME NEW ok \in BOOLEAN, Fate(ok), NEW call \in {"reset", "load_reset"}, ServeReset(call, ok)
      PROVE  Goal /\ ServerTypes
  <2>1. Noted(ok, call)
    BY <1>6, UnheardFacts DEF ServeReset, Refreshers, Updating
  <2>2. call \in Call \ {"status", "info", "results"}
    BY DEF Call
  <2>3. Goal
    BY <1>6, <1>d, <2>1, <2>2 DEF ServeReset
  <2>4. left' \in [Event -> Nat] /\ wi' = FALSE /\ ranking' = <<>> /\ examples' = {}
    BY <1>6, <1>b DEF ServeReset
  <2>5. ServerTypes
    <3>1. <<>> \in Seq(Uuid)
      BY EmptySeq
    <3>2. ranking' \in Seq(Uuid)
      BY ONLY <2>4, <3>1
    <3>3. wi' \in BOOLEAN
      BY ONLY <2>4
    <3>4. examples' \subseteq Example
      BY ONLY <2>4
    <3> QED
      BY <2>4, <3>2, <3>3, <3>4 DEF ServerTypes
  <2> QED
    BY <2>3, <2>5
<1>7. ASSUME NEW ok \in BOOLEAN, Fate(ok), ServeSetState(ok) PROVE Goal /\ ServerTypes
  <2>1. Noted(ok, "set_state")
    BY <1>7, UnheardFacts DEF ServeSetState, Refreshers, Updating
  <2>2. "set_state" \in Call
    BY DEF Call
  <2>3. Goal
    BY <1>7, <1>d, <2>1, <2>2 DEF ServeSetState
  <2>a. left' \in [Event -> Nat]
    BY <1>7, <1>b
  <2>4. CASE wi' = FALSE /\ ranking' = <<>> /\ examples' = Saved
    <3>1. ranking' \in Seq(Uuid)
      BY <2>4, EmptySeq
    <3>2. examples' \subseteq Example
      BY <2>4, SavedAssumption
    <3>3. wi' \in BOOLEAN
      BY <2>4
    <3> QED
      BY <2>3, <2>4, <2>a, <3>1, <3>2, <3>3 DEF ServerTypes
  <2>5. CASE UNCHANGED serverVars
    BY <1>0, <1>7, <1>b, <2>3, <2>5 DEF ServerTypes, TypeOK, serverVars
  <2> QED
    BY <1>7, <2>4, <2>5 DEF ServeSetState
<1>8. ASSUME NEW ok \in BOOLEAN, Fate(ok), ServeIngest(ok) PROVE Goal /\ ServerTypes
  <2>1. Noted(ok, "ingest")
    BY <1>8, UnheardFacts DEF ServeIngest, Refreshers, Updating
  <2>2. "ingest" \in Call
    BY DEF Call
  <2>3. Goal
    BY <1>8, <1>d, <2>1, <2>2 DEF ServeIngest
  <2>4. ServerTypes
    BY <1>0, <1>8, <1>b DEF ServeIngest, ServerTypes, TypeOK
  <2> QED
    BY <2>3, <2>4
<1>9. ASSUME NEW call \in Call, Served(call, Reply(call, FALSE)), UNCHANGED <<serverVars, spoilt>>
      PROVE  Goal
  <2>0. Reply(call, FALSE) \in Answer /\ Reply(call, FALSE).call = call /\ ~ Reply(call, FALSE).ok
    BY <1>a
  <2>1. PICK b \in Answer : Taken(call) /\ Given(b) /\ b.call = call /\ ~ b.ok
    BY <1>9, <2>0, ServedFacts
  <2>2. Told(b)
    BY <2>1 DEF Told
  <2> QED
    BY <1>9, <1>c, <2>1, <2>2
<1>10. ASSUME NEW call \in Call, Refuse(call) PROVE Goal /\ ServerTypes
  <2>1. left' \in [Event -> Nat]
    BY <1>10, TakesTypes DEF Refuse, Event
  <2> QED
    BY <1>10, <1>9, <1>c, <2>1 DEF Refuse, ServerTypes
<1>11. ASSUME RefuseRefine, UNCHANGED left PROVE Goal /\ ServerTypes
  <2>1. "refine" \in Call /\ left' \in [Event -> Nat]
    BY <1>0, <1>11 DEF Call, TypeOK
  <2> QED
    BY <1>11, <1>9, <1>c, <2>1 DEF RefuseRefine, ServerTypes
<1>12. Goal /\ ServerTypes
  BY <1>1, <1>2, <1>3, <1>4, <1>5, <1>6, <1>7, <1>8, <1>10, <1>11 DEF ServerStep
<1> QED
  BY <1>0, <1>12
-----------------------------------------------------------------------------
(* The user *)

UserStep ==
    \/ ClickRefine \/ ClickMore \/ ClickToggle \/ ClickRandomRefresh \/ ClickRandomMore
    \/ ClickInitialize \/ ClickReset
    \/ Uploaded("ingest", "ingest") \/ Uploaded("load", "load_reset")

\* The calls whose answers bring a view up to date.
Fetching == {"info", "results", "status"}

\* The pane shows what it did.
SameResults ==
    /\ pane'.uuids = pane.uuids /\ pane'.displayed = pane.displayed
    /\ pane'.bottom_shown = pane.bottom_shown /\ pane'.more_shown = pane.more_shown

PaneTypes == pane' \in Pane /\ pane'.displayed <= Len(pane'.uuids)

\* Refine, from the buttons or after an initialization.
LEMMA RefineFacts ==
    ASSUME Typed, Refine PROVE PaneTypes /\ SameResults /\ Posted({"refine"})
<1>1. pane \in Pane /\ random \in RandomPane /\ pane.displayed <= Len(pane.uuids)
  BY DEF Typed, TypeOK, Pane, RandomPane
<1> DEFINE q == SetButtons(pane, FALSE)
<1>2. /\ q \in Pane /\ q.uuids = pane.uuids /\ q.displayed = pane.displayed
      /\ q.bottom_shown = pane.bottom_shown /\ q.more_shown = pane.more_shown
  BY <1>1, ButtonFacts
<1>3. pane' = [q EXCEPT !.bar = TRUE]
  BY DEF Refine
<1> HIDE DEF q
<1>4. pane' \in Pane /\ SameResults
  BY <1>2, <1>3 DEF Pane, SameResults
<1>5. Posted({"refine"})
  BY SendFacts DEF Refine
<1> QED
  BY <1>1, <1>4, <1>5 DEF PaneTypes, SameResults

\* The random pane is refreshed.
LEMMA RefreshRandomFacts ==
    ASSUME Typed, NEW r \in RandomPane, RefreshRandom(r)
    PROVE  /\ random' \in RandomPane /\ Posted({"random"})
           /\ spoilt' \in [View -> BOOLEAN]
           /\ spoilt'["pane"] = spoilt["pane"] /\ spoilt'["status"] = spoilt["status"]
           /\ spoilt'["random"] = Outstanding("random")
           /\ random'.shown = <<>> /\ random'.ids = r.ids /\ random'.more_shown = FALSE
<1> DEFINE b == Outstanding("random")
<1>1. b \in BOOLEAN
  BY DEF Outstanding, BagIn
<1>2. spoilt' = [spoilt EXCEPT !["random"] = b] /\ spoilt \in [View -> BOOLEAN]
  BY DEF RefreshRandom, Typed, TypeOK
<1> HIDE DEF b
<1>3. /\ spoilt' \in [View -> BOOLEAN]
      /\ spoilt'["pane"] = spoilt["pane"] /\ spoilt'["status"] = spoilt["status"]
      /\ spoilt'["random"] = b
  BY <1>1, <1>2 DEF View
<1>4. <<>> \in Seq(Uuid)
  BY EmptySeq
<1>5. random' = [enabled |-> r.enabled, ids |-> r.ids, shown |-> <<>>, bar |-> TRUE,
                 refresh_shown |-> FALSE, more_shown |-> FALSE]
  BY DEF RefreshRandom, RandomPane
<1>6. random' \in RandomPane /\ random'.shown = <<>> /\ random'.ids = r.ids /\ random'.more_shown = FALSE
  BY <1>4, <1>5 DEF RandomPane
<1> QED
  BY <1>3, <1>6, SendFacts DEF RefreshRandom, b

\* What the user does sends no request that brings a view up to date.
LEMMA UserFacts ==
    ASSUME Typed, UserStep
    PROVE  /\ UNCHANGED <<answers, examples_shown, serverVars>>
           /\ \E calls \in SUBSET (Call \ Fetching) : Posted(calls)
           /\ /\ spoilt' \in [View -> BOOLEAN]
              /\ spoilt'["pane"] = spoilt["pane"] /\ spoilt'["status"] = spoilt["status"]
           /\ left' \in [Event -> Nat] /\ random' \in RandomPane
           /\ PaneTypes /\ (SameResults \/ pane' = ShowMore(pane))
<1> DEFINE Rest == \E calls \in SUBSET (Call \ Fetching) : Posted(calls)
           Spoilt == /\ spoilt' \in [View -> BOOLEAN]
                     /\ spoilt'["pane"] = spoilt["pane"] /\ spoilt'["status"] = spoilt["status"]
           Goal == Rest /\ Spoilt /\ random' \in RandomPane /\ PaneTypes
                   /\ (SameResults \/ pane' = ShowMore(pane))
<1>0. /\ pane \in Pane /\ random \in RandomPane /\ pane.displayed <= Len(pane.uuids)
      /\ spoilt \in [View -> BOOLEAN] /\ IsABag(sent)
  BY DEF Typed, TypeOK, Pane, RandomPane
<1>a. UNCHANGED sent => Posted({})
  BY <1>0 DEF Posted
<1>b. UNCHANGED spoilt => Spoilt
  BY <1>0
<1>c. UNCHANGED pane => PaneTypes /\ SameResults
  BY <1>0 DEF PaneTypes, SameResults
<1>d. \A c \in Call \ Fetching : Posted({c}) => Rest
  OBVIOUS
<1>e. \A c \in Call \ Fetching : Send({c}) => Rest
  BY <1>d, SendFacts
<1>f. {"refine", "random", "initialize", "reset", "ingest", "load_reset"} \subseteq Call \ Fetching
  BY DEF Call, Fetching
<1>g. left' \in [Event -> Nat] /\ UNCHANGED <<answers, examples_shown, serverVars>>
  <2>1. \A e \in Event : Takes(e) => left' \in [Event -> Nat]
    BY TakesTypes
  <2>2. {"refine", "more", "toggle", "random_refresh", "random_more",
         "initialize", "reset", "load", "ingest"} \subseteq Event
    BY DEF Event
  <2>3. left' \in [Event -> Nat]
    BY <2>1, <2>2 DEF UserStep, ClickRefine, ClickMore, ClickToggle, ClickRandomRefresh,
                      ClickRandomMore, ClickInitialize, ClickReset, Uploaded
  <2> QED
    BY <2>3 DEF UserStep, ClickRefine, ClickMore, ClickToggle, ClickRandomRefresh,
                ClickRandomMore, ClickInitialize, ClickReset, Uploaded
<1>1. CASE ClickRefine
  <2>1. PaneTypes /\ SameResults /\ Posted({"refine"}) /\ UNCHANGED <<random, spoilt>>
    BY <1>1, RefineFacts DEF ClickRefine
  <2> QED
    BY <1>0, <1>b, <1>d, <1>f, <1>g, <2>1
<1>2. CASE ClickMore
  <2>1. pane' = ShowMore(pane) /\ UNCHANGED <<random, sent, spoilt>>
    BY <1>2 DEF ClickMore
  <2>2. PaneTypes
    BY <1>0, <2>1, ShowMoreFacts DEF PaneTypes
  <2> QED
    BY <1>0, <1>a, <1>b, <1>g, <2>1, <2>2
<1>3. CASE ClickToggle
  <2>0. UNCHANGED pane
    BY <1>3 DEF ClickToggle
  <2>1. CASE random' = ToggleOff(random) /\ UNCHANGED <<sent, spoilt>>
    <3>1. random' \in RandomPane
      BY <1>0, <2>1 DEF ToggleOff, RandomPane
    <3> QED
      BY <1>a, <1>b, <1>c, <1>g, <2>0, <2>1, <3>1
  <2>2. CASE RefreshRandom([random EXCEPT !.enabled = TRUE])
    <3>1. [random EXCEPT !.enabled = TRUE] \in RandomPane
      BY <1>0 DEF RandomPane
    <3>2. random' \in RandomPane /\ Posted({"random"}) /\ Spoilt
      BY <2>2, <3>1, RefreshRandomFacts
    <3> QED
      BY <1>c, <1>d, <1>f, <1>g, <2>0, <3>2
  <2> QED
    BY <1>3, <2>1, <2>2 DEF ClickToggle, Toggle
<1>4. CASE ClickRandomRefresh
  <2>1. random' \in RandomPane /\ Posted({"random"}) /\ Spoilt /\ UNCHANGED pane
    BY <1>0, <1>4, RefreshRandomFacts DEF ClickRandomRefresh
  <2> QED
    BY <1>c, <1>d, <1>f, <1>g, <2>1
<1>5. CASE ClickRandomMore
  <2>1. random' \in RandomPane
    <3>1. Len(random.shown) \in Nat /\ Len(random.shown) + Step \in Nat
      BY <1>0, StepAssumption DEF RandomPane
    <3> QED
      BY <1>0, <1>5, <3>1, RandomFacts DEF ClickRandomMore, MoreRandom
  <2> QED
    BY <1>5, <1>a, <1>b, <1>c, <1>g, <2>1 DEF ClickRandomMore
<1>6. ASSUME NEW c \in Call \ Fetching, Send({c}), UNCHANGED <<pane, random, spoilt>>
      PROVE  Goal
  BY <1>0, <1>6, <1>b, <1>c, <1>e
<1>7. CASE ClickInitialize \/ ClickReset \/ Uploaded("ingest", "ingest") \/ Uploaded("load", "load_reset")
  <2>1. PICK c \in {"initialize", "reset", "ingest", "load_reset"} :
          Send({c}) /\ UNCHANGED <<pane, random, spoilt>>
    BY <1>7 DEF ClickInitialize, ClickReset, Uploaded
  <2> QED
    BY <1>6, <1>f, <1>g, <2>1
<1> QED
  BY <1>1, <1>2, <1>3, <1>4, <1>5, <1>7 DEF UserStep
-----------------------------------------------------------------------------
(* The callbacks *)

\* What the callback of answer a, that sends some calls, is to the examples shown.
StatusHandled(a, calls) ==
    \/ /\ a.call = "status" /\ a.ok /\ calls = {}
       /\ examples_shown' = a.pos /\ spoilt'["status"] = spoilt["status"]
    \/ a.call = "status" /\ spoilt'["status"] /\ UNCHANGED examples_shown
    \/ /\ a.ok /\ a.call \in Updating /\ "status" \in calls
       /\ spoilt'["status"] = Outstanding("status") /\ UNCHANGED examples_shown
    \/ /\ a.call # "status" /\ ~ (a.ok /\ a.call \in Updating) /\ "status" \notin calls
       /\ spoilt'["status"] = spoilt["status"] /\ UNCHANGED examples_shown

\* What it is to the pane.
PaneHandled(a, calls) ==
    \/ /\ a.call = "info" /\ a.ok /\ calls = {"results"}
       /\ SameResults /\ spoilt'["pane"] = spoilt["pane"]
    \/ /\ a.call = "info" /\ a.ok /\ ~ a.yes /\ calls = {}
       /\ pane'.uuids = pane.uuids /\ pane'.displayed = pane.displayed
       /\ spoilt'["pane"] = spoilt["pane"]
    \/ a.call \in {"info", "results"} /\ spoilt'["pane"]
    \/ /\ a.call = "results" /\ a.ok /\ calls = {} /\ spoilt'["pane"] = spoilt["pane"]
       /\ \E p \in Pane :
            /\ p.uuids = pane.uuids \o a.list /\ p.displayed = pane.displayed
            /\ p.displayed <= Len(p.uuids)
            /\ pane' = IF p.uuids = <<>> THEN p ELSE ShowMore(p)
    \/ /\ a.ok /\ a.call \in Refreshers /\ "info" \in calls /\ "results" \notin calls
       /\ pane'.uuids = <<>> /\ pane'.displayed = 0 /\ spoilt'["pane"] = Refreshing
    \/ /\ a.call \notin {"info", "results"} /\ ~ (a.ok /\ a.call \in Refreshers)
       /\ "info" \notin calls /\ "results" \notin calls
       /\ SameResults /\ spoilt'["pane"] = spoilt["pane"]

CallbackTypes ==
    /\ PaneTypes /\ random' \in RandomPane /\ spoilt' \in [View -> BOOLEAN]
    /\ examples_shown' \subseteq Example

\* A refresh of the pane, and what is noted of it and of the examples.
LEMMA RefreshFacts ==
    ASSUME Typed, NEW p \in Pane, NEW calls, Refresh(p, calls)
    PROVE  PaneTypes /\ pane'.uuids = <<>> /\ pane'.displayed = 0 /\ Posted(calls \cup {"info"})
<1>1. <<>> \in Seq(Uuid) /\ Len(<<>>) = 0
  BY EmptySeq
<1>2. pane' = [uuids |-> <<>>, displayed |-> 0, top |-> p.top, bottom |-> p.bottom, toggle |-> p.toggle,
               bottom_shown |-> p.bottom_shown, more_shown |-> p.more_shown, bar |-> p.bar]
  BY DEF Refresh, Cleared, Pane
<1>3. pane' \in Pane /\ pane'.uuids = <<>> /\ pane'.displayed = 0
  BY <1>1, <1>2 DEF Pane
<1>4. Posted(calls \cup {"info"})
  BY SendFacts DEF Refresh
<1> QED
  BY <1>1, <1>3, <1>4 DEF PaneTypes

\* What the marks of an overlapping refresh are.
LEMMA SpoilsFacts ==
    ASSUME NEW s \in [View -> BOOLEAN]
    PROVE  /\ RefreshSpoils(s) \in [View -> BOOLEAN] /\ RefreshSpoils(s)["pane"] = Refreshing
           /\ RefreshSpoils(s)["status"] = s["status"] /\ RefreshSpoils(s)["random"] = s["random"]
           /\ StatusSpoils(s) \in [View -> BOOLEAN] /\ StatusSpoils(s)["status"] = Outstanding("status")
           /\ StatusSpoils(s)["pane"] = s["pane"] /\ StatusSpoils(s)["random"] = s["random"]
<1> DEFINE x == Refreshing
           y == Outstanding("status")
<1>1. x \in BOOLEAN /\ y \in BOOLEAN
  BY DEF Refreshing, Outstanding, BagIn
<1>2. RefreshSpoils(s) = [s EXCEPT !["pane"] = x] /\ StatusSpoils(s) = [s EXCEPT !["status"] = y]
  BY DEF RefreshSpoils, StatusSpoils
<1> HIDE DEF x, y
<1> QED
  <2>1. /\ RefreshSpoils(s) \in [View -> BOOLEAN] /\ RefreshSpoils(s)["pane"] = x
        /\ RefreshSpoils(s)["status"] = s["status"] /\ RefreshSpoils(s)["random"] = s["random"]
        /\ StatusSpoils(s) \in [View -> BOOLEAN] /\ StatusSpoils(s)["status"] = y
        /\ StatusSpoils(s)["pane"] = s["pane"] /\ StatusSpoils(s)["random"] = s["random"]
    BY <1>1, <1>2 DEF View
  <2> QED
    BY <2>1 DEF x, y

\* The callback of the information of the session.
LEMMA OnInfoFacts ==
    ASSUME Typed, NEW a \in Answer, OnInfo(a), UNCHANGED examples_shown
    PROVE  \E calls \in SUBSET Call : /\ Posted(calls) /\ CallbackTypes
                                      /\ StatusHandled(a, calls) /\ PaneHandled(a, calls)
<1>0. /\ pane \in Pane /\ random \in RandomPane /\ pane.displayed <= Len(pane.uuids)
      /\ spoilt \in [View -> BOOLEAN] /\ IsABag(sent) /\ examples_shown \subseteq Example
      /\ random' = random /\ a.call = "info"
  BY DEF Typed, TypeOK, Pane, RandomPane, OnInfo
<1>a. UNCHANGED sent => Posted({})
  BY <1>0 DEF Posted
<1>b. {} \in SUBSET Call /\ {"results"} \in SUBSET Call
  BY DEF Call
<1> DEFINE q == SetTop(pane, TRUE)
<1>c. /\ q \in Pane /\ q.uuids = pane.uuids /\ q.displayed = pane.displayed
      /\ q.bottom_shown = pane.bottom_shown /\ q.more_shown = pane.more_shown
  BY <1>0, ButtonFacts
<1>1. CASE a.ok /\ a.yes /\ pane' = q /\ Send({"results"}) /\ UNCHANGED spoilt
  <2> HIDE DEF q
  <2>1. Posted({"results"}) /\ CallbackTypes /\ SameResults
    BY <1>0, <1>c, <1>1, SendFacts DEF CallbackTypes, PaneTypes, SameResults
  <2>2. StatusHandled(a, {"results"}) /\ PaneHandled(a, {"results"})
    BY <1>0, <1>1, <2>1 DEF StatusHandled, PaneHandled, Updating
  <2> QED
    BY <1>b, <2>1, <2>2
<1>2. CASE a.ok /\ ~ a.yes /\ pane' = [q EXCEPT !.bottom_shown = FALSE] /\ UNCHANGED <<sent, spoilt>>
  <2> HIDE DEF q
  <2>1. pane' \in Pane /\ pane'.uuids = pane.uuids /\ pane'.displayed = pane.displayed
    BY <1>c, <1>2 DEF Pane
  <2>2. CallbackTypes
    BY <1>0, <1>2, <2>1 DEF CallbackTypes, PaneTypes
  <2>3. StatusHandled(a, {}) /\ PaneHandled(a, {})
    BY <1>0, <1>2, <2>1 DEF StatusHandled, PaneHandled, Updating
  <2> QED
    BY <1>a, <1>b, <1>2, <2>2, <2>3
<1>3. CASE ~ a.ok /\ spoilt' = [spoilt EXCEPT !["pane"] = TRUE] /\ UNCHANGED <<pane, sent>>
  <2>1. spoilt' \in [View -> BOOLEAN] /\ spoilt'["pane"] /\ spoilt'["status"] = spoilt["status"]
    BY <1>0, <1>3 DEF View
  <2>2. CallbackTypes
    BY <1>0, <1>3, <2>1 DEF CallbackTypes, PaneTypes
  <2>3. StatusHandled(a, {}) /\ PaneHandled(a, {})
    BY <1>0, <1>3, <2>1 DEF StatusHandled, PaneHandled
  <2> QED
    BY <1>a, <1>b, <1>3, <2>2, <2>3
<1> QED
  BY <1>1, <1>2, <1>3 DEF OnInfo

\* The callback of the results.
LEMMA OnResultsFacts ==
    ASSUME Typed, NEW a \in Answer, OnResults(a), UNCHANGED examples_shown
    PROVE  /\ Posted({}) /\ CallbackTypes
           /\ StatusHandled(a, {}) /\ PaneHandled(a, {})
<1>0. /\ pane \in Pane /\ pane.displayed <= Len(pane.uuids) /\ random \in RandomPane
      /\ spoilt \in [View -> BOOLEAN] /\ IsABag(sent) /\ examples_shown \subseteq Example
      /\ random' = random /\ a.call = "results" /\ sent' = sent
  BY DEF Typed, TypeOK, Pane, RandomPane, OnResults
<1>a. Posted({})
  BY <1>0 DEF Posted
<1>1. CASE a.ok /\ UNCHANGED spoilt
  <2> DEFINE p == [pane EXCEPT !.uuids = @ \o a.list]
  <2>0. pane' = IF p.uuids = <<>> THEN p ELSE ShowMore(p)
    BY <1>1 DEF OnResults
  <2>1. /\ a.list \in Seq(Uuid) /\ pane.uuids \in Seq(Uuid)
        /\ pane.uuids \o a.list \in Seq(Uuid)
        /\ Len(pane.uuids) <= Len(pane.uuids \o a.list) /\ Len(pane.uuids \o a.list) \in Nat
    BY <1>0 DEF Answer, Pane
  <2>2. /\ p \in Pane /\ p.uuids = pane.uuids \o a.list /\ p.displayed = pane.displayed
    BY <1>0, <2>1 DEF Pane
  <2>3. p.displayed <= Len(p.uuids)
    BY <1>0, <2>1, <2>2 DEF Pane
  <2> HIDE DEF p
  <2>4. PaneTypes
    BY <2>0, <2>2, <2>3, ShowMoreFacts DEF PaneTypes
  <2>5. CallbackTypes
    BY <1>0, <1>1, <2>4 DEF CallbackTypes
  <2>6. StatusHandled(a, {})
    BY <1>0, <1>1 DEF StatusHandled, Updating
  <2>7. PaneHandled(a, {})
    BY <1>0, <1>1, <2>0, <2>2, <2>3 DEF PaneHandled
  <2> QED
    BY <1>a, <2>5, <2>6, <2>7
<1>2. CASE ~ a.ok /\ spoilt' = [spoilt EXCEPT !["pane"] = TRUE] /\ UNCHANGED pane
  <2>1. spoilt' \in [View -> BOOLEAN] /\ spoilt'["pane"] /\ spoilt'["status"] = spoilt["status"]
    BY <1>0, <1>2 DEF View
  <2>2. CallbackTypes
    BY <1>0, <1>2, <2>1 DEF CallbackTypes, PaneTypes
  <2>3. StatusHandled(a, {}) /\ PaneHandled(a, {})
    BY <1>0, <1>2, <2>1 DEF StatusHandled, PaneHandled
  <2> QED
    BY <1>a, <2>2, <2>3
<1> QED
  BY <1>1, <1>2 DEF OnResults
\* A callback that leaves pane and examples alone.
LEMMA AloneFacts ==
    ASSUME Typed, NEW a \in Answer, NEW calls \in SUBSET (Call \ Fetching), Posted(calls),
           SameResults, PaneTypes, UNCHANGED <<spoilt, random, examples_shown>>,
           a.call \notin Fetching, ~ (a.ok /\ a.call \in Updating), ~ (a.ok /\ a.call \in Refreshers)
    PROVE  CallbackTypes /\ StatusHandled(a, calls) /\ PaneHandled(a, calls)
<1>1. random \in RandomPane /\ spoilt \in [View -> BOOLEAN] /\ examples_shown \subseteq Example
  BY DEF Typed, TypeOK, RandomPane
<1>2. CallbackTypes
  BY <1>1 DEF CallbackTypes
<1>3. a.call \notin {"info", "results", "status"} /\ calls \cap {"info", "results", "status"} = {}
  BY DEF Fetching
<1>4. StatusHandled(a, calls) /\ PaneHandled(a, calls)
  BY <1>3 DEF StatusHandled, PaneHandled
<1> QED
  BY <1>2, <1>4

\* The callback of a refine.
LEMMA OnRefineFacts ==
    ASSUME Typed, NEW a \in Answer, OnRefine(a), UNCHANGED examples_shown
    PROVE  \E calls \in SUBSET Call : /\ Posted(calls) /\ CallbackTypes
                                      /\ StatusHandled(a, calls) /\ PaneHandled(a, calls)
<1>0. /\ pane \in Pane /\ random \in RandomPane /\ pane.displayed <= Len(pane.uuids)
      /\ spoilt \in [View -> BOOLEAN] /\ IsABag(sent) /\ examples_shown \subseteq Example
      /\ random' = random /\ a.call = "refine"
  BY DEF Typed, TypeOK, Pane, RandomPane, OnRefine
<1>1. CASE a.ok
  <2> DEFINE q == SetButtons(pane, TRUE)
             p == [q EXCEPT !.bar = FALSE]
  <2>0. Refresh(p, {}) /\ spoilt' = RefreshSpoils(spoilt)
    BY <1>1 DEF OnRefine
  <2>1. q \in Pane
    BY <1>0, ButtonFacts
  <2> HIDE DEF q
  <2>2. p \in Pane
    BY <2>1 DEF Pane
  <2> HIDE DEF p
  <2>3. PaneTypes /\ pane'.uuids = <<>> /\ pane'.displayed = 0 /\ Posted({"info"})
    <3>1. PaneTypes /\ pane'.uuids = <<>> /\ pane'.displayed = 0 /\ Posted({} \cup {"info"})
      BY <2>0, <2>2, RefreshFacts
    <3> QED
      BY <3>1
  <2>4. /\ spoilt' \in [View -> BOOLEAN] /\ spoilt'["pane"] = Refreshing
        /\ spoilt'["status"] = spoilt["status"]
    BY <1>0, <2>0, SpoilsFacts
  <2>5. CallbackTypes
    BY <1>0, <2>3, <2>4 DEF CallbackTypes
  <2>6. StatusHandled(a, {"info"})
    BY <1>0, <2>4 DEF StatusHandled, Updating
  <2>7. PaneHandled(a, {"info"})
    BY <1>0, <1>1, <2>3, <2>4 DEF PaneHandled, Refreshers
  <2> QED
    BY <2>3, <2>5, <2>6, <2>7 DEF Call
<1>2. CASE ~ a.ok
  <2>0. pane' = [pane EXCEPT !.bar = FALSE] /\ UNCHANGED <<sent, spoilt>>
    BY <1>2 DEF OnRefine
  <2>1. PaneTypes /\ SameResults /\ Posted({})
    BY <1>0, <2>0 DEF PaneTypes, SameResults, Pane, Posted
  <2>2. a.call \notin Fetching
    BY <1>0 DEF Fetching
  <2>3. CallbackTypes /\ StatusHandled(a, {}) /\ PaneHandled(a, {})
    BY <1>0, <1>2, <2>0, <2>1, <2>2, AloneFacts
  <2> QED
    BY <2>1, <2>3
<1> QED
  BY <1>1, <1>2

\* The callback of the random ids.
LEMMA OnRandomFacts ==
    ASSUME Typed, NEW a \in Answer, OnRandom(a), UNCHANGED examples_shown
    PROVE  /\ Posted({}) /\ CallbackTypes
           /\ StatusHandled(a, {}) /\ PaneHandled(a, {})
<1>0. /\ pane \in Pane /\ random \in RandomPane /\ pane.displayed <= Len(pane.uuids)
      /\ spoilt \in [View -> BOOLEAN] /\ IsABag(sent) /\ examples_shown \subseteq Example
      /\ a.call = "random" /\ UNCHANGED <<pane, sent, spoilt>>
  BY DEF Typed, TypeOK, Pane, RandomPane, OnRandom
<1> DEFINE q == [random EXCEPT !.ids = a.list]
           r == IF a.ok THEN DisplayRange(q, 0, Step) ELSE random
<1>1. random' = [Functionals(r) EXCEPT !.bar = FALSE]
  BY DEF OnRandom
<1>2. q \in RandomPane
  BY <1>0 DEF Answer, RandomPane
<1> HIDE DEF q
<1>3. r \in RandomPane
  <2>1. DisplayRange(q, 0, Step) \in RandomPane
    BY <1>2, RandomFacts, StepAssumption
  <2> QED
    BY <1>0, <2>1
<1> HIDE DEF r
<1>4. Functionals(r) \in RandomPane
  <2>1. 0 \in Nat
    OBVIOUS
  <2> QED
    BY <1>3, <2>1, RandomFacts
<1>5. random' \in RandomPane
  BY <1>1, <1>4 DEF RandomPane
<1>6. PaneTypes /\ SameResults /\ Posted({}) /\ CallbackTypes
  BY <1>0, <1>5 DEF PaneTypes, SameResults, Posted, CallbackTypes
<1>7. StatusHandled(a, {}) /\ PaneHandled(a, {})
  BY <1>0, <1>6 DEF StatusHandled, PaneHandled, Updating, Refreshers
<1> QED
  BY <1>6, <1>7

\* The callback of the information for the examples.
LEMMA OnStatusFacts ==
    ASSUME Typed, NEW a \in Answer, OnStatus(a)
    PROVE  /\ Posted({}) /\ CallbackTypes
           /\ StatusHandled(a, {}) /\ PaneHandled(a, {})
<1>0. /\ pane \in Pane /\ random \in RandomPane /\ pane.displayed <= Len(pane.uuids)
      /\ spoilt \in [View -> BOOLEAN] /\ IsABag(sent) /\ examples_shown \subseteq Example
      /\ a.call = "status" /\ UNCHANGED <<pane, random, sent>> /\ a.pos \subseteq Example
  BY DEF Typed, TypeOK, Pane, RandomPane, OnStatus, Answer
<1>1. PaneTypes /\ SameResults /\ Posted({})
  BY <1>0 DEF PaneTypes, SameResults, Posted
<1>2. CASE a.ok /\ examples_shown' = a.pos /\ UNCHANGED spoilt
  <2>1. CallbackTypes
    BY <1>0, <1>1, <1>2 DEF CallbackTypes
  <2>2. StatusHandled(a, {}) /\ PaneHandled(a, {})
    BY <1>0, <1>1, <1>2 DEF StatusHandled, PaneHandled, Refreshers
  <2> QED
    BY <1>1, <2>1, <2>2
<1>3. CASE ~ a.ok /\ spoilt' = [spoilt EXCEPT !["status"] = TRUE] /\ UNCHANGED examples_shown
  <2>1. spoilt' \in [View -> BOOLEAN] /\ spoilt'["status"] /\ spoilt'["pane"] = spoilt["pane"]
    BY <1>0, <1>3 DEF View
  <2>2. CallbackTypes
    BY <1>0, <1>1, <1>3, <2>1 DEF CallbackTypes
  <2>3. StatusHandled(a, {}) /\ PaneHandled(a, {})
    BY <1>0, <1>1, <1>3, <2>1 DEF StatusHandled, PaneHandled, Refreshers
  <2> QED
    BY <1>1, <2>2, <2>3
<1> QED
  BY <1>2, <1>3 DEF OnStatus

\* The callback of an initialization.
LEMMA OnInitializeFacts ==
    ASSUME Typed, NEW a \in Answer, OnInitialize(a)
    PROVE  \E calls \in SUBSET Call : /\ Posted(calls) /\ CallbackTypes
                                      /\ StatusHandled(a, calls) /\ PaneHandled(a, calls)
<1>0. /\ pane \in Pane /\ pane.displayed <= Len(pane.uuids) /\ IsABag(sent)
      /\ a.call = "initialize" /\ UNCHANGED <<random, spoilt, examples_shown>>
  BY DEF Typed, TypeOK, Pane, OnInitialize
<1>1. PICK calls \in SUBSET {"refine"} : Posted(calls) /\ PaneTypes /\ SameResults
  <2>1. CASE Refine
    BY <2>1, RefineFacts
  <2>2. CASE UNCHANGED <<pane, sent>>
    <3>1. Posted({}) /\ PaneTypes /\ SameResults
      BY <1>0, <2>2 DEF Posted, PaneTypes, SameResults
    <3> QED
      BY <3>1
  <2> QED
    BY <2>1, <2>2 DEF OnInitialize
<1>2. calls \in SUBSET (Call \ Fetching) /\ a.call \notin Fetching \cup Updating \cup Refreshers
  BY <1>0 DEF Call, Fetching, Updating, Refreshers
<1> QED
  BY <1>0, <1>1, <1>2, AloneFacts

\* The callback of a reset.
LEMMA OnResetFacts ==
    ASSUME Typed, NEW a \in Answer, OnReset(a)
    PROVE  \E calls \in SUBSET Call : /\ Posted(calls) /\ CallbackTypes
                                      /\ StatusHandled(a, calls) /\ PaneHandled(a, calls)
<1>0. /\ pane \in Pane /\ random \in RandomPane /\ pane.displayed <= Len(pane.uuids)
      /\ spoilt \in [View -> BOOLEAN] /\ IsABag(sent) /\ examples_shown \subseteq Example
      /\ a.call \in {"reset", "load_reset"} /\ examples_shown' = examples_shown
  BY DEF Typed, TypeOK, Pane, RandomPane, OnReset
<1>1. CASE a.ok
  <2> DEFINE c == {"status"} \cup IF a.call = "load_reset" THEN {"set_state"} ELSE {}
  <2>0. /\ Refresh(pane, c) /\ random' = ToggleOff(random)
        /\ spoilt' = StatusSpoils(RefreshSpoils(spoilt))
    BY <1>1 DEF OnReset
  <2>1. c \subseteq Call /\ "status" \in c /\ "results" \notin c
    BY DEF Call
  <2> HIDE DEF c
  <2>2. PaneTypes /\ pane'.uuids = <<>> /\ pane'.displayed = 0 /\ Posted(c \cup {"info"})
    BY <1>0, <2>0, RefreshFacts
  <2>3. /\ spoilt' \in [View -> BOOLEAN]
        /\ spoilt'["pane"] = Refreshing /\ spoilt'["status"] = Outstanding("status")
    BY <1>0, <2>0, SpoilsFacts
  <2>4. random' \in RandomPane
    BY <1>0, <2>0 DEF ToggleOff, RandomPane
  <2>5. CallbackTypes
    BY <1>0, <2>2, <2>3, <2>4 DEF CallbackTypes
  <2>6. c \cup {"info"} \in SUBSET Call
    BY <2>1 DEF Call
  <2>7. StatusHandled(a, c \cup {"info"})
    BY <1>0, <1>1, <2>1, <2>3 DEF StatusHandled, Updating
  <2>8. PaneHandled(a, c \cup {"info"})
    BY <1>0, <1>1, <2>1, <2>2, <2>3 DEF PaneHandled, Refreshers
  <2> QED
    BY <2>2, <2>5, <2>6, <2>7, <2>8
<1>2. CASE ~ a.ok
  <2>0. UNCHANGED <<pane, random, sent, spoilt>>
    BY <1>2 DEF OnReset
  <2>1. PaneTypes /\ SameResults /\ Posted({})
    BY <1>0, <2>0 DEF PaneTypes, SameResults, Posted
  <2>2. a.call \notin Fetching
    BY <1>0 DEF Fetching
  <2> QED
    BY <1>0, <1>2, <2>0, <2>1, <2>2, AloneFacts
<1> QED
  BY <1>1, <1>2

\* The callbacks of a state that was put, and of an upload.
LEMMA OnUploadedFacts ==
    ASSUME Typed, NEW a \in Answer, OnSetState(a) \/ OnIngest(a)
    PROVE  \E calls \in SUBSET Call : /\ Posted(calls) /\ CallbackTypes
                                      /\ StatusHandled(a, calls) /\ PaneHandled(a, calls)
<1>0. /\ pane \in Pane /\ random \in RandomPane /\ pane.displayed <= Len(pane.uuids)
      /\ spoilt \in [View -> BOOLEAN] /\ IsABag(sent) /\ examples_shown \subseteq Example
      /\ a.call \in {"set_state", "ingest"}
      /\ UNCHANGED <<pane, random, examples_shown>>
  BY DEF Typed, TypeOK, Pane, RandomPane, OnSetState, OnIngest
<1>a. PaneTypes /\ SameResults
  BY <1>0 DEF PaneTypes, SameResults
<1>1. CASE a.ok
  <2>1. PICK c \in SUBSET {"status", "initialize"} : "status" \in c /\ Send(c)
    BY <1>1 DEF OnSetState, OnIngest
  <2>2. spoilt' = StatusSpoils(spoilt)
    BY <1>1 DEF OnSetState, OnIngest
  <2>3. /\ spoilt' \in [View -> BOOLEAN]
        /\ spoilt'["pane"] = spoilt["pane"] /\ spoilt'["status"] = Outstanding("status")
    BY <1>0, <2>2, SpoilsFacts
  <2>4. CallbackTypes /\ Posted(c) /\ c \in SUBSET Call
    BY <1>0, <1>a, <2>1, <2>3, SendFacts DEF CallbackTypes, Call
  <2>5. StatusHandled(a, c)
    BY <1>0, <1>1, <2>1, <2>3 DEF StatusHandled, Updating
  <2>6. PaneHandled(a, c)
    BY <1>0, <1>a, <2>1, <2>3 DEF PaneHandled, Refreshers
  <2> QED
    BY <2>4, <2>5, <2>6
<1>2. CASE ~ a.ok
  <2>0. UNCHANGED <<sent, spoilt>>
    BY <1>2 DEF OnSetState, OnIngest
  <2>1. Posted({})
    BY <1>0, <2>0 DEF Posted
  <2>2. a.call \notin Fetching
    BY <1>0 DEF Fetching
  <2> QED
    BY <1>0, <1>2, <1>a, <2>0, <2>1, <2>2, AloneFacts
<1> QED
  BY <1>1, <1>2

\* A callback takes its answer, sends some calls, and is one of those above.
LEMMA CallbackFacts ==
    ASSUME Typed, Callback
    PROVE  /\ UNCHANGED <<serverVars, left>> /\ CallbackTypes
           /\ \E a \in DOMAIN answers, calls \in SUBSET Call :
                Gone(a) /\ Posted(calls) /\ StatusHandled(a, calls) /\ PaneHandled(a, calls)
<1>1. PICK a \in DOMAIN answers :
        \/ (OnInfo(a) \/ OnResults(a) \/ OnRefine(a) \/ OnRandom(a)) /\ UNCHANGED examples_shown
        \/ OnStatus(a)
        \/ OnInitialize(a)
        \/ OnReset(a)
        \/ OnSetState(a)
        \/ OnIngest(a)
  BY DEF Callback, BagToSet
<1>2. a \in Answer
  BY DEF Typed, TypeOK, BagToSet
<1>3. Gone(a)
  <2>1. Heard(a)
    BY <1>1 DEF OnInfo, OnResults, OnRefine, OnRandom, OnStatus, OnInitialize, OnReset,
                OnSetState, OnIngest
  <2> QED
    BY <2>1, HeardFacts
<1>4. \E calls \in SUBSET Call : /\ Posted(calls) /\ CallbackTypes
                                 /\ StatusHandled(a, calls) /\ PaneHandled(a, calls)
  <2>0. {} \in SUBSET Call
    OBVIOUS
  <2> QED
    BY <1>1, <1>2, <2>0, OnInfoFacts, OnResultsFacts, OnRefineFacts, OnRandomFacts, OnStatusFacts,
       OnInitializeFacts, OnResetFacts, OnUploadedFacts
<1> QED
  BY <1>3, <1>4 DEF Callback
-----------------------------------------------------------------------------
(* The types *)

\* A step with values of their types keeps the types.
LEMMA TypedStep ==
    ASSUME PaneTypes, random' \in RandomPane,
           IsABag(sent'), DOMAIN sent' \subseteq Call, IsABag(answers'), DOMAIN answers' \subseteq Answer,
           spoilt' \in [View -> BOOLEAN], examples_shown' \subseteq Example,
           wi' \in BOOLEAN, ranking' \in Seq(Uuid), examples' \subseteq Example,
           left' \in [Event -> Nat]
    PROVE  Typed'
BY DEF PaneTypes, RandomPane, Pane, Typed, TypeOK, BagToSet

\* The session expires.
LEMMA ExpireFacts ==
    ASSUME Typed, Expire
    PROVE  /\ UNCHANGED <<pane, random, sent, answers, examples_shown>>
           /\ Noted(FALSE, "none") /\ left' \in [Event -> Nat]
           /\ wi' = FALSE /\ ranking' = <<>> /\ examples' = {}
<1>1. Noted(FALSE, "none")
  BY UnheardFacts DEF Expire
<1>2. left' \in [Event -> Nat]
  BY TakesTypes DEF Expire, Event
<1> QED
  BY <1>1, <1>2 DEF Expire

\* No step takes a variable out of its type.
LEMMA TypedNext == ASSUME Typed, [Next]_vars PROVE Typed'
<1>0. /\ pane \in Pane /\ random \in RandomPane /\ pane.displayed <= Len(pane.uuids)
      /\ IsABag(sent) /\ DOMAIN sent \subseteq Call
      /\ IsABag(answers) /\ DOMAIN answers \subseteq Answer
      /\ spoilt \in [View -> BOOLEAN] /\ examples_shown \subseteq Example
      /\ wi \in BOOLEAN /\ ranking \in Seq(Uuid) /\ examples \subseteq Example
      /\ left \in [Event -> Nat]
  BY DEF Typed, TypeOK, Pane, RandomPane, BagToSet
<1>1. CASE UserStep
  <2>1. PICK calls \in SUBSET (Call \ Fetching) : Posted(calls)
    BY <1>1, UserFacts
  <2>2. IsABag(sent') /\ DOMAIN sent' \subseteq Call
    BY <1>0, <2>1 DEF Posted
  <2>3. /\ UNCHANGED <<answers, examples_shown, serverVars>> /\ spoilt' \in [View -> BOOLEAN]
        /\ left' \in [Event -> Nat] /\ random' \in RandomPane /\ PaneTypes
    BY <1>1, UserFacts
  <2> QED
    BY <1>0, <2>2, <2>3, TypedStep DEF serverVars
<1>2. CASE ServerStep
  <2>1. PICK call \in Call, b \in Answer : Taken(call) /\ Given(b) /\ Noted(b.ok, call)
    BY <1>2, ServerFacts
  <2>2. /\ IsABag(sent') /\ DOMAIN sent' \subseteq Call
        /\ IsABag(answers') /\ DOMAIN answers' \subseteq Answer /\ spoilt' \in [View -> BOOLEAN]
    BY <1>0, <2>1 DEF Taken, Given, Noted
  <2>3. ServerTypes /\ UNCHANGED <<pane, random, examples_shown>>
    BY <1>2, ServerFacts
  <2> QED
    BY <1>0, <2>2, <2>3, TypedStep DEF ServerTypes, PaneTypes
<1>3. CASE Expire
  <2>1. /\ UNCHANGED <<pane, random, sent, answers, examples_shown>>
        /\ spoilt' \in [View -> BOOLEAN] /\ left' \in [Event -> Nat]
        /\ wi' \in BOOLEAN /\ ranking' \in Seq(Uuid) /\ examples' \subseteq Example
    BY <1>3, ExpireFacts, EmptySeq DEF Noted
  <2> QED
    BY <1>0, <2>1, TypedStep DEF PaneTypes
<1>4. CASE Callback
  <2>1. /\ UNCHANGED <<serverVars, left>> /\ CallbackTypes
    BY <1>4, CallbackFacts
  <2>2. PICK a \in DOMAIN answers, calls \in SUBSET Call : Gone(a) /\ Posted(calls)
    BY <1>4, CallbackFacts
  <2>3. /\ IsABag(sent') /\ DOMAIN sent' \subseteq Call
        /\ IsABag(answers') /\ DOMAIN answers' \subseteq Answer
    BY <1>0, <2>2 DEF Gone, Posted
  <2> QED
    BY <1>0, <2>1, <2>3, TypedStep DEF CallbackTypes, serverVars
<1>5. CASE UNCHANGED vars
  BY <1>5 DEF vars, pageVars, serverVars, Typed, TypeOK, BagToSet, IsABag
<1> QED
  BY <1>1, <1>2, <1>3, <1>4, <1>5 DEF Next, UserStep

-----------------------------------------------------------------------------
(* One request at a time *)

\* Something of some calls is under way.
UnderWay(C) == C \cap DOMAIN sent # {} \/ \E a \in DOMAIN answers : a.call \in C

\* At most one thing of them is.
Alone(C) ==
    /\ \A c \in C \cap DOMAIN sent : sent[c] = 1
    /\ \A c, d \in C \cap DOMAIN sent : c = d
    /\ \A a \in DOMAIN answers : a.call \in C => answers[a] = 1
    /\ \A a, b \in DOMAIN answers : a.call \in C /\ b.call \in C => a = b
    /\ \A c \in C \cap DOMAIN sent, a \in DOMAIN answers : a.call \notin C

\* The server turns a request into an answer to it.
LEMMA AloneServed ==
    ASSUME NEW C, Alone(C), NEW call \in Call, NEW b \in Answer, Taken(call), Given(b), b.call = call
    PROVE  /\ Alone(C)'
           /\ call \notin C => DOMAIN sent' \cap C = DOMAIN sent \cap C
           /\ call \in C => C \cap DOMAIN sent' = {}
           /\ \A a \in DOMAIN answers' : a \in DOMAIN answers \/ a = b
           /\ DOMAIN answers \subseteq DOMAIN answers'
<1>1. /\ call \in DOMAIN sent /\ DOMAIN sent' \subseteq DOMAIN sent
      /\ \A c \in DOMAIN sent : c # call => c \in DOMAIN sent' /\ sent'[c] = sent[c]
      /\ sent[call] = 1 => call \notin DOMAIN sent'
  BY DEF Taken
<1>2. /\ DOMAIN answers' = DOMAIN answers \cup {b}
      /\ \A a \in DOMAIN answers : a # b => answers'[a] = answers[a]
      /\ b \notin DOMAIN answers => answers'[b] = 1
  BY DEF Given
<1>3. CASE call \in C
  <2>1. C \cap DOMAIN sent' = {}
    BY <1>1, <1>3 DEF Alone
  <2>2. b \notin DOMAIN answers /\ \A a \in DOMAIN answers : a.call \notin C
    BY <1>1, <1>3 DEF Alone
  <2> QED
    BY <1>2, <1>3, <2>1, <2>2 DEF Alone
<1>4. CASE call \notin C
  <2>1. /\ DOMAIN sent' \cap C = DOMAIN sent \cap C
        /\ \A c \in C \cap DOMAIN sent : sent'[c] = sent[c]
    BY <1>1, <1>4
  <2>2. \A a \in DOMAIN answers' : a.call \in C => a \in DOMAIN answers /\ answers'[a] = answers[a]
    BY <1>2, <1>4
  <2> QED
    BY <1>2, <1>4, <2>1, <2>2 DEF Alone
<1> QED
  BY <1>3, <1>4

\* The page sends other requests.
LEMMA AlonePosted ==
    ASSUME NEW C, NEW calls, Posted(calls), C \cap calls = {}, UNCHANGED answers
    PROVE  /\ Alone(C) => Alone(C)'
           /\ C \cap DOMAIN sent' = C \cap DOMAIN sent
           /\ UnderWay(C)' <=> UnderWay(C)
<1>1. /\ C \cap DOMAIN sent' = C \cap DOMAIN sent
      /\ \A c \in C \cap DOMAIN sent : sent'[c] = sent[c]
  BY DEF Posted
<1> QED
  BY <1>1 DEF Alone, UnderWay

\* The page hears an answer and sends other requests.
LEMMA AloneHeard ==
    ASSUME NEW C, NEW a \in DOMAIN answers, Gone(a), NEW calls, Posted(calls), C \cap calls = {}
    PROVE  /\ Alone(C) => Alone(C)'
           /\ C \cap DOMAIN sent' = C \cap DOMAIN sent
           /\ a.call \notin C => /\ UnderWay(C)' <=> UnderWay(C)
                                 /\ \A b \in DOMAIN answers : b.call \in C => b \in DOMAIN answers'
           /\ a.call \in C /\ Alone(C) => ~ UnderWay(C)'
<1>1. /\ C \cap DOMAIN sent' = C \cap DOMAIN sent
      /\ \A c \in C \cap DOMAIN sent : sent'[c] = sent[c]
  BY DEF Posted
<1>2. /\ DOMAIN answers' \subseteq DOMAIN answers
      /\ \A b \in DOMAIN answers : b # a => b \in DOMAIN answers' /\ answers'[b] = answers[b]
      /\ answers[a] = 1 => a \notin DOMAIN answers'
  BY DEF Gone
<1>3. Alone(C) => Alone(C)'
  <2> SUFFICES ASSUME Alone(C) PROVE Alone(C)'
    OBVIOUS
  <2>1. \A b \in DOMAIN answers' : b.call \in C => b # a
    BY <1>2 DEF Alone
  <2> QED
    BY <1>1, <1>2, <2>1 DEF Alone
<1>4. a.call \notin C => /\ UnderWay(C)' <=> UnderWay(C)
                         /\ \A b \in DOMAIN answers : b.call \in C => b \in DOMAIN answers'
  BY <1>1, <1>2 DEF UnderWay
<1>5. a.call \in C /\ Alone(C) => ~ UnderWay(C)'
  BY <1>1, <1>2 DEF UnderWay, Alone
<1> QED
  BY <1>1, <1>3, <1>4, <1>5

\* The page hears an answer and sends one of these requests, when there was none
\* or that was its answer.
LEMMA AloneStarts ==
    ASSUME NEW C, NEW a \in DOMAIN answers, Gone(a), NEW c, NEW calls, Posted(calls), C \cap calls = {c},
           ~ UnderWay(C) \/ (Alone(C) /\ a.call \in C)
    PROVE  Alone(C)' /\ c \in DOMAIN sent'
<1>1. /\ DOMAIN answers' \subseteq DOMAIN answers
      /\ answers[a] = 1 => a \notin DOMAIN answers'
  BY DEF Gone
<1>2. C \cap DOMAIN sent = {} /\ \A b \in DOMAIN answers' : b.call \notin C
  BY <1>1 DEF UnderWay, Alone
<1>3. C \cap DOMAIN sent' = {c} /\ sent'[c] = 1
  BY <1>2 DEF Posted
<1> QED
  BY <1>2, <1>3 DEF Alone
-----------------------------------------------------------------------------
(* What brings the views up to date *)

\* The page will hear of a change that its callback follows up.
Changed(calls) == \E a \in DOMAIN answers : a.ok /\ a.call \in calls

\* The examples of the session are shown, or asked for.
ExamplesFollow ==
    ~ spoilt["status"] =>
        /\ Alone({"status"})
        /\ \/ Changed(Updating)
           \/ "status" \in DOMAIN sent
           \/ \E a \in DOMAIN answers : a.call = "status" /\ (a.ok => a.pos = examples)
           \/ ~ UnderWay({"status"}) /\ examples_shown = examples

PaneShown ==
    /\ pane.uuids = ranking
    /\ pane.displayed >= Min({Step, Len(ranking)})
    /\ ranking # <<>> =>
           ((pane.bottom_shown /\ pane.more_shown) <=> pane.displayed < Len(ranking))

PaneEmpty == pane.uuids = <<>> /\ pane.displayed = 0

Filling == {"info", "results"}

\* The results of the session are shown, or the pane is empty and they are
\* asked for.
PaneFollows ==
    ~ spoilt["pane"] =>
        /\ Alone(Filling)
        /\ \/ Changed(Refreshers)
           \/ PaneEmpty /\ Filling \cap DOMAIN sent # {}
           \/ PaneEmpty /\ \E a \in DOMAIN answers :
                  a.call = "info" /\ (a.ok /\ ~ a.yes => ranking = <<>>)
           \/ PaneEmpty /\ \E a \in DOMAIN answers :
                  a.call = "results" /\ (a.ok => a.list = ranking)
           \/ ~ UnderWay(Filling) /\ PaneShown

\* A session without a working set has no results.
RankingNeedsWorkingSet == ~ wi => ranking = <<>>

IInv == Typed /\ RankingNeedsWorkingSet /\ ExamplesFollow /\ PaneFollows

\* Outstanding is UnderWay of one call.
LEMMA OutstandingFacts ==
    /\ \A call : Outstanding(call) <=> UnderWay({call})
    /\ Refreshing <=> UnderWay(Filling)
<1>1. \A call : Outstanding(call) <=> UnderWay({call})
  BY DEF Outstanding, UnderWay, BagIn, BagToSet
<1>2. UnderWay(Filling) <=> UnderWay({"info"}) \/ UnderWay({"results"})
  BY DEF UnderWay, Filling
<1> QED
  BY <1>1, <1>2 DEF Refreshing

\* A page that is opened asks for both.
LEMMA Initially == Init => IInv
<1> SUFFICES ASSUME Init PROVE IInv
  OBVIOUS
<1>1. <<>> \in Seq(Uuid) /\ Len(<<>>) = 0
  BY EmptySeq
<1>2. IsABag(sent) /\ DOMAIN sent = {"info", "status"} /\ sent["info"] = 1 /\ sent["status"] = 1
  BY DEF Init, SetToBag, IsABag
<1>3. IsABag(answers) /\ DOMAIN answers = {}
  BY DEF Init, EmptyBag, SetToBag, IsABag
<1>4. PaneEmpty /\ pane \in Pane /\ random \in RandomPane /\ pane.displayed <= Len(pane.uuids)
  BY <1>1 DEF Init, PaneEmpty, Pane, RandomPane
<1>5. wi \in BOOLEAN /\ ranking \in Seq(Uuid) /\ examples \subseteq Example /\ RankingNeedsWorkingSet
  <2>1. CASE wi = FALSE /\ ranking = <<>> /\ examples = {}
    BY <1>1, <2>1 DEF RankingNeedsWorkingSet
  <2>2. CASE wi = TRUE /\ ranking \in Rankings /\ examples = Saved
    BY <2>2, RankingsAssumption, SavedAssumption DEF RankingNeedsWorkingSet
  <2> QED
    BY <2>1, <2>2 DEF Init
<1>6. left \in [Event -> Nat] /\ spoilt \in [View -> BOOLEAN] /\ examples_shown = {}
  BY VisitsAssumption DEF Init
<1>7. Typed
  <2>1. DOMAIN sent \subseteq Call
    BY <1>2 DEF Call
  <2> QED
    BY <1>2, <1>3, <1>4, <1>5, <1>6, <2>1 DEF Typed, TypeOK, Pane, RandomPane, BagToSet
<1>8. ExamplesFollow
  BY <1>2, <1>3 DEF ExamplesFollow, Alone
<1>9. PaneFollows
  BY <1>2, <1>3, <1>4 DEF PaneFollows, Alone, Filling
<1> QED
  BY <1>5, <1>7, <1>8, <1>9 DEF IInv

\* A session without a working set has no results, after any step.
LEMMA RankingStep ==
    ASSUME IInv, [Next]_vars PROVE RankingNeedsWorkingSet'
<1>1. CASE UserStep
  BY <1>1, UserFacts DEF IInv, RankingNeedsWorkingSet, serverVars
<1>2. CASE ServerStep
  BY <1>2, ServerFacts DEF IInv, RankingNeedsWorkingSet, ServerTypes
<1>3. CASE Expire
  BY <1>3, ExpireFacts DEF IInv, RankingNeedsWorkingSet
<1>4. CASE Callback
  BY <1>4, CallbackFacts DEF IInv, RankingNeedsWorkingSet, serverVars
<1>5. CASE UNCHANGED vars
  BY <1>5 DEF IInv, RankingNeedsWorkingSet, vars, serverVars
<1> QED
  BY <1>1, <1>2, <1>3, <1>4, <1>5 DEF Next, UserStep

\* The examples stay shown or asked for.
LEMMA ExamplesStep ==
    ASSUME IInv, [Next]_vars PROVE ExamplesFollow'
<1> USE DEF IInv
<1>0. spoilt \in [View -> BOOLEAN]
  BY DEF Typed, TypeOK
<1> SUFFICES ASSUME ~ spoilt'["status"]
             PROVE  /\ Alone({"status"})'
                    /\ \/ Changed(Updating)'
                       \/ "status" \in DOMAIN sent'
                       \/ \E a \in DOMAIN answers' : a.call = "status" /\ (a.ok => a.pos = examples')
                       \/ ~ UnderWay({"status"})' /\ examples_shown' = examples'
  BY DEF ExamplesFollow
<1> DEFINE Shown == \/ Changed(Updating)
                    \/ "status" \in DOMAIN sent
                    \/ \E a \in DOMAIN answers : a.call = "status" /\ (a.ok => a.pos = examples)
                    \/ ~ UnderWay({"status"}) /\ examples_shown = examples
<1>a. ~ spoilt["status"] => Alone({"status"}) /\ Shown
  BY DEF ExamplesFollow
<1>1. CASE UserStep
  <2>1. PICK calls \in SUBSET (Call \ Fetching) : Posted(calls)
    BY <1>1, UserFacts
  <2>2. /\ UNCHANGED <<answers, examples_shown, examples>> /\ ~ spoilt["status"]
    BY <1>1, UserFacts DEF serverVars
  <2>3. {"status"} \cap calls = {}
    BY DEF Fetching
  <2>4. /\ Alone({"status"})'
        /\ {"status"} \cap DOMAIN sent' = {"status"} \cap DOMAIN sent
        /\ UnderWay({"status"})' <=> UnderWay({"status"})
    BY <1>a, <2>1, <2>2, <2>3, AlonePosted
  <2> QED
    BY <1>a, <2>2, <2>4 DEF Changed
<1>2. CASE ServerStep
  <2>1. PICK call \in Call, b \in Answer :
          Taken(call) /\ Given(b) /\ b.call = call /\ Noted(b.ok, call) /\ Told(b)
    BY <1>2, ServerFacts
  <2>2. UNCHANGED examples_shown
    BY <1>2, ServerFacts
  <2>3. ~ spoilt["status"] /\ (examples' = examples \/ (b.ok /\ call \in Updating))
    BY <2>1 DEF Noted
  <2>4. /\ Alone({"status"})'
        /\ call # "status" => DOMAIN sent' \cap {"status"} = DOMAIN sent \cap {"status"}
        /\ \A a \in DOMAIN answers' : a \in DOMAIN answers \/ a = b
        /\ DOMAIN answers \subseteq DOMAIN answers'
    BY <1>a, <2>1, <2>3, AloneServed
  <2>5. b \in DOMAIN answers'
    BY <2>1 DEF Given
  <2>6. CASE b.ok /\ call \in Updating
    BY <2>1, <2>4, <2>5, <2>6 DEF Changed
  <2>7. CASE examples' = examples /\ call = "status"
    BY <2>1, <2>4, <2>5, <2>7 DEF Told
  <2>8. CASE examples' = examples /\ call # "status"
    <3>1. UnderWay({"status"})' => UnderWay({"status"})
      BY <2>1, <2>4, <2>8 DEF UnderWay
    <3>2. Changed(Updating) => Changed(Updating)'
      BY <2>4 DEF Changed
    <3>3. "status" \in DOMAIN sent => "status" \in DOMAIN sent'
      BY <2>4, <2>8
    <3> QED
      BY <1>a, <2>2, <2>3, <2>4, <2>8, <3>1, <3>2, <3>3
  <2> QED
    BY <2>3, <2>6, <2>7, <2>8
<1>3. CASE Expire
  <2>1. /\ UNCHANGED <<sent, answers, examples_shown, examples>> /\ ~ spoilt["status"]
    BY <1>3, ExpireFacts DEF Noted
  <2> QED
    BY <1>a, <2>1 DEF Alone, Changed, UnderWay
<1>4. CASE Callback
  <2>1. PICK a \in DOMAIN answers, calls \in SUBSET Call :
          Gone(a) /\ Posted(calls) /\ StatusHandled(a, calls)
    BY <1>4, CallbackFacts
  <2>2. UNCHANGED examples
    BY <1>4, CallbackFacts DEF serverVars
  <2>3. CASE /\ a.call = "status" /\ a.ok /\ calls = {}
             /\ examples_shown' = a.pos /\ spoilt'["status"] = spoilt["status"]
    <3>1. Alone({"status"})' /\ ~ UnderWay({"status"})'
      BY <1>a, <2>1, <2>3, AloneHeard
    <3>2. CASE Changed(Updating)
      <4>1. PICK c \in DOMAIN answers : c.ok /\ c.call \in Updating
        BY <3>2 DEF Changed
      <4>2. c \in DOMAIN answers'
        BY <2>1, <2>3, <4>1 DEF Gone, Updating
      <4> QED
        BY <3>1, <4>1, <4>2 DEF Changed
    <3>3. CASE "status" \in DOMAIN sent
      BY <1>a, <2>3, <3>3 DEF Alone
    <3>4. CASE \E c \in DOMAIN answers : c.call = "status" /\ (c.ok => c.pos = examples)
      BY <1>a, <2>2, <2>3, <3>1, <3>4 DEF Alone
    <3>5. CASE ~ UnderWay({"status"})
      BY <2>3, <3>5 DEF UnderWay
    <3> QED
      BY <1>a, <2>3, <3>2, <3>3, <3>4, <3>5
  <2>4. CASE a.call = "status" /\ spoilt'["status"]
    BY <2>4
  <2>5. CASE /\ a.ok /\ a.call \in Updating /\ "status" \in calls
             /\ spoilt'["status"] = Outstanding("status")
    <3>1. ~ UnderWay({"status"}) /\ {"status"} \cap calls = {"status"}
      BY <2>5, OutstandingFacts
    <3>2. Alone({"status"})' /\ "status" \in DOMAIN sent'
      BY <2>1, <3>1, AloneStarts
    <3> QED
      BY <3>2
  <2>6. CASE /\ a.call # "status" /\ ~ (a.ok /\ a.call \in Updating) /\ "status" \notin calls
             /\ spoilt'["status"] = spoilt["status"] /\ UNCHANGED examples_shown
    <3>1. /\ Alone({"status"})'
          /\ {"status"} \cap DOMAIN sent' = {"status"} \cap DOMAIN sent
          /\ UnderWay({"status"})' <=> UnderWay({"status"})
          /\ \A b \in DOMAIN answers : b.call = "status" => b \in DOMAIN answers'
      BY <1>a, <2>1, <2>6, AloneHeard
    <3>2. Changed(Updating) => Changed(Updating)'
      BY <2>1, <2>6 DEF Changed, Gone
    <3> QED
      BY <1>a, <2>2, <2>6, <3>1, <3>2
  <2> QED
    BY <2>1, <2>3, <2>4, <2>5, <2>6 DEF StatusHandled
<1>5. CASE UNCHANGED vars
  BY <1>a, <1>5 DEF vars, pageVars, serverVars, Alone, Changed, UnderWay
<1> QED
  BY <1>1, <1>2, <1>3, <1>4, <1>5 DEF Next, UserStep
\* An empty pane is emptied, or shown more of, to no effect; a pane that shows
\* the results shows them still with more of them displayed.
LEMMA StillShown ==
    ASSUME Typed, UNCHANGED ranking, SameResults \/ pane' = ShowMore(pane)
    PROVE  (PaneEmpty => PaneEmpty') /\ (PaneShown => PaneShown')
<1>0. /\ pane \in Pane /\ pane.displayed <= Len(pane.uuids) /\ pane.displayed \in Nat
      /\ Len(pane.uuids) \in Nat /\ ranking \in Seq(Uuid) /\ Len(ranking) \in Nat
      /\ Step \in Nat
  BY StepAssumption DEF Typed, TypeOK, Pane
<1>1. CASE SameResults
  BY <1>1 DEF SameResults, PaneEmpty, PaneShown
<1>2. CASE pane' = ShowMore(pane)
  <2>1. /\ pane' \in Pane /\ pane'.uuids = pane.uuids
        /\ pane'.displayed <= Len(pane.uuids)
        /\ pane.displayed <= pane'.displayed
        /\ pane.uuids # <<>> =>
                /\ Min({Step, Len(pane.uuids)}) <= pane'.displayed
                /\ pane'.bottom_shown
                /\ pane'.more_shown <=> pane'.displayed # Len(pane.uuids)
    BY <1>0, <1>2, ShowMoreFacts
  <2>2. pane'.displayed \in Nat
    BY <2>1 DEF Pane
  <2>3. Len(<<>>) = 0
    BY EmptySeq
  <2>4. PaneEmpty => PaneEmpty'
    BY <2>1, <2>2, <2>3 DEF PaneEmpty
  <2>5. Min({Step, Len(ranking)}) \in Nat
    BY <1>0, MinFacts
  <2>6. ASSUME PaneShown PROVE PaneShown'
    <3>1. Min({Step, Len(ranking)}) <= pane'.displayed
      BY <1>0, <2>1, <2>2, <2>5, <2>6 DEF PaneShown
    <3>2. ranking # <<>> =>
              ((pane'.bottom_shown /\ pane'.more_shown) <=> pane'.displayed < Len(ranking))
      BY <1>0, <2>1, <2>2, <2>6 DEF PaneShown
    <3> QED
      BY <1>0, <2>1, <2>2, <2>5, <2>6, <3>1, <3>2 DEF PaneShown
  <2> QED
    BY <2>4, <2>6
<1> QED
  BY <1>1, <1>2

\* Results that come to an empty pane are shown.
LEMMA NewlyShown ==
    ASSUME Typed, UNCHANGED ranking, NEW p \in Pane, p.uuids = ranking, p.displayed = 0,
           pane' = IF p.uuids = <<>> THEN p ELSE ShowMore(p)
    PROVE  PaneShown'
<1>0. ranking \in Seq(Uuid) /\ Len(ranking) \in Nat /\ Step \in Nat /\ p.displayed <= Len(p.uuids)
  BY StepAssumption DEF Typed, TypeOK
<1>1. CASE ranking = <<>>
  <2>1. Len(ranking) = 0 /\ Min({Step, Len(ranking)}) <= Len(ranking) /\ Min({Step, Len(ranking)}) \in Nat
    BY <1>0, <1>1, MinFacts, EmptySeq
  <2> QED
    BY <1>1, <2>1 DEF PaneShown
<1>2. CASE ranking # <<>>
  <2>1. /\ pane' \in Pane /\ pane'.uuids = ranking
        /\ pane'.displayed <= Len(ranking)
        /\ Min({Step, Len(ranking)}) <= pane'.displayed
        /\ pane'.bottom_shown
        /\ pane'.more_shown <=> pane'.displayed # Len(ranking)
    BY <1>0, <1>2, ShowMoreFacts
  <2>2. pane'.displayed \in Nat /\ Min({Step, Len(ranking)}) \in Nat
    BY <1>0, <2>1, MinFacts DEF Pane
  <2> QED
    BY <1>0, <2>1, <2>2 DEF PaneShown
<1> QED
  BY <1>1, <1>2

\* The pane stays empty and asked for, or shown.
LEMMA PaneStep ==
    ASSUME IInv, [Next]_vars PROVE PaneFollows'
<1>0. Typed /\ spoilt \in [View -> BOOLEAN] /\ ranking \in Seq(Uuid)
  BY DEF Typed, TypeOK, IInv
<1> DEFINE Coming == \/ PaneEmpty /\ Filling \cap DOMAIN sent # {}
                     \/ PaneEmpty /\ \E a \in DOMAIN answers :
                            a.call = "info" /\ (a.ok /\ ~ a.yes => ranking = <<>>)
                     \/ PaneEmpty /\ \E a \in DOMAIN answers :
                            a.call = "results" /\ (a.ok => a.list = ranking)
           Goal == \/ Changed(Refreshers)'
                   \/ PaneEmpty' /\ Filling \cap DOMAIN sent' # {}
                   \/ PaneEmpty' /\ \E a \in DOMAIN answers' :
                          a.call = "info" /\ (a.ok /\ ~ a.yes => ranking' = <<>>)
                   \/ PaneEmpty' /\ \E a \in DOMAIN answers' :
                          a.call = "results" /\ (a.ok => a.list = ranking')
                   \/ ~ UnderWay(Filling)' /\ PaneShown'
<1> SUFFICES ASSUME ~ spoilt'["pane"] PROVE Alone(Filling)' /\ Goal
  BY DEF PaneFollows
<1>a. ~ spoilt["pane"] =>
        /\ Alone(Filling)
        /\ Changed(Refreshers) \/ Coming \/ (~ UnderWay(Filling) /\ PaneShown)
  BY DEF PaneFollows, IInv
<1>1. CASE UserStep
  <2>1. PICK calls \in SUBSET (Call \ Fetching) : Posted(calls)
    BY <1>0, <1>1, UserFacts
  <2>2. /\ UNCHANGED <<answers, ranking>> /\ ~ spoilt["pane"]
        /\ SameResults \/ pane' = ShowMore(pane)
    BY <1>0, <1>1, UserFacts DEF serverVars
  <2>3. Filling \cap calls = {}
    BY DEF Fetching, Filling
  <2>4. /\ Alone(Filling)'
        /\ Filling \cap DOMAIN sent' = Filling \cap DOMAIN sent
        /\ UnderWay(Filling)' <=> UnderWay(Filling)
    BY <1>a, <2>1, <2>2, <2>3, AlonePosted
  <2>5. (PaneEmpty => PaneEmpty') /\ (PaneShown => PaneShown')
    BY <1>0, <2>2, StillShown
  <2> QED
    BY <1>a, <2>2, <2>4, <2>5 DEF Changed
<1>2. CASE ServerStep
  <2>1. PICK call \in Call, b \in Answer :
          Taken(call) /\ Given(b) /\ b.call = call /\ Noted(b.ok, call) /\ Told(b)
    BY <1>0, <1>2, ServerFacts
  <2>2. UNCHANGED pane
    BY <1>0, <1>2, ServerFacts
  <2>3. ~ spoilt["pane"] /\ (ranking' = ranking \/ (b.ok /\ call \in Refreshers))
    BY <2>1 DEF Noted
  <2>4. /\ Alone(Filling)'
        /\ call \notin Filling => DOMAIN sent' \cap Filling = DOMAIN sent \cap Filling
        /\ \A a \in DOMAIN answers' : a \in DOMAIN answers \/ a = b
        /\ DOMAIN answers \subseteq DOMAIN answers'
    BY <1>a, <2>1, <2>3, AloneServed
  <2>5. b \in DOMAIN answers' /\ call \in DOMAIN sent
    BY <2>1 DEF Given, Taken
  <2>6. CASE b.ok /\ call \in Refreshers
    BY <2>1, <2>4, <2>5, <2>6 DEF Changed
  <2>7. CASE Changed(Refreshers)
    BY <2>4, <2>7 DEF Changed
  <2>8. CASE ranking' = ranking /\ call \in Filling /\ ~ Changed(Refreshers)
    <3>1. UnderWay(Filling) /\ \A a \in DOMAIN answers : a.call \notin Filling
      BY <1>a, <2>3, <2>5, <2>8 DEF UnderWay, Alone
    <3>2. PaneEmpty
      BY <1>a, <2>3, <2>8, <3>1
    <3>3. PaneEmpty'
      BY <2>2, <3>2 DEF PaneEmpty
    <3>4. CASE call = "info"
      <4>1. b.ok /\ ~ b.yes => ranking' = <<>>
        BY <2>1, <2>8, <3>4 DEF Told, IInv, RankingNeedsWorkingSet
      <4> QED
        BY <2>1, <2>4, <2>5, <3>3, <3>4, <4>1
    <3>5. CASE call = "results"
      <4>1. b.ok => b.list = ranking'
        BY <2>1, <2>8, <3>5 DEF Told
      <4> QED
        BY <2>1, <2>4, <2>5, <3>3, <3>5, <4>1
    <3> QED
      BY <2>8, <3>4, <3>5 DEF Filling
  <2>9. CASE ranking' = ranking /\ call \notin Filling
    <3>1. UnderWay(Filling)' => UnderWay(Filling)
      BY <2>1, <2>4, <2>9 DEF UnderWay
    <3>2. DOMAIN sent' \cap Filling = DOMAIN sent \cap Filling
      BY <2>4, <2>9
    <3>3. (PaneEmpty => PaneEmpty') /\ (PaneShown => PaneShown')
      BY <2>2, <2>9 DEF PaneEmpty, PaneShown
    <3>4. Changed(Refreshers) => Changed(Refreshers)'
      BY <2>4 DEF Changed
    <3>5. CASE PaneEmpty /\ Filling \cap DOMAIN sent # {}
      BY <2>4, <3>2, <3>3, <3>5
    <3>6. CASE PaneEmpty /\ \E a \in DOMAIN answers :
                            a.call = "info" /\ (a.ok /\ ~ a.yes => ranking = <<>>)
      BY <2>4, <2>9, <3>3, <3>6
    <3>7. CASE PaneEmpty /\ \E a \in DOMAIN answers :
                            a.call = "results" /\ (a.ok => a.list = ranking)
      BY <2>4, <2>9, <3>3, <3>7
    <3> QED
      BY <1>a, <2>3, <2>4, <3>1, <3>3, <3>4, <3>5, <3>6, <3>7
  <2> QED
    BY <2>3, <2>6, <2>7, <2>8, <2>9
<1>3. CASE Expire
  <2>1. /\ UNCHANGED <<pane, sent, answers, ranking>> /\ ~ spoilt["pane"]
    BY <1>0, <1>3, ExpireFacts DEF Noted
  <2> QED
    BY <1>a, <2>1 DEF Alone, Changed, UnderWay, PaneEmpty, PaneShown
<1>4. CASE Callback
  <2>1. PICK a \in DOMAIN answers, calls \in SUBSET Call :
          Gone(a) /\ Posted(calls) /\ PaneHandled(a, calls)
    BY <1>0, <1>4, CallbackFacts
  <2>2. UNCHANGED ranking
    BY <1>0, <1>4, CallbackFacts DEF serverVars
  <2>a. ASSUME a.call \in Filling, spoilt'["pane"] = spoilt["pane"], Changed(Refreshers)
        PROVE  Goal
    <3>1. PICK c \in DOMAIN answers : c.ok /\ c.call \in Refreshers
      BY <2>a DEF Changed
    <3>2. c \in DOMAIN answers'
      BY <2>1, <2>a, <3>1 DEF Gone, Refreshers, Filling
    <3> QED
      BY <3>1, <3>2 DEF Changed
  <2>b. ASSUME a.call \in Filling, spoilt'["pane"] = spoilt["pane"], ~ Changed(Refreshers)
        PROVE  /\ PaneEmpty
               /\ a.call = "info" /\ a.ok /\ ~ a.yes => ranking = <<>>
               /\ a.call = "results" /\ a.ok => a.list = ranking
    <3>1. /\ Filling \cap DOMAIN sent = {} /\ UnderWay(Filling)
          /\ \A c \in DOMAIN answers : c.call \in Filling => c = a
      BY <1>a, <2>b DEF Alone, UnderWay
    <3> QED
      BY <1>a, <2>b, <3>1 DEF Filling
  <2>3. CASE /\ a.call = "info" /\ a.ok /\ calls = {"results"}
             /\ SameResults /\ spoilt'["pane"] = spoilt["pane"]
    <3>1. Alone(Filling)' /\ "results" \in DOMAIN sent'
      <4>1. Filling \cap calls = {"results"} /\ a.call \in Filling
        BY <2>3 DEF Filling
      <4> QED
        BY <1>a, <2>1, <2>3, <4>1, AloneStarts
    <3>2. Filling \cap DOMAIN sent' # {} /\ a.call \in Filling
      BY <2>3, <3>1 DEF Filling
    <3>3. PaneEmpty => PaneEmpty'
      BY <2>3 DEF SameResults, PaneEmpty
    <3> QED
      BY <2>3, <2>a, <2>b, <3>1, <3>2, <3>3
  <2>4. CASE /\ a.call = "info" /\ a.ok /\ ~ a.yes /\ calls = {}
             /\ pane'.uuids = pane.uuids /\ pane'.displayed = pane.displayed
             /\ spoilt'["pane"] = spoilt["pane"]
    <3>1. a.call \in Filling /\ Filling \cap calls = {}
      BY <2>4 DEF Filling
    <3>2. Alone(Filling)' /\ ~ UnderWay(Filling)'
      BY <1>a, <2>1, <2>4, <3>1, AloneHeard
    <3>3. ASSUME ~ Changed(Refreshers) PROVE PaneShown'
      <4>1. PaneEmpty /\ ranking = <<>>
        BY <2>4, <2>b, <3>1, <3>3
      <4>2. Len(<<>>) = 0 /\ Min({Step, Len(<<>>)}) <= Len(<<>>)
        BY EmptySeq, MinFacts, StepAssumption
      <4> QED
        BY <2>2, <2>4, <4>1, <4>2 DEF PaneEmpty, PaneShown
    <3> QED
      BY <2>4, <2>a, <3>1, <3>2, <3>3
  <2>5. CASE a.call \in {"info", "results"} /\ spoilt'["pane"]
    BY <2>5
  <2>6. CASE /\ a.call = "results" /\ a.ok /\ calls = {} /\ spoilt'["pane"] = spoilt["pane"]
             /\ \E p \in Pane :
                  /\ p.uuids = pane.uuids \o a.list /\ p.displayed = pane.displayed
                  /\ p.displayed <= Len(p.uuids)
                  /\ pane' = IF p.uuids = <<>> THEN p ELSE ShowMore(p)
    <3>1. a.call \in Filling /\ Filling \cap calls = {}
      BY <2>6 DEF Filling
    <3>2. Alone(Filling)' /\ ~ UnderWay(Filling)'
      BY <1>a, <2>1, <2>6, <3>1, AloneHeard
    <3>3. ASSUME ~ Changed(Refreshers) PROVE PaneShown'
      <4>1. PaneEmpty /\ a.list = ranking
        BY <2>6, <2>b, <3>1, <3>3
      <4>2. <<>> \o ranking = ranking
        BY <1>0, ConcatEmptySeq
      <4>3. PICK p \in Pane : /\ p.uuids = pane.uuids \o a.list /\ p.displayed = pane.displayed
                              /\ pane' = IF p.uuids = <<>> THEN p ELSE ShowMore(p)
        BY <2>6
      <4>4. p.uuids = ranking /\ p.displayed = 0
        BY <4>1, <4>2, <4>3 DEF PaneEmpty
      <4> QED
        BY <1>0, <2>2, <4>3, <4>4, NewlyShown
    <3> QED
      BY <2>6, <2>a, <3>1, <3>2, <3>3
  <2>7. CASE /\ a.ok /\ a.call \in Refreshers /\ "info" \in calls /\ "results" \notin calls
             /\ pane'.uuids = <<>> /\ pane'.displayed = 0 /\ spoilt'["pane"] = Refreshing
    <3>1. ~ UnderWay(Filling) /\ Filling \cap calls = {"info"}
      BY <2>7, OutstandingFacts DEF Filling
    <3>2. Alone(Filling)' /\ "info" \in DOMAIN sent'
      BY <2>1, <3>1, AloneStarts
    <3> QED
      BY <2>7, <3>2 DEF PaneEmpty, Filling
  <2>8. CASE /\ a.call \notin {"info", "results"} /\ ~ (a.ok /\ a.call \in Refreshers)
             /\ "info" \notin calls /\ "results" \notin calls
             /\ SameResults /\ spoilt'["pane"] = spoilt["pane"]
    <3>0. Filling \cap calls = {} /\ a.call \notin Filling
      BY <2>8 DEF Filling
    <3>1. /\ Alone(Filling)'
          /\ Filling \cap DOMAIN sent' = Filling \cap DOMAIN sent
          /\ UnderWay(Filling)' <=> UnderWay(Filling)
          /\ \A b \in DOMAIN answers : b.call \in Filling => b \in DOMAIN answers'
      BY <1>a, <2>1, <2>8, <3>0, AloneHeard
    <3>2. Changed(Refreshers) => Changed(Refreshers)'
      BY <2>1, <2>8 DEF Changed, Gone
    <3>3. (PaneEmpty => PaneEmpty') /\ (PaneShown => PaneShown')
      BY <1>0, <2>2, <2>8, StillShown
    <3>4. \A b \in DOMAIN answers : b.call = "info" \/ b.call = "results" => b \in DOMAIN answers'
      BY <3>1 DEF Filling
    <3>5. Coming => Goal
      <4>1. CASE PaneEmpty /\ Filling \cap DOMAIN sent # {}
        BY <3>1, <3>3, <4>1
      <4>2. CASE PaneEmpty /\ \E b \in DOMAIN answers :
                            b.call = "info" /\ (b.ok /\ ~ b.yes => ranking = <<>>)
        BY <2>2, <3>3, <3>4, <4>2
      <4>3. CASE PaneEmpty /\ \E b \in DOMAIN answers :
                            b.call = "results" /\ (b.ok => b.list = ranking)
        BY <2>2, <3>3, <3>4, <4>3
      <4> QED
        BY <4>1, <4>2, <4>3
    <3> QED
      BY <1>a, <2>8, <3>1, <3>2, <3>3, <3>5
  <2> QED
    BY <2>1, <2>3, <2>4, <2>5, <2>6, <2>7, <2>8 DEF PaneHandled
<1>5. CASE UNCHANGED vars
  BY <1>a, <1>5 DEF vars, pageVars, serverVars, Alone, Changed, UnderWay, PaneEmpty, PaneShown
<1> QED
  BY <1>1, <1>2, <1>3, <1>4, <1>5 DEF Next, UserStep

-----------------------------------------------------------------------------
(* The random pane *)

RandomShown ==
    /\ IsPrefix(random.shown, random.ids)
    /\ random.shown # <<>> /\ ~ random.more_shown => random.shown = random.ids

\* The ids are shown in order, and while they are asked for, none is.
RandomFollows ==
    ~ spoilt["random"] =>
        /\ Alone({"random"}) /\ RandomShown
        /\ UnderWay({"random"}) => random.shown = <<>> /\ random.more_shown = FALSE

\* A prefix is the first elements.
LEMMA PrefixFacts ==
    ASSUME NEW s \in Seq(Uuid), NEW t \in Seq(Uuid)
    PROVE  /\ IsPrefix(s, t) <=> Len(s) <= Len(t) /\ s = SubSeq(t, 1, Len(s))
           /\ \A n \in 0 .. Len(t) : IsPrefix(SubSeq(t, 1, n), t) /\ Len(SubSeq(t, 1, n)) = n
           /\ IsPrefix(<<>>, t)
<1>1. IsPrefix(s, t) <=> Len(s) <= Len(t) /\ s = SubSeq(t, 1, Len(s))
  BY SubSeqFull DEF IsPrefix
<1>2. ASSUME NEW n \in 0 .. Len(t)
      PROVE  IsPrefix(SubSeq(t, 1, n), t) /\ Len(SubSeq(t, 1, n)) = n
  <2>1. SubSeq(t, 1, n) \in Seq(Uuid) /\ Len(SubSeq(t, 1, n)) = n
    BY SubSeqProperties
  <2>2. SubSeq(SubSeq(t, 1, n), 1, n) = SubSeq(t, 1, n)
    BY <2>1, SubSeqFull
  <2> QED
    BY <2>1, <2>2 DEF IsPrefix
<1>3. IsPrefix(<<>>, t)
  <2>1. SubSeq(t, 1, 0) = <<>> /\ 0 \in 0 .. Len(t)
    BY SubSeqEmpty
  <2>2. IsPrefix(SubSeq(t, 1, 0), t)
    BY <1>2, <2>1
  <2> QED
    BY <2>1, <2>2
<1> QED
  BY <1>1, <1>2, <1>3

\* From where it has come to, the range goes on in order.
LEMMA DisplayFacts ==
    ASSUME NEW r \in RandomPane, IsPrefix(r.shown, r.ids), NEW s \in Nat, s = Len(r.shown)
    PROVE  LET d == DisplayRange(r, s, s + Step)
           IN  /\ IsPrefix(d.shown, d.ids)
               /\ d.shown # <<>> /\ ~ d.more_shown => d.shown = d.ids
<1> DEFINE n == Min({s + Step, Len(r.ids)})
           views == r.shown \o SubSeq(r.ids, s + 1, n)
           q == [r EXCEPT !.shown = views]
           f == Functionals(q)
           more == Len(views) > 0 /\ Len(views) # Len(r.ids)
           d == DisplayRange(r, s, s + Step)
<1>1. /\ r.ids \in Seq(Uuid) /\ r.shown \in Seq(Uuid) /\ Len(r.ids) \in Nat /\ s <= Len(r.ids)
      /\ Step \in Nat \ {0}
  BY StepAssumption DEF RandomPane, IsPrefix
<1>2. n \in Nat /\ n <= Len(r.ids) /\ s <= n
  <2>1. s + Step \in Nat
    BY <1>1
  <2> QED
    BY <1>1, <2>1, MinFacts
<1>3. d = [f EXCEPT !.more_shown = @ /\ Len(views) # Len(r.ids)]
  BY DEF DisplayRange
<1> HIDE DEF n
<1>4. views = SubSeq(r.ids, 1, n)
  <2>1. r.shown = SubSeq(r.ids, 1, s)
    BY <1>1, PrefixFacts
  <2>2. 1 \in 1 .. Len(r.ids) + 1 /\ s \in 1 - 1 .. Len(r.ids) /\ n \in s .. Len(r.ids)
    BY <1>1, <1>2
  <2>3. SubSeq(r.ids, 1, s) \o SubSeq(r.ids, s + 1, n) = SubSeq(r.ids, 1, n)
    BY ONLY <1>1, <2>2, ConcatAdjacentSubSeq
  <2> QED
    BY <2>1, <2>3
<1> HIDE DEF views
<1>5. /\ IsPrefix(views, r.ids) /\ Len(views) = n /\ n \in 0 .. Len(r.ids)
      /\ views \in Seq(Uuid)
  BY <1>1, <1>2, <1>4, PrefixFacts, SubSeqProperties
<1>6. q \in RandomPane /\ q.shown = views /\ q.ids = r.ids
  BY <1>5 DEF RandomPane
<1> HIDE DEF q
<1>7. f \in RandomPane /\ f.shown = views /\ f.ids = r.ids /\ (f.more_shown <=> Len(views) > 0)
  <2> DEFINE some == Len(q.shown) > 0
  <2>1. some \in BOOLEAN /\ f = [q EXCEPT !.refresh_shown = TRUE, !.more_shown = some]
    BY DEF Functionals
  <2> HIDE DEF some, f
  <2>2. f \in RandomPane /\ f.shown = q.shown /\ f.ids = q.ids /\ f.more_shown = some
    BY <1>6, <2>1 DEF RandomPane
  <2> QED
    BY <1>6, <2>2 DEF some
<1> HIDE DEF f, d
<1>8. d.shown = views /\ d.ids = r.ids /\ (d.more_shown <=> more)
  <2>1. d = [f EXCEPT !.more_shown = f.more_shown /\ Len(views) # Len(r.ids)]
    BY <1>3
  <2> DEFINE m == f.more_shown /\ Len(views) # Len(r.ids)
  <2>2. m <=> more
    BY <1>7
  <2>3. d = [f EXCEPT !.more_shown = m]
    BY <2>1
  <2> HIDE DEF m
  <2>4. d.shown = f.shown /\ d.ids = f.ids /\ d.more_shown = m
    BY <1>7, <2>3 DEF RandomPane
  <2> QED
    BY <1>7, <2>2, <2>4
<1>9. views # <<>> /\ ~ more => views = r.ids
  <2> SUFFICES ASSUME views # <<>>, ~ more PROVE views = r.ids
    OBVIOUS
  <2>1. Len(views) > 0
    BY <1>5
  <2>2. Len(views) = Len(r.ids)
    BY <2>1
  <2>3. views = SubSeq(r.ids, 1, Len(r.ids))
    BY <1>4, <1>5, <2>2
  <2> QED
    BY <1>1, <2>3, SubSeqFull
<1>10. IsPrefix(d.shown, d.ids) /\ (d.shown # <<>> /\ ~ d.more_shown => d.shown = d.ids)
  BY <1>5, <1>8, <1>9
<1> QED
  BY <1>10 DEF d

\* The random pane does not change, but for being switched off.
LEMMA RandomKept ==
    ASSUME RandomFollows, spoilt'["random"] = spoilt["random"],
           random'.shown = random.shown, random'.ids = random.ids,
           random'.more_shown = random.more_shown,
           Alone({"random"}) => Alone({"random"})', UnderWay({"random"})' => UnderWay({"random"})
    PROVE  RandomFollows'
BY DEF RandomFollows, RandomShown

\* A refresh of the random pane leaves it empty, and the ids asked for.
LEMMA RandomAsked ==
    ASSUME Typed, NEW r \in RandomPane, RefreshRandom(r), UNCHANGED answers
    PROVE  RandomFollows'
<1> SUFFICES ASSUME ~ spoilt'["random"] PROVE RandomFollows'
  BY DEF RandomFollows
<1>1. /\ Posted({"random"}) /\ spoilt'["random"] = Outstanding("random")
      /\ random'.shown = <<>> /\ random'.ids = r.ids /\ random'.more_shown = FALSE
  BY RefreshRandomFacts
<1>2. ~ UnderWay({"random"})
  BY <1>1, OutstandingFacts
<1>3. Alone({"random"})'
  BY <1>1, <1>2 DEF Posted, UnderWay, Alone
<1>4. IsPrefix(<<>>, r.ids)
  BY PrefixFacts, EmptySeq DEF RandomPane
<1> QED
  BY <1>1, <1>3, <1>4 DEF RandomFollows, RandomShown

\* The ids stay in order.
LEMMA RandomStep ==
    ASSUME Typed, RandomFollows, [Next]_vars PROVE RandomFollows'
<1>0. random \in RandomPane /\ IsABag(sent) /\ spoilt \in [View -> BOOLEAN]
  BY DEF Typed, TypeOK, RandomPane
<1>a. ASSUME NEW calls, Posted(calls), "random" \notin calls, UNCHANGED answers
      PROVE  /\ Alone({"random"}) => Alone({"random"})'
             /\ UnderWay({"random"})' <=> UnderWay({"random"})
  BY <1>a, AlonePosted
<1>b. UNCHANGED sent => Posted({})
  BY <1>0 DEF Posted
<1>c. ASSUME UNCHANGED <<sent, answers>>
      PROVE  /\ Alone({"random"}) => Alone({"random"})'
             /\ UnderWay({"random"})' <=> UnderWay({"random"})
  BY <1>a, <1>b, <1>c
<1>1. CASE UserStep
  <2>0. UNCHANGED answers
    BY <1>1, UserFacts
  <2>1. ASSUME NEW calls, Posted(calls), "random" \notin calls, UNCHANGED <<random, spoilt>>
        PROVE  RandomFollows'
    BY <1>a, <2>0, <2>1, RandomKept
  <2>2. CASE ClickToggle
    <3>1. CASE random' = ToggleOff(random) /\ UNCHANGED <<sent, spoilt>>
      <4>1. /\ random'.shown = random.shown /\ random'.ids = random.ids
            /\ random'.more_shown = random.more_shown
        BY <1>0, <3>1 DEF ToggleOff, RandomPane
      <4> QED
        BY <1>c, <2>0, <3>1, <4>1, RandomKept
    <3>2. CASE RefreshRandom([random EXCEPT !.enabled = TRUE])
      <4>1. [random EXCEPT !.enabled = TRUE] \in RandomPane
        BY <1>0 DEF RandomPane
      <4> QED
        BY <2>0, <3>2, <4>1, RandomAsked
    <3> QED
      BY <2>2, <3>1, <3>2 DEF ClickToggle, Toggle
  <2>3. CASE ClickRandomRefresh
    BY <1>0, <2>0, <2>3, RandomAsked DEF ClickRandomRefresh
  <2>4. CASE ClickRandomMore
    <3> DEFINE n == Len(random.shown)
    <3>1. /\ random.more_shown /\ random' = DisplayRange(random, n, n + Step)
          /\ UNCHANGED <<sent, answers, spoilt>>
      BY <2>4 DEF ClickRandomMore, MoreRandom
    <3> SUFFICES ASSUME ~ spoilt["random"] PROVE RandomFollows'
      BY <3>1 DEF RandomFollows
    <3>2. n \in Nat /\ IsPrefix(random.shown, random.ids) /\ Alone({"random"}) /\ ~ UnderWay({"random"})
      BY <1>0, <3>1 DEF RandomFollows, RandomShown, RandomPane
    <3>3. RandomShown'
      BY <1>0, <3>1, <3>2, DisplayFacts DEF RandomShown
    <3> QED
      BY <1>c, <3>1, <3>2, <3>3 DEF RandomFollows
  <2>5. CASE ClickMore
    BY <1>b, <2>1, <2>5 DEF ClickMore
  <2>6. CASE ClickRefine
    <3>1. Posted({"refine"})
      BY <2>6, RefineFacts DEF ClickRefine
    <3> QED
      BY <2>1, <2>6, <3>1 DEF ClickRefine
  <2>7. CASE ClickInitialize \/ ClickReset \/ Uploaded("ingest", "ingest") \/ Uploaded("load", "load_reset")
    <3>1. PICK c \in {"initialize", "reset", "ingest", "load_reset"} :
            Send({c}) /\ UNCHANGED <<random, spoilt>>
      BY <2>7 DEF ClickInitialize, ClickReset, Uploaded
    <3>2. Posted({c}) /\ "random" \notin {c}
      BY <3>1, SendFacts
    <3> QED
      BY <2>1, <3>1, <3>2
  <2> QED
    BY <1>1, <2>2, <2>3, <2>4, <2>5, <2>6, <2>7 DEF UserStep
<1>2. CASE ServerStep
  <2>1. PICK call \in Call, b \in Answer :
          Taken(call) /\ Given(b) /\ b.call = call /\ Noted(b.ok, call)
    BY <1>2, ServerFacts
  <2>2. UNCHANGED random /\ spoilt'["random"] = spoilt["random"]
    BY <1>2, <2>1, ServerFacts DEF Noted
  <2>3. Alone({"random"}) => Alone({"random"})'
    BY <2>1, AloneServed
  <2>4. UnderWay({"random"})' => UnderWay({"random"})
    BY <2>1 DEF UnderWay, Taken, Given
  <2> QED
    BY <2>2, <2>3, <2>4, RandomKept
<1>3. CASE Expire
  <2>1. UNCHANGED <<random, sent, answers>> /\ spoilt'["random"] = spoilt["random"]
    BY <1>3, ExpireFacts DEF Noted
  <2> QED
    BY <1>c, <2>1, RandomKept
<1>4. CASE Callback
  <2>1. PICK a \in DOMAIN answers :
        \/ (OnInfo(a) \/ OnResults(a) \/ OnRefine(a) \/ OnRandom(a)) /\ UNCHANGED examples_shown
        \/ OnStatus(a)
        \/ OnInitialize(a)
        \/ OnReset(a)
        \/ OnSetState(a)
        \/ OnIngest(a)
    BY <1>4 DEF Callback, BagToSet
  <2>2. a \in Answer /\ Gone(a)
    <3>1. Heard(a)
      BY <2>1 DEF OnInfo, OnResults, OnRefine, OnRandom, OnStatus, OnInitialize, OnReset,
                  OnSetState, OnIngest
    <3> QED
      BY <3>1, HeardFacts DEF Typed, TypeOK, BagToSet
  <2>3. ASSUME NEW calls, Send(calls) \/ (UNCHANGED sent /\ calls = {}), "random" \notin calls,
               spoilt'["random"] = spoilt["random"],
               random'.shown = random.shown, random'.ids = random.ids,
               random'.more_shown = random.more_shown, a.call # "random"
        PROVE  RandomFollows'
    <3>1. Posted(calls)
      BY <1>b, <2>3, SendFacts
    <3>2. /\ Alone({"random"}) => Alone({"random"})'
          /\ UnderWay({"random"})' <=> UnderWay({"random"})
      <4>1. {"random"} \cap calls = {} /\ a.call \notin {"random"}
        BY <2>3
      <4> QED
        BY ONLY <2>1, <2>2, <3>1, <4>1, AloneHeard
    <3> QED
      BY <2>3, <3>2, RandomKept
  <2>4. CASE OnInfo(a)
    <3>1. spoilt'["random"] = spoilt["random"]
      BY <1>0, <2>4 DEF OnInfo, View
    <3>2. (Send({"results"}) \/ UNCHANGED sent) /\ UNCHANGED random /\ a.call # "random"
      BY <2>4 DEF OnInfo
    <3> QED
      BY <2>3, <3>1, <3>2
  <2>5. CASE OnResults(a)
    <3>1. spoilt'["random"] = spoilt["random"]
      BY <1>0, <2>5 DEF OnResults, View
    <3>2. UNCHANGED <<sent, random>> /\ a.call # "random"
      BY <2>5 DEF OnResults
    <3> QED
      BY <2>3, <3>1, <3>2
  <2>6. CASE OnRefine(a)
    <3>1. spoilt'["random"] = spoilt["random"]
      BY <1>0, <2>6, SpoilsFacts DEF OnRefine
    <3>2. (Send({} \cup {"info"}) \/ UNCHANGED sent) /\ UNCHANGED random /\ a.call # "random"
      BY <2>6 DEF OnRefine, Refresh
    <3> QED
      BY <2>3, <3>1, <3>2
  <2>7. CASE OnRandom(a)
    <3> SUFFICES ASSUME ~ spoilt'["random"] PROVE RandomFollows'
      BY DEF RandomFollows
    <3>1. UNCHANGED <<sent, spoilt>> /\ a.call = "random"
      BY <2>7 DEF OnRandom
    <3>2. Posted({}) /\ ~ spoilt["random"] /\ {"random"} \cap {} = {}
      BY <1>b, <3>1
    <3>3. /\ Alone({"random"}) /\ UnderWay({"random"}) /\ RandomShown
          /\ random.shown = <<>> /\ random.more_shown = FALSE
      BY <3>1, <3>2 DEF RandomFollows, UnderWay
    <3>4. Alone({"random"})' /\ ~ UnderWay({"random"})'
      BY <2>2, <3>1, <3>2, <3>3, AloneHeard
    <3> DEFINE q == [random EXCEPT !.ids = a.list]
               r == IF a.ok THEN DisplayRange(q, 0, Step) ELSE random
    <3>5. random' = [Functionals(r) EXCEPT !.bar = FALSE]
      BY <2>7 DEF OnRandom
    <3>6. q \in RandomPane /\ q.shown = <<>>
      BY <1>0, <2>2, <3>3 DEF Answer, RandomPane
    <3> HIDE DEF q
    <3>7. r \in RandomPane /\ IsPrefix(r.shown, r.ids)
      <4>1. CASE a.ok
        <5>1. /\ q.shown = <<>> /\ q.ids \in Seq(Uuid) /\ 0 \in Nat /\ 0 = Len(q.shown)
              /\ 0 + Step = Step /\ Step \in Nat
          BY <3>6, EmptySeq, StepAssumption DEF RandomPane
        <5>2. IsPrefix(q.shown, q.ids)
          BY <5>1, PrefixFacts, EmptySeq
        <5>3. DisplayRange(q, 0, Step) \in RandomPane
          BY <3>6, <5>1, RandomFacts
        <5>4. IsPrefix(DisplayRange(q, 0, 0 + Step).shown, DisplayRange(q, 0, 0 + Step).ids)
          BY <3>6, <5>1, <5>2, DisplayFacts
        <5> QED
          BY <4>1, <5>1, <5>3, <5>4
      <4>2. CASE ~ a.ok
        BY <1>0, <3>3, <4>2 DEF RandomShown
      <4> QED
        BY <4>1, <4>2
    <3> HIDE DEF r
    <3>8. /\ random'.shown = r.shown /\ random'.ids = r.ids
          /\ random'.more_shown <=> Len(r.shown) > 0
      <4> DEFINE some == Len(r.shown) > 0
      <4>1. random' = [enabled |-> r.enabled, ids |-> r.ids, shown |-> r.shown, bar |-> FALSE,
                       refresh_shown |-> TRUE, more_shown |-> some]
        <5>1. Functionals(r) = [r EXCEPT !.refresh_shown = TRUE, !.more_shown = some]
          BY DEF Functionals
        <5> HIDE DEF some
        <5> QED
          BY <3>5, <3>7, <5>1 DEF RandomPane
      <4> QED
        BY <4>1
    <3>9. r.shown # <<>> => Len(r.shown) > 0
      BY <3>7 DEF RandomPane
    <3> QED
      BY <3>4, <3>7, <3>8, <3>9 DEF RandomFollows, RandomShown
  <2>8. CASE OnStatus(a)
    <3>1. spoilt'["random"] = spoilt["random"]
      BY <1>0, <2>8 DEF OnStatus, View
    <3>2. UNCHANGED <<sent, random>> /\ a.call # "random"
      BY <2>8 DEF OnStatus
    <3> QED
      BY <2>3, <3>1, <3>2
  <2>9. CASE OnInitialize(a)
    <3>1. (Send({"refine"}) \/ UNCHANGED sent) /\ UNCHANGED <<random, spoilt>> /\ a.call # "random"
      BY <2>9 DEF OnInitialize, Refine
    <3> QED
      BY <2>3, <3>1
  <2>10. CASE OnReset(a)
    <3>1. spoilt'["random"] = spoilt["random"]
      BY <1>0, <2>10, SpoilsFacts DEF OnReset
    <3>2. /\ random'.shown = random.shown /\ random'.ids = random.ids
          /\ random'.more_shown = random.more_shown
      BY <1>0, <2>10 DEF OnReset, ToggleOff, RandomPane
    <3>3. a.call # "random"
      BY <2>10 DEF OnReset
    <3>4. \/ UNCHANGED sent
          \/ \E calls \in SUBSET {"status", "set_state", "info"} : Send(calls)
      <4>1. \A calls \in SUBSET {"status", "set_state"} :
               Refresh(pane, calls) => \E c \in SUBSET {"status", "set_state", "info"} : Send(c)
        BY DEF Refresh
      <4> QED
        BY <2>10, <4>1 DEF OnReset
    <3> QED
      BY <2>3, <3>1, <3>2, <3>3, <3>4
  <2>11. CASE OnSetState(a) \/ OnIngest(a)
    <3>1. spoilt'["random"] = spoilt["random"]
      BY <1>0, <2>11, SpoilsFacts DEF OnSetState, OnIngest
    <3>2. UNCHANGED random /\ a.call # "random"
      BY <2>11 DEF OnSetState, OnIngest
    <3>3. UNCHANGED sent \/ Send({"status"}) \/ Send({"status", "initialize"})
      BY <2>11 DEF OnSetState, OnIngest
    <3> QED
      BY <2>3, <3>1, <3>2, <3>3
  <2> QED
    BY <2>1, <2>4, <2>5, <2>6, <2>7, <2>8, <2>9, <2>10, <2>11
<1>5. CASE UNCHANGED vars
  BY <1>5 DEF vars, pageVars, RandomFollows, RandomShown, Alone, UnderWay
<1> QED
  BY <1>1, <1>2, <1>3, <1>4, <1>5 DEF Next, UserStep

\* The random pane is empty when the page is opened, and asks for nothing.
LEMMA RandomInitially == Init => RandomFollows
<1> SUFFICES ASSUME Init PROVE RandomFollows
  OBVIOUS
<1>1. DOMAIN sent = {"info", "status"} /\ DOMAIN answers = {}
  BY DEF Init, SetToBag, EmptyBag
<1>2. random.shown = <<>> /\ random.ids = <<>>
  BY DEF Init
<1>3. IsPrefix(random.shown, random.ids)
  BY <1>2, PrefixFacts, EmptySeq
<1> QED
  BY <1>1, <1>2, <1>3 DEF RandomFollows, RandomShown, Alone, UnderWay

-----------------------------------------------------------------------------
(* The theorems *)

\* The inductive invariant holds in every state.
LEMMA Invariance == Spec => []IInv
<1>1. IInv /\ [Next]_vars => IInv'
  <2> SUFFICES ASSUME IInv, [Next]_vars PROVE IInv'
    OBVIOUS
  <2>1. Typed'
    BY TypedNext DEF IInv
  <2> QED
    BY <2>1, RankingStep, ExamplesStep, PaneStep DEF IInv
<1> QED
  BY <1>1, Initially, PTL DEF Spec

\* The page keeps its types, and a pane displays no more than it has.
THEOREM TypeCorrect == Spec => []TypeOK
<1>1. IInv => TypeOK
  BY DEF IInv, Typed
<1> QED
  BY <1>1, Invariance, PTL

\* At rest nothing is sent and nothing is to be heard.
LEMMA QuietFacts == ASSUME Quiet PROVE DOMAIN sent = {} /\ DOMAIN answers = {}
BY DEF Quiet, EmptyBag, SetToBag

\* At rest the positive examples shown are the session's (smqtk.iqr_status_view.js),
\* but for the marked causes.
THEOREM ExamplesAreShown == Spec => []ExamplesShown
<1>1. IInv => ExamplesShown
  BY QuietFacts DEF IInv, ExamplesFollow, ExamplesShown, Changed
<1> QED
  BY <1>1, Invariance, PTL

\* At rest the refine pane shows the session's results (update_refine_pane),
\* but for the marked causes.
THEOREM ResultsAreShown == Spec => []PaneShowsModel
<1>1. IInv => PaneShowsModel
  BY QuietFacts DEF IInv, PaneFollows, PaneShowsModel, Changed, PaneShown
<1> QED
  BY <1>1, Invariance, PTL
\* The random pane shows its ids in order, each once, and offers more while
\* there are more (display_random_results_range), but for overlapping refreshes.
THEOREM RandomIsInOrder == Spec => []RandomInOrder
<1>1. IInv /\ RandomFollows /\ [Next]_vars => RandomFollows'
  BY RandomStep DEF IInv
<1>2. RandomFollows => RandomInOrder
  BY DEF RandomFollows, RandomShown, RandomInOrder
<1> QED
  BY <1>1, <1>2, RandomInitially, Invariance, PTL DEF Spec
=============================================================================
