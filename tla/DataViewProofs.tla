-------------------------- MODULE DataViewProofs --------------------------
(***************************************************************************)
(* The invariants of DataView, for any number of views, elements, clicks   *)
(* and requests under way.                                                 *)
(***************************************************************************)
EXTENDS DataView, TLAPS

-----------------------------------------------------------------------------
(* Types *)

\* The types, with bags of requests and of answers.  No answer calls an element
\* both positive and negative.
Typed ==
    /\ TypeOK
    /\ IsABag(sent) /\ IsABag(answers)
    /\ \A a \in DOMAIN answers : ~(a.is_pos /\ a.is_neg)

\* A click keeps the types.
LEMMA ClickTypes ==
    ASSUME Typed, NEW v \in View, NEW call \in Adjudication, Click(v, call)
    PROVE  /\ IsABag(sent') /\ BagToSet(sent') \subseteq Request
           /\ spoilt' \subseteq View
           /\ left' \in [views : SUBSET View, clicks : Nat, failures : Nat]
           /\ UNCHANGED <<made, image, loaded, label, answers>>
<1> DEFINE new == {[view |-> v, call |-> c] : c \in {call} \cup IF loaded[v] THEN {} ELSE {"get_preview"}}
<1>1. sent' = sent (+) SetToBag(new)
  BY DEF Click, Send
<1>2. new \subseteq Request
  BY DEF Request, Call
<1>3. IsABag(sent') /\ DOMAIN sent' = DOMAIN sent \cup new
  BY <1>1 DEF (+), SetToBag, IsABag, Typed
<1>4. spoilt' \subseteq View
  BY DEF Typed, TypeOK, Click, Others
<1>5. left' \in [views : SUBSET View, clicks : Nat, failures : Nat]
  BY DEF Typed, TypeOK, Click
<1> QED
  BY <1>2, <1>3, <1>4, <1>5 DEF Typed, TypeOK, Click, BagToSet

\* Every step keeps the types.
LEMMA TypedStep == Typed /\ [Next]_vars => Typed'
<1> SUFFICES ASSUME Typed, [Next]_vars PROVE Typed'
  OBVIOUS
<1>0. TypeOK
  BY DEF Typed
<1>1. CASE UNCHANGED vars
  BY <1>1 DEF vars, viewVars, Typed, TypeOK, BagToSet
<1>2. ASSUME NEW v \in View, Make(v) PROVE Typed'
  <2> DEFINE new == {[view |-> v, call |-> c] : c \in {"get_adjudication", "get_preview"}}
  <2>1. sent' = sent (+) SetToBag(new)
    BY <1>2 DEF Make, Send
  <2>2. new \subseteq Request
    BY DEF Request, Call
  <2> HIDE DEF new
  <2>3. IsABag(sent') /\ BagToSet(sent') \subseteq Request
    <3>1. IsABag(sent') /\ DOMAIN sent' = DOMAIN sent \cup new
      BY <2>1 DEF (+), SetToBag, IsABag, Typed
    <3> QED
      BY <1>0, <2>2, <3>1 DEF TypeOK, BagToSet
  <2>4. spoilt' \subseteq View /\ made' \subseteq View
    BY <1>0, <1>2 DEF Make, TypeOK
  <2> QED
    BY <1>2, <2>3, <2>4 DEF Make, Typed, TypeOK, BagToSet
<1>3. ASSUME NEW v \in View, SetPositive(v) PROVE Typed'
  <2>1. PICK call \in Adjudication : Click(v, call)
    BY <1>3 DEF SetPositive, Adjudication
  <2>2. /\ is_positive' \in [View -> BOOLEAN] /\ is_negative' \in [View -> BOOLEAN]
        /\ \A w \in View : ~(is_positive'[w] /\ is_negative'[w])
    BY <1>0, <1>3 DEF SetPositive, TypeOK
  <2> QED
    BY <1>0, <2>1, <2>2, ClickTypes DEF Typed, TypeOK
<1>4. ASSUME NEW v \in View, SetNegative(v) PROVE Typed'
  <2>1. PICK call \in Adjudication : Click(v, call)
    BY <1>4 DEF SetNegative, Adjudication
  <2>2. /\ is_positive' \in [View -> BOOLEAN] /\ is_negative' \in [View -> BOOLEAN]
        /\ \A w \in View : ~(is_positive'[w] /\ is_negative'[w])
    BY <1>0, <1>4 DEF SetNegative, TypeOK
  <2> QED
    BY <1>0, <2>1, <2>2, ClickTypes DEF Typed, TypeOK
<1>5. CASE Serve
  <2>1. PICK r \in BagToSet(sent) :
           /\ sent' = sent (-) SetToBag({r})
           /\ CarryOut(r) \/ UNCHANGED label
           /\ \E ok, yes \in BOOLEAN : Answered(r, ok, yes)
           /\ UNCHANGED left \/ Fails
           /\ UNCHANGED <<viewVars, spoilt>>
    BY <1>5 DEF Serve
  <2>2. PICK ok, yes \in BOOLEAN : Answered(r, ok, yes)
    BY <2>1
  <2>3. r \in Request
    BY <1>0, <2>1 DEF TypeOK
  <2>4. IsABag(sent') /\ BagToSet(sent') \subseteq Request
    BY <1>0, <2>1 DEF (-), SetToBag, IsABag, Typed, TypeOK, BagToSet
  <2> DEFINE asked == ok /\ r.call = "get_adjudication"
             a == [view |-> r.view, call |-> r.call, ok |-> ok, yes |-> yes,
                   is_pos |-> asked /\ label[ElementOf[r.view]] = "positive",
                   is_neg |-> asked /\ label[ElementOf[r.view]] = "negative"]
  <2>5. a \in Answer /\ ~(a.is_pos /\ a.is_neg)
    BY <2>3 DEF Answer, Request
  <2>6. answers' = answers (+) SetToBag({a})
    BY <2>2 DEF Answered
  <2>7. IsABag(answers') /\ DOMAIN answers' = DOMAIN answers \cup {a}
    BY <2>6 DEF (+), SetToBag, IsABag, Typed
  <2>8. label' \in [Element -> Label]
    BY <1>0, <2>1, <2>3 DEF TypeOK, CarryOut, Adjudicated, Label
  <2>9. left' \in [views : SUBSET View, clicks : Nat, failures : Nat]
    BY <1>0, <2>1 DEF TypeOK, Fails
  <2> QED
    BY <1>0, <2>1, <2>4, <2>5, <2>7, <2>8, <2>9 DEF Typed, TypeOK, BagToSet, viewVars
<1>6. CASE Callback
  <2>1. PICK a \in BagToSet(answers) :
           /\ Heard(a)
           /\ OnAdjudication(a) \/ OnPreview(a) \/ OnAdjudicated(a)
           /\ UNCHANGED <<made, label, sent, left>>
    BY <1>6 DEF Callback
  <2>2. a \in Answer /\ ~(a.is_pos /\ a.is_neg)
    BY <1>0, <2>1 DEF Typed, TypeOK, BagToSet
  <2>3. IsABag(answers') /\ DOMAIN answers' \subseteq DOMAIN answers
    BY <2>1 DEF (-), SetToBag, IsABag, Typed, Heard, BagToSet
  <2>4. /\ is_positive' \in [View -> BOOLEAN] /\ is_negative' \in [View -> BOOLEAN]
        /\ \A w \in View : ~(is_positive'[w] /\ is_negative'[w])
    BY <1>0, <2>1, <2>2 DEF TypeOK, Answer, OnAdjudication, OnPreview, OnAdjudicated
  <2>5. image' \in [View -> Picture] /\ loaded' \in [View -> BOOLEAN] /\ spoilt' \subseteq View
    BY <1>0, <2>1, <2>2
    DEF TypeOK, Answer, OnAdjudication, OnPreview, OnAdjudicated, Picture, Others
  <2> QED
    BY <1>0, <2>1, <2>3, <2>4, <2>5 DEF Typed, TypeOK, BagToSet
<1> QED
  BY <1>1, <1>2, <1>3, <1>4, <1>5, <1>6 DEF Next

-----------------------------------------------------------------------------
(* What a view shows *)

\* As long as r is under way, what view v shows may not be settled.
Unsets(r, v) ==
    \/ r.call \in Adjudication /\ ElementOf[r.view] = ElementOf[v]
    \/ r.call = "get_adjudication" /\ r.view = v

\* The label an adjudication gives, whatever it was before.
Target(call) == Adjudicated(call, "neutral")

\* A view that shows the label, or will when what is under way has been heard
\* of: that is one request or its answer.
Follows(v) ==
    /\ ~ Unsettled(v) => Shown(v) = label[ElementOf[v]]
    /\ \A r \in DOMAIN sent : Unsets(r, v) =>
         /\ sent[r] = 1
         /\ r.call \in Adjudication => Shown(v) = Target(r.call)
         /\ \A q \in DOMAIN sent : Unsets(q, v) => q = r
         /\ \A a \in DOMAIN answers : ~ Unsets(a, v)
    /\ \A a \in DOMAIN answers : Unsets(a, v) =>
         /\ answers[a] = 1
         /\ \A b \in DOMAIN answers : Unsets(b, v) => b = a
         /\ a.ok /\ a.call \in Adjudication => Shown(v) = label[ElementOf[v]]
         /\ a.ok /\ a.call = "get_adjudication" =>
              /\ a.is_pos <=> label[ElementOf[v]] = "positive"
              /\ a.is_neg <=> label[ElementOf[v]] = "negative"

\* Each view follows the session's label, but for those with a cause not to.
Following == \A v \in made \ spoilt : Follows(v)

\* What Unsettled says of the two bags.
LEMMA UnsettledBy ==
    ASSUME NEW v
    PROVE  /\ Unsettled(v) <=> \/ \E r \in DOMAIN sent : Unsets(r, v)
                               \/ \E a \in DOMAIN answers : Unsets(a, v)
           /\ Unsettled(v)' <=> \/ \E r \in DOMAIN sent' : Unsets(r, v)
                                \/ \E a \in DOMAIN answers' : Unsets(a, v)
<1> DEFINE put(a) == [view |-> a.view, call |-> a.call]
<1>1. Unsettled(v) <=> \E r \in Waiting : Unsets(r, v)
  BY DEF Unsettled, Unsets
<1>2. \A r : r \in Waiting <=> r \in DOMAIN sent \/ \E a \in DOMAIN answers : r = put(a)
  BY DEF Waiting, BagToSet
<1>3. Unsettled(v)' <=> \E r \in Waiting' : Unsets(r, v)
  BY DEF Unsettled, Unsets
<1>4. \A r : r \in Waiting' <=> r \in DOMAIN sent' \/ \E a \in DOMAIN answers' : r = put(a)
  BY DEF Waiting, BagToSet
<1>5. \A a : Unsets(put(a), v) <=> Unsets(a, v)
  BY DEF Unsets
<1> QED
  BY <1>1, <1>2, <1>3, <1>4, <1>5

\* What an adjudication is carried out as.
LEMMA TargetOf ==
    ASSUME NEW call \in Adjudication, NEW was
    PROVE  Adjudicated(call, was) = Target(call)
BY DEF Adjudicated, Target, Adjudication

\* A click, after which the view shows what the click tells the server.
LEMMA ClickFollows ==
    ASSUME Typed, Following, NEW v \in View, NEW call \in Adjudication, Click(v, call),
           Shown(v)' = Target(call),
           \A w \in View \ {v} : Shown(w)' = Shown(w)
    PROVE  Following'
<1> DEFINE new == {[view |-> v, call |-> c] : c \in {call} \cup IF loaded[v] THEN {} ELSE {"get_preview"}}
           told == [view |-> v, call |-> call]
<1>1. sent' = sent (+) SetToBag(new) /\ UNCHANGED <<made, label, answers>>
  BY DEF Click, Send
<1>2. told \in new /\ \A r \in new : r.view = v /\ (r = told \/ r.call = "get_preview")
  OBVIOUS
<1> HIDE DEF new
<1>3. /\ DOMAIN sent' = DOMAIN sent \cup new
      /\ \A r \in DOMAIN sent : r \notin new => sent'[r] = sent[r]
      /\ \A r \in new : r \notin DOMAIN sent => sent'[r] = 1
  <2>1. IsABag(sent) /\ sent' = sent (+) SetToBag(new)
    BY <1>1 DEF Typed
  <2> QED
    BY <2>1 DEF (+), SetToBag, IsABag
<1>4. \A r \in new, w \in View : Unsets(r, w) => r = told /\ ElementOf[w] = ElementOf[v]
  BY <1>2 DEF Unsets, Adjudication
<1>5. Unsets(told, v)
  BY DEF Unsets
<1> SUFFICES ASSUME NEW w \in made' \ spoilt' PROVE Follows(w)'
  BY DEF Following
<1>6. w \in made /\ w \in View /\ w \notin Others(v)
  BY <1>1 DEF Click, Typed, TypeOK
<1>7. CASE w = v
  <2>1. ~ Unsettled(v)
    BY <1>7 DEF Click
  <2>2. /\ \A r \in DOMAIN sent : ~ Unsets(r, v)
        /\ \A a \in DOMAIN answers : ~ Unsets(a, v)
    BY <2>1, UnsettledBy
  <2>3. \A r \in DOMAIN sent' : Unsets(r, v) => r = told /\ sent'[r] = 1
    BY <1>3, <1>4, <2>2
  <2>4. \A a \in DOMAIN answers' : ~ Unsets(a, v)
    BY <1>1, <2>2
  <2>5. Unsettled(v)'
    BY <1>2, <1>3, <1>5, UnsettledBy
  <2> QED
    BY <1>7, <2>3, <2>4, <2>5 DEF Follows
<1>8. CASE w # v
  <2>1. ElementOf[w] # ElementOf[v]
    BY <1>6, <1>8 DEF Others
  <2>2. \A r \in new : ~ Unsets(r, w)
    BY <1>4, <1>6, <2>1
  <2>3. Follows(w) /\ Shown(w)' = Shown(w)
    BY <1>6, <1>8 DEF Following, Click
  <2>4. Unsettled(w)' <=> Unsettled(w)
    BY <1>1, <1>3, <2>2, UnsettledBy
  <2> QED
    BY <1>1, <1>3, <2>2, <2>3, <2>4 DEF Follows
<1> QED
  BY <1>7, <1>8

\* The server carries a request out, or fails to.
LEMMA ServeFollows == Typed /\ Following /\ Serve => Following'
<1> SUFFICES ASSUME Typed, Following, Serve PROVE Following'
  OBVIOUS
<1>0. TypeOK
  BY DEF Typed
<1>1. PICK r \in BagToSet(sent) :
         /\ sent' = sent (-) SetToBag({r})
         /\ \E ok, yes \in BOOLEAN : Answered(r, ok, yes) /\ (~ CarryOut(r) => UNCHANGED label /\ ~ ok)
         /\ UNCHANGED <<viewVars, spoilt>>
  <2>1. PICK r \in BagToSet(sent) :
           /\ sent' = sent (-) SetToBag({r})
           /\ \/ CarryOut(r) /\ Answered(r, TRUE, r.call = "get_preview")
              \/ r.call = "get_preview" /\ Answered(r, TRUE, FALSE) /\ UNCHANGED label
              \/ (CarryOut(r) \/ UNCHANGED label) /\ Answered(r, FALSE, FALSE)
           /\ UNCHANGED <<viewVars, spoilt>>
    BY DEF Serve
  <2>2. CASE CarryOut(r) /\ Answered(r, TRUE, r.call = "get_preview")
    BY <2>1, <2>2
  <2>3. CASE r.call = "get_preview" /\ Answered(r, TRUE, FALSE) /\ UNCHANGED label
    <3>1. CarryOut(r)
      BY <2>3 DEF CarryOut, Adjudication
    <3> QED
      BY <2>1, <2>3, <3>1
  <2>4. CASE (CarryOut(r) \/ UNCHANGED label) /\ Answered(r, FALSE, FALSE)
    BY <2>1, <2>4
  <2> QED
    BY <2>1, <2>2, <2>3, <2>4
<1>2. PICK ok, yes \in BOOLEAN : Answered(r, ok, yes) /\ (~ CarryOut(r) => UNCHANGED label /\ ~ ok)
  BY <1>1
<1> DEFINE asked == ok /\ r.call = "get_adjudication"
           a == [view |-> r.view, call |-> r.call, ok |-> ok, yes |-> yes,
                 is_pos |-> asked /\ label[ElementOf[r.view]] = "positive",
                 is_neg |-> asked /\ label[ElementOf[r.view]] = "negative"]
<1>3. r \in Request /\ r \in DOMAIN sent
  BY <1>0, <1>1 DEF TypeOK, BagToSet
<1>4. /\ DOMAIN sent' \subseteq DOMAIN sent
      /\ \A q \in DOMAIN sent : q # r => q \in DOMAIN sent' /\ sent'[q] = sent[q]
      /\ sent[r] = 1 => r \notin DOMAIN sent'
  BY <1>1, <1>3 DEF (-), SetToBag, IsABag, Typed
<1>5. answers' = answers (+) SetToBag({a})
  BY <1>2 DEF Answered
<1>6. /\ a.view = r.view /\ a.call = r.call /\ (a.ok <=> ok)
      /\ a.ok /\ a.call = "get_adjudication" =>
           /\ a.is_pos <=> label[ElementOf[r.view]] = "positive"
           /\ a.is_neg <=> label[ElementOf[r.view]] = "negative"
  OBVIOUS
<1> HIDE DEF a
<1>7. /\ DOMAIN answers' = DOMAIN answers \cup {a}
      /\ \A b \in DOMAIN answers : b # a => answers'[b] = answers[b]
      /\ a \notin DOMAIN answers => answers'[a] = 1
  BY <1>5 DEF (+), SetToBag, IsABag, Typed
<1>8. \A v : Unsets(a, v) <=> Unsets(r, v)
  BY <1>6 DEF Unsets
<1>9. \A v : Shown(v)' = Shown(v)
  BY <1>1 DEF Shown, viewVars
<1> SUFFICES ASSUME NEW v \in made' \ spoilt' PROVE Follows(v)'
  BY DEF Following
<1>10. v \in made \ spoilt /\ v \in View /\ Follows(v)
  BY <1>0, <1>1 DEF viewVars, Following, TypeOK
<1>11. CASE ~ Unsets(r, v)
  <2>1. label'[ElementOf[v]] = label[ElementOf[v]]
    <3>1. CASE UNCHANGED label
      BY <3>1
    <3>2. CASE CarryOut(r) /\ r.call \in Adjudication
      <4>1. ElementOf[r.view] # ElementOf[v] /\ ElementOf[v] \in Element
        BY <1>10, <1>11, <3>2, ViewAssumption DEF Unsets
      <4> QED
        BY <1>0, <3>2, <4>1 DEF CarryOut, TypeOK
    <3> QED
      BY <1>2, <3>1, <3>2 DEF CarryOut
  <2>2. ~ Unsets(a, v)
    BY <1>8, <1>11
  <2>4. Unsettled(v)' <=> Unsettled(v)
    BY <1>4, <1>7, <1>11, <2>2, UnsettledBy
  <2>5. ~ Unsettled(v)' => Shown(v)' = label'[ElementOf[v]]
    BY <1>9, <1>10, <2>1, <2>4 DEF Follows
  <2>6. \A q \in DOMAIN sent' : Unsets(q, v) =>
         /\ sent'[q] = 1
         /\ q.call \in Adjudication => Shown(v)' = Target(q.call)
         /\ \A p \in DOMAIN sent' : Unsets(p, v) => p = q
         /\ \A b \in DOMAIN answers' : ~ Unsets(b, v)
    BY <1>4, <1>7, <1>9, <1>10, <1>11, <2>2 DEF Follows
  <2>7. \A b \in DOMAIN answers' : Unsets(b, v) =>
         /\ answers'[b] = 1
         /\ \A c \in DOMAIN answers' : Unsets(c, v) => c = b
         /\ b.ok /\ b.call \in Adjudication => Shown(v)' = label'[ElementOf[v]]
         /\ b.ok /\ b.call = "get_adjudication" =>
              /\ b.is_pos <=> label'[ElementOf[v]] = "positive"
              /\ b.is_neg <=> label'[ElementOf[v]] = "negative"
    BY <1>7, <1>9, <1>10, <2>1, <2>2 DEF Follows
  <2> QED
    BY <2>5, <2>6, <2>7 DEF Follows
<1>12. CASE Unsets(r, v)
  <2>1. /\ sent[r] = 1
        /\ r.call \in Adjudication => Shown(v) = Target(r.call)
        /\ \A q \in DOMAIN sent : Unsets(q, v) => q = r
        /\ \A b \in DOMAIN answers : ~ Unsets(b, v)
    BY <1>3, <1>10, <1>12 DEF Follows
  <2>2. \A q \in DOMAIN sent' : ~ Unsets(q, v)
    BY <1>4, <2>1
  <2>3. Unsets(a, v) /\ a \notin DOMAIN answers /\ answers'[a] = 1
    BY <1>7, <1>8, <1>12, <2>1
  <2>4. \A b \in DOMAIN answers' : Unsets(b, v) => b = a
    BY <1>7, <2>1
  <2>5. a.ok /\ a.call \in Adjudication => Shown(v)' = label'[ElementOf[v]]
    <3> SUFFICES ASSUME a.ok, a.call \in Adjudication PROVE Shown(v)' = label'[ElementOf[v]]
      OBVIOUS
    <3>1. ElementOf[r.view] = ElementOf[v] /\ CarryOut(r) /\ r.call \in Adjudication
      BY <1>2, <1>6, <1>12 DEF Unsets, Adjudication
    <3>2. ElementOf[v] \in Element
      BY <1>10, ViewAssumption
    <3>3. label'[ElementOf[v]] = Adjudicated(r.call, label[ElementOf[v]])
      BY <1>0, <3>1, <3>2 DEF CarryOut, TypeOK
    <3>4. label'[ElementOf[v]] = Target(r.call)
      BY <3>1, <3>3, TargetOf
    <3> QED
      BY <1>9, <2>1, <3>1, <3>4
  <2>6. a.ok /\ a.call = "get_adjudication" =>
         /\ a.is_pos <=> label'[ElementOf[v]] = "positive"
         /\ a.is_neg <=> label'[ElementOf[v]] = "negative"
    <3>1. a.ok /\ a.call = "get_adjudication" => r.view = v /\ UNCHANGED label
      BY <1>2, <1>6, <1>12 DEF Unsets, Adjudication, CarryOut
    <3> QED
      BY <1>6, <3>1
  <2>7. a \in DOMAIN answers'
    BY <1>7
  <2>8. Unsettled(v)'
    BY <2>3, <2>7, UnsettledBy
  <2> QED
    BY <2>2, <2>3, <2>4, <2>5, <2>6, <2>8 DEF Follows
<1> QED
  BY <1>11, <1>12

\* The callback of an answer runs.
LEMMA CallbackFollows == Typed /\ Following /\ Callback => Following'
<1> SUFFICES ASSUME Typed, Following, Callback PROVE Following'
  OBVIOUS
<1>0. TypeOK
  BY DEF Typed
<1>1. PICK a \in BagToSet(answers) :
         /\ Heard(a)
         /\ OnAdjudication(a) \/ OnPreview(a) \/ OnAdjudicated(a)
         /\ UNCHANGED <<made, label, sent, left>>
  BY DEF Callback
<1>2. a \in Answer /\ a \in DOMAIN answers /\ ~(a.is_pos /\ a.is_neg)
  BY <1>0, <1>1 DEF Typed, TypeOK, BagToSet
<1>3. /\ DOMAIN answers' \subseteq DOMAIN answers
      /\ \A b \in DOMAIN answers : b # a => b \in DOMAIN answers' /\ answers'[b] = answers[b]
      /\ answers[a] = 1 => a \notin DOMAIN answers'
  BY <1>1, <1>2 DEF Heard, (-), SetToBag, IsABag, Typed
<1>4. spoilt \subseteq spoilt'
  BY <1>1 DEF OnAdjudication, OnPreview, OnAdjudicated
<1> SUFFICES ASSUME NEW v \in made' \ spoilt' PROVE Follows(v)'
  BY DEF Following
<1>5. v \in made /\ v \in View /\ v \notin spoilt /\ Follows(v)
  BY <1>0, <1>1, <1>4 DEF Following, TypeOK
<1>6. CASE ~ Unsets(a, v)
  <2>1. Shown(v)' = Shown(v)
    <3>1. CASE OnAdjudication(a)
      <4>1. a.view # v
        BY <1>6, <3>1 DEF OnAdjudication, Unsets
      <4>2. is_positive'[v] = is_positive[v] /\ is_negative'[v] = is_negative[v]
        BY <1>0, <1>5, <3>1, <4>1 DEF OnAdjudication, TypeOK
      <4> QED
        BY <4>2 DEF Shown
    <3>2. CASE OnPreview(a) \/ OnAdjudicated(a)
      BY <3>2 DEF OnPreview, OnAdjudicated, Shown
    <3> QED
      BY <1>1, <3>1, <3>2
  <2>2. Unsettled(v)' <=> Unsettled(v)
    BY <1>1, <1>3, <1>6, UnsettledBy
  <2>3. \A b \in DOMAIN answers' : Unsets(b, v) => b \in DOMAIN answers /\ answers'[b] = answers[b]
    BY <1>3, <1>6
  <2> QED
    BY <1>1, <1>3, <1>5, <2>1, <2>2, <2>3 DEF Follows
<1>7. CASE Unsets(a, v)
  <2>1. /\ \A r \in DOMAIN sent : ~ Unsets(r, v)
        /\ \A b \in DOMAIN answers : Unsets(b, v) => b = a
        /\ answers[a] = 1
    BY <1>2, <1>5, <1>7 DEF Follows
  <2>2. \A b \in DOMAIN answers' : ~ Unsets(b, v)
    BY <1>3, <2>1
  <2>3. \A r \in DOMAIN sent' : ~ Unsets(r, v)
    BY <1>1, <2>1
  <2>4. Shown(v)' = label'[ElementOf[v]]
    <3>1. CASE a.call = "get_adjudication"
      <4>1. a.view = v /\ OnAdjudication(a)
        BY <1>1, <1>7, <3>1 DEF Unsets, Adjudication, OnPreview, OnAdjudicated
      <4>2. a.ok
        BY <4>1 DEF OnAdjudication
      <4>3. /\ a.is_pos <=> label[ElementOf[v]] = "positive"
            /\ a.is_neg <=> label[ElementOf[v]] = "negative"
        BY <1>2, <1>5, <1>7, <3>1, <4>2 DEF Follows
      <4>4. is_positive'[v] = a.is_pos /\ is_negative'[v] = a.is_neg
        BY <1>0, <1>5, <4>1, <4>2 DEF OnAdjudication, TypeOK
      <4>5. label[ElementOf[v]] \in Label
        BY <1>0, <1>5, ViewAssumption DEF TypeOK
      <4> QED
        BY <1>1, <4>3, <4>4, <4>5 DEF Shown, Label
    <3>2. CASE a.call \in Adjudication
      <4>1. ElementOf[a.view] = ElementOf[v] /\ OnAdjudicated(a)
        BY <1>1, <1>7, <3>2 DEF Unsets, Adjudication, OnAdjudication, OnPreview
      <4>2. v \in {a.view} \cup Others(a.view)
        BY <1>5, <4>1 DEF Others
      <4>3. a.ok
        BY <1>2, <4>1, <4>2 DEF OnAdjudicated, Answer
      <4>4. Shown(v) = label[ElementOf[v]]
        BY <1>2, <1>5, <1>7, <3>2, <4>3 DEF Follows
      <4> QED
        BY <1>1, <4>1, <4>4 DEF OnAdjudicated, Shown
    <3> QED
      BY <1>7, <3>1, <3>2 DEF Unsets
  <2> QED
    BY <2>2, <2>3, <2>4 DEF Follows
<1> QED
  BY <1>6, <1>7

\* A view is constructed, and asks for its label.
LEMMA MakeFollows == ASSUME Typed, Following, NEW v \in View, Make(v) PROVE Following'
<1> DEFINE new == {[view |-> v, call |-> c] : c \in {"get_adjudication", "get_preview"}}
           asked == [view |-> v, call |-> "get_adjudication"]
<1>0. TypeOK
  BY DEF Typed
<1>1. sent' = sent (+) SetToBag(new) /\ UNCHANGED <<is_positive, is_negative, label, answers>>
  BY DEF Make, Send
<1>2. asked \in new /\ \A r \in new : r.view = v /\ (r = asked \/ r.call = "get_preview")
  OBVIOUS
<1> HIDE DEF new
<1>3. /\ DOMAIN sent' = DOMAIN sent \cup new
      /\ \A r \in DOMAIN sent : r \notin new => sent'[r] = sent[r]
      /\ \A r \in new : r \notin DOMAIN sent => sent'[r] = 1
  BY <1>1 DEF (+), SetToBag, IsABag, Typed
<1>4. \A r \in new, w \in View : Unsets(r, w) => r = asked /\ w = v
  BY <1>2 DEF Unsets, Adjudication
<1>5. Unsets(asked, v) /\ asked.call \notin Adjudication
  BY DEF Unsets, Adjudication
<1>6. \A w \in View : Shown(w)' = Shown(w)
  BY <1>1 DEF Shown
<1> SUFFICES ASSUME NEW w \in made' \ spoilt' PROVE Follows(w)'
  BY DEF Following
<1>7. w \in View
  BY <1>0 DEF Make, TypeOK
<1>8. CASE w = v
  <2>1. ~ Unsettled(v)
    BY <1>8 DEF Make
  <2>2. /\ \A r \in DOMAIN sent : ~ Unsets(r, v)
        /\ \A a \in DOMAIN answers : ~ Unsets(a, v)
    BY <2>1, UnsettledBy
  <2>3. \A r \in DOMAIN sent' : Unsets(r, v) => r = asked /\ sent'[r] = 1
    BY <1>3, <1>4, <2>2
  <2>4. \A a \in DOMAIN answers' : ~ Unsets(a, v)
    BY <1>1, <2>2
  <2>5. Unsettled(v)'
    BY <1>2, <1>3, <1>5, UnsettledBy
  <2> QED
    BY <1>5, <1>8, <2>3, <2>4, <2>5 DEF Follows
<1>9. CASE w # v
  <2>1. \A r \in new : ~ Unsets(r, w)
    BY <1>4, <1>7, <1>9
  <2>2. Follows(w)
    BY <1>9 DEF Following, Make
  <2>3. Unsettled(w)' <=> Unsettled(w)
    BY <1>1, <1>3, <2>1, UnsettledBy
  <2> QED
    BY <1>1, <1>3, <1>6, <1>7, <2>1, <2>2, <2>3 DEF Follows
<1> QED
  BY <1>8, <1>9

\* Every step keeps what the views follow.
LEMMA FollowingStep == Typed /\ Following /\ [Next]_vars => Following'
<1> SUFFICES ASSUME Typed, Following, [Next]_vars PROVE Following'
  OBVIOUS
<1>0. TypeOK
  BY DEF Typed
<1>1. CASE UNCHANGED vars
  BY <1>1 DEF vars, viewVars, Following, Follows, Unsettled, Waiting, Shown
<1>2. ASSUME NEW v \in View, SetPositive(v) PROVE Following'
  <2>1. \A w \in View \ {v} : Shown(w)' = Shown(w)
    BY <1>0, <1>2 DEF SetPositive, Shown, TypeOK
  <2>2. CASE ~ is_positive[v]
    <3>1. Click(v, "add_pos") /\ is_positive'[v] = TRUE
      BY <1>0, <1>2, <2>2 DEF SetPositive, TypeOK
    <3> QED
      BY <2>1, <3>1, ClickFollows DEF Shown, Target, Adjudicated, Adjudication
  <2>3. CASE is_positive[v]
    <3>1. Click(v, "remove_pos") /\ is_positive'[v] = FALSE /\ is_negative'[v] = FALSE
      BY <1>0, <1>2, <2>3 DEF SetPositive, TypeOK
    <3> QED
      BY <2>1, <3>1, ClickFollows DEF Shown, Target, Adjudicated, Adjudication
  <2> QED
    BY <2>2, <2>3
<1>3. ASSUME NEW v \in View, SetNegative(v) PROVE Following'
  <2>1. \A w \in View \ {v} : Shown(w)' = Shown(w)
    BY <1>0, <1>3 DEF SetNegative, Shown, TypeOK
  <2>2. CASE ~ is_negative[v]
    <3>1. Click(v, "add_neg") /\ is_positive'[v] = FALSE /\ is_negative'[v] = TRUE
      BY <1>0, <1>3, <2>2 DEF SetNegative, TypeOK
    <3> QED
      BY <2>1, <3>1, ClickFollows DEF Shown, Target, Adjudicated, Adjudication
  <2>3. CASE is_negative[v]
    <3>1. Click(v, "remove_neg") /\ is_positive'[v] = FALSE /\ is_negative'[v] = FALSE
      BY <1>0, <1>3, <2>3 DEF SetNegative, TypeOK
    <3> QED
      BY <2>1, <3>1, ClickFollows DEF Shown, Target, Adjudicated, Adjudication
  <2> QED
    BY <2>2, <2>3
<1> QED
  BY <1>1, <1>2, <1>3, MakeFollows, ServeFollows, CallbackFollows DEF Next

-----------------------------------------------------------------------------
(* The theorems *)

\* The inductive invariant.
IInv == Typed /\ Following

\* The inductive invariant holds throughout.
THEOREM Invariant == Spec => []IInv
<1>1. Init => IInv
  <2> SUFFICES ASSUME Init PROVE IInv
    OBVIOUS
  <2>1. /\ DOMAIN sent = {} /\ DOMAIN answers = {}
        /\ IsABag(sent) /\ IsABag(answers)
    BY DEF Init, EmptyBag, SetToBag, IsABag
  <2>2. Typed
    BY <2>1, VisitsAssumption DEF Init, Typed, TypeOK, BagToSet, Picture
  <2>3. Following
    BY DEF Init, Following
  <2> QED
    BY <2>2, <2>3 DEF IInv
<1>2. IInv /\ [Next]_vars => IInv'
  BY TypedStep, FollowingStep DEF IInv
<1> QED
  BY <1>1, <1>2, PTL DEF Spec

\* No view is positive and negative at once, and each variable has its type.
THEOREM TypeCorrect == Spec => []TypeOK
BY Invariant, PTL DEF IInv, Typed

\* At rest each view that has no cause not to shows its element's label.
THEOREM ViewsShowLabels == Spec => []ViewShowsLabel
<1>1. IInv => ViewShowsLabel
  BY DEF IInv, Following, Follows, ViewShowsLabel, Quiet, Unsettled
<1> QED
  BY <1>1, Invariant, PTL
=============================================================================
