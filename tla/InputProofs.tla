------------------------------ MODULE InputProofs ------------------------------
(***************************************************************************)
(* Proofs about Input for any sets of clips, buttons and text fields and   *)
(* any depth of nested focus changes: the inductive invariant InputInv,    *)
(* from it what the player holds, how buttons look, who has the focus and  *)
(* the order of an actor's mouse events.                                   *)
(***************************************************************************)
EXTENDS Input, TLAPS

Listeners == Clips \cup Buttons

USE DEF Listeners

-----------------------------------------------------------------------------
(* The handlers of the mouse *)

\* The names of the events.
LEMMA EventNames ==
    Events = {"none", "rollOver", "rollOut", "press", "dragOut", "dragOver",
              "release", "releaseOutside"}
BY DEF Events, Orders

LEMMA OrderFacts ==
    /\ Orders["none"] = {"rollOver"}
    /\ Orders["rollOver"] = {"rollOut", "press"}
    /\ Orders["rollOut"] = {"rollOver"}
    /\ Orders["press"] = {"release", "dragOut"}
    /\ Orders["dragOut"] = {"dragOver", "releaseOutside"}
    /\ Orders["dragOver"] = {"release", "dragOut"}
    /\ Orders["release"] = {"rollOut", "press"}
    /\ Orders["releaseOutside"] = {"rollOver"}
BY DEF Orders

\* A button changes how it looks, and no other does.
LEMMA StateFacts ==
    ASSUME NEW s \in [Buttons -> Looks], NEW a, NEW state \in Looks
    PROVE  /\ SetState(s, a, state) \in [Buttons -> Looks]
           /\ \A b \in Buttons : SetState(s, a, state)[b] = IF b = a THEN state ELSE s[b]
BY DEF SetState

\* An actor is told of an event, and no other is.
LEMMA TellFacts ==
    ASSUME NEW t \in Stories, NEW a, NEW name \in Events
    PROVE  /\ Tell(t, a, name) \in Stories
           /\ \A b \in Listeners :
                 /\ b = a => Tell(t, a, name)[b].event = name
                 /\ b # a => Tell(t, a, name)[b] = t[b]
<1>1. DOMAIN t = Listeners /\ \A b \in Listeners : t[b] \in [event : Events, again : BOOLEAN]
  BY DEF Stories
<1>2. CASE a \notin Listeners
  BY <1>1, <1>2 DEF Tell
<1>3. CASE a \in Listeners
  <2> DEFINE story == [event |-> name, again |-> ~t[a].again]
  <2>1. Tell(t, a, name) = [t EXCEPT ![a] = story]
    BY <1>1, <1>3 DEF Tell
  <2>2. story \in [event : Events, again : BOOLEAN] /\ story.event = name
    OBVIOUS
  <2> HIDE DEF story
  <2>3. QED
    BY <1>1, <1>3, <2>1, <2>2 DEF Stories
<1>4. QED
  BY <1>2, <1>3

\* What h leaves after g is that a looks like state and was told the event.
Left(g, h, a, state, name) ==
    /\ h.shown \in [Buttons -> Looks] /\ h.told \in Stories
    /\ \A b \in Buttons : h.shown[b] = IF b = a THEN state ELSE g.shown[b]
    /\ \A b \in Listeners :
          /\ b = a => h.told[b].event = name
          /\ b # a => h.told[b] = g.told[b]

Typed(g) == g.shown \in [Buttons -> Looks] /\ g.told \in Stories

LEMMA HandledFacts ==
    ASSUME NEW g, Typed(g), NEW a, NEW state \in Looks, NEW name \in Events
    PROVE  Left(g, Handled(SetState(g.shown, a, state), Tell(g.told, a, name)), a, state, name)
<1> DEFINE h == Handled(SetState(g.shown, a, state), Tell(g.told, a, name))
<1>1. h.shown = SetState(g.shown, a, state) /\ h.told = Tell(g.told, a, name)
  BY DEF Handled
<1>2. g.shown \in [Buttons -> Looks] /\ g.told \in Stories
  BY DEF Typed
<1> HIDE DEF h
<1>3. /\ h.shown \in [Buttons -> Looks]
      /\ \A b \in Buttons : h.shown[b] = IF b = a THEN state ELSE g.shown[b]
  BY <1>1, <1>2, StateFacts
<1>4. /\ h.told \in Stories
      /\ \A b \in Listeners :
            /\ b = a => h.told[b].event = name
            /\ b # a => h.told[b] = g.told[b]
  BY <1>1, <1>2, TellFacts
<1>5. QED
  BY <1>3, <1>4 DEF Left, h

\* Nobody is told of anything that happens to no actor.
LEMMA NoneLeft ==
    ASSUME NEW g, Typed(g), NEW state, NEW name, ActorAssumption
    PROVE  Left(g, g, None, state, name)
BY DEF Left, Typed, ActorAssumption, Actors

LEMMA MouseInFacts ==
    ASSUME NEW g, Typed(g), NEW a \in Maybe, NEW pressed \in BOOLEAN
    PROVE  Left(g, MouseIn(g, a, pressed), a,
                IF pressed THEN "down" ELSE "over",
                IF pressed THEN "dragOver" ELSE "rollOver")
<1>1. CASE a = None
  BY <1>1, NoneLeft, ActorAssumption DEF MouseIn
<1>2. CASE a # None
  <2>1. /\ (IF pressed THEN "down" ELSE "over") \in Looks
        /\ (IF pressed THEN "dragOver" ELSE "rollOver") \in Events
    BY EventNames DEF Looks
  <2>2. QED
    BY <1>2, <2>1, HandledFacts DEF MouseIn
<1>3. QED
  BY <1>1, <1>2

LEMMA MouseOutFacts ==
    ASSUME NEW g, Typed(g), NEW a \in Maybe, NEW pressed \in BOOLEAN
    PROVE  Left(g, MouseOut(g, a, pressed), a,
                IF pressed /\ a \notin menus THEN "over" ELSE "up",
                IF pressed THEN "dragOut" ELSE "rollOut")
<1>1. CASE a = None
  BY <1>1, NoneLeft, ActorAssumption DEF MouseOut
<1>2. CASE a # None
  <2>1. /\ (IF pressed /\ a \notin menus THEN "over" ELSE "up") \in Looks
        /\ (IF pressed THEN "dragOut" ELSE "rollOut") \in Events
    BY EventNames DEF Looks
  <2>2. QED
    BY <1>2, <2>1, HandledFacts DEF MouseOut
<1>3. QED
  BY <1>1, <1>2

LEMMA MousePressFacts ==
    ASSUME NEW g, Typed(g), NEW a \in Maybe
    PROVE  Left(g, MousePress(g, a), a, "down", "press")
<1>1. CASE a = None
  BY <1>1, NoneLeft, ActorAssumption DEF MousePress
<1>2. CASE a # None
  <2>1. "down" \in Looks /\ "press" \in Events
    BY EventNames DEF Looks
  <2>2. QED
    BY <1>2, <2>1, HandledFacts DEF MousePress
<1>3. QED
  BY <1>1, <1>2

\* A button that hears of no release looks up all the same.
LEMMA MouseReleaseFacts ==
    ASSUME NEW g, Typed(g), NEW a \in Maybe, NEW below \in Maybe
    PROVE  LET h == MouseRelease(g, a, below)
           IN  /\ a = below => Left(g, h, a, "over", "release")
               /\ a # below /\ a \notin menus => Left(g, h, a, "up", "releaseOutside")
               /\ a # below /\ a \in menus /\ a # None =>
                     /\ h.shown = SetState(g.shown, a, "up")
                     /\ h.told = g.told
<1>1. CASE a = None
  BY <1>1, NoneLeft, ActorAssumption DEF MouseRelease
<1>2. CASE a # None
  <2>1. "over" \in Looks /\ "up" \in Looks /\ "release" \in Events /\ "releaseOutside" \in Events
    BY EventNames DEF Looks
  <2>2. CASE a = below
    BY <1>2, <2>1, <2>2, HandledFacts DEF MouseRelease
  <2>3. CASE a # below /\ a \notin menus
    BY <1>2, <2>1, <2>3, HandledFacts DEF MouseRelease
  <2>4. CASE a # below /\ a \in menus
    BY <1>2, <2>4 DEF MouseRelease, Handled
  <2>5. QED
    BY <2>2, <2>3, <2>4
<1>3. QED
  BY <1>1, <1>2

-----------------------------------------------------------------------------
(* The focus *)

LEMMA FrontFacts ==
    ASSUME NEW S, NEW s \in Seq(S), s # <<>>
    PROVE  /\ Front(s) \in Seq(S)
           /\ Len(s) \in Nat \ {0}
           /\ Len(Front(s)) = Len(s) - 1
           /\ \A k \in 1..Len(s) - 1 : Front(s)[k] = s[k]
           /\ Last(s) = s[Len(s)]
           /\ Last(s) \in S
<1>1. Len(s) \in Nat \ {0} /\ s[Len(s)] \in S
  OBVIOUS
<1>2. ASSUME NEW n \in Nat, n <= Len(s)
      PROVE  /\ SubSeq(s, 1, n) \in Seq(S)
             /\ Len(SubSeq(s, 1, n)) = n
             /\ \A k \in 1..n : SubSeq(s, 1, n)[k] = s[k]
  BY <1>1, <1>2
<1>3. Front(s) = SubSeq(s, 1, Len(s) - 1) /\ Last(s) = s[Len(s)]
  BY DEF Front, Last
<1>4. Len(s) - 1 \in Nat /\ Len(s) - 1 <= Len(s)
  BY <1>1
<1>5. /\ Front(s) \in Seq(S) /\ Len(Front(s)) = Len(s) - 1
      /\ \A k \in 1..Len(s) - 1 : Front(s)[k] = s[k]
  BY <1>2, <1>3, <1>4
<1>6. QED
  BY <1>1, <1>3, <1>4, <1>5

LEMMA AppendFacts ==
    ASSUME NEW S, NEW s \in Seq(S), NEW e \in S
    PROVE  /\ Append(s, e) \in Seq(S)
           /\ Len(s) \in Nat
           /\ Len(Append(s, e)) = Len(s) + 1
           /\ \A k \in 1..Len(s) : Append(s, e)[k] = s[k]
           /\ Append(s, e)[Len(s) + 1] = e
OBVIOUS

\* What a step has to leave of the focus: it is passed as FocusIsPassed says,
\* and every actor it takes is displayed or known to be taken late.
FocusKept ==
    /\ focus' \in [now : Maybe, previous : Maybe]
    /\ calls' \in Seq(Activations)
    /\ heard' \in [Actors -> {"nothing", "set", "kill"}]
    /\ late' \subseteq Actors
    /\ late \subseteq late'
    /\ \A a \in {focus'.now, focus'.previous} \ {None} : life[a] = "displayed" \/ a \in late'
    /\ FocusIsPassed'

LEMMA AssignKeeps ==
    ASSUME InputTypeOK, NEW call \in Activations, NEW outer \in Seq(Activations),
           Assign(call, outer)
    PROVE  FocusKept
<1>1. /\ call.actor \in Maybe /\ call.prev \in Maybe
      /\ [call EXCEPT !.step = "set"] \in Activations
  BY DEF Activations
<1>2. focus' \in [now : Maybe, previous : Maybe] /\ focus'.now = call.actor /\ focus'.previous = call.prev
  BY <1>1 DEF Assign
<1>3. calls' \in Seq(Activations)
  BY <1>1, AppendFacts DEF Assign
<1>4. /\ heard' \in [Actors -> {"nothing", "set", "kill"}]
      /\ call.actor # None => heard'[call.actor] = "set"
  BY <1>1 DEF Assign, InputTypeOK, Maybe
<1>5. late' = late \cup {a \in {call.actor, call.prev} : a # None /\ life[a] # "displayed"}
  BY DEF Assign, TakenLate, Gone
<1>6. late' \subseteq Actors /\ late \subseteq late'
  BY <1>1, <1>5 DEF InputTypeOK, Maybe
<1>7. \A a \in {focus'.now, focus'.previous} \ {None} : life[a] = "displayed" \/ a \in late'
  BY <1>2, <1>5
<1>8. FocusIsPassed'
  BY <1>2, <1>4 DEF FocusIsPassed
<1>9. QED
  BY <1>2, <1>3, <1>4, <1>6, <1>7, <1>8 DEF FocusKept

\* What is held is displayed, or it was taken late.
LEMMA HeldFacts ==
    HeldAreDisplayed =>
        \A a \in {mouse.below, mouse.grab, focus.now, focus.previous} \ {None} :
            life[a] = "displayed" \/ a \in late
BY DEF HeldAreDisplayed, Holders

LEMMA FocusUnchanged ==
    ASSUME InputTypeOK, HeldAreDisplayed, FocusIsPassed, UNCHANGED <<focus, calls, heard, late>>
    PROVE  FocusKept
<1>1. FocusIsPassed'
  BY DEF FocusIsPassed
<1>2. QED
  BY <1>1, HeldFacts DEF FocusKept, InputTypeOK

LEMMA GrabFocusKeeps ==
    ASSUME InputTypeOK, HeldAreDisplayed, FocusIsPassed, NEW a \in Maybe, GrabFocus(a)
    PROVE  FocusKept
<1> DEFINE call == [actor |-> a, prev |-> focus.now, step |-> "kill"]
<1>1. focus.now \in Maybe /\ calls \in Seq(Activations)
  BY DEF InputTypeOK
<1>2. call \in Activations /\ [call EXCEPT !.step = "set"] \in Activations
  BY <1>1 DEF Activations
<1>3. CASE a = focus.now
  BY <1>3, FocusUnchanged DEF GrabFocus
<1>4. CASE a # focus.now /\ focus.now = None
  <2>1. Assign([call EXCEPT !.step = "set"], calls)
    BY <1>4 DEF GrabFocus
  <2> HIDE DEF call
  <2>2. QED
    BY <1>1, <1>2, <2>1, AssignKeeps
<1>5. CASE a # focus.now /\ focus.now # None
  <2>1. /\ heard' = [heard EXCEPT ![focus.now] = "kill"]
        /\ calls' = Append(calls, call)
        /\ UNCHANGED <<focus, late>>
    BY <1>5 DEF GrabFocus
  <2>2. call.step = "kill"
    OBVIOUS
  <2> HIDE DEF call
  <2>3. calls' \in Seq(Activations) /\ Len(calls) + 1 \in DOMAIN calls' /\ calls'[Len(calls) + 1] = call
    BY <1>1, <1>2, <2>1, AppendFacts
  <2>4. FocusIsPassed'
    BY <2>2, <2>3 DEF FocusIsPassed
  <2>5. heard' \in [Actors -> {"nothing", "set", "kill"}]
    BY <2>1 DEF InputTypeOK
  <2>6. QED
    BY <2>1, <2>3, <2>4, <2>5, HeldFacts DEF FocusKept, InputTypeOK
<1>6. QED
  BY <1>3, <1>4, <1>5

LEMMA KilledKeeps ==
    ASSUME InputTypeOK, Killed
    PROVE  FocusKept
<1>1. calls \in Seq(Activations) /\ calls # <<>> /\ Assign(Last(calls), Front(calls))
  BY DEF InputTypeOK, Killed
<1>2. Last(calls) \in Activations /\ Front(calls) \in Seq(Activations)
  BY <1>1, FrontFacts
<1>3. QED
  BY <1>1, <1>2, AssignKeeps

\* The call that returns is not one that told an actor that it loses the focus.
LEMMA GrabbedKeeps ==
    ASSUME InputTypeOK, HeldAreDisplayed, FocusIsPassed, Grabbed
    PROVE  FocusKept
<1>1. /\ calls \in Seq(Activations) /\ calls # <<>>
      /\ Last(calls).step = "set" /\ calls' = Front(calls)
      /\ UNCHANGED <<focus, heard, late>>
  BY DEF InputTypeOK, Grabbed
<1>2. /\ calls' \in Seq(Activations)
      /\ Len(calls) \in Nat \ {0}
      /\ Len(calls') = Len(calls) - 1
      /\ \A k \in 1..Len(calls) - 1 : calls'[k] = calls[k]
      /\ calls[Len(calls)].step = "set"
  BY <1>1, FrontFacts
<1>3. ASSUME focus.now # None, heard[focus.now] # "set"
      PROVE  \E k \in DOMAIN calls' : calls'[k].step = "kill"
  <2>1. PICK k \in DOMAIN calls : calls[k].step = "kill"
    BY <1>3 DEF FocusIsPassed
  <2>2. DOMAIN calls = 1..Len(calls) /\ DOMAIN calls' = 1..Len(calls')
    BY <1>1, <1>2
  <2>3. k \in 1..Len(calls) - 1
    BY <1>2, <2>1, <2>2
  <2>4. QED
    BY <1>2, <2>1, <2>2, <2>3
<1>4. FocusIsPassed'
  BY <1>1, <1>3 DEF FocusIsPassed
<1>5. QED
  BY <1>1, <1>2, <1>4, HeldFacts DEF FocusKept, InputTypeOK

-----------------------------------------------------------------------------
(* What a step leaves of the mouse *)

\* The step that MouseEventsInOrder allows.
InOrder ==
    \A a \in Listeners :
        told'[a] # told[a] /\ life[a] = "displayed" =>
           \/ told'[a].event \in Orders[told[a].event]
           \/ /\ a \in menus
              /\ told[a].event = "dragOut" /\ told'[a].event = "rollOver"

MouseTyped ==
    /\ menus \subseteq Buttons
    /\ life \in [Actors -> {"displayed", "removed", "destroyed"}]
    /\ mouse \in [pressed : BOOLEAN, below : Maybe, grab : Maybe]
    /\ pc \in {"idle", "moving", "press", "release", "acting", "iterating"}
    /\ event \in {"move", "press", "release"}
    /\ shown \in [Buttons -> Looks]
    /\ told \in Stories

MouseKept ==
    /\ MouseTyped'
    /\ GrabFollows'
    /\ LooksFollow'
    /\ EventsFollow'
    /\ InOrder

LEMMA MouseTypes ==
    InputTypeOK => MouseTyped /\ Typed(Handled(shown, told))
BY DEF InputTypeOK, MouseTyped, Typed, Handled

\* A step that tells no actor of the mouse.
LEMMA LooksUnchanged ==
    ASSUME LooksFollow, EventsFollow, UNCHANGED <<menus, life, mouse, shown, told>>, Down' = Down
    PROVE  LooksFollow' /\ EventsFollow' /\ InOrder
<1>1. LooksFollow'
  BY DEF LooksFollow, Look
<1>2. EventsFollow'
  BY DEF EventsFollow, Expected
<1>3. InOrder
  BY DEF InOrder
<1>4. QED
  BY <1>1, <1>2, <1>3

LEMMA MouseUnchanged ==
    ASSUME InputInv, UNCHANGED <<life, pc, mouseVars>>
    PROVE  MouseKept
<1>1. Down' = Down
  BY DEF Down, mouseVars
<1>2. MouseTyped' /\ GrabFollows'
  BY <1>1, MouseTypes DEF InputInv, HeldAreDisplayed, MouseTyped, GrabFollows, mouseVars
<1>3. QED
  BY <1>1, <1>2, LooksUnchanged DEF InputInv, MouseKept, mouseVars

\* Scripts run while the mouse is not moved.
LEMMA MouseIdle ==
    ASSUME InputInv, UNCHANGED <<life, mouseVars>>,
           pc \in {"idle", "acting", "iterating"}, pc' \in {"idle", "acting", "iterating"}
    PROVE  MouseKept
<1>1. Down' = Down
  BY DEF Down, mouseVars
<1>2. MouseTyped' /\ GrabFollows'
  BY <1>1, MouseTypes DEF InputInv, HeldAreDisplayed, MouseTyped, GrabFollows, mouseVars
<1>3. QED
  BY <1>1, <1>2, LooksUnchanged DEF InputInv, MouseKept, mouseVars

LEMMA HandleMouseKeeps ==
    ASSUME InputInv, HandleMouse
    PROVE  MouseKept
<1>1. Down' = Down
  BY DEF Down, HandleMouse
<1>2. MouseTyped /\ GrabFollows
  BY MouseTypes DEF InputInv, HeldAreDisplayed
<1>3. MouseTyped'
  BY <1>2 DEF MouseTyped, HandleMouse
<1>4. GrabFollows'
  BY <1>1, <1>2 DEF MouseTyped, GrabFollows, HandleMouse
<1>5. QED
  BY <1>1, <1>3, <1>4, LooksUnchanged DEF InputInv, MouseKept, HandleMouse

\* The actor that has the mouse grabbed sees it come and go while the button is
\* down; when it is not down, the mouse is grabbed by what is below it.
LEMMA BelowKeeps ==
    ASSUME InputInv, ActorAssumption, NEW below \in Maybe, Below(below),
           pc = "moving", pc' = (IF event = "move" THEN "acting" ELSE event),
           UNCHANGED <<menus, life, event>>
    PROVE  MouseKept
<1> DEFINE g == Handled(shown, told)
<1>1. MouseTyped /\ Typed(g)
  BY MouseTypes DEF InputInv, HeldAreDisplayed
<1>2. g.shown = shown /\ g.told = told
  BY DEF Handled
<1>3. GrabFollows /\ LooksFollow /\ EventsFollow
  BY DEF InputInv
<1>4. mouse.grab \in Maybe /\ mouse.below \in Maybe /\ mouse.pressed \in BOOLEAN
  BY <1>1 DEF MouseTyped
<1>5. /\ mouse' \in [pressed : BOOLEAN, below : Maybe, grab : Maybe]
      /\ Down' = Down /\ Down = mouse.pressed
      /\ mouse'.below = below
      /\ mouse'.grab = (IF mouse.pressed THEN mouse.grab ELSE below)
      /\ mouse'.pressed = (event = "press" \/ (mouse.pressed /\ event # "release"))
  <2>1. mouse' = [pressed |-> event = "press" \/ (mouse.pressed /\ event # "release"),
                 below |-> below, grab |-> IF mouse.pressed THEN mouse.grab ELSE below]
    <3>1. CASE mouse.pressed
      <4>1. mouse' = [mouse EXCEPT !.below = below, !.pressed = event # "release"]
        BY <3>1 DEF Below
      <4>2. event # "press"
        BY <1>3, <3>1 DEF GrabFollows
      <4>3. QED
        BY <1>1, <3>1, <4>1, <4>2 DEF MouseTyped
    <3>2. CASE ~mouse.pressed
      BY <3>2 DEF Below
    <3>3. QED
      BY <3>1, <3>2
  <2>2. mouse' \in [pressed : BOOLEAN, below : Maybe, grab : Maybe]
    BY <1>4, <2>1
  <2>3. Down = mouse.pressed
    BY DEF Down
  <2>4. Down' = mouse.pressed
    <3>1. CASE event = "move"
      BY <2>1, <3>1, <1>4 DEF Down
    <3>2. CASE event # "move"
      <4>1. event' = event /\ pc' = event /\ event \in {"press", "release"}
        BY <1>1, <3>2 DEF MouseTyped
      <4>2. Down' = (event = "release")
        BY <4>1 DEF Down
      <4>3. mouse.pressed = (event = "release")
        BY <1>3, <1>4, <4>1 DEF GrabFollows
      <4>4. QED
        BY <4>2, <4>3
    <3>3. QED
      BY <3>1, <3>2
  <2>5. QED
    BY <2>1, <2>2, <2>3, <2>4
<1>6. GrabFollows'
  <2>1. pc' = "press" => event = "press"
    OBVIOUS
  <2>2. pc' = "release" => event = "release"
    OBVIOUS
  <2>3. pc' # "moving"
    BY <1>1 DEF MouseTyped
  <2>4. QED
    BY <1>4, <1>5, <2>1, <2>2, <2>3 DEF GrabFollows
<1>7. ASSUME shown' \in [Buttons -> Looks], told' \in Stories
      PROVE  MouseTyped'
  BY <1>1, <1>5, <1>7 DEF MouseTyped
<1>8. CASE mouse.pressed /\ mouse.grab # None /\ below = mouse.grab /\ mouse.below # mouse.grab
  <2> DEFINE h == MouseIn(g, mouse.grab, TRUE)
  <2>1. shown' = h.shown /\ told' = h.told
    BY <1>8 DEF Below, Applied
  <2>2. Left(g, h, mouse.grab, "down", "dragOver")
    BY <1>1, <1>4, MouseInFacts
  <2> HIDE DEF g, h
  <2>3. LooksFollow'
    BY <1>2, <1>3, <1>5, <1>8, <2>1, <2>2 DEF LooksFollow, Look, Left
  <2>4. EventsFollow'
    BY <1>2, <1>3, <1>5, <1>8, <2>1, <2>2 DEF EventsFollow, Expected, Left
  <2>5. ASSUME NEW a \in Listeners, told'[a] # told[a], life[a] = "displayed"
        PROVE  told'[a].event \in Orders[told[a].event]
    <3>1. a = mouse.grab /\ told'[a].event = "dragOver"
      BY <1>2, <2>1, <2>2, <2>5 DEF Left
    <3>2. told[a].event \in {"dragOut"}
      BY <1>3, <1>5, <1>8, <2>5, <3>1 DEF EventsFollow, Expected
    <3>3. QED
      BY <3>1, <3>2, OrderFacts
  <2>6. QED
    BY <1>6, <1>7, <2>1, <2>2, <2>3, <2>4, <2>5 DEF MouseKept, Left, InOrder
<1>9. CASE mouse.pressed /\ mouse.grab # None /\ below # mouse.grab /\ mouse.below = mouse.grab
  <2> DEFINE h == MouseOut(g, mouse.grab, TRUE)
  <2>1. shown' = h.shown /\ told' = h.told
    BY <1>9 DEF Below, Applied
  <2>2. Left(g, h, mouse.grab, IF mouse.grab \notin menus THEN "over" ELSE "up", "dragOut")
    BY <1>1, <1>4, MouseOutFacts
  <2> HIDE DEF g, h
  <2>3. LooksFollow'
    BY <1>2, <1>3, <1>5, <1>9, <2>1, <2>2 DEF LooksFollow, Look, Left
  <2>4. EventsFollow'
    BY <1>2, <1>3, <1>5, <1>9, <2>1, <2>2 DEF EventsFollow, Expected, Left
  <2>5. ASSUME NEW a \in Listeners, told'[a] # told[a], life[a] = "displayed"
        PROVE  told'[a].event \in Orders[told[a].event]
    <3>1. a = mouse.grab /\ told'[a].event = "dragOut"
      BY <1>2, <2>1, <2>2, <2>5 DEF Left
    <3>2. told[a].event \in {"press", "dragOver"}
      BY <1>3, <1>5, <1>9, <2>5, <3>1 DEF EventsFollow, Expected
    <3>3. QED
      BY <3>1, <3>2, OrderFacts
  <2>6. QED
    BY <1>6, <1>7, <2>1, <2>2, <2>3, <2>4, <2>5 DEF MouseKept, Left, InOrder
<1>10. CASE \/ mouse.pressed /\ mouse.grab = None
            \/ mouse.pressed /\ (below = mouse.grab <=> mouse.below = mouse.grab)
            \/ ~mouse.pressed /\ below = mouse.grab
  <2>1. shown' = shown /\ told' = told
    BY <1>2, <1>10 DEF Below, Applied
  <2>2. LooksFollow'
    BY <1>3, <1>4, <1>5, <1>10, <2>1, ActorAssumption
    DEF LooksFollow, Look, GrabFollows, Actors, ActorAssumption
  <2>3. EventsFollow'
    BY <1>3, <1>4, <1>5, <1>10, <2>1, ActorAssumption
    DEF EventsFollow, Expected, GrabFollows, Actors, ActorAssumption
  <2>4. InOrder
    BY <2>1 DEF InOrder
  <2>5. QED
    BY <1>1, <1>6, <1>7, <2>1, <2>2, <2>3, <2>4 DEF MouseKept, MouseTyped
<1>11. CASE ~mouse.pressed /\ below # mouse.grab
  <2> DEFINE h == MouseOut(g, mouse.grab, FALSE)
             i == MouseIn(h, below, FALSE)
  <2>1. shown' = i.shown /\ told' = i.told
    BY <1>11 DEF Below, Applied
  <2>2. Left(g, h, mouse.grab, "up", "rollOut")
    BY <1>1, <1>4, MouseOutFacts
  <2>3. Typed(h)
    BY <2>2 DEF Left, Typed
  <2>4. Left(h, i, below, "over", "rollOver")
    BY <2>3, MouseInFacts
  <2> HIDE DEF g, h, i
  <2>5. LooksFollow'
    BY <1>2, <1>3, <1>5, <1>11, <2>1, <2>2, <2>4 DEF LooksFollow, Look, Left
  <2>6. EventsFollow'
    BY <1>2, <1>3, <1>5, <1>11, <2>1, <2>2, <2>4 DEF EventsFollow, Expected, Left
  <2>7. ASSUME NEW a \in Listeners, told'[a] # told[a], life[a] = "displayed"
        PROVE  \/ told'[a].event \in Orders[told[a].event]
               \/ a \in menus /\ told[a].event = "dragOut" /\ told'[a].event = "rollOver"
    <3>1. CASE a = mouse.grab
      <4>1. told'[a].event = "rollOut"
        BY <1>2, <1>11, <2>1, <2>2, <2>4, <3>1 DEF Left
      <4>2. mouse.below = a
        BY <1>3, <1>5, <1>11, <3>1, ActorAssumption DEF GrabFollows, ActorAssumption, Actors
      <4>3. told[a].event \in {"rollOver", "release"}
        BY <1>3, <1>5, <1>11, <2>7, <3>1, <4>2 DEF EventsFollow, Expected
      <4>4. QED
        BY <4>1, <4>3, OrderFacts
    <3>2. CASE a = below
      <4>1. told'[a].event = "rollOver"
        BY <2>1, <2>4, <3>2 DEF Left
      <4>2. \/ told[a].event \in {"none", "rollOut", "releaseOutside"}
            \/ a \in menus /\ told[a].event = "dragOut"
        BY <1>3, <1>11, <2>7, <3>2 DEF EventsFollow, Expected
      <4>3. QED
        BY <4>1, <4>2, OrderFacts
    <3>3. CASE a # mouse.grab /\ a # below
      BY <1>2, <2>1, <2>2, <2>4, <2>7, <3>3 DEF Left
    <3>4. QED
      BY <3>1, <3>2, <3>3
  <2>8. QED
    BY <1>6, <1>7, <2>1, <2>4, <2>5, <2>6, <2>7 DEF MouseKept, Left, InOrder
<1>12. QED
  BY <1>4, <1>8, <1>9, <1>10, <1>11

LEMMA PressMouse ==
    ASSUME InputInv, ActorAssumption, Press
    PROVE  MouseKept
<1> DEFINE g == Handled(shown, told)
           h == MousePress(g, mouse.grab)
<1>1. MouseTyped /\ Typed(g)
  BY MouseTypes DEF InputInv, HeldAreDisplayed
<1>2. g.shown = shown /\ g.told = told
  BY DEF Handled
<1>3. GrabFollows /\ LooksFollow /\ EventsFollow
  BY DEF InputInv
<1>4. mouse.grab \in Maybe /\ mouse.below \in Maybe
  BY <1>1 DEF MouseTyped
<1>5. /\ shown' = h.shown /\ told' = h.told /\ pc = "press" /\ pc' = "acting"
      /\ UNCHANGED <<menus, life, mouse, event>>
  BY DEF Press, Applied
<1>6. Left(g, h, mouse.grab, "down", "press")
  BY <1>1, <1>4, MousePressFacts
<1> HIDE DEF g, h
<1>7. Down = FALSE /\ Down' = TRUE
  BY <1>3, <1>5 DEF Down, GrabFollows
<1>8. mouse.grab # None => mouse.below = mouse.grab
  BY <1>3, <1>7 DEF GrabFollows
<1>9. MouseTyped' /\ GrabFollows'
  BY <1>1, <1>3, <1>5, <1>6, <1>7 DEF MouseTyped, GrabFollows, Left
<1>10. LooksFollow'
  BY <1>2, <1>3, <1>5, <1>6, <1>7, <1>8, ActorAssumption
  DEF LooksFollow, Look, Left, ActorAssumption, Actors
<1>11. EventsFollow'
  BY <1>2, <1>3, <1>5, <1>6, <1>7, <1>8, ActorAssumption
  DEF EventsFollow, Expected, Left, ActorAssumption, Actors
<1>12. ASSUME NEW a \in Listeners, told'[a] # told[a], life[a] = "displayed"
       PROVE  told'[a].event \in Orders[told[a].event]
  <2>1. a = mouse.grab /\ told'[a].event = "press"
    BY <1>2, <1>5, <1>6, <1>12 DEF Left
  <2>2. mouse.below = a
    BY <1>8, <2>1, ActorAssumption DEF ActorAssumption, Actors
  <2>3. told[a].event \in {"rollOver", "release"}
    BY <1>3, <1>7, <1>12, <2>1, <2>2 DEF EventsFollow, Expected
  <2>4. QED
    BY <2>1, <2>3, OrderFacts
<1>13. QED
  BY <1>9, <1>10, <1>11, <1>12 DEF MouseKept, InOrder

\* What was pressed is released, and then the mouse is over what is below it.
LEMMA ReleaseMouse ==
    ASSUME InputInv, ActorAssumption, Release
    PROVE  MouseKept
<1> DEFINE g == Handled(shown, told)
           h == MouseRelease(g, mouse.grab, mouse.below)
           i == MouseIn(h, mouse.below, FALSE)
<1>1. MouseTyped /\ Typed(g)
  BY MouseTypes DEF InputInv, HeldAreDisplayed
<1>2. g.shown = shown /\ g.told = told
  BY DEF Handled
<1>3. GrabFollows /\ LooksFollow /\ EventsFollow
  BY DEF InputInv
<1>4. mouse.grab \in Maybe /\ mouse.below \in Maybe
  BY <1>1 DEF MouseTyped
<1>5. pc = "release" /\ pc' = "acting" /\ ~mouse.pressed /\ UNCHANGED <<menus, life, event>>
  BY <1>3 DEF Release, GrabFollows
<1>6. Down = TRUE
  BY <1>5 DEF Down
<1>7. CASE mouse.grab = None \/ mouse.grab = mouse.below
  <2>1. shown' = h.shown /\ told' = h.told /\ UNCHANGED mouse
    BY <1>7 DEF Release, Applied
  <2>2. \/ mouse.grab = mouse.below /\ Left(g, h, mouse.grab, "over", "release")
        \/ mouse.grab = None /\ h = g
    BY <1>1, <1>4, <1>7, MouseReleaseFacts DEF MouseRelease
  <2> HIDE DEF g, h
  <2>3. Down' = FALSE
    BY <1>5, <2>1 DEF Down
  <2>4. MouseTyped' /\ GrabFollows'
    BY <1>1, <1>2, <1>5, <1>7, <2>1, <2>2, <2>3 DEF MouseTyped, GrabFollows, Left
  <2>5. LooksFollow'
    BY <1>2, <1>3, <1>5, <1>6, <2>1, <2>2, <2>3, ActorAssumption
    DEF LooksFollow, Look, Left, ActorAssumption, Actors
  <2>6. EventsFollow'
    BY <1>2, <1>3, <1>5, <1>6, <2>1, <2>2, <2>3, ActorAssumption
    DEF EventsFollow, Expected, Left, ActorAssumption, Actors
  <2>7. ASSUME NEW a \in Listeners, told'[a] # told[a], life[a] = "displayed"
        PROVE  told'[a].event \in Orders[told[a].event]
    <3>1. a = mouse.grab /\ mouse.below = a /\ told'[a].event = "release"
      BY <1>2, <2>1, <2>2, <2>7 DEF Left
    <3>2. told[a].event \in {"press", "dragOver"}
      BY <1>3, <1>6, <2>7, <3>1 DEF EventsFollow, Expected
    <3>3. QED
      BY <3>1, <3>2, OrderFacts
  <2>8. QED
    BY <2>4, <2>5, <2>6, <2>7 DEF MouseKept, InOrder
<1>8. CASE mouse.grab # None /\ mouse.grab # mouse.below
  <2>1. /\ shown' = i.shown /\ told' = i.told
        /\ mouse' = [mouse EXCEPT !.grab = mouse.below]
    BY <1>8 DEF Release, Applied
  <2>2. \/ Left(g, h, mouse.grab, "up", "releaseOutside")
        \/ mouse.grab \in menus /\ h.shown = SetState(g.shown, mouse.grab, "up") /\ h.told = g.told
    BY <1>1, <1>4, <1>8, MouseReleaseFacts
  <2>3. /\ Typed(h)
        /\ \A b \in Buttons : h.shown[b] = IF b = mouse.grab THEN "up" ELSE g.shown[b]
        /\ \A b \in Listeners : b # mouse.grab => h.told[b] = g.told[b]
        /\ mouse.grab \in Listeners =>
              \/ h.told[mouse.grab].event = "releaseOutside"
              \/ mouse.grab \in menus /\ h.told[mouse.grab] = g.told[mouse.grab]
    <3>1. CASE Left(g, h, mouse.grab, "up", "releaseOutside")
      BY <3>1 DEF Left, Typed
    <3>2. CASE mouse.grab \in menus /\ h.shown = SetState(g.shown, mouse.grab, "up") /\ h.told = g.told
      <4>1. g.shown \in [Buttons -> Looks] /\ "up" \in Looks
        BY <1>1 DEF Typed, Looks
      <4> HIDE DEF h, g
      <4>2. QED
        BY <1>1, <3>2, <4>1, StateFacts DEF Typed
    <3>3. QED
      BY <2>2, <3>1, <3>2
  <2>4. Left(h, i, mouse.below, "over", "rollOver")
    BY <1>4, <2>3, MouseInFacts
  <2> HIDE DEF g, h, i
  <2>5. mouse' \in [pressed : BOOLEAN, below : Maybe, grab : Maybe]
        /\ mouse'.grab = mouse.below /\ mouse'.below = mouse.below /\ mouse'.pressed = FALSE
    BY <1>1, <1>4, <1>5, <2>1 DEF MouseTyped
  <2>6. Down' = FALSE
    BY <1>5, <2>5 DEF Down
  <2>7. MouseTyped' /\ GrabFollows'
    BY <1>1, <1>5, <2>1, <2>4, <2>5, <2>6 DEF MouseTyped, GrabFollows, Left
  <2>8. LooksFollow'
    BY <1>2, <1>3, <1>5, <1>8, <2>1, <2>3, <2>4, <2>5, <2>6
    DEF LooksFollow, Look, Left
  <2>9. \A a \in Listeners : life[a] = "displayed" =>
           /\ a = mouse.grab => told[a].event = "dragOut"
           /\ a # mouse.grab => \/ told[a].event \in {"none", "rollOut", "releaseOutside"}
                                \/ a \in menus /\ told[a].event = "dragOut"
    BY <1>3, <1>8 DEF EventsFollow, Expected
  <2>10. \A a \in Listeners :
           /\ a = mouse.below => told'[a].event = "rollOver"
           /\ a = mouse.grab => \/ told'[a].event = "releaseOutside"
                                \/ a \in menus /\ told'[a] = told[a]
           /\ a # mouse.below /\ a # mouse.grab => told'[a] = told[a]
    BY <1>2, <1>8, <2>1, <2>3, <2>4 DEF Left
  <2>11. EventsFollow'
    BY <1>5, <1>8, <2>5, <2>6, <2>9, <2>10 DEF EventsFollow, Expected
  <2>12. ASSUME NEW a \in Listeners, told'[a] # told[a], life[a] = "displayed"
         PROVE  \/ told'[a].event \in Orders[told[a].event]
                \/ a \in menus /\ told[a].event = "dragOut" /\ told'[a].event = "rollOver"
    BY <1>8, <2>9, <2>10, <2>12, OrderFacts
  <2>13. QED
    BY <2>7, <2>8, <2>11, <2>12 DEF MouseKept, InOrder
<1>9. QED
  BY <1>7, <1>8

-----------------------------------------------------------------------------
(* Actors come and go *)

\* Actors that are destroyed were removed before.
LEMMA DestroyKeeps ==
    ASSUME InputInv, DestroyRemoved
    PROVE  InputInv' /\ InOrder
<1>1. /\ pc = "iterating" /\ pc' = "acting"
      /\ life' = [a \in Actors |-> IF life[a] = "removed" THEN "destroyed" ELSE life[a]]
      /\ UNCHANGED <<menus, mouse, event, shown, told, focus, calls, heard, late>>
  BY DEF DestroyRemoved, mouseVars, focusVars
<1>2. \A a \in Actors : life'[a] = "displayed" <=> life[a] = "displayed"
  BY <1>1
<1>3. InputTypeOK
  BY DEF InputInv, HeldAreDisplayed
<1>4. InputTypeOK'
  BY <1>1, <1>3 DEF InputTypeOK
<1>5. Holders \subseteq Actors
  BY <1>3 DEF InputTypeOK, Holders, Maybe
<1>6. HeldAreDisplayed'
  BY <1>1, <1>2, <1>4, <1>5 DEF InputInv, HeldAreDisplayed, Holders
<1>7. Down' = Down
  BY <1>1 DEF Down
<1>8. GrabFollows' /\ FocusIsPassed' /\ InOrder
  BY <1>1, <1>7 DEF InputInv, GrabFollows, FocusIsPassed, InOrder
<1>9. LooksFollow'
  BY <1>1, <1>2, <1>7 DEF InputInv, LooksFollow, Look, Actors
<1>10. EventsFollow'
  BY <1>1, <1>2, <1>7 DEF InputInv, EventsFollow, Expected, Actors
<1>11. QED
  BY <1>6, <1>8, <1>9, <1>10 DEF InputInv

\* The player forgets the actor, wherever it holds it.
LEMMA RemoveKeeps ==
    ASSUME InputInv, ActorAssumption, NEW a \in Actors, RemoveActor(a)
    PROVE  InputInv' /\ InOrder
<1>1. InputTypeOK /\ HeldAreDisplayed /\ GrabFollows /\ LooksFollow /\ EventsFollow /\ FocusIsPassed
  BY DEF InputInv, HeldAreDisplayed
<1>2. /\ life[a] = "displayed"
      /\ UNCHANGED <<menus, calls, pc, event, shown, told, heard, late>>
      /\ UnsetActor(a)
  BY DEF RemoveActor
<1>3. /\ life' \in [Actors -> {"displayed", "removed", "destroyed"}]
      /\ life'[a] # "displayed"
      /\ \A b \in Actors : b # a => life'[b] = life[b]
  BY <1>1 DEF RemoveActor, InputTypeOK
<1>4. /\ mouse' \in [pressed : BOOLEAN, below : Maybe, grab : Maybe]
      /\ mouse'.pressed = mouse.pressed
      /\ mouse'.below = Cleared(mouse.below, a)
      /\ mouse'.grab = Cleared(mouse.grab, a)
  BY <1>1, <1>2 DEF UnsetActor, InputTypeOK, Cleared, Maybe
<1>5. /\ focus' \in [now : Maybe, previous : Maybe]
      /\ focus'.now = Cleared(focus.now, a)
      /\ focus'.previous = Cleared(focus.previous, a)
  BY <1>1, <1>2 DEF UnsetActor, InputTypeOK, Cleared, Maybe
<1>6. InputTypeOK'
  BY <1>1, <1>2, <1>3, <1>4, <1>5 DEF InputTypeOK
<1>7. HeldAreDisplayed'
  <2>1. \A b \in Holders' : b # a /\ b \in Holders
    BY <1>4, <1>5, ActorAssumption DEF Holders, Cleared, ActorAssumption
  <2>2. Holders \subseteq Actors
    BY <1>1 DEF InputTypeOK, Holders, Maybe
  <2>3. QED
    BY <1>1, <1>2, <1>3, <1>6, <2>1, <2>2 DEF HeldAreDisplayed
<1>8. Down' = Down
  BY <1>2, <1>4 DEF Down
<1>9. GrabFollows'
  BY <1>1, <1>2, <1>4, <1>8 DEF GrabFollows, Cleared
<1>10. LooksFollow'
  BY <1>1, <1>2, <1>3, <1>4, <1>8, ActorAssumption
  DEF LooksFollow, Look, Cleared, Actors, ActorAssumption
<1>11. EventsFollow'
  BY <1>1, <1>2, <1>3, <1>4, <1>8, ActorAssumption
  DEF EventsFollow, Expected, Cleared, Actors, ActorAssumption
<1>12. FocusIsPassed'
  BY <1>1, <1>2, <1>5 DEF FocusIsPassed, Cleared
<1>13. InOrder
  BY <1>2 DEF InOrder
<1>14. QED
  BY <1>7, <1>9, <1>10, <1>11, <1>12, <1>13 DEF InputInv

\* A new actor is not known to the player yet.
LEMMA CreateKeeps ==
    ASSUME InputInv, ActorAssumption, NEW a \in Actors, Create(a)
    PROVE  InputInv' /\ InOrder
<1>1. InputTypeOK /\ HeldAreDisplayed /\ GrabFollows /\ LooksFollow /\ EventsFollow /\ FocusIsPassed
  BY DEF InputInv, HeldAreDisplayed
<1>2. /\ life[a] = "destroyed" /\ a \notin Holders
      /\ life' = [life EXCEPT ![a] = "displayed"]
      /\ shown' = SetState(shown, a, "up")
      /\ heard' = [heard EXCEPT ![a] = "nothing"]
      /\ late' = late \ {a}
      /\ UNCHANGED <<menus, mouse, focus, calls, pc, event>>
  BY DEF Create
<1>3. /\ shown' \in [Buttons -> Looks]
      /\ \A b \in Buttons : shown'[b] = IF b = a THEN "up" ELSE shown[b]
  <2>1. shown \in [Buttons -> Looks] /\ "up" \in Looks
    BY <1>1 DEF InputTypeOK, Looks
  <2>2. QED
    BY <1>2, <2>1, StateFacts
<1>4. /\ told' \in Stories
      /\ \A b \in Listeners :
            /\ b = a => told'[b].event = "none"
            /\ b # a => told'[b] = told[b]
  <2> DEFINE story == [event |-> "none", again |-> FALSE]
  <2>1. story \in [event : Events, again : BOOLEAN] /\ story.event = "none"
    BY EventNames
  <2>2. \/ a \notin Listeners /\ told' = told
        \/ a \in Listeners /\ told' = [told EXCEPT ![a] = story]
    BY ActorAssumption DEF Create, Actors, ActorAssumption
  <2> HIDE DEF story
  <2>3. QED
    BY <1>1, <2>1, <2>2 DEF InputTypeOK, Stories
<1>5. InputTypeOK'
  BY <1>1, <1>2, <1>3, <1>4 DEF InputTypeOK
<1>6. HeldAreDisplayed'
  <2>1. Holders' = Holders /\ Holders \subseteq Actors
    BY <1>1, <1>2 DEF Holders, InputTypeOK, Maybe
  <2>2. \A b \in Actors : b # a => life'[b] = life[b]
    BY <1>1, <1>2 DEF InputTypeOK
  <2>3. QED
    BY <1>1, <1>2, <1>5, <2>1, <2>2 DEF HeldAreDisplayed
<1>7. Down' = Down
  BY <1>2 DEF Down
<1>8. mouse.grab # a /\ mouse.below # a /\ focus.now # a
  BY <1>2, ActorAssumption DEF Holders, ActorAssumption
<1>9. \A b \in Actors : b # a => life'[b] = life[b]
  BY <1>1, <1>2 DEF InputTypeOK
<1>10. GrabFollows'
  BY <1>1, <1>2, <1>7 DEF GrabFollows
<1>11. LooksFollow'
  BY <1>1, <1>2, <1>3, <1>7, <1>8, <1>9 DEF LooksFollow, Look, Actors
<1>12. EventsFollow'
  BY <1>1, <1>2, <1>4, <1>7, <1>8, <1>9 DEF EventsFollow, Expected, Actors
<1>13. FocusIsPassed'
  BY <1>1, <1>2, <1>8 DEF FocusIsPassed, InputTypeOK, Maybe
<1>14. InOrder
  BY <1>2, <1>4 DEF InOrder
<1>15. QED
  BY <1>6, <1>10, <1>11, <1>12, <1>13, <1>14 DEF InputInv

-----------------------------------------------------------------------------
(* Every step *)

\* What the mouse has grabbed and is over is displayed or was taken late.
MouseHeld ==
    \A a \in {mouse.below, mouse.grab} \ {None} : life[a] = "displayed" \/ a \in late

\* A step that leaves the actors alone keeps the invariant if it does so for
\* the mouse and for the focus.
LEMMA BothKept ==
    ASSUME InputInv, MouseKept, FocusKept, MouseHeld', UNCHANGED life
    PROVE  InputInv' /\ InOrder
<1>1. InputTypeOK'
  BY DEF MouseKept, FocusKept, MouseTyped, InputTypeOK
<1>2. HeldAreDisplayed'
  BY <1>1 DEF HeldAreDisplayed, Holders, FocusKept, MouseHeld
<1>3. QED
  BY <1>2 DEF InputInv, MouseKept, FocusKept

LEMMA MouseStillHeld ==
    ASSUME HeldAreDisplayed, UNCHANGED <<life, mouse>>, late \subseteq late'
    PROVE  MouseHeld'
BY HeldFacts DEF MouseHeld

LEMMA InitEstablishes ==
    ASSUME ActorAssumption, InputInit
    PROVE  InputInv
<1>1. shown = [b \in Buttons |-> "up"]
      /\ told = [a \in Listeners |-> [event |-> "none", again |-> FALSE]]
      /\ mouse = [pressed |-> FALSE, below |-> None, grab |-> None]
      /\ focus = [now |-> None, previous |-> None]
      /\ calls = <<>> /\ pc = "idle" /\ event = "move" /\ late = {}
  BY DEF InputInit
<1>2. InputTypeOK
  BY <1>1, EventNames DEF InputInit, InputTypeOK, Stories, Looks, Maybe
<1>3. HeldAreDisplayed /\ FocusIsPassed
  BY <1>1, <1>2 DEF HeldAreDisplayed, Holders, FocusIsPassed
<1>4. GrabFollows
  BY <1>1 DEF GrabFollows
<1>5. LooksFollow
  BY <1>1, ActorAssumption DEF LooksFollow, Look, ActorAssumption, Actors
<1>6. EventsFollow
  BY <1>1, ActorAssumption DEF EventsFollow, Expected, ActorAssumption, Actors
<1>7. QED
  BY <1>3, <1>4, <1>5, <1>6 DEF InputInv

\* Every step keeps the invariant and tells events in order.
LEMMA StepKeeps ==
    ASSUME InputInv, ActorAssumption, [InputNext]_inputVars
    PROVE  InputInv' /\ InOrder
<1>1. InputTypeOK /\ HeldAreDisplayed /\ FocusIsPassed
  BY DEF InputInv, HeldAreDisplayed
<1>2. MouseTyped
  BY <1>1, MouseTypes
<1>3. ASSUME UNCHANGED <<focusVars, late>>
      PROVE  FocusKept
  BY <1>1, <1>3, FocusUnchanged DEF focusVars
<1>4. ASSUME FocusKept, UNCHANGED <<life, mouse>>
      PROVE  MouseHeld'
  BY <1>1, <1>4, MouseStillHeld DEF FocusKept
<1>5. CASE HandleMouse
  <2>1. UNCHANGED <<life, mouse, focusVars, late>>
    BY <1>5 DEF HandleMouse
  <2>2. QED
    BY <1>3, <1>4, <1>5, <2>1, HandleMouseKeeps, BothKept
<1>6. CASE Moved
  <2>1. /\ pc = "moving" /\ pc' = (IF event = "move" THEN "acting" ELSE event)
        /\ UNCHANGED <<menus, life, event, focusVars>>
    BY <1>6 DEF Moved
  <2>2. PICK below \in {a \in Actors : life[a] # "destroyed"} \cup {None} :
           Below(below) /\ TakenLate({below})
    BY <1>6 DEF Moved
  <2>3. below \in Maybe
    BY DEF Maybe
  <2>4. MouseKept
    BY <2>1, <2>2, <2>3, ActorAssumption, BelowKeeps
  <2>5. late' = late \cup {a \in {below} : a # None /\ life[a] # "displayed"}
    BY <2>2 DEF TakenLate, Gone
  <2>6. late' \subseteq Actors /\ late \subseteq late'
    BY <1>1, <2>3, <2>5 DEF InputTypeOK, Maybe
  <2>7. FocusKept
    <3>1. FocusIsPassed'
      BY <1>1, <2>1 DEF FocusIsPassed, focusVars
    <3>2. QED
      BY <1>1, <2>1, <2>6, <3>1, HeldFacts DEF FocusKept, InputTypeOK, focusVars
  <2>8. mouse'.below = below /\ mouse'.grab \in {mouse.grab, below}
    <3>1. \/ \E p : mouse' = [mouse EXCEPT !.below = below, !.pressed = p]
          \/ \E p : mouse' = [pressed |-> p, below |-> below, grab |-> below]
      BY <2>2, Zenon DEF Below
    <3>2. ASSUME NEW p, mouse' = [mouse EXCEPT !.below = below, !.pressed = p]
          PROVE  mouse'.below = below /\ mouse'.grab = mouse.grab
      BY <1>2, <3>2 DEF MouseTyped
    <3>3. ASSUME NEW p, mouse' = [pressed |-> p, below |-> below, grab |-> below]
          PROVE  mouse'.below = below /\ mouse'.grab = below
      BY <3>3
    <3>4. QED
      BY <3>1, <3>2, <3>3, Zenon
  <2>9. MouseHeld'
    BY <1>1, <2>1, <2>5, <2>6, <2>8, HeldFacts DEF MouseHeld
  <2>10. QED
    BY <2>1, <2>4, <2>7, <2>9, BothKept
<1>7. CASE Press
  <2>1. UNCHANGED <<life, mouse>>
    BY <1>7 DEF Press
  <2>2. FocusKept
    <3>1. CASE mouse.grab \in Texts
      BY <1>1, <1>7, <3>1, GrabFocusKeeps DEF Press, Maybe, Actors
    <3>2. CASE mouse.grab \notin Texts
      BY <1>3, <1>7, <3>2 DEF Press
    <3>3. QED
      BY <3>1, <3>2
  <2>3. QED
    BY <1>4, <1>7, <2>1, <2>2, ActorAssumption, PressMouse, BothKept
<1>8. CASE Release
  <2>1. UNCHANGED <<life, focusVars>>
    BY <1>8 DEF Release
  <2>2. late' = late \cup {a \in {mouse.grab, mouse.below} : a # None /\ life[a] # "displayed"}
    BY <1>8 DEF Release, TakenLate, Gone
  <2>3. late' \subseteq Actors /\ late \subseteq late'
    BY <1>1, <1>2, <2>2 DEF InputTypeOK, MouseTyped, Maybe
  <2>4. FocusKept
    <3>1. FocusIsPassed'
      BY <1>1, <2>1 DEF FocusIsPassed, focusVars
    <3>2. QED
      BY <1>1, <2>1, <2>3, <3>1, HeldFacts DEF FocusKept, InputTypeOK, focusVars
  <2>5. mouse'.below = mouse.below /\ mouse'.grab \in {mouse.grab, mouse.below}
    BY <1>2, <1>8 DEF Release, MouseTyped
  <2>6. MouseHeld'
    BY <1>1, <2>1, <2>3, <2>5, HeldFacts DEF MouseHeld
  <2>7. QED
    BY <1>8, <2>1, <2>4, <2>6, ActorAssumption, ReleaseMouse, BothKept
<1>9. CASE Killed
  <2>1. UNCHANGED <<life, pc, mouseVars>> /\ UNCHANGED mouse
    BY <1>9 DEF Killed, mouseVars
  <2>2. QED
    BY <1>1, <1>4, <1>9, <2>1, KilledKeeps, MouseUnchanged, BothKept
<1>10. CASE Grabbed
  <2>1. UNCHANGED <<life, pc, mouseVars>> /\ UNCHANGED mouse
    BY <1>10 DEF Grabbed, mouseVars
  <2>2. QED
    BY <1>1, <1>4, <1>10, <2>1, GrabbedKeeps, MouseUnchanged, BothKept
<1>11. CASE RunScripts
  <2>1. UNCHANGED <<life, mouseVars>> /\ UNCHANGED mouse /\ pc = "idle" /\ pc' = "acting"
    BY <1>11 DEF RunScripts, mouseVars
  <2>2. FocusKept
    <3>1. CASE UNCHANGED <<focusVars, late>>
      BY <1>3, <3>1
    <3>2. CASE \E a \in {b \in Actors : life[b] = "displayed"} \cup {None, focus.previous} :
                  GrabFocus(a)
      <4>1. PICK a \in {b \in Actors : life[b] = "displayed"} \cup {None, focus.previous} :
               GrabFocus(a)
        BY <3>2
      <4>2. a \in Maybe
        BY <1>1 DEF InputTypeOK, Maybe
      <4>3. QED
        BY <1>1, <4>1, <4>2, GrabFocusKeeps
    <3>3. QED
      BY <1>11, <3>1, <3>2 DEF RunScripts
  <2>3. QED
    BY <1>4, <2>1, <2>2, MouseIdle, BothKept
<1>12. CASE Iterate \/ Unlock
  <2>1. /\ UNCHANGED <<life, mouseVars>> /\ UNCHANGED mouse /\ UNCHANGED <<focusVars, late>>
        /\ pc \in {"idle", "acting"} /\ pc' \in {"idle", "iterating"}
    BY <1>12 DEF Iterate, Unlock, mouseVars
  <2>2. QED
    BY <1>3, <1>4, <2>1, MouseIdle, BothKept
<1>13. CASE SetFocus
  <2>1. UNCHANGED <<life, pc, mouseVars>> /\ UNCHANGED mouse
    BY <1>13 DEF SetFocus, mouseVars
  <2>2. PICK a \in {b \in Actors : life[b] # "destroyed"} \cup {None} : GrabFocus(a)
    BY <1>13 DEF SetFocus
  <2>3. a \in Maybe
    BY DEF Maybe
  <2>4. QED
    BY <1>1, <1>4, <2>1, <2>2, <2>3, GrabFocusKeeps, MouseUnchanged, BothKept
<1>14. CASE DestroyRemoved
  BY <1>14, DestroyKeeps
<1>15. CASE \E a \in Actors : RemoveActor(a) \/ Create(a)
  BY <1>15, ActorAssumption, RemoveKeeps, CreateKeeps
<1>16. CASE UNCHANGED inputVars
  <2>1. UNCHANGED <<life, pc, mouseVars>> /\ UNCHANGED mouse /\ UNCHANGED <<focusVars, late>>
    BY <1>16 DEF inputVars, mouseVars, focusVars
  <2>2. QED
    BY <1>3, <1>4, <2>1, MouseUnchanged, BothKept
<1>17. QED
  BY <1>5, <1>6, <1>7, <1>8, <1>9, <1>10, <1>11, <1>12, <1>13, <1>14, <1>15, <1>16
  DEF InputNext

-----------------------------------------------------------------------------
(* The theorems *)

\* The inductive invariant holds in every state: of the mouse grab, of the looks
\* and the events that follow from it, and of the focus that is being passed.
THEOREM Invariance == InputSpec => []InputInv
<1>1. InputInit => InputInv
  BY ActorAssumption, InitEstablishes
<1>2. InputInv /\ [InputNext]_inputVars => InputInv'
  BY ActorAssumption, StepKeeps
<1>3. QED
  BY <1>1, <1>2, PTL DEF InputSpec

\* The player does not hold an actor that was removed since it took it.
THEOREM HeldDisplayed == InputSpec => []HeldAreDisplayed
<1>1. InputInv => HeldAreDisplayed
  BY DEF InputInv
<1>2. QED
  BY <1>1, Invariance, PTL

\* After each event of the mouse every button looks as the mouse is.
THEOREM LooksRight == InputSpec => []ButtonsLookRight
<1>1. InputInv => ButtonsLookRight
  <2> SUFFICES ASSUME LooksFollow, pc \in {"idle", "acting"}
               PROVE  \A b \in Buttons : life[b] = "displayed" => shown[b] = Look(b, mouse.pressed)
    BY DEF InputInv, ButtonsLookRight
  <2>1. Down = mouse.pressed
    BY DEF Down
  <2>2. QED
    BY <2>1 DEF LooksFollow
<1>2. QED
  BY <1>1, Invariance, PTL

\* The actor that has the focus when no focus change is under way was told so
\* last, however deep the changes were nested.
THEOREM FocusTold == InputSpec => []FocusWasTold
<1>1. InputInv => FocusWasTold
  BY DEF InputInv, FocusWasTold, FocusIsPassed
<1>2. QED
  BY <1>1, Invariance, PTL

\* Every actor gets the events of the mouse in the order that scripts rely on.
THEOREM EventOrder == InputSpec => MouseEventsInOrder
<1>1. InputInv /\ [InputNext]_inputVars =>
        [\A a \in Clips \cup Buttons :
           told'[a] # told[a] /\ life[a] = "displayed" =>
              \/ told'[a].event \in Orders[told[a].event]
              \/ /\ a \in menus
                 /\ told[a].event = "dragOut" /\ told'[a].event = "rollOver"]_inputVars
  BY ActorAssumption, StepKeeps DEF InOrder
<1>2. QED
  BY <1>1, Invariance, PTL DEF InputSpec, MouseEventsInOrder
=============================================================================
