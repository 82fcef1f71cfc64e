-------------------------------- MODULE Input --------------------------------
(***************************************************************************)
(* The mouse and the focus (swfdec_player.c, swfdec_actor.c,               *)
(* swfdec_button_movie.c): which actor is below the mouse, which one has   *)
(* grabbed it, what events the actors get, how buttons look, and how the   *)
(* focus is passed from one actor to another.                              *)
(*                                                                         *)
(* Scripts run in the middle of all this: the listeners of Mouse before    *)
(* the player looks what is below the mouse and before it delivers a       *)
(* press or a release, onKillFocus and onSetFocus while the focus moves.   *)
(* They remove the actors that the player is about to use, and pass the    *)
(* focus on themselves.                                                    *)
(***************************************************************************)
EXTENDS Naturals, Sequences, SequencesExt

CONSTANTS
    Clips,          \* sprites, which queue scripts for the events
    Buttons,        \* buttons, which also change how they look
    Texts,          \* text fields, which take the focus when pressed
    None,           \* no actor
    MaxCalls        \* bound: swfdec_player_grab_focus calls on the stack

Actors == Clips \cup Buttons \cup Texts

ASSUME ActorAssumption ==
    /\ None \notin Actors
    /\ Clips \cap Buttons = {} /\ Texts \cap (Clips \cup Buttons) = {}
    /\ MaxCalls \in Nat

VARIABLES
    menus,      \* the buttons that are menus (SwfdecButton.menubutton)
    life,       \* the state of every movie
    mouse,      \* mouse_button, mouse_below and mouse_grab
    focus,      \* focus and focus_previous
    calls,      \* the activations of swfdec_player_grab_focus, outermost first
    pc,         \* where swfdec_player_do_handle_mouse or _iterate is
    event,      \* what the mouse did
    shown,      \* the state of every button
    told,       \* history: the last event that was queued for an actor
    heard,      \* history: what the actor heard last of the focus
    late        \* history: the actors taken when they were removed already

mouseVars == <<menus, mouse, event, shown, told>>
focusVars == <<focus, calls, heard>>
inputVars == <<menus, life, mouse, focus, calls, pc, event, shown, told, heard, late>>

InputInit ==
    /\ menus \in SUBSET Buttons
    /\ life = [a \in Actors |-> "displayed"]
    /\ mouse = [pressed |-> FALSE, below |-> None, grab |-> None]
    /\ focus = [now |-> None, previous |-> None]
    /\ calls = <<>>
    /\ pc = "idle"
    /\ event = "move"
    /\ shown = [b \in Buttons |-> "up"]
    /\ told = [a \in Clips \cup Buttons |-> [event |-> "none", again |-> FALSE]]
    /\ heard = [a \in Actors |-> "nothing"]
    /\ late = {}

\* The actors whose pointers the player holds.
Holders == {mouse.below, mouse.grab, focus.now, focus.previous} \ {None}

Gone(a) == a # None /\ life[a] # "displayed"

\* The actors that an action has just taken although they were removed.
TakenLate(actors) == late' = late \cup {a \in actors : Gone(a)}

-----------------------------------------------------------------------------
(* Events of the mouse, as the classes of actors handle them *)

\* swfdec_actor_queue_script: text fields have none.
Tell(t, a, name) ==
    IF a \in DOMAIN t THEN [t EXCEPT ![a] = [event |-> name, again |-> ~@.again]] ELSE t

\* swfdec_button_movie_set_state.
SetState(s, a, state) == IF a \in Buttons THEN [s EXCEPT ![a] = state] ELSE s

\* What a handler leaves of the buttons' states and the events queued.
Handled(s, t) == [shown |-> s, told |-> t]

MouseIn(h, a, pressed) ==
    IF a = None THEN h
    ELSE Handled(SetState(h.shown, a, IF pressed THEN "down" ELSE "over"),
                 Tell(h.told, a, IF pressed THEN "dragOver" ELSE "rollOver"))

MouseOut(h, a, pressed) ==
    IF a = None THEN h
    ELSE Handled(SetState(h.shown, a, IF pressed /\ a \notin menus THEN "over" ELSE "up"),
                 Tell(h.told, a, IF pressed THEN "dragOut" ELSE "rollOut"))

MousePress(h, a) ==
    IF a = None THEN h
    ELSE Handled(SetState(h.shown, a, "down"), Tell(h.told, a, "press"))

WrongMouseRelease(h, a, below) ==
    IF a = None THEN h
    ELSE Handled(SetState(h.shown, a, "over"),
                 Tell(h.told, a, IF a = below THEN "release" ELSE "releaseOutside"))

\* A menu does not hear of a release outside.
MouseRelease(h, a, below) ==
    IF a = None THEN h
    ELSE IF a = below THEN Handled(SetState(h.shown, a, "over"), Tell(h.told, a, "release"))
    ELSE Handled(SetState(h.shown, a, "up"),
                 IF a \in menus THEN h.told ELSE Tell(h.told, a, "releaseOutside"))

Applied(h) == shown' = h.shown /\ told' = h.told

-----------------------------------------------------------------------------
(* swfdec_player_grab_focus *)

\* Its second half: the focus changes, and the actor hears of it.
Assign(call, outer) ==
    /\ focus' = [now |-> call.actor, previous |-> call.prev]
    /\ heard' = IF call.actor = None THEN heard ELSE [heard EXCEPT ![call.actor] = "set"]
    /\ calls' = Append(outer, [call EXCEPT !.step = "set"])
    /\ TakenLate({call.actor, call.prev})

\* Its first half: the actor that has the focus is told.
GrabFocus(a) ==
    LET call == [actor |-> a, prev |-> focus.now, step |-> "kill"]
    IN  IF a = focus.now THEN UNCHANGED <<focus, calls, heard, late>>
        ELSE IF focus.now = None THEN Assign([call EXCEPT !.step = "set"], calls)
        ELSE /\ heard' = [heard EXCEPT ![focus.now] = "kill"]
             /\ calls' = Append(calls, call)
             /\ UNCHANGED <<focus, late>>

WrongKilled ==
    /\ calls # <<>> /\ Last(calls).step = "kill"
    /\ LET call == Last(calls)
       IN  IF focus.now # call.prev
           THEN /\ calls' = Front(calls)
                /\ focus' = [focus EXCEPT !.now = call.actor]
                /\ UNCHANGED <<heard, late>>
           ELSE Assign(call, Front(calls))
    /\ UNCHANGED <<life, pc, mouseVars>>

\* onKillFocus returns.
Killed ==
    /\ calls # <<>> /\ Last(calls).step = "kill"
    /\ Assign(Last(calls), Front(calls))
    /\ UNCHANGED <<life, pc, mouseVars>>

\* onSetFocus and the listeners of Selection return.
Grabbed ==
    /\ calls # <<>> /\ Last(calls).step = "set"
    /\ calls' = Front(calls)
    /\ UNCHANGED <<life, pc, mouseVars, focus, heard, late>>

-----------------------------------------------------------------------------
(* swfdec_player_do_handle_mouse *)

\* The mouse has one button, and the application reports what it does.  The
\* listeners of Mouse are told that it moved.
HandleMouse ==
    /\ pc = "idle"
    /\ pc' = "moving"
    /\ event' \in {"move", IF mouse.pressed THEN "release" ELSE "press"}
    /\ UNCHANGED <<menus, life, mouse, focusVars, shown, told, late>>

WrongBelow(below) ==
    /\ Applied(IF below # mouse.grab
               THEN MouseIn(MouseOut(Handled(shown, told), mouse.grab, mouse.pressed),
                            below, mouse.pressed)
               ELSE Handled(shown, told))
    /\ mouse' = [pressed |-> event = "press" \/ (mouse.pressed /\ event # "release"),
                 below |-> below, grab |-> below]

\* swfdec_player_grab_mouse_movie.  Removed movies are still found.
Below(below) ==
    LET h == Handled(shown, told)
        crossed == below # mouse.grab
    IN  IF mouse.pressed
        THEN /\ Applied(IF mouse.grab = None THEN h
                        ELSE IF ~crossed /\ mouse.below # mouse.grab THEN MouseIn(h, mouse.grab, TRUE)
                        ELSE IF crossed /\ mouse.below = mouse.grab THEN MouseOut(h, mouse.grab, TRUE)
                        ELSE h)
             /\ mouse' = [mouse EXCEPT !.below = below, !.pressed = event # "release"]
        ELSE /\ Applied(IF crossed THEN MouseIn(MouseOut(h, mouse.grab, FALSE), below, FALSE) ELSE h)
             /\ mouse' = [pressed |-> event = "press", below |-> below, grab |-> below]

\* What is below the mouse reacts to it.  Then mouse_button changes, and the
\* listeners of Mouse are told.
Moved ==
    /\ pc = "moving" /\ calls = <<>>
    /\ \E below \in {a \in Actors : life[a] # "destroyed"} \cup {None} :
          /\ Below(below)
          /\ TakenLate({below})
    /\ pc' = IF event = "move" THEN "acting" ELSE event
    /\ UNCHANGED <<menus, life, event, focusVars>>

\* swfdec_player_do_mouse_press.
Press ==
    /\ pc = "press" /\ calls = <<>>
    /\ Applied(MousePress(Handled(shown, told), mouse.grab))
    /\ IF mouse.grab \in Texts THEN GrabFocus(mouse.grab)
       ELSE UNCHANGED <<focusVars, late>>
    /\ pc' = "acting"
    /\ UNCHANGED <<menus, life, mouse, event>>

\* swfdec_player_do_mouse_release.
Release ==
    /\ pc = "release" /\ calls = <<>>
    /\ LET h == MouseRelease(Handled(shown, told), mouse.grab, mouse.below)
       IN  IF mouse.grab # None /\ mouse.grab # mouse.below
           THEN /\ Applied(MouseIn(h, mouse.below, FALSE))
                /\ mouse' = [mouse EXCEPT !.grab = mouse.below]
           ELSE Applied(h) /\ UNCHANGED mouse
    /\ TakenLate({mouse.grab, mouse.below})
    /\ pc' = "acting"
    /\ UNCHANGED <<menus, life, event, focusVars>>

-----------------------------------------------------------------------------
(* Keys, timeouts and frames *)

\* A key, a timeout or an external action runs scripts.  The tab key and a
\* change of the player's own focus (swfdec_player_update_focus) move the focus.
RunScripts ==
    /\ pc = "idle"
    /\ pc' = "acting"
    /\ \/ UNCHANGED <<focusVars, late>>
       \/ \E a \in {b \in Actors : life[b] = "displayed"} \cup {None, focus.previous} :
             GrabFocus(a)
    /\ UNCHANGED <<life, mouseVars>>

Iterate ==
    /\ pc = "idle"
    /\ pc' = "iterating"
    /\ UNCHANGED <<life, mouseVars, focusVars, late>>

\* The loop in swfdec_player_iterate that destroys what was removed.
DestroyRemoved ==
    /\ pc = "iterating" /\ calls = <<>>
    /\ life' = [a \in Actors |-> IF life[a] = "removed" THEN "destroyed" ELSE life[a]]
    /\ pc' = "acting"
    /\ UNCHANGED <<mouseVars, focusVars, late>>

\* swfdec_player_perform_actions returns.
Unlock ==
    /\ pc = "acting" /\ calls = <<>>
    /\ pc' = "idle"
    /\ UNCHANGED <<life, mouseVars, focusVars, late>>

-----------------------------------------------------------------------------
(* Scripts *)

InScript == pc # "idle"

Cleared(holder, a) == IF holder = a THEN None ELSE holder

WrongUnsetActor(a) ==
    /\ mouse' = [mouse EXCEPT !.below = Cleared(@, a), !.grab = Cleared(@, a)]
    /\ focus' = [focus EXCEPT !.now = Cleared(@, a)]

\* swfdec_movie_unset_actor.
UnsetActor(a) ==
    /\ mouse' = [mouse EXCEPT !.below = Cleared(@, a), !.grab = Cleared(@, a)]
    /\ focus' = [focus EXCEPT !.now = Cleared(@, a), !.previous = Cleared(@, a)]

\* swfdec_movie_do_remove: a movie with an unload handler is only removed.
RemoveActor(a) ==
    /\ InScript
    /\ life[a] = "displayed"
    /\ \E state \in {"removed", "destroyed"} : life' = [life EXCEPT ![a] = state]
    /\ UnsetActor(a)
    /\ UNCHANGED <<menus, calls, pc, event, shown, told, heard, late>>

\* A new actor, which must not be mistaken for one that the player still holds.
Create(a) ==
    /\ InScript
    /\ life[a] = "destroyed"
    /\ a \notin Holders
    /\ \A k \in DOMAIN calls : a \notin {calls[k].actor, calls[k].prev}
    /\ life' = [life EXCEPT ![a] = "displayed"]
    /\ shown' = SetState(shown, a, "up")
    /\ told' = IF a \in Texts THEN told
               ELSE [told EXCEPT ![a] = [event |-> "none", again |-> FALSE]]
    /\ heard' = [heard EXCEPT ![a] = "nothing"]
    /\ late' = late \ {a}
    /\ UNCHANGED <<menus, mouse, focus, calls, pc, event>>

\* Selection.setFocus(): scripts can name a movie until it is destroyed.
SetFocus ==
    /\ InScript
    /\ Len(calls) < MaxCalls
    /\ \E a \in {b \in Actors : life[b] # "destroyed"} \cup {None} : GrabFocus(a)
    /\ UNCHANGED <<life, pc, mouseVars>>

-----------------------------------------------------------------------------

InputNext == \/ HandleMouse \/ Moved \/ Press \/ Release
             \/ Killed \/ Grabbed
             \/ RunScripts \/ Iterate \/ DestroyRemoved \/ Unlock
             \/ \E a \in Actors : RemoveActor(a) \/ Create(a)
             \/ SetFocus

InputSpec == InputInit /\ [][InputNext]_inputVars

-----------------------------------------------------------------------------
(* Properties *)

Maybe == Actors \cup {None}
Looks == {"up", "over", "down"}
Activations == [actor : Maybe, prev : Maybe, step : {"kill", "set"}]

\* The events that may follow an event of an actor.
Orders ==
    [none           |-> {"rollOver"},
     rollOver       |-> {"rollOut", "press"},
     rollOut        |-> {"rollOver"},
     press          |-> {"release", "dragOut"},
     dragOut        |-> {"dragOver", "releaseOutside"},
     dragOver       |-> {"release", "dragOut"},
     release        |-> {"rollOut", "press"},
     releaseOutside |-> {"rollOver"}]

Events == DOMAIN Orders
Stories == [Clips \cup Buttons -> [event : Events, again : BOOLEAN]]

\* The state of the mouse, the focus and the actors.
InputTypeOK ==
    /\ menus \subseteq Buttons
    /\ life \in [Actors -> {"displayed", "removed", "destroyed"}]
    /\ mouse \in [pressed : BOOLEAN, below : Maybe, grab : Maybe]
    /\ focus \in [now : Maybe, previous : Maybe]
    /\ calls \in Seq(Activations)
    /\ pc \in {"idle", "moving", "press", "release", "acting", "iterating"}
    /\ event \in {"move", "press", "release"}
    /\ shown \in [Buttons -> Looks]
    /\ told \in Stories
    /\ heard \in [Actors -> {"nothing", "set", "kill"}]
    /\ late \subseteq Actors

\* swfdec_movie_unset_actor has done its work: the player only points to a
\* removed actor if it took it when it was removed already.  (That happens, see
\* the README: a removed actor is found below the mouse, and a script that is
\* told of the focus removes the actor that is about to get it.)
HeldAreDisplayed ==
    /\ InputTypeOK
    /\ \A a \in Holders : life[a] = "displayed" \/ a \in late

\* How a button looks that has the mouse pressed on it or not.
Look(b, down) ==
    IF mouse.grab # b THEN "up"
    ELSE IF mouse.below = b THEN IF down THEN "down" ELSE "over"
    ELSE IF b \in menus THEN "up" ELSE "over"

\* A button looks as the mouse is, after each event, whatever scripts removed
\* or passed on in between: it is only over or down while it has the mouse, so
\* that no button is stuck.
ButtonsLookRight ==
    pc \in {"idle", "acting"} =>
        \A b \in Buttons : life[b] = "displayed" => shown[b] = Look(b, mouse.pressed)

\* The events of an actor come in the order that scripts rely on: what is
\* pressed is released, inside or outside; nothing is pressed or left that the
\* mouse had not entered.
MouseEventsInOrder ==
    [][\A a \in Clips \cup Buttons :
         told'[a] # told[a] /\ life[a] = "displayed" =>
            \/ told'[a].event \in Orders[told[a].event]
            \/ /\ a \in menus
               /\ told[a].event = "dragOut" /\ told'[a].event = "rollOver"]_inputVars

\* However scripts pass the focus on while it moves, the actor that has it in
\* the end is one that was told so, and not told since that it lost it.
FocusWasTold ==
    calls = <<>> /\ focus.now # None => heard[focus.now] = "set"

-----------------------------------------------------------------------------
(* The inductive invariant: what makes the properties above true *)

\* Whether the button was down when the actors heard of the mouse last: it
\* changes before they hear of that.
Down == IF pc \in {"press", "release"} THEN pc = "release" ELSE mouse.pressed

\* The mouse is grabbed by what is below it unless the button is down; and the
\* application reports only what changes the button.
GrabFollows ==
    /\ ~Down /\ mouse.grab # None => mouse.below = mouse.grab
    /\ pc = "press" => mouse.pressed
    /\ pc = "release" => ~mouse.pressed
    /\ pc = "moving" => event # (IF mouse.pressed THEN "press" ELSE "release")

LooksFollow ==
    \A b \in Buttons : life[b] = "displayed" => shown[b] = Look(b, Down)

\* What an actor may have been told last.
Expected(a) ==
    IF mouse.grab # a
    THEN {"none", "rollOut", "releaseOutside"} \cup (IF a \in menus THEN {"dragOut"} ELSE {})
    ELSE IF mouse.below # a THEN {"dragOut"}
    ELSE IF Down THEN {"press", "dragOver"}
    ELSE {"rollOver", "release"}

EventsFollow ==
    \A a \in Clips \cup Buttons :
        life[a] = "displayed" => told[a].event \in Expected(a)

\* An actor that was told that it loses the focus has it only as long as a
\* call that told it so has not gone on.
FocusIsPassed ==
    focus.now # None /\ heard[focus.now] # "set" =>
        \E k \in DOMAIN calls : calls[k].step = "kill"

InputInv == /\ HeldAreDisplayed
            /\ GrabFollows
            /\ LooksFollow
            /\ EventsFollow
            /\ FocusIsPassed
=============================================================================
