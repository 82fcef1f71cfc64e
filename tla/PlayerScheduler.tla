-------------------------- MODULE PlayerScheduler --------------------------
(***************************************************************************)
(* The player's clock (swfdec_player.c): how swfdec_player_advance moves   *)
(* time and runs timeouts, how external actions (changes the outside       *)
(* world tells the player about) are queued and run, the frame timer that  *)
(* iterates the movie, and the timers behind setInterval and setTimeout    *)
(* (swfdec_interval.c).                                                    *)
(*                                                                         *)
(* The player is single-threaded but deeply reentrant: every timeout and   *)
(* every external action runs scripts, and scripts call back into all of   *)
(* the functions here.  phase says which callback is on the stack; while   *)
(* it is "action" or "script" a script (or C code on behalf of one) runs   *)
(* and any of the script actions below may happen, in any order and any    *)
(* number of times.                                                        *)
(***************************************************************************)
EXTENDS Timeouts

CONSTANTS
    Objects,        \* what external actions are queued for: streams, and the player
                    \* itself for set_size and set_focus
    None,           \* a removed external action: object == NULL
    Intervals,      \* identities of SwfdecInterval objects
    Periods,        \* the msecs argument of setInterval, positive
    FramePeriods,   \* ticks per frame, SWFDEC_TICKS_PER_SECOND * 256 / rate
    Msecs,          \* the msecs argument of swfdec_player_advance
    TicksPerMsec,   \* SWFDEC_MSECS_TO_TICKS (1)
    Throttle,       \* SWFDEC_MSECS_TO_TICKS (100)
    MaxTime,        \* bound: the player is not advanced beyond this time
    MaxExternal     \* bound: length of the queue of external actions

ASSUME TickAssumption ==
    /\ TicksPerMsec \in Nat \ {0}
    /\ Throttle \in Nat
    /\ Msecs \subseteq Nat
    /\ Periods \subseteq Nat \ {0}
    /\ FramePeriods \subseteq Nat \ {0}
    /\ MaxTime \in Nat
    /\ MaxExternal \in Nat
ASSUME ObjectAssumption == None \notin Objects
ASSUME IntervalAssumption == "iterate" \notin Intervals /\ "external" \notin Intervals

\* The SwfdecTimeout structs: two in the player, one in every interval.
Timeout == {"iterate", "external"} \cup Intervals

\* The bound on timestamps that follows from the bound on time.
MaxStamp == MaxTime + Throttle

VARIABLES
    time,           \* priv->time, in ticks
    target,         \* target_time of the running, else of the last, advance
    timeouts,       \* priv->timeouts
    timestamp,      \* the timestamp of every timeout
    armed,          \* the timeouts whose callback is not NULL
    external,       \* priv->external_actions, oldest first
    left,           \* how many of them the running pass still has to run
    initialized,    \* priv->initialized
    rate,           \* ticks per frame
    intervals,      \* priv->intervals
    interval,       \* msecs and repeat of every interval
    aborted,        \* the script engine gave up for good
    phase,          \* which callback is running
    iterating,      \* that callback is swfdec_player_iterate
    lastTrigger     \* history: when the external timeout last fired

clock == <<time, target>>
timers == <<timeouts, timestamp, armed>>
frame == <<initialized, rate, aborted>>
control == <<phase, left, iterating>>
vars == <<time, target, timeouts, timestamp, armed, external, left, initialized,
          rate, intervals, interval, aborted, phase, iterating, lastTrigger>>

-----------------------------------------------------------------------------

Init == /\ time = 0
        /\ target = 0
        /\ timeouts = <<>>
        /\ timestamp = [t \in Timeout |-> 0]
        /\ armed = {}
        /\ external = <<>>
        /\ left = 0
        /\ initialized = FALSE
        /\ rate = 0
        /\ intervals = {}
        /\ interval = [i \in Intervals |-> [msecs |-> 0, repeat |-> FALSE]]
        /\ aborted = FALSE
        /\ phase = "idle"
        /\ iterating = FALSE
        /\ lastTrigger = -Throttle

\* A script, or C code called on its behalf, is running.
InCallback == phase \in {"action", "script"}

-----------------------------------------------------------------------------
(* Advancing the player *)

\* swfdec_player_get_next_event: ticks are rounded up to full msecs.
NextEvent == LET ticks == NextEventTime(timeouts, timestamp, time)
             IN  IF ticks = Never THEN -1
                 ELSE (ticks + TicksPerMsec - 1) \div TicksPerMsec

\* Operators named Wrong... are faulty variants of the one that follows them:
\* each is what one of the properties below rules out.
WrongGoal(msecs) == time + msecs * TicksPerMsec

\* swfdec_player_advance never goes beyond the next event.  An application
\* asks for the next event first and does not advance a player without any,
\* which swfdec_player_do_advance asserts.
Goal(msecs) == time + Min({msecs, NextEvent}) * TicksPerMsec

CanAdvance(msecs) == /\ phase = "idle"
                     /\ ~aborted
                     /\ timeouts # <<>>
                     /\ Goal(msecs) <= MaxTime

\* The first timeout is due: it leaves the list and its time is now.
Due(msecs, t) == /\ CanAdvance(msecs)
                 /\ t = Head(timeouts)
                 /\ timestamp[t] <= Goal(msecs)
                 /\ target' = Goal(msecs)
                 /\ time' = timestamp[t]

\* swfdec_player_do_advance with nothing to run.
AdvanceQuietly(msecs) ==
    /\ CanAdvance(msecs)
    /\ timestamp[Head(timeouts)] > Goal(msecs)
    /\ target' = Goal(msecs)
    /\ time' = Goal(msecs)
    /\ UNCHANGED <<timers, external, frame, intervals, interval, control, lastTrigger>>

\* swfdec_player_perform_external_actions up to its loop: the actions that
\* are queued now are the ones to run.
BeginPass == /\ left' = Len(external)
             /\ phase' = "external"
             /\ UNCHANGED external

\* swfdec_player_trigger_external_actions.
FireExternal(msecs) ==
    /\ Due(msecs, "external")
    /\ timeouts' = Tail(timeouts)
    /\ armed' = armed \ {"external"}
    /\ lastTrigger' = timestamp["external"]
    /\ BeginPass
    /\ UNCHANGED <<timestamp, frame, intervals, interval, iterating>>

\* swfdec_player_iterate up to the loop over the external actions: it adds
\* itself again, then takes over the work of the external timeout.
FireIterate(msecs) ==
    LET next == [timestamp EXCEPT !["iterate"] = @ + rate]
        again == AddTimeout(Tail(timeouts), next, timestamp["iterate"], "iterate")
    IN  /\ Due(msecs, "iterate")
        /\ timestamp' = next
        /\ timeouts' = IF "external" \in armed THEN RemoveTimeout(again, "external")
                                               ELSE again
        /\ armed' = armed \ {"external"}
        /\ iterating' = TRUE
        /\ BeginPass
        /\ UNCHANGED <<frame, intervals, interval, lastTrigger>>

\* swfdec_interval_trigger up to the call of the script: a repeating interval
\* adds itself again, a timeout is forgotten.
FireInterval(msecs, i) ==
    /\ Due(msecs, i)
    /\ IF interval[i].repeat
       THEN /\ timestamp' = [timestamp EXCEPT ![i] = @ + interval[i].msecs * TicksPerMsec]
            /\ timeouts' = AddTimeout(Tail(timeouts), timestamp', timestamp[i], i)
            /\ UNCHANGED <<armed, intervals>>
       ELSE /\ timeouts' = Tail(timeouts)
            /\ armed' = armed \ {i}
            /\ intervals' = intervals \ {i}
            /\ UNCHANGED timestamp
    /\ phase' = "script"
    /\ UNCHANGED <<external, frame, interval, left, iterating, lastTrigger>>

\* One round of the loop in swfdec_player_perform_external_actions.  A removed
\* action is skipped.
RunExternal ==
    /\ phase = "external"
    /\ left > 0
    /\ external' = Tail(external)
    /\ left' = left - 1
    /\ phase' = IF Head(external).object = None THEN "external" ELSE "action"
    /\ UNCHANGED <<clock, timers, frame, intervals, interval, iterating, lastTrigger>>

WrongEndAction ==
    /\ phase = "action"
    /\ phase' = "external"
    /\ left' = Len(external)
    /\ UNCHANGED <<clock, timers, external, frame, intervals, interval, iterating,
                   lastTrigger>>

\* The action's function, and the scripts it queued, have returned.
EndAction ==
    /\ phase = "action"
    /\ phase' = "external"
    /\ UNCHANGED <<clock, timers, external, frame, intervals, interval, left,
                   iterating, lastTrigger>>

\* The loop over the external actions is done.  Iterating goes on with the
\* movies' frame scripts, otherwise the timeout is done as well.
EndPass ==
    /\ phase = "external"
    /\ left = 0
    /\ phase' = "script"
    /\ iterating' = FALSE
    /\ external' = [k \in DOMAIN external |-> [external[k] EXCEPT !.fresh = FALSE]]
    /\ UNCHANGED <<clock, timers, frame, intervals, interval, left, lastTrigger>>

WrongFinish ==
    /\ phase = "script"
    /\ phase' = "idle"
    /\ UNCHANGED <<clock, timers, external, frame, intervals, interval, left,
                   iterating, lastTrigger>>

\* The callback returned to swfdec_player_do_advance or to the handler of an
\* input event, which unlocks the player.
Finish ==
    /\ phase = "script"
    /\ phase' = "idle"
    /\ time' = target
    /\ UNCHANGED <<target, timers, external, frame, intervals, interval, left,
                   iterating, lastTrigger>>

\* swfdec_player_do_handle_key and swfdec_player_do_handle_mouse: scripts run
\* without moving the clock.
HandleInput ==
    /\ phase = "idle"
    /\ ~aborted
    /\ phase' = "script"
    /\ UNCHANGED <<clock, timers, external, frame, intervals, interval, left,
                   iterating, lastTrigger>>

-----------------------------------------------------------------------------
(* What callbacks do *)

WrongAddNow(o) ==
    /\ InCallback \/ phase = "idle"
    /\ Len(external) < MaxExternal
    /\ external' = Append(external, [object |-> o, fresh |-> phase = "action"])
    /\ IF "external" \in armed
       THEN UNCHANGED timers
       ELSE /\ timestamp' = [timestamp EXCEPT !["external"] = time]
            /\ armed' = armed \cup {"external"}
            /\ timeouts' = AddTimeout(timeouts, timestamp', time, "external")
    /\ UNCHANGED <<clock, frame, intervals, interval, control, lastTrigger>>

\* swfdec_player_add_external_action, also called by the application and by
\* streams while the player is idle.  fresh is history: the action was queued
\* by an action of the running pass.
AddExternal(o) ==
    LET start == IF initialized THEN Max({time, timestamp["external"] + Throttle})
                                ELSE time
        next == [timestamp EXCEPT !["external"] = start]
    IN  /\ InCallback \/ phase = "idle"
        /\ Len(external) < MaxExternal
        /\ external' = Append(external, [object |-> o, fresh |-> phase = "action"])
        /\ IF "external" \in armed
           THEN UNCHANGED timers
           ELSE /\ start <= MaxStamp
                /\ timestamp' = next
                /\ armed' = armed \cup {"external"}
                /\ timeouts' = AddTimeout(timeouts, next, time, "external")
        /\ UNCHANGED <<clock, frame, intervals, interval, control, lastTrigger>>

\* swfdec_player_remove_all_external_actions: entries stay, without an object.
RemoveExternals(o) ==
    /\ InCallback
    /\ external' = [k \in DOMAIN external |->
                      IF external[k].object = o THEN [external[k] EXCEPT !.object = None]
                                                ELSE external[k]]
    /\ UNCHANGED <<clock, timers, frame, intervals, interval, control, lastTrigger>>

\* swfdec_interval_new, for an interval identity that is not in use.
NewInterval(i, msecs, repeat) ==
    LET next == [timestamp EXCEPT ![i] = time + msecs * TicksPerMsec]
    IN  /\ InCallback
        /\ ~aborted
        /\ i \notin intervals
        /\ interval' = [interval EXCEPT ![i] = [msecs |-> msecs, repeat |-> repeat]]
        /\ timestamp' = next
        /\ armed' = armed \cup {i}
        /\ timeouts' = AddTimeout(timeouts, next, time, i)
        /\ intervals' = intervals \cup {i}
        /\ UNCHANGED <<clock, external, frame, control, lastTrigger>>

\* swfdec_interval_remove.
RemoveInterval(i) ==
    /\ InCallback
    /\ ~aborted
    /\ i \in intervals
    /\ intervals' = intervals \ {i}
    /\ timeouts' = RemoveTimeout(timeouts, i)
    /\ armed' = armed \ {i}
    /\ UNCHANGED <<clock, timestamp, external, frame, interval, control, lastTrigger>>

\* swfdec_player_initialize, called by the root resource when it has parsed a
\* header, which streams do as external actions.  A player that is initialized
\* again stops ticking until the new root movie starts it.
Initialize(r) ==
    /\ phase = "action"
    /\ initialized' = TRUE
    /\ rate' = r
    /\ IF initialized /\ "iterate" \in armed
       THEN /\ timeouts' = RemoveTimeout(timeouts, "iterate")
            /\ armed' = armed \ {"iterate"}
       ELSE UNCHANGED <<timeouts, armed>>
    /\ UNCHANGED <<clock, timestamp, external, intervals, interval, aborted, control,
                   lastTrigger>>

\* swfdec_player_start_ticking, called by the root resource when its first
\* frame is complete: the first iteration comes after a tenth of a frame.
StartTicking ==
    LET next == [timestamp EXCEPT !["iterate"] = time + rate \div 10]
    IN  /\ phase = "action"
        /\ initialized
        /\ "iterate" \notin armed
        /\ timestamp' = next
        /\ armed' = armed \cup {"iterate"}
        /\ timeouts' = AddTimeout(timeouts, next, time, "iterate")
        /\ UNCHANGED <<clock, external, frame, intervals, interval, control, lastTrigger>>

\* swfdec_as_context_abort: a script ran for too long or overflowed the stack.
Abort ==
    /\ InCallback
    /\ ~aborted
    /\ aborted' = TRUE
    /\ UNCHANGED <<clock, timers, external, initialized, rate, intervals, interval,
                   control, lastTrigger>>

-----------------------------------------------------------------------------

Advance(msecs) == \/ AdvanceQuietly(msecs)
                  \/ FireExternal(msecs)
                  \/ FireIterate(msecs)
                  \/ \E i \in Intervals : FireInterval(msecs, i)

Proceed == RunExternal \/ EndAction \/ EndPass \/ Finish

Callback == \/ \E o \in Objects : AddExternal(o) \/ RemoveExternals(o)
            \/ \E i \in Intervals : RemoveInterval(i)
            \/ \E i \in Intervals, msecs \in Periods, repeat \in BOOLEAN :
                   NewInterval(i, msecs, repeat)
            \/ \E r \in FramePeriods : Initialize(r)
            \/ StartTicking
            \/ Abort

Next == \/ \E msecs \in Msecs : Advance(msecs)
        \/ HandleInput
        \/ Proceed
        \/ Callback

\* Callbacks return: the script engine aborts a script that runs for longer
\* than swfdec_player_set_maximum_runtime allows.
Fairness == WF_vars(RunExternal) /\ WF_vars(EndAction) /\ WF_vars(EndPass) /\ WF_vars(Finish)

Spec == Init /\ [][Next]_vars /\ Fairness

-----------------------------------------------------------------------------
(* Properties *)

\* Every variable of the clock has its type.
TypeOK ==
    /\ time \in Nat
    /\ target \in Nat
    /\ timeouts \in Seq(Timeout)
    /\ timestamp \in [Timeout -> Nat]
    /\ armed \subseteq Timeout
    /\ external \in Seq([object : Objects \cup {None}, fresh : BOOLEAN])
    /\ left \in Nat
    /\ initialized \in BOOLEAN
    /\ rate \in Nat
    /\ intervals \subseteq Intervals
    /\ interval \in [Intervals -> [msecs : Nat, repeat : BOOLEAN]]
    /\ aborted \in BOOLEAN
    /\ phase \in {"idle", "external", "action", "script"}
    /\ iterating \in BOOLEAN
    /\ lastTrigger \in Int

\* The list of timeouts is sorted by timestamp in every state a callback can
\* see, although timers are stopped, restarted and rescheduled from callbacks
\* and the timestamps of listed timeouts could be overwritten.
TimeoutsSorted == Sorted(timeouts, timestamp)

\* A timeout is in the list exactly once if it has a callback and not at all
\* otherwise.  swfdec_player_do_advance calls the callback of whatever is first
\* in the list, and the users of timeouts only look at the callback to tell
\* whether theirs is pending.
ArmedIffPending == ToSet(timeouts) = armed /\ Distinct(timeouts)

\* Scripts can clear an interval exactly as long as it will fire again, also
\* from the interval's own callback.
IntervalsPending == intervals = armed \cap Intervals

\* No external action is forgotten: whatever the running pass does not handle
\* has the external timeout pending.
ExternalPending ==
    \A k \in left + 1 .. Len(external) :
        external[k].object # None => "external" \in armed

\* A pass never pops from an empty queue (the assertion in
\* swfdec_player_perform_external_actions).
PassWithinQueue == left <= Len(external)

\* Rounding to msecs makes events late, but never by a msec or more: whenever
\* the player is idle, every pending timeout is less than a msec in the past.
NeverLate ==
    phase = "idle" => \A t \in ToSet(timeouts) : timestamp[t] + TicksPerMsec > time

\* Time goes back when a late timeout runs, by less than a msec and never
\* behind the end of the last advance that completed.
TimeNearTarget == time <= target /\ time + TicksPerMsec > target
TimeForward == [][target' >= target]_vars

\* An external action that is queued by an external action waits for the next
\* pass ("newly added ones aren't executed in here").
NoActionInItsOwnPass ==
    [][phase = "external" /\ phase' = "action" => ~Head(external).fresh]_vars

\* Once the player is initialized the external timeout is scheduled at least
\* Throttle ticks after it last triggered ("keep at least 100ms from when the
\* last external timeout triggered"), no matter how often iterations took over
\* its work in between.
Throttled ==
    [][initialized /\ "external" \notin armed /\ "external" \in armed'
          => timestamp'["external"] >= lastTrigger + Throttle]_vars

\* A timeout that is added, or added again for a later time, comes after all
\* others with its timestamp ("on events with the same time, we make sure the
\* new one is last"): no timer overtakes one that was set before it.
NewTimeoutIsLast ==
    [][\A k, m \in DOMAIN timeouts' :
          LET t == timeouts'[m]
          IN  (/\ t \notin armed \/ timestamp'[t] # timestamp[t]
               /\ timestamp'[timeouts'[k]] = timestamp'[t]) => k <= m]_vars

\* A pass over the external actions ends and the player is unlocked again,
\* even if every external action queues another one.
PassEnds == phase = "external" ~> phase = "idle"

-----------------------------------------------------------------------------
(* The inductive invariant: what makes the properties above true *)

\* Every pending timeout is less than a msec behind the end of the advance.
StampsNearTarget == \A t \in ToSet(timeouts) : timestamp[t] + TicksPerMsec > target

\* Between two advances the clock stands where the last one was to end.
IdleOnTarget == phase = "idle" => time = target

\* Actions queued by actions lie behind those the running pass still handles.
FreshBehindPass ==
    \A k \in DOMAIN external :
        external[k].fresh => left < k /\ phase \in {"external", "action"}

\* Nothing is scheduled before the last run of the external timeout.
TriggerPast ==
    /\ lastTrigger <= time
    /\ lastTrigger <= timestamp["external"]
    /\ \A t \in ToSet(timeouts) : lastTrigger <= timestamp[t]

\* The conjunction of all state properties with their strengthenings: if one
\* of the functions above broke any of it, the properties would fail later.
IInv == /\ TypeOK
        /\ TimeoutsSorted
        /\ ArmedIffPending
        /\ IntervalsPending
        /\ ExternalPending
        /\ PassWithinQueue
        /\ TimeNearTarget
        /\ StampsNearTarget
        /\ IdleOnTarget
        /\ FreshBehindPass
        /\ TriggerPast
=============================================================================
