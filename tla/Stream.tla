------------------------------- MODULE Stream -------------------------------
(***************************************************************************)
(* A SwfdecStream (swfdec_stream.c) between the backend that feeds it and  *)
(* the target that consumes it.  The backend belongs to the application    *)
(* and reports at any time; the stream only remembers what was reported    *)
(* and queues one external action, which then tells the target everything  *)
(* it has missed.  While the target is told it runs scripts, and they may  *)
(* close the stream or write to it.                                        *)
(*                                                                         *)
(* Targets are of two kinds.  Those of a loader (SwfdecResource,           *)
(* SwfdecNetStream, SwfdecLoadObject, SwfdecLoadSound) may let go of it    *)
(* whenever they run; those of a socket (SwfdecXmlSocket) let go when it   *)
(* ends, and their scripts may send.                                       *)
(***************************************************************************)
EXTENDS Naturals

CONSTANT MaxBuffers     \* bound: how many buffers are pushed in all

ASSUME BoundAssumption == MaxBuffers \in Nat

VARIABLES
    kind,       \* what kind of stream it is
    backend,    \* what the backend has reported so far
    pushed,     \* how many buffers the backend has pushed
    stream,     \* SwfdecStreamPrivate, and the actions queued for it
    pc,         \* where swfdec_stream_process is
    told        \* history: the last thing that the target was told

vars == <<kind, backend, pushed, stream, pc, told>>

Callbacks == {"open", "parse", "last parse", "close", "error"}

Init == /\ kind \in {"loader", "socket"}
        /\ backend = "connecting"
        /\ pushed = 0
        /\ stream = [state     |-> "connecting",
                     processed |-> "connecting",
                     queued    |-> FALSE,
                     target    |-> "none",  \* NULL at first, and when dropped
                     data      |-> 0,       \* how many buffers are unread
                     fresh     |-> FALSE,   \* history: no parse since a push
                     actions   |-> 0,       \* swfdec_stream_process
                     writable  |-> FALSE]   \* swfdec_socket_process_writable
        /\ pc = "idle"
        /\ told = "nothing"

\* Operators named Wrong... are faulty variants of the one that follows them.
WrongQueueProcessing(s) ==
    [s EXCEPT !.queued = TRUE,
              !.actions = IF s.target = "set" THEN @ + 1 ELSE @]

\* swfdec_stream_queue_processing.
QueueProcessing(s) ==
    IF s.queued THEN s
    ELSE [s EXCEPT !.queued = TRUE,
                   !.actions = IF s.target = "set" THEN @ + 1 ELSE @]

\* swfdec_stream_set_target without a target.
Drop(s) == [s EXCEPT !.target = "dropped",
                     !.queued = FALSE,
                     !.actions = 0,
                     !.writable = FALSE]

-----------------------------------------------------------------------------
(* The backend, between any two things that the player does *)

\* What is reported of a stream in another state is refused.
BackendOpen == /\ pc = "idle"
               /\ backend = "connecting"
               /\ backend' = "open"
               /\ stream' = IF stream.state = "connecting"
                            THEN QueueProcessing([stream EXCEPT !.state = "open"])
                            ELSE stream
               /\ UNCHANGED <<kind, pushed, pc, told>>

BackendPush == /\ pc = "idle"
               /\ backend = "open"
               /\ pushed < MaxBuffers
               /\ pushed' = pushed + 1
               /\ stream' = IF stream.state = "open"
                            THEN QueueProcessing([stream EXCEPT !.data = @ + 1,
                                                                !.fresh = TRUE])
                            ELSE stream
               /\ UNCHANGED <<kind, backend, pc, told>>

BackendClose == /\ pc = "idle"
                /\ backend = "open"
                /\ backend' = "done"
                /\ stream' = IF stream.state = "open"
                             THEN QueueProcessing([stream EXCEPT !.state = "closed"])
                             ELSE stream
                /\ UNCHANGED <<kind, pushed, pc, told>>

\* swfdec_stream_errorv.
Error(s) == QueueProcessing([s EXCEPT !.state = "error"])

BackendError == /\ pc = "idle"
                /\ backend # "done"
                /\ backend' = "done"
                /\ stream' = IF stream.state = "error" THEN stream ELSE Error(stream)
                /\ UNCHANGED <<kind, pushed, pc, told>>

\* swfdec_socket_signal_writable.
SignalWritable == /\ pc = "idle"
                  /\ kind = "socket"
                  /\ backend = "open"
                  /\ stream.target = "set"
                  /\ stream' = [stream EXCEPT !.writable = TRUE]
                  /\ UNCHANGED <<kind, backend, pushed, pc, told>>

-----------------------------------------------------------------------------
(* The target, and the scripts: those it runs, and others between actions *)

ScriptRuns == pc # "loop"

\* swfdec_stream_set_target: the backend may be ahead of it.
SetTarget == /\ pc = "idle"
             /\ stream.target = "none"
             /\ stream' = LET s == [stream EXCEPT !.target = "set", !.queued = FALSE]
                          IN  IF s.state = "connecting" THEN s ELSE QueueProcessing(s)
             /\ UNCHANGED <<kind, backend, pushed, pc, told>>

\* swfdec_stream_ensure_closed of a stream that is connecting or open.  The
\* backend is told to close, and may report that it did before that returns.
Closings(s) ==
    {[t EXCEPT !.state = "closed", !.processed = "closed"] : t \in {s, QueueProcessing(s)}}

\* A target that is done with its loader: it was replaced, or it is destroyed.
\* A NetStream closes the loader as well, the others leave it alone.
DropLoader ==
    /\ kind = "loader"
    /\ stream.target = "set"
    /\ ScriptRuns /\ pc # "open"
    /\ \/ /\ stream' = Drop(stream)
          /\ UNCHANGED backend
       \/ /\ stream.state \in {"connecting", "open"}
          /\ \E s \in Closings(stream) : stream' = Drop(s)
          /\ backend' = "done"
    /\ UNCHANGED <<kind, pushed, pc, told>>

\* XMLSocket.close() in any script.  The target stays.
CloseSocket == /\ kind = "socket"
               /\ ScriptRuns
               /\ stream.target = "set"
               /\ stream.state \in {"connecting", "open"}
               /\ stream' \in Closings(stream)
               /\ backend' = "done"
               /\ UNCHANGED <<kind, pushed, pc, told>>

\* XMLSocket.send() in any script, and the backend reports that it failed.
SendFails == /\ kind = "socket"
             /\ ScriptRuns
             /\ stream.target = "set"
             /\ stream.state = "open"
             /\ stream' = Error(stream)
             /\ UNCHANGED <<kind, backend, pushed, pc, told>>

-----------------------------------------------------------------------------
(* The external actions *)

Tell(callback, s) == /\ pc' = callback
                     /\ told' = IF callback = "last parse" THEN "parse" ELSE callback
                     /\ stream' = s

\* The head of swfdec_stream_process.
Process ==
    /\ pc = "idle"
    /\ stream.actions > 0
    /\ LET s == [stream EXCEPT !.actions = @ - 1, !.queued = FALSE]
       IN  IF s.state = s.processed /\ s.state # "open"
           THEN stream' = s /\ UNCHANGED <<pc, told>>
           ELSE IF s.state = "error" THEN Tell("error", s)
           ELSE stream' = s /\ pc' = "loop" /\ UNCHANGED told
    /\ UNCHANGED <<kind, backend, pushed>>

\* Its loop.  (It spins forever if an error came up after the target was told
\* of the end: that is the case without a step.)
Loop ==
    /\ pc = "loop"
    /\ LET s == stream
       IN  CASE s.state # s.processed /\ s.processed = "connecting" ->
                  Tell("open", [s EXCEPT !.processed = "open"])
             [] s.state # s.processed /\ s.processed = "open" ->
                  Tell("parse", [s EXCEPT !.fresh = FALSE])
             [] s.state = s.processed /\ s.state = "open" ->
                  Tell("last parse", [s EXCEPT !.fresh = FALSE])
             [] s.state = s.processed /\ s.state # "open" ->
                  pc' = "idle" /\ UNCHANGED <<stream, told>>
             [] OTHER -> FALSE
    /\ UNCHANGED <<kind, backend, pushed>>

\* The target returns from open.
Opened == /\ pc = "open"
          /\ pc' = "loop"
          /\ UNCHANGED <<kind, backend, pushed, stream, told>>

\* The target returns from parse, and has read any number of buffers.  Only one
\* that has read some asks to be called again.
Parsed == /\ pc \in {"parse", "last parse"}
          /\ \E left \in 0..stream.data :
               LET s == [stream EXCEPT !.data = left]
               IN  \/ /\ left < stream.data
                      /\ kind = "loader"
                      /\ stream' = QueueProcessing(s)
                      /\ pc' = "idle"
                      /\ UNCHANGED told
                   \/ /\ pc = "parse"
                      /\ s.target = "set"
                      /\ Tell("close", [s EXCEPT !.processed = "closed"])
                   \/ /\ pc = "last parse" \/ s.target # "set"
                      /\ stream' = s
                      /\ pc' = "idle"
                      /\ UNCHANGED told
          /\ UNCHANGED <<kind, backend, pushed>>

\* The target returns from close or error.
Ended == /\ pc \in {"close", "error"}
         /\ pc' = IF pc = "close" THEN "loop" ELSE "idle"
         /\ stream' \in {Drop(stream)} \cup (IF kind = "loader" THEN {stream} ELSE {})
         /\ UNCHANGED <<kind, backend, pushed, told>>

\* swfdec_socket_process_writable: the target sends again, which may fail.
ProcessWritable == /\ pc = "idle"
                   /\ stream.writable
                   /\ \/ stream' = [stream EXCEPT !.writable = FALSE]
                      \/ /\ stream.state = "open"
                         /\ stream' = [Error(stream) EXCEPT !.writable = FALSE]
                   /\ UNCHANGED <<kind, backend, pushed, pc, told>>

-----------------------------------------------------------------------------

Backend == BackendOpen \/ BackendPush \/ BackendClose \/ BackendError \/ SignalWritable

Target == SetTarget \/ DropLoader \/ CloseSocket \/ SendFails

Action == Process \/ Loop \/ Opened \/ Parsed \/ Ended \/ ProcessWritable

Next == Backend \/ Target \/ Action

\* External actions are run by a timeout of the player (PlayerScheduler), and
\* scripts are aborted when they take too long.
Spec == Init /\ [][Next]_vars /\ WF_vars(Process \/ Loop \/ Opened \/ Parsed \/ Ended)

-----------------------------------------------------------------------------
(* Properties *)

\* The values of SwfdecStreamPrivate, with the actions queued for it.
Streams == [state     : {"connecting", "open", "closed", "error"},
            processed : {"connecting", "open", "closed"},
            queued    : BOOLEAN,
            target    : {"none", "set", "dropped"},
            data      : 0..MaxBuffers,
            fresh     : BOOLEAN,
            actions   : 0..1,
            writable  : BOOLEAN]

\* The state of the stream.
TypeOK ==
    /\ kind \in {"loader", "socket"}
    /\ backend \in {"connecting", "open", "done"}
    /\ pushed \in 0..MaxBuffers
    /\ stream \in Streams
    /\ pc \in {"idle", "loop"} \cup Callbacks
    /\ told \in {"nothing", "open", "parse", "close", "error"}

\* queued says whether an action is queued, so that no report gets lost and the
\* target is never called by two actions.
QueuedIsPending == stream.target = "set" => (stream.queued <=> stream.actions > 0)

\* The assertions of both actions: a queued action has a target, and the target
\* was not told of the end unless there is nothing to tell it.
AssertionsHold ==
    /\ stream.actions > 0 \/ stream.writable => stream.target = "set"
    /\ pc = "idle" /\ stream.actions > 0 /\ stream.processed = "closed"
         => stream.state = "closed"

\* A target is told of the end only after it could parse the last buffer.
NoDataLost == pc = "close" => ~stream.fresh

\* What a target may be told after what.  There is one end, and nothing is told
\* after it; nothing is parsed before the stream was opened; and a target that
\* let go of the stream in its callback is not told any more.
CallbackOrder ==
    [][told' # told =>
         /\ stream.target = "set"
         /\ <<told, told'>> \in {<<"nothing", "open">>, <<"nothing", "error">>,
                                 <<"open", "parse">>, <<"open", "error">>,
                                 <<"parse", "close">>, <<"parse", "error">>}]_vars

\* The target of a loader that has ended learns of that unless it lets go.
EndIsTold ==
    kind = "loader" /\ stream.target = "set" /\ stream.state \in {"closed", "error"}
      ~> told \in {"close", "error"} \/ stream.target = "dropped"

-----------------------------------------------------------------------------
(* The inductive invariant: what makes the properties above true *)

\* No more data is unread than was pushed.
DataWasPushed == stream.data <= pushed

\* Actions are only queued for the sake of a target.
ActionsForTarget == stream.target # "set" => stream.actions = 0 /\ ~stream.writable

\* A target that was told anything was set, and cannot be set again.
ToldTarget == told # "nothing" => stream.target # "none"

\* The end of a stream is the end of its backend, but for a failed send.
ClosedIsDone == stream.state = "closed" => backend = "done"

\* What the target was told last goes with how far it was told the states.
ToldIsProcessed ==
    /\ stream.state = "connecting" => stream.processed = "connecting"
    /\ stream.processed = "connecting" => told \in {"nothing", "error"}
    /\ stream.processed = "open" => told \in {"open", "parse", "error"}
    /\ told = "close" => stream.processed = "closed"
    /\ stream.processed = "closed" =>
         \/ stream.state = "closed"
         \/ stream.state = "error" /\ pc \in {"close", "loop"}

\* An error that was told is the end of it.
ErrorIsLast ==
    /\ told = "error" => /\ stream.state = "error"
                         /\ stream.actions = 0
                         /\ pc \in {"idle", "error"}
    /\ kind = "loader" /\ stream.state = "error" => pc \in {"idle", "error"}

\* Where swfdec_stream_process is tells what it did so far.
Place ==
    /\ pc \in Callbacks => told = (IF pc = "last parse" THEN "parse" ELSE pc)
    /\ pc = "loop" /\ stream.processed # "closed" => stream.target = "set"
    /\ pc = "open" => stream.target = "set"
    /\ pc = "parse" => stream.state \in {"closed", "error"} /\ stream.processed = "open"
    /\ pc \in {"parse", "last parse", "close"} => ~stream.fresh

\* The conjunction of the type invariant, the properties and these.
IInv == /\ TypeOK
        /\ DataWasPushed
        /\ QueuedIsPending
        /\ ActionsForTarget
        /\ AssertionsHold
        /\ ToldTarget
        /\ ClosedIsDone
        /\ ToldIsProcessed
        /\ ErrorIsLast
        /\ Place
=============================================================================
