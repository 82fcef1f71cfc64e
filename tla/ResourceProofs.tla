---------------------------- MODULE ResourceProofs ----------------------------
(***************************************************************************)
(* The safety properties of streams, and of what resources and XML sockets *)
(* make of theirs, proved for any number of buffers.                       *)
(*                                                                         *)
(* The first part is about Stream alone.  The second shows that what a     *)
(* resource does are steps of its stream, so that the invariant of streams *)
(* carries over, and with it the states, the sandbox and the signals.  The *)
(* third does the same for an XML socket: the lemmas about buffer queues,  *)
(* about reading and about sending come first, then its steps.             *)
(***************************************************************************)
EXTENDS Resource, XmlSocket, SequenceTheorems, NaturalsInduction,
        WellFoundedInduction, TLAPS

-----------------------------------------------------------------------------
(* Streams *)

StreamFields == {"state", "processed", "queued", "target", "data", "fresh", "actions",
                 "writable"}

\* What is known of a stream's fields without looking at the set of records.
LEMMA FieldFacts ==
    ASSUME NEW s \in Streams
    PROVE  /\ DOMAIN s = StreamFields
           /\ s.state \in {"connecting", "open", "closed", "error"}
           /\ s.processed \in {"connecting", "open", "closed"}
           /\ s.queued \in BOOLEAN
           /\ s.target \in {"none", "set", "dropped"}
           /\ s.data \in 0..MaxBuffers
           /\ s.fresh \in BOOLEAN
           /\ s.actions \in 0..1
           /\ s.writable \in BOOLEAN
BY DEF Streams, StreamFields

\* Changes that keep the type of a stream.
LEMMA UpdateFacts ==
    ASSUME NEW s \in Streams
    PROVE  /\ \A v \in {"connecting", "open", "closed", "error"} :
                [s EXCEPT !.state = v] \in Streams
           /\ \A v \in {"connecting", "open", "closed"} :
                [s EXCEPT !.processed = v] \in Streams
           /\ \A v \in BOOLEAN : [s EXCEPT !.fresh = v] \in Streams
           /\ \A v \in BOOLEAN : [s EXCEPT !.writable = v] \in Streams
           /\ \A v \in BOOLEAN : [s EXCEPT !.queued = v] \in Streams
           /\ [s EXCEPT !.actions = 0] \in Streams
           /\ [s EXCEPT !.actions = 1] \in Streams
           /\ \A v \in {"none", "set", "dropped"} : [s EXCEPT !.target = v] \in Streams
           /\ \A v \in 0..MaxBuffers : [s EXCEPT !.data = v] \in Streams
<1>1. \A v \in {"connecting", "open", "closed", "error"} : [s EXCEPT !.state = v] \in Streams
  BY DEF Streams
<1>2. \A v \in {"connecting", "open", "closed"} : [s EXCEPT !.processed = v] \in Streams
  BY DEF Streams
<1>3. \A v \in BOOLEAN : [s EXCEPT !.fresh = v] \in Streams
  BY DEF Streams
<1>4. \A v \in BOOLEAN : [s EXCEPT !.writable = v] \in Streams
  BY DEF Streams
<1>5. \A v \in BOOLEAN : [s EXCEPT !.queued = v] \in Streams
  BY DEF Streams
<1>6. [s EXCEPT !.actions = 0] \in Streams /\ [s EXCEPT !.actions = 1] \in Streams
  BY DEF Streams
<1>7. \A v \in {"none", "set", "dropped"} : [s EXCEPT !.target = v] \in Streams
  BY DEF Streams
<1>8. \A v \in 0..MaxBuffers : [s EXCEPT !.data = v] \in Streams
  BY DEF Streams
<1>9. QED
  BY <1>1, <1>2, <1>3, <1>4, <1>5, <1>6, <1>7, <1>8

\* What swfdec_stream_queue_processing makes of a stream.
LEMMA QueueFacts ==
    ASSUME NEW s \in Streams, ~s.queued /\ s.target = "set" => s.actions = 0
    PROVE  LET q == QueueProcessing(s)
           IN  /\ q \in Streams
               /\ q.queued
               /\ q.state = s.state /\ q.processed = s.processed /\ q.target = s.target
               /\ q.data = s.data /\ q.fresh = s.fresh /\ q.writable = s.writable
               /\ ~s.queued /\ s.target = "set" => q.actions = 1
               /\ s.queued \/ s.target # "set" => q.actions = s.actions
<1>1. CASE s.queued
  BY <1>1 DEF QueueProcessing
<1>2. CASE ~s.queued /\ s.target = "set"
  <2>1. QueueProcessing(s) = [s EXCEPT !.queued = TRUE, !.actions = 1]
    <3>1. s.actions + 1 = 1
      BY <1>2
    <3>2. QED
      BY <1>2, <3>1 DEF QueueProcessing
  <2>2. [s EXCEPT !.queued = TRUE, !.actions = 1] \in Streams
    <3> DEFINE t == [s EXCEPT !.queued = TRUE]
    <3>1. t \in Streams
      BY UpdateFacts
    <3>2. [t EXCEPT !.actions = 1] \in Streams
      BY <3>1, UpdateFacts
    <3>3. QED
      BY <3>2
  <2>3. QED
    BY <1>2, <2>1, <2>2, FieldFacts DEF StreamFields
<1>3. CASE ~s.queued /\ s.target # "set"
  <2>1. QueueProcessing(s) = [s EXCEPT !.queued = TRUE]
    BY <1>3, FieldFacts DEF QueueProcessing, StreamFields
  <2>2. [s EXCEPT !.queued = TRUE] \in Streams
    BY UpdateFacts
  <2>3. QED
    BY <1>3, <2>1, <2>2, FieldFacts DEF StreamFields
<1>4. QED
  BY <1>1, <1>2, <1>3

\* What swfdec_stream_set_target without a target makes of a stream.
LEMMA DropFacts ==
    ASSUME NEW s \in Streams
    PROVE  LET d == Drop(s)
           IN  /\ d \in Streams
               /\ d.target = "dropped" /\ ~d.queued /\ d.actions = 0 /\ ~d.writable
               /\ d.state = s.state /\ d.processed = s.processed
               /\ d.data = s.data /\ d.fresh = s.fresh
<1>1. Drop(s) \in Streams
  <2> DEFINE t == [s EXCEPT !.target = "dropped"]
             u == [t EXCEPT !.queued = FALSE]
             v == [u EXCEPT !.actions = 0]
  <2>1. t \in Streams
    BY UpdateFacts
  <2>2. u \in Streams
    <3> HIDE DEF t
    <3> QED BY <2>1, UpdateFacts
  <2>3. v \in Streams
    <3> HIDE DEF u
    <3> QED BY <2>2, UpdateFacts
  <2>4. [v EXCEPT !.writable = FALSE] \in Streams
    <3> HIDE DEF v
    <3> QED BY <2>3, UpdateFacts
  <2>5. QED
    BY <2>4 DEF Drop
<1>2. QED
  BY <1>1, FieldFacts DEF Drop, StreamFields

LEMMA InitInvariant == Init => IInv
<1> SUFFICES ASSUME Init PROVE IInv
  OBVIOUS
<1>1. stream \in Streams
  BY BoundAssumption DEF Init, Streams
<1>2. QED
  BY <1>1, BoundAssumption DEF Init, IInv, TypeOK, DataWasPushed, QueuedIsPending,
     ActionsForTarget, AssertionsHold, ToldTarget, ClosedIsDone, ToldIsProcessed,
     ErrorIsLast, Place, Callbacks

\* The invariant in three parts beside its types.
Counting == DataWasPushed /\ QueuedIsPending /\ ActionsForTarget /\ AssertionsHold
Telling == ToldTarget /\ ClosedIsDone /\ ToldIsProcessed /\ ErrorIsLast

LEMMA Assembled == /\ IInv <=> TypeOK /\ Counting /\ Telling /\ Place
                   /\ (TypeOK /\ Counting /\ Telling /\ Place)' => IInv'
BY DEF IInv, Counting, Telling

\* What every step below starts from.
LEMMA Known ==
    ASSUME IInv
    PROVE  /\ TypeOK /\ Counting /\ Telling /\ Place
           /\ stream \in Streams
           /\ DOMAIN stream = StreamFields
           /\ pushed \in Nat /\ MaxBuffers \in Nat /\ stream.data \in Nat
           /\ pushed <= MaxBuffers /\ stream.data <= pushed
           /\ stream.target = "set" /\ stream.queued => stream.actions = 1
           /\ ~stream.queued => stream.actions = 0
           /\ stream.target # "set" => stream.actions = 0
           /\ stream.actions \in {0, 1}
<1>1. TypeOK /\ Counting /\ Telling /\ Place
  BY DEF IInv, Counting, Telling
<1>2. stream \in Streams /\ pushed \in 0..MaxBuffers /\ stream.data <= pushed
  BY <1>1 DEF TypeOK, Counting, DataWasPushed
<1>3. DOMAIN stream = StreamFields /\ stream.data \in 0..MaxBuffers /\ stream.actions \in 0..1
  BY <1>2, FieldFacts
<1>4. /\ stream.target = "set" => (stream.queued <=> stream.actions > 0)
      /\ stream.target # "set" => stream.actions = 0
  BY <1>1 DEF Counting, QueuedIsPending, ActionsForTarget
<1>5. QED
  BY <1>1, <1>2, <1>3, <1>4, BoundAssumption

\* A stream that changes its state and queues the process action.
LEMMA ReportFacts ==
    ASSUME IInv, NEW v \in {"connecting", "open", "closed", "error"}
    PROVE  LET q == QueueProcessing([stream EXCEPT !.state = v])
           IN  /\ q \in Streams /\ q.state = v /\ q.processed = stream.processed
               /\ q.target = stream.target /\ q.queued
               /\ stream.target = "set" => q.actions = 1
               /\ stream.target # "set" => q.actions = 0
               /\ q.data = stream.data /\ q.fresh = stream.fresh
               /\ q.writable = stream.writable
<1> DEFINE s == [stream EXCEPT !.state = v]
<1>1. s \in Streams
  BY Known, UpdateFacts
<1>2. /\ s.state = v /\ s.processed = stream.processed /\ s.target = stream.target
      /\ s.queued = stream.queued /\ s.actions = stream.actions /\ s.data = stream.data
      /\ s.fresh = stream.fresh /\ s.writable = stream.writable
  BY Known DEF StreamFields
<1> HIDE DEF s
<1>3. /\ ~s.queued /\ s.target = "set" => s.actions = 0
      /\ s.queued /\ s.target = "set" => s.actions = 1
      /\ s.target # "set" => s.actions = 0
  BY <1>2, Known
<1>4. LET q == QueueProcessing(s)
      IN  /\ q \in Streams /\ q.state = v /\ q.processed = stream.processed
          /\ q.target = stream.target /\ q.queued
          /\ stream.target = "set" => q.actions = 1
          /\ stream.target # "set" => q.actions = 0
          /\ q.data = stream.data /\ q.fresh = stream.fresh
          /\ q.writable = stream.writable
  BY <1>1, <1>2, <1>3, QueueFacts
<1>5. QED
  BY <1>4 DEF s

\* Every step keeps the invariant.  First those that leave the stream alone.
LEMMA QuietKeeps ==
    ASSUME IInv, UNCHANGED <<kind, stream, pc, told>>,
           backend' \in {"connecting", "open", "done"}, backend = "done" => backend' = "done",
           pushed' \in 0..MaxBuffers, pushed <= pushed'
    PROVE  IInv'
<1>1. kind' = kind /\ stream' = stream /\ pc' = pc /\ told' = told
  OBVIOUS
<1>2. /\ pushed \in Nat /\ pushed' \in Nat /\ stream.data \in Nat
      /\ stream'.data <= pushed'
  BY <1>1, Known, BoundAssumption
<1>3. TypeOK'
  BY <1>1, <1>2, Known DEF TypeOK, Callbacks
<1>4. Counting'
  BY <1>1, <1>2, Known
  DEF Counting, DataWasPushed, QueuedIsPending, ActionsForTarget,
      AssertionsHold, Telling, ToldIsProcessed
<1>5. Telling'
  BY <1>1, <1>2, Known
  DEF Telling, ToldTarget, ClosedIsDone, ToldIsProcessed, ErrorIsLast
<1>6. Place'
  BY <1>1, <1>2, Known DEF Place, Callbacks
<1>7. QED
  BY <1>3, <1>4, <1>5, <1>6, Assembled

LEMMA BackendKeeps == ASSUME IInv, Backend PROVE IInv'
<1>1. ASSUME BackendOpen PROVE IInv'
  <2>1. /\ pc = "idle" /\ backend = "connecting" /\ backend' = "open"
        /\ UNCHANGED <<kind, pushed, pc, told>>
    BY <1>1 DEF BackendOpen
  <2>2. CASE stream.state = "connecting"
    <3>1. /\ stream' \in Streams /\ stream'.state = "open"
          /\ stream'.processed = stream.processed /\ stream'.target = stream.target
          /\ stream'.queued /\ stream'.data = stream.data /\ stream'.fresh = stream.fresh
          /\ stream'.writable = stream.writable
          /\ stream.target = "set" => stream'.actions = 1
          /\ stream.target # "set" => stream'.actions = 0
      BY <1>1, <2>2, ReportFacts DEF BackendOpen
    <3>2. TypeOK'
      BY <2>1, <2>2, <3>1, Known DEF TypeOK, Callbacks
    <3>3. Counting'
      BY <2>1, <2>2, <3>1, Known
      DEF Counting, DataWasPushed, QueuedIsPending, ActionsForTarget,
          AssertionsHold, Telling, ToldIsProcessed
    <3>4. Telling'
      BY <2>1, <2>2, <3>1, Known
      DEF Telling, ToldTarget, ClosedIsDone, ToldIsProcessed, ErrorIsLast
    <3>5. Place'
      BY <2>1, <2>2, <3>1, Known DEF Place, Callbacks
    <3>6. QED
      BY <3>2, <3>3, <3>4, <3>5, Assembled
  <2>3. CASE stream.state # "connecting"
    <3>1. stream' = stream
      BY <1>1, <2>3 DEF BackendOpen
    <3>2. QED
      BY <2>1, <3>1, Known, QuietKeeps DEF TypeOK
  <2>4. QED
    BY <2>2, <2>3
<1>2. ASSUME BackendPush PROVE IInv'
  <2>1. /\ pc = "idle" /\ pushed' = pushed + 1 /\ pushed + 1 <= MaxBuffers
        /\ UNCHANGED <<kind, backend, pc, told>>
    BY <1>2, Known DEF BackendPush
  <2>2. CASE stream.state = "open"
    <3> DEFINE s == [stream EXCEPT !.data = @ + 1, !.fresh = TRUE]
    <3>1. s \in Streams
      <4>1. stream.data + 1 \in 0..MaxBuffers
        BY <2>1, Known
      <4>2. [stream EXCEPT !.data = stream.data + 1] \in Streams
        BY <4>1, Known, UpdateFacts
      <4>3. [[stream EXCEPT !.data = stream.data + 1] EXCEPT !.fresh = TRUE] \in Streams
        BY <4>2, UpdateFacts
      <4>4. QED
        BY <4>3
    <3>2. /\ s.state = stream.state /\ s.processed = stream.processed
          /\ s.target = stream.target /\ s.queued = stream.queued
          /\ s.actions = stream.actions /\ s.data = stream.data + 1 /\ s.fresh
          /\ s.writable = stream.writable
      BY Known DEF StreamFields
    <3>3. stream' = QueueProcessing(s)
      BY <1>2, <2>2 DEF BackendPush
    <3> HIDE DEF s
    <3>4. /\ ~s.queued /\ s.target = "set" => s.actions = 0
          /\ s.queued /\ s.target = "set" => s.actions = 1
          /\ s.target # "set" => s.actions = 0
      BY <3>2, Known
    <3>5. /\ stream' \in Streams /\ stream'.state = stream.state
          /\ stream'.processed = stream.processed /\ stream'.target = stream.target
          /\ stream'.queued /\ stream'.data = stream.data + 1 /\ stream'.fresh
          /\ stream'.writable = stream.writable
          /\ stream.target = "set" => stream'.actions = 1
          /\ stream.target # "set" => stream'.actions = 0
      BY <3>1, <3>2, <3>3, <3>4, QueueFacts
    <3>6. TypeOK'
      BY <2>1, <2>2, <3>5, Known DEF TypeOK, Callbacks
    <3>7. Counting'
      BY <2>1, <2>2, <3>5, Known
      DEF Counting, DataWasPushed, QueuedIsPending, ActionsForTarget,
          AssertionsHold, Telling, ToldIsProcessed
    <3>8. Telling'
      BY <2>1, <2>2, <3>5, Known
      DEF Telling, ToldTarget, ClosedIsDone, ToldIsProcessed, ErrorIsLast
    <3>9. Place'
      BY <2>1, <2>2, <3>5, Known DEF Place, Callbacks
    <3>10. QED
      BY <3>6, <3>7, <3>8, <3>9, Assembled
  <2>3. CASE stream.state # "open"
    <3>1. stream' = stream
      BY <1>2, <2>3 DEF BackendPush
    <3>2. QED
      BY <2>1, <3>1, Known, QuietKeeps DEF TypeOK
  <2>4. QED
    BY <2>2, <2>3
<1>3. ASSUME BackendClose PROVE IInv'
  <2>1. pc = "idle" /\ backend' = "done" /\ UNCHANGED <<kind, pushed, pc, told>>
    BY <1>3 DEF BackendClose
  <2>2. CASE stream.state = "open"
    <3>1. /\ stream' \in Streams /\ stream'.state = "closed"
          /\ stream'.processed = stream.processed /\ stream'.target = stream.target
          /\ stream'.queued /\ stream'.data = stream.data /\ stream'.fresh = stream.fresh
          /\ stream'.writable = stream.writable
          /\ stream.target = "set" => stream'.actions = 1
          /\ stream.target # "set" => stream'.actions = 0
      BY <1>3, <2>2, ReportFacts DEF BackendClose
    <3>2. TypeOK'
      BY <2>1, <2>2, <3>1, Known DEF TypeOK, Callbacks
    <3>3. Counting'
      BY <2>1, <2>2, <3>1, Known
      DEF Counting, DataWasPushed, QueuedIsPending, ActionsForTarget,
          AssertionsHold, Telling, ToldIsProcessed
    <3>4. Telling'
      BY <2>1, <2>2, <3>1, Known
      DEF Telling, ToldTarget, ClosedIsDone, ToldIsProcessed, ErrorIsLast
    <3>5. Place'
      BY <2>1, <2>2, <3>1, Known DEF Place, Callbacks
    <3>6. QED
      BY <3>2, <3>3, <3>4, <3>5, Assembled
  <2>3. CASE stream.state # "open"
    <3>1. stream' = stream
      BY <1>3, <2>3 DEF BackendClose
    <3>2. QED
      BY <2>1, <3>1, Known, QuietKeeps DEF TypeOK
  <2>4. QED
    BY <2>2, <2>3
<1>4. ASSUME BackendError PROVE IInv'
  <2>1. /\ pc = "idle" /\ backend # "done" /\ backend' = "done"
        /\ stream.state # "closed" /\ UNCHANGED <<kind, pushed, pc, told>>
    BY <1>4, Known DEF BackendError, Telling, ClosedIsDone
  <2>2. CASE stream.state # "error"
    <3>1. /\ stream' \in Streams /\ stream'.state = "error"
          /\ stream'.processed = stream.processed /\ stream'.target = stream.target
          /\ stream'.queued /\ stream'.data = stream.data /\ stream'.fresh = stream.fresh
          /\ stream'.writable = stream.writable
          /\ stream.target = "set" => stream'.actions = 1
          /\ stream.target # "set" => stream'.actions = 0
      BY <1>4, <2>2, ReportFacts DEF BackendError, Error
    <3>2. TypeOK'
      BY <2>1, <2>2, <3>1, Known DEF TypeOK, Callbacks
    <3>3. Counting'
      BY <2>1, <2>2, <3>1, Known
      DEF Counting, DataWasPushed, QueuedIsPending, ActionsForTarget,
          AssertionsHold, Telling, ToldIsProcessed
    <3>4. Telling'
      BY <2>1, <2>2, <3>1, Known
      DEF Telling, ToldTarget, ClosedIsDone, ToldIsProcessed, ErrorIsLast
    <3>5. Place'
      BY <2>1, <2>2, <3>1, Known DEF Place, Callbacks
    <3>6. QED
      BY <3>2, <3>3, <3>4, <3>5, Assembled
  <2>3. CASE stream.state = "error"
    <3>1. stream' = stream
      BY <1>4, <2>3 DEF BackendError
    <3>2. QED
      BY <2>1, <3>1, Known, QuietKeeps DEF TypeOK
  <2>4. QED
    BY <2>2, <2>3
<1>5. ASSUME SignalWritable PROVE IInv'
  <2>1. stream.target = "set" /\ UNCHANGED <<kind, backend, pushed, pc, told>>
    BY <1>5 DEF SignalWritable
  <2>2. stream' \in Streams
    BY <1>5, Known, UpdateFacts DEF SignalWritable
  <2>3. /\ stream'.state = stream.state /\ stream'.processed = stream.processed
        /\ stream'.target = stream.target /\ stream'.queued = stream.queued
        /\ stream'.actions = stream.actions /\ stream'.data = stream.data
        /\ stream'.fresh = stream.fresh /\ stream'.writable
    BY <1>5, Known DEF SignalWritable, StreamFields
  <2>4. TypeOK'
    BY <2>1, <2>2, <2>3, Known DEF TypeOK, Callbacks
  <2>5. Counting'
    BY <2>1, <2>2, <2>3, Known
    DEF Counting, DataWasPushed, QueuedIsPending, ActionsForTarget,
        AssertionsHold, Telling, ToldIsProcessed
  <2>6. Telling'
    BY <2>1, <2>2, <2>3, Known
    DEF Telling, ToldTarget, ClosedIsDone, ToldIsProcessed, ErrorIsLast
  <2>7. Place'
    BY <2>1, <2>2, <2>3, Known DEF Place, Callbacks
  <2>8. QED
    BY <2>4, <2>5, <2>6, <2>7, Assembled
<1>6. QED
  BY <1>1, <1>2, <1>3, <1>4, <1>5 DEF Backend

\* What swfdec_stream_ensure_closed makes of a stream.
LEMMA ClosingFacts ==
    ASSUME IInv, NEW s \in Closings(stream)
    PROVE  /\ s \in Streams
           /\ s.state = "closed" /\ s.processed = "closed"
           /\ s.target = stream.target /\ s.data = stream.data
           /\ s.fresh = stream.fresh /\ s.writable = stream.writable
           /\ stream.target = "set" /\ s.queued => s.actions = 1
           /\ ~s.queued => s.actions = 0
           /\ stream.target # "set" => s.actions = 0
<1>1. PICK t \in {stream, QueueProcessing(stream)} :
         s = [t EXCEPT !.state = "closed", !.processed = "closed"]
  BY DEF Closings
<1>2. /\ t \in Streams
      /\ t.target = stream.target /\ t.data = stream.data
      /\ t.fresh = stream.fresh /\ t.writable = stream.writable
      /\ stream.target = "set" /\ t.queued => t.actions = 1
      /\ ~t.queued => t.actions = 0
      /\ stream.target # "set" => t.actions = 0
  <2>1. CASE t = stream
    BY <2>1, Known
  <2>2. CASE t = QueueProcessing(stream)
    BY <2>2, Known, QueueFacts
  <2>3. QED
    BY <1>1, <2>1, <2>2
<1>3. s \in Streams
  <2>1. [t EXCEPT !.state = "closed"] \in Streams
    BY <1>2, UpdateFacts
  <2>2. [[t EXCEPT !.state = "closed"] EXCEPT !.processed = "closed"] \in Streams
    BY <2>1, UpdateFacts
  <2>3. QED
    BY <1>1, <2>2
<1>4. /\ s.state = "closed" /\ s.processed = "closed"
      /\ s.target = t.target /\ s.data = t.data /\ s.queued = t.queued
      /\ s.fresh = t.fresh /\ s.writable = t.writable /\ s.actions = t.actions
  BY <1>1, <1>2, FieldFacts DEF StreamFields
<1>5. QED
  BY <1>2, <1>3, <1>4

LEMMA TargetKeeps == ASSUME IInv, Target PROVE IInv'
<1>1. ASSUME SetTarget PROVE IInv'
  <2> DEFINE s == [stream EXCEPT !.target = "set", !.queued = FALSE]
  <2>1. pc = "idle" /\ stream.target = "none" /\ UNCHANGED <<kind, backend, pushed, pc, told>>
    BY <1>1 DEF SetTarget
  <2>2. s \in Streams
    <3>1. [stream EXCEPT !.target = "set"] \in Streams
      BY Known, UpdateFacts
    <3>2. [[stream EXCEPT !.target = "set"] EXCEPT !.queued = FALSE] \in Streams
      BY <3>1, UpdateFacts
    <3>3. QED
      BY <3>2
  <2>3. /\ s.state = stream.state /\ s.processed = stream.processed /\ s.target = "set"
        /\ ~s.queued /\ s.actions = 0 /\ s.data = stream.data /\ s.fresh = stream.fresh
        /\ s.writable = stream.writable
    BY <2>1, Known DEF StreamFields
  <2>4. stream' = IF s.state = "connecting" THEN s ELSE QueueProcessing(s)
    BY <1>1 DEF SetTarget
  <2> HIDE DEF s
  <2>5. CASE s.state = "connecting"
    <3>1. stream' = s
      BY <2>4, <2>5
    <3>2. TypeOK'
      BY <2>1, <2>2, <2>3, <2>5, <3>1, Known DEF TypeOK, Callbacks
    <3>3. Counting'
      BY <2>1, <2>2, <2>3, <2>5, <3>1, Known
      DEF Counting, DataWasPushed, QueuedIsPending, ActionsForTarget,
          AssertionsHold, Telling, ToldIsProcessed
    <3>4. Telling'
      BY <2>1, <2>2, <2>3, <2>5, <3>1, Known
      DEF Telling, ToldTarget, ClosedIsDone, ToldIsProcessed, ErrorIsLast
    <3>5. Place'
      BY <2>1, <2>2, <2>3, <2>5, <3>1, Known DEF Place, Callbacks
    <3>6. QED
      BY <3>2, <3>3, <3>4, <3>5, Assembled
  <2>6. CASE s.state # "connecting"
    <3>1. /\ stream' \in Streams /\ stream'.state = stream.state
          /\ stream'.processed = stream.processed /\ stream'.target = "set"
          /\ stream'.queued /\ stream'.actions = 1 /\ stream'.data = stream.data
          /\ stream'.fresh = stream.fresh /\ stream'.writable = stream.writable
      BY <2>2, <2>3, <2>4, <2>6, QueueFacts
    <3>2. TypeOK'
      BY <2>1, <2>3, <2>6, <3>1, Known DEF TypeOK, Callbacks
    <3>3. Counting'
      BY <2>1, <2>3, <2>6, <3>1, Known
      DEF Counting, DataWasPushed, QueuedIsPending, ActionsForTarget,
          AssertionsHold, Telling, ToldIsProcessed
    <3>4. Telling'
      BY <2>1, <2>3, <2>6, <3>1, Known
      DEF Telling, ToldTarget, ClosedIsDone, ToldIsProcessed, ErrorIsLast
    <3>5. Place'
      BY <2>1, <2>3, <2>6, <3>1, Known DEF Place, Callbacks
    <3>6. QED
      BY <3>2, <3>3, <3>4, <3>5, Assembled
  <2>7. QED
    BY <2>5, <2>6
<1>2. ASSUME DropLoader PROVE IInv'
  <2>1. /\ kind = "loader" /\ stream.target = "set" /\ pc # "loop" /\ pc # "open"
        /\ UNCHANGED <<kind, pushed, pc, told>>
    BY <1>2 DEF DropLoader, ScriptRuns
  <2>2. CASE stream' = Drop(stream) /\ UNCHANGED backend
    <3>1. /\ stream' \in Streams /\ stream'.state = stream.state
          /\ stream'.processed = stream.processed /\ stream'.target = "dropped"
          /\ ~stream'.queued /\ stream'.actions = 0 /\ stream'.data = stream.data
          /\ stream'.fresh = stream.fresh /\ ~stream'.writable
      BY <2>2, Known, DropFacts
    <3>2. TypeOK'
      BY <2>1, <2>2, <3>1, Known DEF TypeOK, Callbacks
    <3>3. Counting'
      BY <2>1, <2>2, <3>1, Known
      DEF Counting, DataWasPushed, QueuedIsPending, ActionsForTarget,
          AssertionsHold, Telling, ToldIsProcessed
    <3>4. Telling'
      BY <2>1, <2>2, <3>1, Known
      DEF Telling, ToldTarget, ClosedIsDone, ToldIsProcessed, ErrorIsLast
    <3>5. Place'
      BY <2>1, <2>2, <3>1, Known DEF Place, Callbacks
    <3>6. QED
      BY <3>2, <3>3, <3>4, <3>5, Assembled
  <2>3. CASE /\ stream.state \in {"connecting", "open"}
             /\ \E s \in Closings(stream) : stream' = Drop(s)
             /\ backend' = "done"
    <3>1. PICK s \in Closings(stream) : stream' = Drop(s)
      BY <2>3
    <3>2. /\ stream' \in Streams /\ stream'.state = "closed" /\ stream'.processed = "closed"
          /\ stream'.target = "dropped" /\ ~stream'.queued /\ stream'.actions = 0
          /\ stream'.data = stream.data /\ stream'.fresh = stream.fresh /\ ~stream'.writable
      BY <3>1, ClosingFacts, DropFacts
    <3>3. TypeOK'
      BY <2>1, <2>3, <3>2, Known DEF TypeOK, Callbacks
    <3>4. Counting'
      BY <2>1, <2>3, <3>2, Known
      DEF Counting, DataWasPushed, QueuedIsPending, ActionsForTarget,
          AssertionsHold, Telling, ToldIsProcessed
    <3>5. Telling'
      BY <2>1, <2>3, <3>2, Known
      DEF Telling, ToldTarget, ClosedIsDone, ToldIsProcessed, ErrorIsLast
    <3>6. Place'
      BY <2>1, <2>3, <3>2, Known DEF Place, Callbacks
    <3>7. QED
      BY <3>3, <3>4, <3>5, <3>6, Assembled
  <2>4. QED
    BY <1>2, <2>2, <2>3 DEF DropLoader
<1>3. ASSUME CloseSocket PROVE IInv'
  <2>1. /\ pc # "loop" /\ stream.target = "set" /\ backend' = "done"
        /\ stream.state \in {"connecting", "open"} /\ kind = "socket"
        /\ UNCHANGED <<kind, pushed, pc, told>>
    BY <1>3 DEF CloseSocket, ScriptRuns
  <2>2. /\ stream' \in Streams
        /\ stream'.state = "closed" /\ stream'.processed = "closed"
        /\ stream'.target = stream.target /\ stream'.data = stream.data
        /\ stream'.fresh = stream.fresh /\ stream'.writable = stream.writable
        /\ stream'.queued => stream'.actions = 1
        /\ ~stream'.queued => stream'.actions = 0
    BY <1>3, <2>1, ClosingFacts DEF CloseSocket
  <2>3. TypeOK'
    BY <2>1, <2>2, Known DEF TypeOK, Callbacks
  <2>4. Counting'
    BY <2>1, <2>2, Known
    DEF Counting, DataWasPushed, QueuedIsPending, ActionsForTarget,
        AssertionsHold, Telling, ToldIsProcessed
  <2>5. Telling'
    BY <2>1, <2>2, Known
    DEF Telling, ToldTarget, ClosedIsDone, ToldIsProcessed, ErrorIsLast
  <2>6. Place'
    BY <2>1, <2>2, Known DEF Place, Callbacks
  <2>7. QED
    BY <2>3, <2>4, <2>5, <2>6, Assembled
<1>4. ASSUME SendFails PROVE IInv'
  <2>1. /\ kind = "socket" /\ pc # "loop" /\ stream.target = "set" /\ stream.state = "open"
        /\ UNCHANGED <<kind, backend, pushed, pc, told>>
    BY <1>4 DEF SendFails, ScriptRuns
  <2>2. /\ stream' \in Streams /\ stream'.state = "error"
        /\ stream'.processed = stream.processed /\ stream'.target = stream.target
        /\ stream'.queued /\ stream'.data = stream.data /\ stream'.fresh = stream.fresh
        /\ stream'.writable = stream.writable
        /\ stream.target = "set" => stream'.actions = 1
        /\ stream.target # "set" => stream'.actions = 0
    BY <1>4, ReportFacts DEF SendFails, Error
  <2>3. TypeOK'
    BY <2>1, <2>2, Known DEF TypeOK, Callbacks
  <2>4. Counting'
    BY <2>1, <2>2, Known
    DEF Counting, DataWasPushed, QueuedIsPending, ActionsForTarget,
        AssertionsHold, Telling, ToldIsProcessed
  <2>5. Telling'
    BY <2>1, <2>2, Known
    DEF Telling, ToldTarget, ClosedIsDone, ToldIsProcessed, ErrorIsLast
  <2>6. Place'
    BY <2>1, <2>2, Known DEF Place, Callbacks
  <2>7. QED
    BY <2>3, <2>4, <2>5, <2>6, Assembled
<1>5. QED
  BY <1>1, <1>2, <1>3, <1>4 DEF Target

LEMMA ProcessKeeps == ASSUME IInv, Process PROVE IInv'
<1> DEFINE s == [stream EXCEPT !.actions = @ - 1, !.queued = FALSE]
<1>1. /\ pc = "idle" /\ stream.actions = 1 /\ stream.target = "set"
      /\ UNCHANGED <<kind, backend, pushed>>
  BY Known DEF Process
<1>2. told # "error" /\ (stream.processed = "closed" => stream.state = "closed")
  BY <1>1, Known DEF Telling, ErrorIsLast, Counting, AssertionsHold
<1>3. stream.actions - 1 = 0
  BY <1>1
<1>4. s \in Streams
  <2>1. [stream EXCEPT !.actions = 0] \in Streams
    BY Known, UpdateFacts
  <2>2. [[stream EXCEPT !.actions = 0] EXCEPT !.queued = FALSE] \in Streams
    BY <2>1, UpdateFacts
  <2>3. QED
    BY <1>3, <2>2
<1>5. /\ s.state = stream.state /\ s.processed = stream.processed /\ s.target = "set"
      /\ ~s.queued /\ s.actions = 0 /\ s.data = stream.data /\ s.fresh = stream.fresh
      /\ s.writable = stream.writable
  BY <1>1, <1>3, Known DEF StreamFields
<1>6. \/ /\ stream.state = stream.processed /\ stream.state # "open"
         /\ stream' = s /\ UNCHANGED <<pc, told>>
      \/ /\ stream.state # stream.processed /\ stream.state = "error"
         /\ stream' = s /\ pc' = "error" /\ told' = "error"
      \/ /\ stream.state # stream.processed \/ stream.state = "open"
         /\ stream.state # "error"
         /\ stream' = s /\ pc' = "loop" /\ UNCHANGED told
  <2> HIDE DEF s
  <2>1. IF s.state = s.processed /\ s.state # "open"
           THEN stream' = s /\ UNCHANGED <<pc, told>>
           ELSE IF s.state = "error" THEN Tell("error", s)
           ELSE stream' = s /\ pc' = "loop" /\ UNCHANGED told
    BY DEF Process, s
  <2>2. QED
    BY <1>5, <2>1, Known, FieldFacts DEF Tell
<1> HIDE DEF s
<1>7. CASE /\ stream.state = stream.processed /\ stream.state # "open"
           /\ stream' = s /\ UNCHANGED <<pc, told>>
  <2>1. TypeOK'
    BY <1>1, <1>2, <1>4, <1>5, <1>7, Known DEF TypeOK, Callbacks
  <2>2. Counting'
    BY <1>1, <1>2, <1>4, <1>5, <1>7, Known
    DEF Counting, DataWasPushed, QueuedIsPending, ActionsForTarget,
        AssertionsHold, Telling, ToldIsProcessed
  <2>3. Telling'
    BY <1>1, <1>2, <1>4, <1>5, <1>7, Known
    DEF Telling, ToldTarget, ClosedIsDone, ToldIsProcessed, ErrorIsLast
  <2>4. Place'
    BY <1>1, <1>2, <1>4, <1>5, <1>7, Known DEF Place, Callbacks
  <2>5. QED
    BY <2>1, <2>2, <2>3, <2>4, Assembled
<1>8. CASE /\ stream.state # stream.processed /\ stream.state = "error"
           /\ stream' = s /\ pc' = "error" /\ told' = "error"
  <2>1. TypeOK'
    BY <1>1, <1>2, <1>4, <1>5, <1>8, Known DEF TypeOK, Callbacks
  <2>2. Counting'
    BY <1>1, <1>2, <1>4, <1>5, <1>8, Known
    DEF Counting, DataWasPushed, QueuedIsPending, ActionsForTarget,
        AssertionsHold, Telling, ToldIsProcessed
  <2>3. Telling'
    BY <1>1, <1>2, <1>4, <1>5, <1>8, Known
    DEF Telling, ToldTarget, ClosedIsDone, ToldIsProcessed, ErrorIsLast
  <2>4. Place'
    BY <1>1, <1>2, <1>4, <1>5, <1>8, Known DEF Place, Callbacks
  <2>5. QED
    BY <2>1, <2>2, <2>3, <2>4, Assembled
<1>9. CASE /\ stream.state # stream.processed \/ stream.state = "open"
           /\ stream.state # "error"
           /\ stream' = s /\ pc' = "loop" /\ UNCHANGED told
  <2>1. TypeOK'
    BY <1>1, <1>2, <1>4, <1>5, <1>9, Known DEF TypeOK, Callbacks
  <2>2. Counting'
    BY <1>1, <1>2, <1>4, <1>5, <1>9, Known
    DEF Counting, DataWasPushed, QueuedIsPending, ActionsForTarget,
        AssertionsHold, Telling, ToldIsProcessed
  <2>3. Telling'
    BY <1>1, <1>2, <1>4, <1>5, <1>9, Known
    DEF Telling, ToldTarget, ClosedIsDone, ToldIsProcessed, ErrorIsLast
  <2>4. Place'
    BY <1>1, <1>2, <1>4, <1>5, <1>9, Known DEF Place, Callbacks
  <2>5. QED
    BY <2>1, <2>2, <2>3, <2>4, Assembled
<1>10. QED
  BY <1>6, <1>7, <1>8, <1>9

LEMMA LoopKeeps == ASSUME IInv, Loop PROVE IInv'
<1>1. pc = "loop" /\ UNCHANGED <<kind, backend, pushed>>
  BY DEF Loop
<1>2. /\ stream.state \in {"connecting", "open", "closed", "error"}
      /\ stream.processed \in {"connecting", "open", "closed"}
      /\ stream.state = "connecting" => stream.processed = "connecting"
      /\ kind = "loader" => stream.state # "error"
      /\ stream.processed # "closed" => stream.target = "set" /\ told # "error"
  BY <1>1, Known, FieldFacts DEF Telling, ToldIsProcessed, ErrorIsLast, Place
<1>3. CASE stream.state # stream.processed /\ stream.processed = "connecting"
  <2>1. stream' = [stream EXCEPT !.processed = "open"] /\ pc' = "open" /\ told' = "open"
    BY <1>3 DEF Loop, Tell
  <2>2. stream' \in Streams
    BY <2>1, Known, UpdateFacts
  <2>3. /\ stream'.state = stream.state /\ stream'.processed = "open"
        /\ stream'.target = stream.target /\ stream'.queued = stream.queued
        /\ stream'.actions = stream.actions /\ stream'.data = stream.data
        /\ stream'.fresh = stream.fresh /\ stream'.writable = stream.writable
    BY <2>1, Known DEF StreamFields
  <2>4. pc' = "open" /\ told' = "open"
    BY <2>1
  <2>5. TypeOK'
    BY <1>1, <1>2, <1>3, <2>2, <2>3, <2>4, Known DEF TypeOK, Callbacks
  <2>6. Counting'
    BY <1>1, <1>2, <1>3, <2>2, <2>3, <2>4, Known
    DEF Counting, DataWasPushed, QueuedIsPending, ActionsForTarget,
        AssertionsHold, Telling, ToldIsProcessed
  <2>7. Telling'
    BY <1>1, <1>2, <1>3, <2>2, <2>3, <2>4, Known
    DEF Telling, ToldTarget, ClosedIsDone, ToldIsProcessed, ErrorIsLast
  <2>8. Place'
    BY <1>1, <1>2, <1>3, <2>2, <2>3, <2>4, Known DEF Place, Callbacks
  <2>9. QED
    BY <2>5, <2>6, <2>7, <2>8, Assembled
<1>4. CASE stream.state # stream.processed /\ stream.processed = "open"
  <2>1. stream' = [stream EXCEPT !.fresh = FALSE] /\ pc' = "parse" /\ told' = "parse"
    BY <1>4 DEF Loop, Tell
  <2>2. stream' \in Streams
    BY <2>1, Known, UpdateFacts
  <2>3. /\ stream'.state = stream.state /\ stream'.processed = stream.processed
        /\ stream'.target = stream.target /\ stream'.queued = stream.queued
        /\ stream'.actions = stream.actions /\ stream'.data = stream.data /\ ~stream'.fresh
        /\ stream'.writable = stream.writable
    BY <2>1, Known DEF StreamFields
  <2>4. pc' = "parse" /\ told' = "parse"
    BY <2>1
  <2>5. TypeOK'
    BY <1>1, <1>2, <1>4, <2>2, <2>3, <2>4, Known DEF TypeOK, Callbacks
  <2>6. Counting'
    BY <1>1, <1>2, <1>4, <2>2, <2>3, <2>4, Known
    DEF Counting, DataWasPushed, QueuedIsPending, ActionsForTarget,
        AssertionsHold, Telling, ToldIsProcessed
  <2>7. Telling'
    BY <1>1, <1>2, <1>4, <2>2, <2>3, <2>4, Known
    DEF Telling, ToldTarget, ClosedIsDone, ToldIsProcessed, ErrorIsLast
  <2>8. Place'
    BY <1>1, <1>2, <1>4, <2>2, <2>3, <2>4, Known DEF Place, Callbacks
  <2>9. QED
    BY <2>5, <2>6, <2>7, <2>8, Assembled
<1>5. CASE stream.state = stream.processed /\ stream.state = "open"
  <2>1. stream' = [stream EXCEPT !.fresh = FALSE] /\ pc' = "last parse" /\ told' = "parse"
    BY <1>5 DEF Loop, Tell
  <2>2. stream' \in Streams
    BY <2>1, Known, UpdateFacts
  <2>3. /\ stream'.state = stream.state /\ stream'.processed = stream.processed
        /\ stream'.target = stream.target /\ stream'.queued = stream.queued
        /\ stream'.actions = stream.actions /\ stream'.data = stream.data /\ ~stream'.fresh
        /\ stream'.writable = stream.writable
    BY <2>1, Known DEF StreamFields
  <2>4. pc' = "last parse" /\ told' = "parse"
    BY <2>1
  <2>5. TypeOK'
    BY <1>1, <1>2, <1>5, <2>2, <2>3, <2>4, Known DEF TypeOK, Callbacks
  <2>6. Counting'
    BY <1>1, <1>2, <1>5, <2>2, <2>3, <2>4, Known
    DEF Counting, DataWasPushed, QueuedIsPending, ActionsForTarget,
        AssertionsHold, Telling, ToldIsProcessed
  <2>7. Telling'
    BY <1>1, <1>2, <1>5, <2>2, <2>3, <2>4, Known
    DEF Telling, ToldTarget, ClosedIsDone, ToldIsProcessed, ErrorIsLast
  <2>8. Place'
    BY <1>1, <1>2, <1>5, <2>2, <2>3, <2>4, Known DEF Place, Callbacks
  <2>9. QED
    BY <2>5, <2>6, <2>7, <2>8, Assembled
<1>6. CASE stream.state = stream.processed /\ stream.state # "open"
  <2>1. pc' = "idle" /\ UNCHANGED <<stream, told>>
    BY <1>6 DEF Loop
  <2>2. TypeOK'
    BY <1>1, <1>2, <1>6, <2>1, Known DEF TypeOK, Callbacks
  <2>3. Counting'
    BY <1>1, <1>2, <1>6, <2>1, Known
    DEF Counting, DataWasPushed, QueuedIsPending, ActionsForTarget,
        AssertionsHold, Telling, ToldIsProcessed
  <2>4. Telling'
    BY <1>1, <1>2, <1>6, <2>1, Known
    DEF Telling, ToldTarget, ClosedIsDone, ToldIsProcessed, ErrorIsLast
  <2>5. Place'
    BY <1>1, <1>2, <1>6, <2>1, Known DEF Place, Callbacks
  <2>6. QED
    BY <2>2, <2>3, <2>4, <2>5, Assembled
<1>7. stream.state = stream.processed \/ stream.processed # "closed"
  BY DEF Loop
<1>8. QED
  BY <1>2, <1>3, <1>4, <1>5, <1>6, <1>7

\* The target returns from parse, in its three ways.
LEMMA ParsedKeeps == ASSUME IInv, Parsed PROVE IInv'
<1>1. pc \in {"parse", "last parse"} /\ UNCHANGED <<kind, backend, pushed>>
  BY DEF Parsed
<1>2. PICK rest \in 0..stream.data :
         LET s == [stream EXCEPT !.data = rest]
         IN  \/ /\ rest < stream.data
                /\ kind = "loader"
                /\ stream' = QueueProcessing(s)
                /\ pc' = "idle"
                /\ UNCHANGED told
             \/ /\ pc = "parse"
                /\ s.target = "set"
                /\ Tell("close", [s EXCEPT !.processed = "closed"])
             \/ /\ pc = "last parse" \/ s.target # "set"
                /\ stream' = s
                /\ pc' = "idle"
                /\ UNCHANGED told
  BY DEF Parsed
<1> DEFINE s == [stream EXCEPT !.data = rest]
<1>3. rest \in Nat /\ rest <= pushed
  <2>1. rest \in 0..stream.data
    OBVIOUS
  <2>2. QED
    BY <2>1, Known
<1>4. s \in Streams
  <2>1. rest \in 0..MaxBuffers
    BY <1>3, Known
  <2>2. QED
    BY <2>1, Known, UpdateFacts
<1>5. /\ s.state = stream.state /\ s.processed = stream.processed
      /\ s.target = stream.target /\ s.queued = stream.queued /\ s.actions = stream.actions
      /\ s.data = rest /\ s.fresh = stream.fresh /\ s.writable = stream.writable
  BY Known DEF StreamFields
<1>6. /\ stream.processed = "closed" => stream.state = "closed"
      /\ pc = "parse" => stream.state \in {"closed", "error"}
      /\ kind = "loader" => stream.state # "error"
      /\ ~stream.fresh /\ told = "parse"
  BY <1>1, Known DEF Telling, ToldIsProcessed, ErrorIsLast, Place, Callbacks
<1>7. CASE stream' = QueueProcessing(s) /\ kind = "loader" /\ pc' = "idle" /\ UNCHANGED told
  <2> HIDE DEF s
  <2>1. /\ ~s.queued /\ s.target = "set" => s.actions = 0
        /\ s.queued /\ s.target = "set" => s.actions = 1
        /\ s.target # "set" => s.actions = 0
    BY <1>5, Known
  <2>2. /\ stream' \in Streams /\ stream'.state = stream.state
        /\ stream'.processed = stream.processed /\ stream'.target = stream.target
        /\ stream'.queued /\ stream'.data = rest /\ stream'.fresh = stream.fresh
        /\ stream'.writable = stream.writable
        /\ stream.target = "set" => stream'.actions = 1
        /\ stream.target # "set" => stream'.actions = 0
    BY <1>4, <1>5, <1>7, <2>1, QueueFacts
  <2>3. kind = "loader" /\ pc' = "idle" /\ UNCHANGED told
    BY <1>7
  <2>4. QueuedIsPending'
    BY <2>2 DEF QueuedIsPending
  <2>5. TypeOK'
    BY <1>1, <1>3, <1>6, <2>2, <2>3, Known DEF TypeOK, Callbacks
  <2>6. Counting'
    BY <1>1, <1>3, <1>6, <2>2, <2>3, <2>4, Known
    DEF Counting, DataWasPushed, ActionsForTarget, AssertionsHold, Telling, ToldIsProcessed
  <2>7. Telling'
    BY <1>1, <1>3, <1>6, <2>2, <2>3, Known
    DEF Telling, ToldTarget, ClosedIsDone, ToldIsProcessed, ErrorIsLast
  <2>8. Place'
    BY <1>1, <1>3, <1>6, <2>2, <2>3, Known DEF Place, Callbacks
  <2>9. QED
    BY <2>5, <2>6, <2>7, <2>8, Assembled
<1>8. CASE pc = "parse" /\ s.target = "set" /\ Tell("close", [s EXCEPT !.processed = "closed"])
  <2> DEFINE t == [s EXCEPT !.processed = "closed"]
  <2> HIDE DEF s
  <2>1. t \in Streams
    BY <1>4, UpdateFacts
  <2>2. stream' = t /\ pc' = "close" /\ told' = "close"
    BY <1>8 DEF Tell
  <2>3. /\ t.state = s.state /\ t.processed = "closed" /\ t.target = s.target
        /\ t.queued = s.queued /\ t.actions = s.actions /\ t.data = s.data
        /\ t.fresh = s.fresh /\ t.writable = s.writable
    BY <1>4, FieldFacts DEF StreamFields
  <2>4. pc = "parse" /\ stream.target = "set"
    BY <1>5, <1>8
  <2> HIDE DEF t
  <2>5. TypeOK'
    BY <1>1, <1>3, <1>5, <1>6, <2>1, <2>2, <2>3, <2>4, Known DEF TypeOK, Callbacks
  <2>6. Counting'
    BY <1>1, <1>3, <1>5, <1>6, <2>1, <2>2, <2>3, <2>4, Known
    DEF Counting, DataWasPushed, QueuedIsPending, ActionsForTarget,
        AssertionsHold, Telling, ToldIsProcessed
  <2>7. Telling'
    BY <1>1, <1>3, <1>5, <1>6, <2>1, <2>2, <2>3, <2>4, Known
    DEF Telling, ToldTarget, ClosedIsDone, ToldIsProcessed, ErrorIsLast
  <2>8. Place'
    BY <1>1, <1>3, <1>5, <1>6, <2>1, <2>2, <2>3, <2>4, Known DEF Place, Callbacks
  <2>9. QED
    BY <2>5, <2>6, <2>7, <2>8, Assembled
<1>9. CASE /\ pc = "last parse" \/ s.target # "set"
           /\ stream' = s /\ pc' = "idle" /\ UNCHANGED told
  <2> HIDE DEF s
  <2>1. TypeOK'
    BY <1>1, <1>3, <1>4, <1>5, <1>6, <1>9, Known DEF TypeOK, Callbacks
  <2>2. Counting'
    BY <1>1, <1>3, <1>4, <1>5, <1>6, <1>9, Known
    DEF Counting, DataWasPushed, QueuedIsPending, ActionsForTarget,
        AssertionsHold, Telling, ToldIsProcessed
  <2>3. Telling'
    BY <1>1, <1>3, <1>4, <1>5, <1>6, <1>9, Known
    DEF Telling, ToldTarget, ClosedIsDone, ToldIsProcessed, ErrorIsLast
  <2>4. Place'
    BY <1>1, <1>3, <1>4, <1>5, <1>6, <1>9, Known DEF Place, Callbacks
  <2>5. QED
    BY <2>1, <2>2, <2>3, <2>4, Assembled
<1>10. QED
  BY <1>2, <1>7, <1>8, <1>9

LEMMA ActionKeeps == ASSUME IInv, Action PROVE IInv'
<1>1. ASSUME Opened PROVE IInv'
  <2>1. pc = "open" /\ pc' = "loop" /\ UNCHANGED <<kind, backend, pushed, stream, told>>
    BY <1>1 DEF Opened
  <2>2. TypeOK'
    BY <2>1, Known DEF TypeOK, Callbacks
  <2>3. Counting'
    BY <2>1, Known
    DEF Counting, DataWasPushed, QueuedIsPending, ActionsForTarget,
        AssertionsHold, Telling, ToldIsProcessed
  <2>4. Telling'
    BY <2>1, Known
    DEF Telling, ToldTarget, ClosedIsDone, ToldIsProcessed, ErrorIsLast
  <2>5. Place'
    BY <2>1, Known DEF Place, Callbacks
  <2>6. QED
    BY <2>2, <2>3, <2>4, <2>5, Assembled
<1>2. ASSUME Ended PROVE IInv'
  <2>1. /\ pc \in {"close", "error"} /\ pc' = (IF pc = "close" THEN "loop" ELSE "idle")
        /\ UNCHANGED <<kind, backend, pushed, told>>
    BY <1>2 DEF Ended
  <2>2. /\ pc = "close" => stream.processed = "closed"
        /\ pc = "error" => told = "error" /\ stream.actions = 0
    BY Known DEF Telling, ToldIsProcessed, ErrorIsLast, Place, Callbacks
  <2>3. CASE stream' = Drop(stream)
    <3>1. /\ stream' \in Streams /\ stream'.state = stream.state
          /\ stream'.processed = stream.processed /\ stream'.target = "dropped"
          /\ ~stream'.queued /\ stream'.actions = 0 /\ stream'.data = stream.data
          /\ stream'.fresh = stream.fresh /\ ~stream'.writable
      BY <2>3, Known, DropFacts
    <3>2. TypeOK'
      BY <2>1, <2>2, <3>1, Known DEF TypeOK, Callbacks
    <3>3. Counting'
      BY <2>1, <2>2, <3>1, Known
      DEF Counting, DataWasPushed, QueuedIsPending, ActionsForTarget,
          AssertionsHold, Telling, ToldIsProcessed
    <3>4. Telling'
      BY <2>1, <2>2, <3>1, Known
      DEF Telling, ToldTarget, ClosedIsDone, ToldIsProcessed, ErrorIsLast
    <3>5. Place'
      BY <2>1, <2>2, <3>1, Known DEF Place, Callbacks
    <3>6. QED
      BY <3>2, <3>3, <3>4, <3>5, Assembled
  <2>4. CASE stream' = stream /\ kind = "loader"
    <3>1. TypeOK'
      BY <2>1, <2>2, <2>4, Known DEF TypeOK, Callbacks
    <3>2. Counting'
      BY <2>1, <2>2, <2>4, Known
      DEF Counting, DataWasPushed, QueuedIsPending, ActionsForTarget,
          AssertionsHold, Telling, ToldIsProcessed
    <3>3. Telling'
      BY <2>1, <2>2, <2>4, Known
      DEF Telling, ToldTarget, ClosedIsDone, ToldIsProcessed, ErrorIsLast
    <3>4. Place'
      BY <2>1, <2>2, <2>4, Known DEF Place, Callbacks
    <3>5. QED
      BY <3>1, <3>2, <3>3, <3>4, Assembled
  <2>5. QED
    BY <1>2, <2>3, <2>4 DEF Ended
<1>3. ASSUME ProcessWritable PROVE IInv'
  <2>1. pc = "idle" /\ stream.writable /\ UNCHANGED <<kind, backend, pushed, pc, told>>
    BY <1>3 DEF ProcessWritable
  <2>2. CASE stream' = [stream EXCEPT !.writable = FALSE]
    <3>1. stream' \in Streams
      BY <2>2, Known, UpdateFacts
    <3>2. /\ stream'.state = stream.state /\ stream'.processed = stream.processed
          /\ stream'.target = stream.target /\ stream'.queued = stream.queued
          /\ stream'.actions = stream.actions /\ stream'.data = stream.data
          /\ stream'.fresh = stream.fresh /\ ~stream'.writable
      BY <2>2, Known DEF StreamFields
    <3>3. TypeOK'
      BY <2>1, <3>1, <3>2, Known DEF TypeOK, Callbacks
    <3>4. Counting'
      BY <2>1, <3>1, <3>2, Known
      DEF Counting, DataWasPushed, QueuedIsPending, ActionsForTarget,
          AssertionsHold, Telling, ToldIsProcessed
    <3>5. Telling'
      BY <2>1, <3>1, <3>2, Known
      DEF Telling, ToldTarget, ClosedIsDone, ToldIsProcessed, ErrorIsLast
    <3>6. Place'
      BY <2>1, <3>1, <3>2, Known DEF Place, Callbacks
    <3>7. QED
      BY <3>3, <3>4, <3>5, <3>6, Assembled
  <2>3. CASE /\ stream.state = "open"
             /\ stream' = [Error(stream) EXCEPT !.writable = FALSE]
    <3> DEFINE e == Error(stream)
    <3>1. /\ e \in Streams /\ e.state = "error" /\ e.processed = stream.processed
          /\ e.target = stream.target /\ e.queued
          /\ stream.target = "set" => e.actions = 1
          /\ stream.target # "set" => e.actions = 0
          /\ e.data = stream.data /\ e.fresh = stream.fresh
      BY ReportFacts DEF Error
    <3>2. stream' = [e EXCEPT !.writable = FALSE]
      BY <2>3
    <3> HIDE DEF e
    <3>3. stream' \in Streams
      BY <3>1, <3>2, UpdateFacts
    <3>4. /\ stream'.state = "error" /\ stream'.processed = stream.processed
          /\ stream'.target = stream.target /\ stream'.queued
          /\ stream.target = "set" => stream'.actions = 1
          /\ stream.target # "set" => stream'.actions = 0
          /\ stream'.data = stream.data /\ stream'.fresh = stream.fresh
          /\ ~stream'.writable
      BY <3>1, <3>2, FieldFacts DEF StreamFields
    <3>5. TypeOK'
      BY <2>1, <2>3, <3>3, <3>4, Known DEF TypeOK, Callbacks
    <3>6. Counting'
      BY <2>1, <2>3, <3>3, <3>4, Known
      DEF Counting, DataWasPushed, QueuedIsPending, ActionsForTarget,
          AssertionsHold, Telling, ToldIsProcessed
    <3>7. Telling'
      BY <2>1, <2>3, <3>3, <3>4, Known
      DEF Telling, ToldTarget, ClosedIsDone, ToldIsProcessed, ErrorIsLast
    <3>8. Place'
      BY <2>1, <2>3, <3>3, <3>4, Known DEF Place, Callbacks
    <3>9. QED
      BY <3>5, <3>6, <3>7, <3>8, Assembled
  <2>4. QED
    BY <1>3, <2>2, <2>3 DEF ProcessWritable
<1>4. QED
  BY <1>1, <1>2, <1>3, ProcessKeeps, LoopKeeps, ParsedKeeps DEF Action

LEMMA NextKeeps == ASSUME IInv, [Next]_vars PROVE IInv'
<1>1. CASE UNCHANGED vars
  <2>1. UNCHANGED <<kind, backend, pushed, stream, pc, told>>
    BY <1>1 DEF vars
  <2>2. QED
    BY <2>1, Known, QuietKeeps DEF TypeOK
<1>2. QED
  BY <1>1, BackendKeeps, TargetKeeps, ActionKeeps DEF Next

\* The flag, the queued action, what the target was told and where the loop of
\* swfdec_stream_process is agree in every reachable state.
THEOREM Invariance == Spec => []IInv
<1>1. IInv /\ [Next]_vars => IInv'
  BY NextKeeps
<1>2. QED
  BY <1>1, InitInvariant, PTL DEF Spec

-----------------------------------------------------------------------------
(* The properties *)

\* The type invariant of a stream (swfdec_stream.c).
THEOREM TypeCorrect == Spec => []TypeOK
BY Invariance, PTL DEF IInv

\* While there is a target, the flag queued of a stream says whether an external
\* action is queued for it (swfdec_stream_queue_processing, _set_target).
THEOREM QueuedFlagIsRight == Spec => []QueuedIsPending
BY Invariance, PTL DEF IInv

\* The assertions at the head of swfdec_stream_process never fail.
THEOREM NoAssertionFails == Spec => []AssertionsHold
BY Invariance, PTL DEF IInv

\* No target is told of the end before it could parse the last buffer.
THEOREM LastBufferIsParsed == Spec => []NoDataLost
<1>1. IInv => NoDataLost
  BY DEF IInv, Place, NoDataLost
<1>2. QED
  BY <1>1, Invariance, PTL

\* Targets are told of open, data and the end in this order, of one end only, and
\* of nothing once they let go.
THEOREM ToldInOrder == Spec => CallbackOrder
<1> DEFINE InOrder ==
      told' # told =>
         /\ stream.target = "set"
         /\ <<told, told'>> \in {<<"nothing", "open">>, <<"nothing", "error">>,
                                 <<"open", "parse">>, <<"open", "error">>,
                                 <<"parse", "close">>, <<"parse", "error">>}
<1>1. IInv /\ [Next]_vars => [InOrder]_vars
  <2> SUFFICES ASSUME IInv, Next PROVE InOrder
    OBVIOUS
  <2>1. CASE Backend \/ Target
    <3>1. UNCHANGED told
      BY <2>1 DEF Backend, BackendOpen, BackendPush, BackendClose, BackendError,
                  SignalWritable, Target, SetTarget, DropLoader, CloseSocket, SendFails
    <3>2. QED
      BY <3>1
  <2>2. CASE Process
    BY <2>2 DEF Process, Tell, IInv, TypeOK, ToldIsProcessed, ErrorIsLast, AssertionsHold
  <2>3. CASE Loop
    BY <2>3 DEF Loop, Tell, IInv, TypeOK, ToldIsProcessed, ErrorIsLast, Place
  <2>4. CASE Parsed
    <3>1. UNCHANGED told \/ (pc = "parse" /\ told' = "close" /\ stream.target = "set")
      BY <2>4, Known DEF Parsed, Tell, StreamFields
    <3>2. pc = "parse" => told = "parse"
      BY Known DEF Place, Callbacks
    <3>3. QED
      BY <3>1, <3>2
  <2>5. CASE Opened \/ Ended \/ ProcessWritable
    BY <2>5 DEF Opened, Ended, ProcessWritable
  <2>6. QED
    BY <2>1, <2>2, <2>3, <2>4, <2>5 DEF Next, Action
<1>2. QED
  BY <1>1, Invariance, PTL DEF Spec, CallbackOrder

-----------------------------------------------------------------------------
(* Streams and resources as records *)

LEMMA QueueTarget ==
    ASSUME NEW s \in Streams
    PROVE  QueueProcessing(s).target = s.target
BY FieldFacts DEF QueueProcessing, StreamFields

LEMMA ResourceFields ==
    ASSUME NEW r \in Resources
    PROVE  /\ r.target \in {"root", "clip", "level"}
           /\ r.state \in {"new", "requested", "opened", "complete", "done"}
           /\ r.request \in {"pending", "allowed", "denied"}
           /\ r.sandbox \in {"none", "caller", "own"}
           /\ r.decoder \in {"none", "swf", "image", "unknown"}
           /\ r.sprite \in BOOLEAN
           /\ r.opening \in BOOLEAN
           /\ r.parsing \in BOOLEAN
           /\ r.clip_loader \in BOOLEAN
BY DEF Resources

\* Nothing but the fields that a step lists changes.
Same(r, q) ==
    /\ r.target = q.target /\ r.state = q.state /\ r.request = q.request
    /\ r.sandbox = q.sandbox /\ r.sprite = q.sprite /\ r.clip_loader = q.clip_loader

-----------------------------------------------------------------------------
(* Every step is one of the stream *)

LEMMA LetGoIsDrop ==
    ASSUME kind = "loader", LetGo
    PROVE  DropLoader
BY DEF LetGo, DropLoader

LEMMA StreamSteps ==
    ASSUME RequestComesFirst, [ResourceNext]_allVars
    PROVE  [Next]_vars
<1>1. CASE UNCHANGED allVars
  BY <1>1 DEF allVars
<1>2. CASE Load \/ LoadRoot
  BY <1>2 DEF Load, LoadRoot, Next, Target
<1>3. CASE NotFound \/ Denied \/ Detect \/ OnLoadInit \/ ChangeSlot
  BY <1>3 DEF NotFound, Denied, Detect, OnLoadInit, ChangeSlot
<1>4. CASE Step \/ Open \/ Return \/ Close \/ Fail \/ Failed
  BY <1>4 DEF Step, Open, Return, Close, Fail, Failed, Next, Action
<1>5. CASE Round
  <2>1. UNCHANGED vars \/ LetGo
    BY <1>5 DEF Round, Image
  <2>2. QED
    BY <2>1, LetGoIsDrop DEF RequestComesFirst, Next, Target
<1>6. CASE ParseError \/ Dispose
  BY <1>6, LetGoIsDrop DEF ParseError, Dispose, RequestComesFirst, Next, Target
<1>7. CASE Backend /\ UNCHANGED resourceVars
  BY <1>7 DEF Next
<1>8. QED
  BY <1>1, <1>2, <1>3, <1>4, <1>5, <1>6, <1>7 DEF ResourceNext

-----------------------------------------------------------------------------
(* What the steps of the stream mean for the resource *)

LEMMA LoopFacts ==
    ASSUME IInv, Loop
    PROVE  /\ pc = "loop" /\ UNCHANGED <<kind, pushed>>
           /\ stream'.target = stream.target
           /\ \/ /\ pc' = "open" /\ told = "nothing" /\ told' = "open"
                 /\ stream.target = "set"
              \/ /\ pc' \in {"parse", "last parse"} /\ told \in {"open", "parse"}
                 /\ told' = "parse" /\ stream.target = "set"
              \/ pc' = "idle" /\ told' = told
<1>1. stream \in Streams /\ DOMAIN stream = StreamFields /\ pc = "loop"
  BY Known DEF Loop
<1>2. stream.state = stream.processed /\ stream.state # "open" => pc' = "idle" /\ UNCHANGED <<stream, told>>
  BY <1>1 DEF Loop
<1>3. told # "error" /\ told \in {"nothing", "open", "parse", "close", "error"}
  BY <1>1, Known DEF Telling, ErrorIsLast, TypeOK
<1>4. CASE stream.state # stream.processed /\ stream.processed = "connecting"
  BY <1>1, <1>3, <1>4, Known DEF Loop, Tell, Place, Telling, ToldIsProcessed, StreamFields
<1>5. CASE stream.state # stream.processed /\ stream.processed = "open"
  BY <1>1, <1>3, <1>5, Known DEF Loop, Tell, Place, Telling, ToldIsProcessed, StreamFields
<1>6. CASE stream.state = stream.processed /\ stream.state = "open"
  BY <1>1, <1>3, <1>6, Known DEF Loop, Tell, Place, Telling, ToldIsProcessed, StreamFields
<1>7. CASE stream.state = stream.processed /\ stream.state # "open"
  BY <1>1, <1>2, <1>7 DEF Loop
<1>8. QED
  BY <1>1, <1>4, <1>5, <1>6, <1>7 DEF Loop

\* The target of a loader is told of errors only by the head of the function,
\* and not after any end.
LEMMA ProcessFacts ==
    ASSUME IInv, Process
    PROVE  /\ pc = "idle" /\ UNCHANGED <<kind, pushed>>
           /\ stream'.target = stream.target /\ stream.target = "set"
           /\ \/ pc' \in {"idle", "loop"} /\ told' = told
              \/ /\ pc' = "error" /\ told' = "error"
                 /\ told \in {"nothing", "open", "parse"}
<1> DEFINE s == [stream EXCEPT !.actions = @ - 1, !.queued = FALSE]
<1>1. stream \in Streams /\ DOMAIN stream = StreamFields
  BY Known
<1>2. pc = "idle" /\ stream.actions > 0 /\ UNCHANGED <<kind, pushed>>
  BY DEF Process
<1>3. s.state = stream.state /\ s.processed = stream.processed /\ s.target = stream.target
  BY <1>1 DEF StreamFields
<1>4. stream.target = "set"
  BY <1>2, Known DEF Counting, AssertionsHold
<1>5. \/ stream' = s /\ pc' \in {"idle", "loop"} /\ told' = told
      \/ stream' = s /\ pc' = "error" /\ told' = "error" /\ s.state = "error"
  <2> HIDE DEF s
  <2>1. IF s.state = s.processed /\ s.state # "open"
        THEN stream' = s /\ UNCHANGED <<pc, told>>
        ELSE IF s.state = "error" THEN Tell("error", s)
        ELSE stream' = s /\ pc' = "loop" /\ UNCHANGED told
    BY DEF Process, s
  <2>2. QED
    BY <1>2, <2>1 DEF Tell
<1>6. stream.state = "error" => told \in {"nothing", "open", "parse"}
  BY <1>2, Known DEF Telling, ToldIsProcessed, ErrorIsLast, TypeOK
<1> HIDE DEF s
<1>7. QED
  BY <1>2, <1>3, <1>4, <1>5, <1>6

LEMMA ParsedFacts ==
    ASSUME IInv, Parsed
    PROVE  /\ pc \in {"parse", "last parse"} /\ told = "parse"
           /\ UNCHANGED <<kind, pushed>>
           /\ stream'.target = stream.target
           /\ \/ pc' = "idle" /\ told' = told
              \/ pc' = "close" /\ told' = "close" /\ stream.target = "set"
<1>1. stream \in Streams /\ DOMAIN stream = StreamFields
      /\ pc \in {"parse", "last parse"} /\ told = "parse"
  BY Known DEF Parsed, Place, Callbacks
<1>2. PICK n \in 0..stream.data :
         LET s == [stream EXCEPT !.data = n]
         IN  \/ stream' = QueueProcessing(s) /\ pc' = "idle" /\ UNCHANGED told
             \/ /\ stream.target = "set" /\ Tell("close", [s EXCEPT !.processed = "closed"])
             \/ stream' = s /\ pc' = "idle" /\ UNCHANGED told
  <2>1. PICK n \in 0..stream.data :
           LET s == [stream EXCEPT !.data = n]
           IN  \/ stream' = QueueProcessing(s) /\ pc' = "idle" /\ UNCHANGED told
               \/ s.target = "set" /\ Tell("close", [s EXCEPT !.processed = "closed"])
               \/ stream' = s /\ pc' = "idle" /\ UNCHANGED told
    BY DEF Parsed
  <2>2. [stream EXCEPT !.data = n].target = stream.target
    BY <1>1 DEF StreamFields
  <2>3. QED
    BY <2>1, <2>2
<1> DEFINE s == [stream EXCEPT !.data = n]
<1>3. s \in Streams /\ s.target = stream.target /\ [s EXCEPT !.processed = "closed"].target = stream.target
  <2>1. n \in 0..MaxBuffers
    BY <1>2, Known
  <2>2. QED
    BY <1>1, <2>1, UpdateFacts DEF StreamFields
<1>4. QueueProcessing(s).target = stream.target
  BY <1>3, QueueTarget
<1>5. \/ stream' = QueueProcessing(s) /\ pc' = "idle" /\ UNCHANGED told
      \/ /\ stream.target = "set" /\ Tell("close", [s EXCEPT !.processed = "closed"])
      \/ stream' = s /\ pc' = "idle" /\ UNCHANGED told
  BY <1>2
<1>6. UNCHANGED <<kind, pushed>>
  BY DEF Parsed
<1> HIDE DEF s
<1>7. QED
  BY <1>1, <1>3, <1>4, <1>5, <1>6 DEF Tell

LEMMA SetTargetFacts ==
    ASSUME IInv, SetTarget
    PROVE  /\ pc = "idle" /\ UNCHANGED <<kind, pushed, pc, told>>
           /\ stream.target = "none" /\ told = "nothing"
           /\ stream'.target = "set"
<1> DEFINE s == [stream EXCEPT !.target = "set", !.queued = FALSE]
<1>1. stream \in Streams /\ DOMAIN stream = StreamFields
  BY Known
<1>2. s \in Streams /\ s.target = "set"
  <2>1. [stream EXCEPT !.target = "set"] \in Streams
    BY <1>1, UpdateFacts
  <2>2. [[stream EXCEPT !.target = "set"] EXCEPT !.queued = FALSE] \in Streams
    BY <2>1, UpdateFacts
  <2>3. s.target = "set"
    BY <1>1 DEF StreamFields
  <2>4. QED
    BY <2>2, <2>3
<1>3. stream' = s \/ stream' = QueueProcessing(s)
  BY DEF SetTarget
<1>4. QueueProcessing(s).target = s.target
  BY <1>2, QueueTarget
<1> HIDE DEF s
<1>5. QED
  BY <1>2, <1>3, <1>4, Known DEF SetTarget, Telling, ToldTarget

LEMMA BackendFacts ==
    ASSUME IInv, Backend
    PROVE  /\ pc = "idle" /\ UNCHANGED <<kind, pc, told>>
           /\ stream'.target = stream.target
<1>1. stream \in Streams /\ DOMAIN stream = StreamFields
  BY Known
<1>2. /\ pc = "idle" /\ UNCHANGED <<kind, pc, told>>
  BY DEF Backend, BackendOpen, BackendPush, BackendClose, BackendError, SignalWritable
<1>3. ASSUME NEW v \in {"connecting", "open", "closed", "error"}
      PROVE  QueueProcessing([stream EXCEPT !.state = v]).target = stream.target
  BY ReportFacts
<1>4. CASE BackendPush
  <2> DEFINE s == [stream EXCEPT !.data = @ + 1, !.fresh = TRUE]
  <2>1. s.target = stream.target
    BY <1>1 DEF StreamFields
  <2>2. QueueProcessing(s).target = s.target
    BY <1>1 DEF QueueProcessing, StreamFields
  <2>3. QED
    BY <1>4, <2>1, <2>2 DEF BackendPush
<1>5. CASE SignalWritable
  BY <1>1, <1>5 DEF SignalWritable, StreamFields
<1>6. CASE BackendOpen \/ BackendClose \/ BackendError
  BY <1>3, <1>6 DEF BackendOpen, BackendClose, BackendError, Error
<1>7. QED
  BY <1>2, <1>4, <1>5, <1>6 DEF Backend

-----------------------------------------------------------------------------
(* What every step keeps *)

\* The step that SignalsInOrder allows.
Signalled ==
    signal' # signal =>
        <<signal, signal'>> \in
            {<<"none", "onLoadStart">>, <<"none", "onLoadProgress">>,
             <<"none", "onLoadError">>,
             <<"onLoadStart", "onLoadProgress">>, <<"onLoadStart", "onLoadError">>,
             <<"onLoadProgress", "onLoadComplete">>, <<"onLoadProgress", "onLoadError">>,
             <<"onLoadComplete", "onLoadInit">>}

ResourceKept ==
    /\ StateFollowsStream'
    /\ ShownHasSandbox'
    /\ RequestComesFirst'
    /\ SignalsFollow'
    /\ Signalled

\* What every step below starts from.
LEMMA ResourceKnown ==
    ASSUME ResourceInv
    PROVE  /\ IInv /\ ResourceOK /\ StateFollowsStream /\ ShownHasSandbox
           /\ RequestComesFirst /\ SignalsFollow
           /\ stream \in Streams /\ stream.data \in 0..MaxBuffers
           /\ told \in {"nothing", "open", "parse", "close", "error"}
           /\ pc \in {"idle", "loop", "open", "parse", "last parse", "close", "error"}
           /\ stream.target \in {"none", "set", "dropped"}
           /\ told # "nothing" => stream.target # "none"
           /\ stream.target = "none" => told = "nothing" /\ resource.state = "new"
           /\ pc = "open" => told = "open" /\ stream.target = "set"
           /\ pc \in {"parse", "last parse"} => told = "parse"
           /\ pc = "close" => told = "close"
           /\ pc = "error" => told = "error"
<1>1. /\ IInv /\ ResourceOK /\ StateFollowsStream /\ ShownHasSandbox
      /\ RequestComesFirst /\ SignalsFollow
  BY DEF ResourceInv, StateFollowsStream
<1>2. /\ stream \in Streams /\ told \in {"nothing", "open", "parse", "close", "error"}
      /\ pc \in {"idle", "loop", "open", "parse", "last parse", "close", "error"}
      /\ told # "nothing" => stream.target # "none"
      /\ pc \in Callbacks => told = (IF pc = "last parse" THEN "parse" ELSE pc)
      /\ pc = "open" => stream.target = "set"
  BY <1>1, Known DEF TypeOK, Callbacks, Telling, ToldTarget, Place
<1>3. stream.data \in 0..MaxBuffers /\ stream.target \in {"none", "set", "dropped"}
  BY <1>2, FieldFacts
<1>4. QED
  BY <1>1, <1>2, <1>3 DEF StateFollowsStream, Callbacks

LEMMA LoadKeeps ==
    ASSUME ResourceInv, Load \/ LoadRoot
    PROVE  ResourceKept
<1>1. /\ pc = "idle" /\ UNCHANGED <<kind, pc, told>> /\ told = "nothing"
      /\ stream.target = "none" /\ stream'.target = "set"
  BY ResourceKnown, SetTargetFacts DEF Load, LoadRoot
<1>2. resource \in Resources
  BY ResourceKnown DEF ResourceOK
<1>3. /\ UNCHANGED <<left, signal, aborted>>
      /\ slot' \in {"own", slot}
      /\ resource' \in Resources
      /\ resource'.state = "requested" /\ resource'.request = "allowed"
      /\ resource'.sandbox = resource.sandbox /\ resource'.sprite = resource.sprite
      /\ resource'.target = resource.target
      /\ resource.request = "pending" \/ resource.target = "root"
  <2>1. CASE Load
    BY <1>2, <2>1 DEF Load, Resources
  <2>2. CASE LoadRoot
    <3>1. resource' = [resource EXCEPT !.state = "requested"] /\ resource.target = "root"
          /\ UNCHANGED <<slot, left, signal, aborted>>
      BY <2>2 DEF LoadRoot
    <3>2. resource.request = "allowed"
      BY <3>1, ResourceKnown DEF RequestComesFirst
    <3>3. QED
      BY <1>2, <3>1, <3>2 DEF Resources
  <2>3. QED
    BY <2>1, <2>2
<1>4. signal = "none" /\ resource.state = "new"
  BY <1>1, <1>3, ResourceKnown DEF RequestComesFirst, SignalsFollow
<1>5. StateFollowsStream'
  BY <1>1, <1>3, ResourceKnown DEF StateFollowsStream, ResourceOK, Slots
<1>6. ShownHasSandbox'
  BY <1>3, ResourceKnown DEF ShownHasSandbox
<1>7. RequestComesFirst' /\ SignalsFollow' /\ Signalled
  BY <1>1, <1>3, <1>4, ResourceKnown DEF RequestComesFirst, SignalsFollow, Signalled
<1>8. QED
  BY <1>5, <1>6, <1>7 DEF ResourceKept

\* Requests that lead to nothing.
LEMMA RefusedKeeps ==
    ASSUME ResourceInv, NotFound \/ Denied
    PROVE  ResourceKept
<1>1. /\ resource.request = "pending" /\ resource' = [resource EXCEPT !.request = "denied"]
      /\ UNCHANGED <<kind, stream, pc, told, slot, left, aborted>> /\ pc = "idle"
      /\ signal' \in {signal, "onLoadError"}
  BY DEF NotFound, Denied, Emit, vars
<1>2. resource \in Resources
  BY ResourceKnown DEF ResourceOK
<1>3. /\ resource' \in Resources /\ resource'.request = "denied"
      /\ resource'.state = resource.state /\ resource'.target = resource.target
      /\ resource'.sandbox = resource.sandbox /\ resource'.sprite = resource.sprite
      /\ resource'.clip_loader = resource.clip_loader
  BY <1>1, <1>2 DEF Resources
<1>4. /\ stream.target = "none" /\ told = "nothing" /\ signal = "none" /\ resource.state = "new"
      /\ resource.target # "root"
  BY <1>1, ResourceKnown DEF RequestComesFirst, SignalsFollow
<1>5. StateFollowsStream'
  BY <1>1, <1>3, <1>4, ResourceKnown DEF StateFollowsStream, ResourceOK, Signals
<1>6. ShownHasSandbox' /\ RequestComesFirst' /\ SignalsFollow' /\ Signalled
  BY <1>1, <1>3, <1>4, ResourceKnown
  DEF ShownHasSandbox, RequestComesFirst, SignalsFollow, Signalled
<1>7. QED
  BY <1>5, <1>6 DEF ResourceKept

LEMMA StepKeeps ==
    ASSUME ResourceInv, Step
    PROVE  ResourceKept
<1>1. Loop /\ left' = stream.data /\ UNCHANGED <<slot, aborted>>
  BY DEF Step
<1>2. /\ pc = "loop" /\ UNCHANGED kind /\ stream'.target = stream.target
      /\ \/ /\ pc' = "open" /\ told = "nothing" /\ told' = "open"
            /\ stream.target = "set"
         \/ /\ pc' \in {"parse", "last parse"} /\ told \in {"open", "parse"}
            /\ told' = "parse" /\ stream.target = "set"
         \/ pc' = "idle" /\ told' = told
  BY <1>1, ResourceKnown, LoopFacts
<1>3. resource \in Resources
  BY ResourceKnown DEF ResourceOK
<1>4. /\ resource' \in Resources /\ Same(resource', resource)
      /\ \/ signal' = signal
         \/ pc' = "open" /\ signal' = "onLoadStart"
  BY <1>3 DEF Step, Emit, Resources, Same
<1>5. StateFollowsStream'
  BY <1>1, <1>2, <1>4, ResourceKnown DEF StateFollowsStream, ResourceOK, Signals, Same
<1>6. ShownHasSandbox' /\ RequestComesFirst'
  BY <1>1, <1>2, <1>4, ResourceKnown DEF ShownHasSandbox, RequestComesFirst, Same
<1>7. pc' = "open" => signal = "none" /\ resource.state # "complete"
  BY <1>2, ResourceKnown DEF RequestComesFirst, SignalsFollow, StateFollowsStream
<1>8. SignalsFollow' /\ Signalled
  BY <1>1, <1>2, <1>4, <1>7, ResourceKnown DEF SignalsFollow, Signalled, Same
<1>9. QED
  BY <1>5, <1>6, <1>8 DEF ResourceKept

LEMMA OpenKeeps ==
    ASSUME ResourceInv, Open
    PROVE  ResourceKept
<1>1. /\ pc = "open" /\ pc' = "loop" /\ UNCHANGED <<kind, stream, told>>
      /\ UNCHANGED <<slot, left, signal, aborted>>
      /\ resource' = [resource EXCEPT
                        !.state = IF resource.opening THEN "opened" ELSE @,
                        !.opening = FALSE]
  BY DEF Open, Opened
<1>2. resource \in Resources
  BY ResourceKnown DEF ResourceOK
<1>3. /\ resource' \in Resources
      /\ resource'.state \in {resource.state, "opened"}
      /\ resource'.target = resource.target /\ resource'.request = resource.request
      /\ resource'.sandbox = resource.sandbox /\ resource'.sprite = resource.sprite
      /\ resource'.clip_loader = resource.clip_loader
  BY <1>1, <1>2 DEF Resources
<1>4. resource.state \in {"requested", "opened"} /\ told = "open" /\ stream.target = "set"
  BY <1>1, <1>2, ResourceKnown DEF StateFollowsStream, Resources
<1>5. StateFollowsStream'
  BY <1>1, <1>3, <1>4, ResourceKnown DEF StateFollowsStream, ResourceOK
<1>6. ShownHasSandbox' /\ RequestComesFirst' /\ SignalsFollow' /\ Signalled
  BY <1>1, <1>3, <1>4, ResourceKnown
  DEF ShownHasSandbox, RequestComesFirst, SignalsFollow, Signalled
<1>7. QED
  BY <1>5, <1>6 DEF ResourceKept

LEMMA DetectKeeps ==
    ASSUME ResourceInv, Detect
    PROVE  ResourceKept
<1>1. resource \in Resources
  BY ResourceKnown DEF ResourceOK
<1>2. /\ UNCHANGED <<kind, stream, pc, told, slot, left, signal, aborted>>
      /\ resource' \in Resources /\ Same(resource', resource)
  <2>1. PICK decoder \in {"none", "swf", "image", "unknown"} :
           resource' = [resource EXCEPT !.decoder = decoder, !.parsing = TRUE]
    BY <1>1 DEF Detect, Resources
  <2>2. QED
    BY <1>1, <2>1 DEF Detect, vars, Resources, Same
<1>3. StateFollowsStream'
  BY <1>2, ResourceKnown DEF StateFollowsStream, ResourceOK, Same
<1>4. ShownHasSandbox' /\ RequestComesFirst' /\ SignalsFollow' /\ Signalled
  BY <1>2, ResourceKnown DEF ShownHasSandbox, RequestComesFirst, SignalsFollow, Signalled, Same
<1>5. QED
  BY <1>3, <1>4 DEF ResourceKept

LEMMA LetGoFacts ==
    ASSUME IInv, LetGo
    PROVE  /\ UNCHANGED <<kind, pc, told>>
           /\ stream.target = "set" /\ stream'.target = "dropped"
BY Known, DropFacts DEF LetGo

\* The movie that shows what was loaded has the sandbox of the resource.
LEMMA RoundKeeps ==
    ASSUME ResourceInv, ~aborted, Round
    PROVE  ResourceKept
<1>1. resource \in Resources
  BY ResourceKnown DEF ResourceOK
<1>2. /\ pc \in {"parse", "last parse"} /\ told = "parse" /\ UNCHANGED <<slot, aborted>>
      /\ left' \in 0..MaxBuffers
      /\ signal' \in {signal, "onLoadProgress"}
  <2>1. left \in 0..MaxBuffers /\ left' \in 0..left - 1
    BY ResourceKnown DEF Round, ResourceOK
  <2>2. left' \in 0..MaxBuffers
    BY <2>1, BoundAssumption
  <2>3. pc \in {"parse", "last parse"} /\ told = "parse" /\ UNCHANGED <<slot, aborted>>
    BY ResourceKnown DEF Round
  <2>4. signal' \in {signal, "onLoadProgress"}
    BY DEF Round, Emit
  <2>5. QED
    BY <2>2, <2>3, <2>4
<1>3. \/ UNCHANGED <<vars, resource>>
      \/ resource' = [resource EXCEPT !.sprite = TRUE, !.sandbox = "own"] /\ UNCHANGED vars
      \/ LetGo /\ UNCHANGED resource
  BY DEF Round, Image
<1>4. /\ UNCHANGED <<kind, pc, told>>
      /\ stream.target = "none" <=> stream'.target = "none"
  BY <1>3, ResourceKnown, LetGoFacts DEF vars
<1>5. /\ resource' \in Resources
      /\ resource'.state = resource.state /\ resource'.target = resource.target
      /\ resource'.request = resource.request /\ resource'.clip_loader = resource.clip_loader
      /\ \/ resource'.sandbox = resource.sandbox /\ resource'.sprite = resource.sprite
         \/ resource'.sandbox = "own"
  BY <1>1, <1>3 DEF Resources
<1>6. StateFollowsStream'
  BY <1>2, <1>4, <1>5, ResourceKnown DEF StateFollowsStream, ResourceOK, Signals
<1>7. RequestComesFirst'
  BY <1>4, <1>5, ResourceKnown DEF RequestComesFirst
<1>8. signal \in {"none", "onLoadStart", "onLoadProgress"} /\ resource.state # "complete"
  BY <1>2, ResourceKnown DEF SignalsFollow, StateFollowsStream
<1>9. SignalsFollow' /\ Signalled
  BY <1>2, <1>4, <1>5, <1>8 DEF SignalsFollow, Signalled
<1>10. ShownHasSandbox'
  BY <1>2, <1>5, ResourceKnown DEF ShownHasSandbox
<1>11. QED
  BY <1>6, <1>7, <1>9, <1>10 DEF ResourceKept

LEMMA ParseErrorKeeps ==
    ASSUME ResourceInv, ParseError
    PROVE  ResourceKept
<1>1. resource \in Resources
  BY ResourceKnown DEF ResourceOK
<1>2. /\ resource' \in Resources /\ Same(resource', resource)
      /\ UNCHANGED <<slot, signal, aborted>>
  BY <1>1 DEF ParseError, Resources, Same
<1>3. left' \in 0..MaxBuffers
  <2>1. left \in 0..MaxBuffers /\ left' \in 0..left - 1
    BY ResourceKnown DEF ParseError, ResourceOK
  <2>2. QED
    BY <2>1, BoundAssumption
<1>4. /\ UNCHANGED <<kind, pc, told>>
      /\ stream.target = "set" /\ stream'.target = "dropped"
  BY ResourceKnown, LetGoFacts DEF ParseError
<1>5. StateFollowsStream'
  BY <1>2, <1>3, <1>4, ResourceKnown DEF StateFollowsStream, ResourceOK, Same
<1>6. ShownHasSandbox' /\ RequestComesFirst' /\ SignalsFollow' /\ Signalled
  BY <1>2, <1>4, ResourceKnown
  DEF ShownHasSandbox, RequestComesFirst, SignalsFollow, Signalled, Same
<1>7. QED
  BY <1>5, <1>6 DEF ResourceKept

\* The last report of progress comes with the close of the stream.
LEMMA ReturnKeeps ==
    ASSUME ResourceInv, Return
    PROVE  ResourceKept
<1>1. resource \in Resources
  BY ResourceKnown DEF ResourceOK
<1>2. /\ resource' \in Resources /\ Same(resource', resource)
      /\ UNCHANGED <<slot, left, aborted>>
      /\ IF pc' = "close" THEN Emit("onLoadProgress") ELSE UNCHANGED signal
  BY <1>1 DEF Return, Resources, Same
<1>3. /\ pc \in {"parse", "last parse"} /\ told = "parse" /\ UNCHANGED kind
      /\ stream'.target = stream.target
      /\ \/ pc' = "idle" /\ told' = told
         \/ pc' = "close" /\ told' = "close" /\ stream.target = "set"
  BY ResourceKnown, ParsedFacts DEF Return
<1>4. /\ signal \in {"none", "onLoadStart", "onLoadProgress"}
      /\ resource.state \notin {"complete", "done"}
      /\ stream.target # "none" /\ resource.state # "new"
  BY <1>3, ResourceKnown DEF SignalsFollow, StateFollowsStream
<1>5. signal' \in {signal, "onLoadProgress"}
  BY <1>2 DEF Emit
<1>6. StateFollowsStream'
  BY <1>2, <1>3, <1>4, <1>5, ResourceKnown DEF StateFollowsStream, ResourceOK, Signals, Same
<1>7. ShownHasSandbox' /\ RequestComesFirst'
  BY <1>2, <1>3, ResourceKnown DEF ShownHasSandbox, RequestComesFirst, Same
<1>8. SignalsFollow' /\ Signalled
  BY <1>2, <1>3, <1>4, <1>5 DEF SignalsFollow, Signalled, Same, Emit
<1>9. QED
  BY <1>6, <1>7, <1>8 DEF ResourceKept

LEMMA CloseKeeps ==
    ASSUME ResourceInv, ~aborted, Close
    PROVE  ResourceKept
<1>1. resource \in Resources
  BY ResourceKnown DEF ResourceOK
<1>2. /\ pc = "close" /\ pc' = "loop" /\ UNCHANGED <<kind, stream, told, slot, left>>
      /\ aborted' = (resource.sandbox = "none")
      /\ Emit("onLoadComplete")
  BY DEF Close, Ended, AbortIfNotInitialized
<1>3. /\ resource' \in Resources /\ resource'.state = "complete"
      /\ resource'.target = resource.target /\ resource'.request = resource.request
      /\ resource'.sandbox = resource.sandbox /\ resource'.sprite = resource.sprite
      /\ resource'.clip_loader = resource.clip_loader
  BY <1>1 DEF Close, Resources
<1>4. told = "close" /\ stream.target # "none"
  BY <1>2, ResourceKnown
<1>5. \/ signal' = signal /\ ~(resource.clip_loader /\ slot # "none")
      \/ /\ resource.clip_loader /\ slot # "none"
         /\ signal = "onLoadProgress" /\ signal' = "onLoadComplete"
  BY <1>2, ResourceKnown DEF Emit, SignalsFollow
<1>6. StateFollowsStream'
  BY <1>2, <1>3, <1>4, <1>5, ResourceKnown DEF StateFollowsStream, ResourceOK, Signals
<1>7. ShownHasSandbox' /\ RequestComesFirst'
  BY <1>2, <1>3, ResourceKnown DEF ShownHasSandbox, RequestComesFirst
<1>8. SignalsFollow' /\ Signalled
  BY <1>2, <1>3, <1>4, <1>5 DEF SignalsFollow, Signalled
<1>9. QED
  BY <1>6, <1>7, <1>8 DEF ResourceKept

LEMMA FailKeeps ==
    ASSUME ResourceInv, Fail
    PROVE  ResourceKept
<1>1. /\ pc = "idle" /\ UNCHANGED <<kind, resource, slot, aborted>>
      /\ left' = stream.data
      /\ stream'.target = stream.target /\ stream.target = "set"
      /\ \/ pc' \in {"idle", "loop"} /\ told' = told
         \/ pc' = "error" /\ told' = "error" /\ told \in {"nothing", "open", "parse"}
  BY ResourceKnown, ProcessFacts DEF Fail
<1>2. signal' = signal \/ (pc' = "error" /\ signal' = "onLoadError")
  BY DEF Fail, Emit
<1>3. resource.request = "allowed" /\ resource.state # "new"
  BY <1>1, ResourceKnown DEF RequestComesFirst, StateFollowsStream
<1>4. pc' = "error" => /\ signal \in {"none", "onLoadStart", "onLoadProgress"}
                       /\ resource.state \in {"requested", "opened"}
  BY <1>1, <1>3, ResourceKnown
  DEF SignalsFollow, StateFollowsStream, ResourceOK, Resources
<1>5. StateFollowsStream'
  BY <1>1, <1>2, <1>4, ResourceKnown DEF StateFollowsStream, ResourceOK, Signals
<1>6. ShownHasSandbox' /\ RequestComesFirst'
  BY <1>1, ResourceKnown DEF ShownHasSandbox, RequestComesFirst
<1>7. SignalsFollow' /\ Signalled
  BY <1>1, <1>2, <1>4, ResourceKnown DEF SignalsFollow, Signalled
<1>8. QED
  BY <1>5, <1>6, <1>7 DEF ResourceKept

LEMMA FailedKeeps ==
    ASSUME ResourceInv, ~aborted, Failed
    PROVE  ResourceKept
<1>1. /\ pc = "error" /\ pc' = "idle"
      /\ UNCHANGED <<kind, stream, told, resource, slot, left, signal>>
      /\ aborted' = (resource.sandbox = "none")
  BY DEF Failed, Ended, AbortIfNotInitialized
<1>2. StateFollowsStream'
  BY <1>1, ResourceKnown DEF StateFollowsStream, ResourceOK
<1>3. ShownHasSandbox' /\ RequestComesFirst' /\ SignalsFollow' /\ Signalled
  BY <1>1, ResourceKnown DEF ShownHasSandbox, RequestComesFirst, SignalsFollow, Signalled
<1>4. QED
  BY <1>2, <1>3 DEF ResourceKept

LEMMA OnLoadInitKeeps ==
    ASSUME ResourceInv, OnLoadInit
    PROVE  ResourceKept
<1>1. resource \in Resources
  BY ResourceKnown DEF ResourceOK
<1>2. /\ pc = "idle" /\ UNCHANGED <<kind, stream, pc, told, slot, left, aborted>>
      /\ resource.state = "complete"
      /\ IF slot = "own" THEN Emit("onLoadInit") ELSE UNCHANGED signal
  BY DEF OnLoadInit, vars
<1>3. /\ resource' \in Resources /\ resource'.state = "done"
      /\ resource'.target = resource.target /\ resource'.request = resource.request
      /\ resource'.sandbox = resource.sandbox /\ resource'.sprite = resource.sprite
      /\ resource'.clip_loader = FALSE
  BY <1>1 DEF OnLoadInit, Resources
<1>4. told = "close" /\ stream.target # "none"
  BY <1>2, ResourceKnown DEF StateFollowsStream
<1>5. signal' = signal \/ (signal = "onLoadComplete" /\ signal' = "onLoadInit")
  BY <1>2, ResourceKnown DEF Emit, SignalsFollow
<1>6. StateFollowsStream'
  BY <1>2, <1>3, <1>4, <1>5, ResourceKnown DEF StateFollowsStream, ResourceOK, Signals
<1>7. ShownHasSandbox' /\ RequestComesFirst' /\ SignalsFollow' /\ Signalled
  BY <1>2, <1>3, <1>4, <1>5, ResourceKnown
  DEF ShownHasSandbox, RequestComesFirst, SignalsFollow, Signalled
<1>8. QED
  BY <1>6, <1>7 DEF ResourceKept

\* No movie becomes the one that was created for the resource.
LEMMA ChangeSlotKeeps ==
    ASSUME ResourceInv, ChangeSlot
    PROVE  ResourceKept
<1>1. resource \in Resources
  BY ResourceKnown DEF ResourceOK
<1>2. /\ UNCHANGED <<kind, stream, pc, told, left, signal, aborted>>
      /\ slot' \in {"none", "other", "copy"}
      /\ pc = "close" => slot # "none" /\ resource.clip_loader
  BY DEF ChangeSlot, Moves, vars, InScript, ScriptRuns
<1>3. /\ resource' \in Resources /\ resource'.state = resource.state
      /\ resource'.target = resource.target /\ resource'.request = resource.request
      /\ resource'.sandbox = resource.sandbox
      /\ resource'.sprite => resource.sprite
      /\ resource'.clip_loader = resource.clip_loader
  <2>1. resource' = [resource EXCEPT !.sprite = resource.sprite /\ slot' # "copy"]
    BY DEF ChangeSlot
  <2>2. PICK sprite \in BOOLEAN : /\ resource' = [resource EXCEPT !.sprite = sprite]
                                  /\ sprite => resource.sprite
    BY <2>1, Zenon
  <2>3. QED
    BY <1>1, <2>2 DEF Resources
<1>4. StateFollowsStream'
  BY <1>2, <1>3, ResourceKnown DEF StateFollowsStream, ResourceOK, Slots
<1>5. ShownHasSandbox' /\ RequestComesFirst'
  BY <1>2, <1>3, ResourceKnown DEF ShownHasSandbox, RequestComesFirst
<1>6. SignalsFollow' /\ Signalled
  BY <1>2, <1>3, ResourceKnown DEF SignalsFollow, Signalled
<1>7. QED
  BY <1>4, <1>5, <1>6 DEF ResourceKept

\* Steps in which only the stream changes.
LEMMA OtherKeeps ==
    ASSUME ResourceInv, UNCHANGED resourceVars, UNCHANGED <<kind, pc, told>>,
           stream.target = "none" <=> stream'.target = "none"
    PROVE  ResourceKept
<1>1. UNCHANGED <<resource, slot, left, signal, aborted>>
  BY DEF resourceVars
<1>2. StateFollowsStream'
  BY <1>1, ResourceKnown DEF StateFollowsStream, ResourceOK
<1>3. ShownHasSandbox' /\ RequestComesFirst' /\ SignalsFollow' /\ Signalled
  BY <1>1, ResourceKnown DEF ShownHasSandbox, RequestComesFirst, SignalsFollow, Signalled
<1>4. QED
  BY <1>2, <1>3 DEF ResourceKept

LEMMA ResourceNextKeeps ==
    ASSUME ResourceInv, [ResourceNext]_allVars
    PROVE  ResourceKept
<1>1. CASE UNCHANGED allVars
  <2>1. UNCHANGED resourceVars /\ UNCHANGED <<kind, pc, told>> /\ stream' = stream
    BY <1>1 DEF allVars, vars
  <2>2. QED
    BY <2>1, OtherKeeps
<1>2. CASE Dispose
  <2>1. UNCHANGED resourceVars /\ LetGo
    BY <1>2 DEF Dispose
  <2>2. QED
    BY <2>1, ResourceKnown, LetGoFacts, OtherKeeps
<1>3. CASE Backend /\ UNCHANGED resourceVars
  BY <1>3, ResourceKnown, BackendFacts, OtherKeeps
<1>4. CASE ResourceNext /\ ~Dispose /\ ~(Backend /\ UNCHANGED resourceVars)
  BY <1>4, LoadKeeps, RefusedKeeps, StepKeeps, OpenKeeps, DetectKeeps, RoundKeeps,
     ParseErrorKeeps, ReturnKeeps, CloseKeeps, FailKeeps, FailedKeeps, OnLoadInitKeeps,
     ChangeSlotKeeps DEF ResourceNext
<1>5. QED
  BY <1>1, <1>2, <1>3, <1>4

LEMMA ResourceInitInv ==
    ASSUME ResourceInit
    PROVE  ResourceInv
<1>1. IInv /\ Init
  BY InitInvariant DEF ResourceInit
<1>2. /\ kind = "loader" /\ pc = "idle" /\ told = "nothing" /\ stream.target = "none"
  BY <1>1 DEF ResourceInit, Init
<1>3. PICK target \in {"root", "clip", "level"}, listened \in BOOLEAN :
         resource = [target      |-> target,
                     state       |-> "new",
                     request     |-> IF target = "root" THEN "allowed" ELSE "pending",
                     sandbox     |-> IF target = "root" THEN "none" ELSE "caller",
                     decoder     |-> "none",
                     sprite      |-> FALSE,
                     opening     |-> FALSE,
                     parsing     |-> FALSE,
                     clip_loader |-> listened]
  BY DEF ResourceInit
<1>4. resource \in Resources /\ slot \in Slots /\ left = 0 /\ signal = "none" /\ aborted = FALSE
  BY <1>3 DEF ResourceInit, Resources, Slots
<1>5. StateFollowsStream
  <2>1. left \in 0..MaxBuffers
    BY <1>4, BoundAssumption
  <2>2. resource.state = "new"
    BY <1>3
  <2>3. ResourceOK
    BY <1>4, <2>1 DEF ResourceOK, Signals
  <2>4. QED
    BY <1>2, <2>2, <2>3 DEF StateFollowsStream
<1>6. ShownHasSandbox /\ RequestComesFirst /\ SignalsFollow
  BY <1>2, <1>3, <1>4 DEF ShownHasSandbox, RequestComesFirst, SignalsFollow
<1>7. QED
  BY <1>1, <1>5, <1>6 DEF ResourceInv

-----------------------------------------------------------------------------
(* The theorems *)

\* The states of the stream, of the resource and of its listeners agree in every
\* reachable state.
THEOREM ResourceInvariance == ResourceSpec => []ResourceInv
<1>1. ResourceInit => ResourceInv
  BY ResourceInitInv
<1>2. ResourceInv /\ [ResourceNext]_allVars => ResourceInv'
  <2> SUFFICES ASSUME ResourceInv, [ResourceNext]_allVars PROVE ResourceInv'
    OBVIOUS
  <2>1. IInv'
    BY ResourceKnown, StreamSteps, NextKeeps
  <2>2. ResourceKept
    BY ResourceNextKeeps
  <2>3. QED
    BY <2>1, <2>2 DEF ResourceKept, ResourceInv
<1>3. QED
  BY <1>1, <1>2, PTL DEF ResourceSpec

\* A resource takes only steps that a stream and its target may take, so that all
\* that is proved of streams holds while a resource is the target.
THEOREM ResourceIsTarget == ResourceSpec => Init /\ [][Next]_vars
<1>1. ResourceInit => Init
  BY DEF ResourceInit
<1>2. ResourceInv /\ [ResourceNext]_allVars => [Next]_vars
  BY ResourceKnown, StreamSteps
<1>3. QED
  BY <1>1, <1>2, ResourceInvariance, PTL DEF ResourceSpec

\* The error handler never sees a state it asserts is impossible, and only the end
\* of the file completes a resource (swfdec_resource.c).
THEOREM StatesFollow == ResourceSpec => []StateFollowsStream
<1>1. ResourceInv => StateFollowsStream
  BY DEF ResourceInv
<1>2. QED
  BY <1>1, ResourceInvariance, PTL

\* No movie shows what was loaded without a sandbox of its own.
THEOREM SandboxesShown == ResourceSpec => []ShownHasSandbox
<1>1. ResourceInv => ShownHasSandbox
  BY DEF ResourceInv
<1>2. QED
  BY <1>1, ResourceInvariance, PTL

\* The listeners of a MovieClipLoader are told of progress, the end and onLoadInit
\* in this order, whatever they do to the movie.
THEOREM SignalOrder == ResourceSpec => SignalsInOrder
<1>1. ResourceInv /\ [ResourceNext]_allVars => [Signalled]_allVars
  BY ResourceNextKeeps DEF ResourceKept
<1>2. [Signalled]_allVars =>
        [signal' # signal =>
           <<signal, signal'>> \in
              {<<"none", "onLoadStart">>, <<"none", "onLoadProgress">>,
               <<"none", "onLoadError">>,
               <<"onLoadStart", "onLoadProgress">>, <<"onLoadStart", "onLoadError">>,
               <<"onLoadProgress", "onLoadComplete">>, <<"onLoadProgress", "onLoadError">>,
               <<"onLoadComplete", "onLoadInit">>}]_allVars
  BY DEF Signalled
<1>3. QED
  BY <1>1, <1>2, ResourceInvariance, PTL DEF ResourceSpec, SignalsInOrder

LEMMA Least ==
    ASSUME NEW K \in SUBSET Nat, K # {}
    PROVE  \E m \in K : \A k \in K : m <= k
<1>1. PICK m \in K : \A i \in K : <<i, m>> \notin OpToRel(<, Nat)
  BY NatLessThanWellFounded, WFMin
<1>2. ASSUME NEW k \in K PROVE m <= k
  <2>1. <<k, m>> \in Nat \X Nat /\ k \in Nat /\ m \in Nat
    OBVIOUS
  <2>2. ~(k < m)
    BY <1>1, <2>1 DEF OpToRel
  <2>3. QED
    BY <2>1, <2>2
<1>3. QED
  BY <1>2

\* What holds of 0 and is passed on holds of all numbers up to N.
LEMMA Upwards ==
    ASSUME NEW N \in Nat, NEW H \in SUBSET (0..N), 0 \in H,
           \A n \in 1..N : n - 1 \in H => n \in H
    PROVE  \A n \in 0..N : n \in H
<1> DEFINE K == {n \in 0..N : n \notin H}
<1>1. SUFFICES ASSUME K # {} PROVE FALSE
  OBVIOUS
<1>2. K \in SUBSET Nat
  OBVIOUS
<1>3. PICK m \in K : \A k \in K : m <= k
  BY <1>1, <1>2, Least
<1>4. m \in 1..N /\ m - 1 \in 0..N /\ ~(m <= m - 1)
  OBVIOUS
<1>5. m - 1 \in H
  BY <1>3, <1>4
<1>6. QED
  BY <1>4, <1>5

\* A function that gives each number a value from the value of the one before.
Steps(V, base, N, h, f) ==
    f \in [0..N -> V] /\ f[0] = base /\ \A n \in 1..N : f[n] = h[n][f[n - 1]]

LEMMA StepsExist ==
    ASSUME NEW V, NEW base \in V, NEW N \in Nat, NEW h \in [1..N -> [V -> V]]
    PROVE  \E f : Steps(V, base, N, h, f)
<1> DEFINE To(f, n) == f[0] = base /\ \A i \in 1..n : f[i] = h[i][f[i - 1]]
           H == {n \in 0..N : \E f \in [0..N -> V] : To(f, n)}
<1>1. 0 \in H
  <2> DEFINE f0 == [i \in 0..N |-> base]
  <2>1. f0 \in [0..N -> V] /\ f0[0] = base
    OBVIOUS
  <2> HIDE DEF f0
  <2>2. To(f0, 0)
    BY <2>1
  <2> HIDE DEF To
  <2>3. QED
    BY <2>1, <2>2
<1>2. ASSUME NEW n \in 1..N, n - 1 \in H PROVE n \in H
  <2>1. PICK f \in [0..N -> V] : To(f, n - 1)
    BY <1>2
  <2> DEFINE v == h[n][f[n - 1]]
             g == [f EXCEPT ![n] = v]
  <2>2. n \in 0..N /\ n - 1 \in 0..N
    OBVIOUS
  <2>3. v \in V
    BY <2>1, <2>2
  <2> HIDE DEF v
  <2>4. /\ g \in [0..N -> V] /\ g[n] = v
        /\ \A i \in 0..N : i # n => g[i] = f[i]
    BY <2>2, <2>3
  <2> HIDE DEF g
  <2>5. g[0] = base
    BY <2>1, <2>4
  <2>6. ASSUME NEW i \in 1..n PROVE g[i] = h[i][g[i - 1]]
    <3>1. i - 1 \in 0..N /\ i - 1 # n /\ i \in 0..N
      BY <2>2
    <3>2. g[i - 1] = f[i - 1]
      BY <2>4, <3>1
    <3>3. CASE i = n
      BY <2>4, <3>2, <3>3 DEF v
    <3>4. CASE i # n
      <4>1. i \in 1..n - 1
        BY <3>4
      <4>2. QED
        BY <2>1, <2>4, <3>1, <3>2, <3>4, <4>1
    <3>5. QED
      BY <3>3, <3>4
  <2>7. To(g, n)
    BY <2>5, <2>6
  <2>8. QED
    BY <2>2, <2>4, <2>7
<1>3. N \in H
  <2>1. H \in SUBSET (0..N)
    OBVIOUS
  <2> HIDE DEF H
  <2>2. \A n \in 0..N : n \in H
    BY <1>1, <1>2, <2>1, Upwards
  <2>3. QED
    BY <2>2
<1>4. QED
  BY <1>3 DEF Steps

Strings == Seq(Nat)

\* What Joined is: the bytes of the first n buffers.
IsJoin(buffers, f) ==
    /\ f \in [0..Len(buffers) -> Strings]
    /\ f[0] = <<>>
    /\ \A n \in 1..Len(buffers) : f[n] = f[n - 1] \o buffers[n]

LEMMA StringFacts ==
    /\ <<>> \in Strings /\ Len(<<>>) = 0
    /\ \A s \in Strings : /\ Len(s) \in Nat /\ s \o <<>> = s /\ <<>> \o s = s
                          /\ s # <<>> <=> Len(s) > 0
                          /\ SubSeq(s, 1, Len(s)) = s
    /\ \A s, t \in Strings : s \o t \in Strings /\ Len(s \o t) = Len(s) + Len(t)
    /\ \A s, t, u \in Strings : (s \o t) \o u = s \o (t \o u)
<1>1. /\ <<>> \in Strings /\ Len(<<>>) = 0
      /\ \A s \in Strings : Len(s) \in Nat /\ (s # <<>> <=> Len(s) > 0)
  BY EmptySeq DEF Strings
<1>2. \A s \in Strings : s \o <<>> = s /\ <<>> \o s = s
  BY ConcatEmptySeq DEF Strings
<1>3. \A s \in Strings : SubSeq(s, 1, Len(s)) = s
  BY SubSeqFull DEF Strings
<1>4. \A s, t \in Strings : s \o t \in Strings /\ Len(s \o t) = Len(s) + Len(t)
  BY ConcatProperties DEF Strings
<1>5. \A s, t, u \in Strings : (s \o t) \o u = s \o (t \o u)
  <2> TAKE s, t, u \in Strings
  <2>1. s \in Seq(Nat) /\ t \in Seq(Nat) /\ u \in Seq(Nat)
    BY DEF Strings
  <2>2. QED
    BY <2>1, ConcatAssociative, SMTT(40)
<1>6. QED
  BY <1>1, <1>2, <1>3, <1>4, <1>5

LEMMA StringsJoin == \A s, t \in Strings : s \o t \in Strings
BY StringFacts

LEMMA StringsAssociate == \A s, t, u \in Strings : (s \o t) \o u = s \o (t \o u)
BY StringFacts

LEMMA JoinFacts ==
    ASSUME NEW buffers \in Seq(Strings)
    PROVE  Len(buffers) \in Nat /\ IsJoin(buffers, Joined(buffers))
<1> DEFINE N == Len(buffers)
           h == [n \in 1..N |-> [s \in Strings |-> s \o buffers[n]]]
           rec(f) == [n \in 0..N |-> IF n = 0 THEN <<>> ELSE f[n - 1] \o buffers[n]]
           join == CHOOSE f : f = rec(f)
<1>1. N \in Nat /\ \A n \in 1..N : buffers[n] \in Strings
  OBVIOUS
<1>2. Joined(buffers) = join
  BY DEF Joined
<1> HIDE DEF N
<1>3. h \in [1..N -> [Strings -> Strings]]
  BY <1>1, StringFacts
<1>4. PICK f : Steps(Strings, <<>>, N, h, f)
  <2> HIDE DEF h
  <2>1. N \in Nat /\ <<>> \in Strings /\ h \in [1..N -> [Strings -> Strings]]
    BY <1>1, <1>3, StringFacts
  <2>2. QED
    BY <2>1, StepsExist
<1>5. \A n \in 1..N : f[n - 1] \in Strings /\ f[n] = f[n - 1] \o buffers[n]
  <2>1. TAKE n \in 1..N
  <2>2. n - 1 \in 0..N
    BY <1>1
  <2>3. f[n - 1] \in Strings /\ f[n] = h[n][f[n - 1]]
    BY <1>4, <2>2 DEF Steps
  <2>4. QED
    BY <2>3
<1>6. f = rec(f)
  <2>1. \A n \in 0..N : f[n] = IF n = 0 THEN <<>> ELSE f[n - 1] \o buffers[n]
    BY <1>1, <1>4, <1>5 DEF Steps
  <2>2. QED
    BY <1>4, <2>1 DEF Steps
<1>7. join = rec(join)
  BY <1>6
<1> HIDE DEF join
<1>8. join[0] = <<>> /\ \A n \in 1..N : join[n] = join[n - 1] \o buffers[n]
  <2>1. \A n \in 0..N : join[n] = IF n = 0 THEN <<>> ELSE join[n - 1] \o buffers[n]
    BY <1>7, Zenon
  <2>2. 0 \in 0..N /\ \A n \in 1..N : n \in 0..N /\ n # 0
    BY <1>1
  <2>3. QED
    BY <2>1, <2>2, Zenon
<1>9. \A n \in 0..N : join[n] \in Strings
  <2> DEFINE H == {n \in 0..N : join[n] \in Strings}
  <2>1. 0 \in H
    BY <1>1, <1>8, StringFacts
  <2>2. ASSUME NEW n \in 1..N, n - 1 \in H PROVE n \in H
    <3>1. join[n - 1] \in Strings /\ buffers[n] \in Strings /\ n \in 0..N
      BY <1>1, <2>2
    <3>2. join[n - 1] \o buffers[n] \in Strings
      BY <3>1, StringsJoin
    <3>3. QED
      BY <1>8, <3>1, <3>2
  <2>3. H \in SUBSET (0..N)
    OBVIOUS
  <2> HIDE DEF H
  <2>4. \A n \in 0..N : n \in H
    BY <1>1, <2>1, <2>2, <2>3, Upwards
  <2>5. QED
    BY <2>4 DEF H
<1>10. join \in [0..N -> Strings]
  <2>1. DOMAIN join = 0..N /\ join = [n \in DOMAIN join |-> join[n]]
    BY <1>7
  <2>2. QED
    BY <1>9, <2>1
<1>11. QED
  BY <1>1, <1>2, <1>8, <1>10 DEF IsJoin, N

\* If two lists have the same buffers from one place on, what is joined differs
\* in front only.
Alike(b, c, w, v, M) ==
    /\ Len(b) \in Nat /\ Len(c) \in Nat
    /\ w \in Nat /\ v \in Nat /\ M \in Nat
    /\ w + M <= Len(b) /\ v + M <= Len(c)
    /\ \A i \in 1..M : b[w + i] = c[v + i] /\ b[w + i] \in Strings

Follows(f, g, w, v, M, s) == \A i \in 0..M : f[w + i] = s \o g[v + i]

LEMMA JoinShift ==
    ASSUME NEW b, NEW c, NEW f, NEW g, NEW w, NEW v, NEW M, NEW s,
           IsJoin(b, f), IsJoin(c, g), Alike(b, c, w, v, M),
           s \in Strings, f[w] = s \o g[v]
    PROVE  Follows(f, g, w, v, M, s)
<1> USE DEF Alike
<1> DEFINE H == {i \in 0..M : f[w + i] = s \o g[v + i]}
<1>1. 0 \in H
  <2>1. w + 0 = w /\ v + 0 = v /\ 0 \in 0..M
    OBVIOUS
  <2>2. QED
    BY <2>1
<1>2. ASSUME NEW n \in 1..M, n - 1 \in H PROVE n \in H
  <2>1. /\ w + n \in 1..Len(b) /\ v + n \in 1..Len(c) /\ v + (n - 1) \in 0..Len(c)
        /\ (w + n) - 1 = w + (n - 1) /\ (v + n) - 1 = v + (n - 1)
    OBVIOUS
  <2>2. f[w + n] = f[w + (n - 1)] \o b[w + n] /\ g[v + n] = g[v + (n - 1)] \o c[v + n]
    BY <2>1 DEF IsJoin
  <2>3. g[v + (n - 1)] \in Strings /\ b[w + n] \in Strings /\ b[w + n] = c[v + n]
    BY <2>1 DEF IsJoin
  <2>4. f[w + (n - 1)] = s \o g[v + (n - 1)]
    BY <1>2
  <2> HIDE DEF H
  <2>5. f[w + n] = s \o (g[v + (n - 1)] \o b[w + n])
    <3>1. (s \o g[v + (n - 1)]) \o b[w + n] = s \o (g[v + (n - 1)] \o b[w + n])
      <4> DEFINE x == g[v + (n - 1)]
                 y == b[w + n]
      <4>1. x \in Strings /\ y \in Strings
        BY <2>3
      <4> HIDE DEF x, y
      <4>2. (s \o x) \o y = s \o (x \o y)
        BY <4>1, StringsAssociate
      <4>3. QED
        BY <4>2 DEF x, y
    <3>2. QED
      BY <2>2, <2>4, <3>1, Zenon
  <2>6. f[w + n] = s \o g[v + n] /\ n \in 0..M
    <3>1. n \in 0..M
      OBVIOUS
    <3>2. QED
      BY <2>2, <2>3, <2>5, <3>1, Zenon
  <2>7. QED
    BY <2>6, Zenon DEF H
<1>3. H \in SUBSET (0..M)
  OBVIOUS
<1> HIDE DEF H
<1>4. \A n \in 0..M : n \in H
  BY <1>1, <1>2, <1>3, Upwards
<1>5. QED
  BY <1>4 DEF H, Follows

LEMMA SplitFacts ==
    ASSUME NEW s \in Strings, NEW n \in 0..Len(s)
    PROVE  /\ SubSeq(s, 1, n) \in Strings /\ Len(SubSeq(s, 1, n)) = n
           /\ SubSeq(s, n + 1, Len(s)) \in Strings
           /\ Len(SubSeq(s, n + 1, Len(s))) = Len(s) - n
           /\ s = SubSeq(s, 1, n) \o SubSeq(s, n + 1, Len(s))
<1>1. s \in Seq(Nat) /\ Len(s) \in Nat
  BY StringFacts DEF Strings
<1>2. /\ SubSeq(s, 1, n) \in Seq(Nat) /\ Len(SubSeq(s, 1, n)) = n
      /\ SubSeq(s, n + 1, Len(s)) \in Seq(Nat)
      /\ Len(SubSeq(s, n + 1, Len(s))) = Len(s) - n
  BY <1>1
<1>3. SubSeq(s, 1, n) \o SubSeq(s, n + 1, Len(s)) = SubSeq(s, 1, Len(s))
  <2>1. /\ 1 \in 1..Len(s) + 1 /\ n \in 1 - 1..Len(s) /\ Len(s) \in n..Len(s)
    BY <1>1
  <2>2. QED
    BY <1>1, <2>1, ConcatAdjacentSubSeq
<1>4. SubSeq(s, 1, Len(s)) = s
  BY StringFacts
<1>5. QED
  BY <1>2, <1>3, <1>4 DEF Strings

\* The beginning of what is put together.
LEMMA FrontFacts ==
    ASSUME NEW s \in Strings, NEW t \in Strings, NEW n \in 0..Len(s)
    PROVE  /\ SubSeq(s \o t, 1, n) = SubSeq(s, 1, n)
           /\ \A i \in 1..Len(s) : (s \o t)[i] = s[i]
           /\ \A i \in 1..Len(t) : (s \o t)[Len(s) + i] = t[i]
           /\ \A i \in 1..Len(s) : s[i] \in Nat
<1>1. s \in Seq(Nat) /\ t \in Seq(Nat) /\ Len(s) \in Nat /\ Len(t) \in Nat
  BY StringFacts DEF Strings
<1>2. /\ s \o t \in Seq(Nat)
      /\ Len(s \o t) = Len(s) + Len(t)
      /\ \A i \in 1..Len(s) + Len(t) :
            (s \o t)[i] = IF i <= Len(s) THEN s[i] ELSE t[i - Len(s)]
  BY <1>1, ConcatProperties
<1>3. \A i \in 1..Len(s) : (s \o t)[i] = s[i]
  BY <1>1, <1>2
<1>4. \A i \in 1..Len(t) : (s \o t)[Len(s) + i] = t[i]
  <2> TAKE i \in 1..Len(t)
  <2>1. Len(s) + i \in 1..Len(s) + Len(t) /\ ~(Len(s) + i <= Len(s)) /\ (Len(s) + i) - Len(s) = i
    BY <1>1
  <2>2. QED
    BY <1>2, <2>1
<1>5. \A i \in 1..Len(s) : s[i] \in Nat
  BY <1>1
<1>6. SubSeq(s \o t, 1, n) = SubSeq(s, 1, n)
  <2>1. CASE n = 0
    BY <2>1
  <2>2. CASE n # 0
    <3>1. n \in 1..Len(s) /\ 1 \in 1..Len(s)
      BY <1>1, <2>2
    <3>2. QED
      BY <1>1, <3>1, SubSeqOfConcat1
  <2>3. QED
    BY <2>1, <2>2
<1>7. QED
  BY <1>3, <1>4, <1>5, <1>6

\* A queue of the model, with counters that agree.
Queue(q) == q \in Queues /\ WellFormed(q)

LEMMA QueueFields ==
    ASSUME NEW q, Queue(q)
    PROVE  /\ q.buffers \in Seq(Strings) /\ Len(q.buffers) \in Nat
           /\ q.depth \in Nat /\ q.offset \in Nat
           /\ Contents(q) \in Strings
           /\ q.depth = Len(Contents(q))
           /\ \A i \in 1..Len(q.buffers) : q.buffers[i] # <<>> /\ q.buffers[i] \in Strings
           /\ IsJoin(q.buffers, Joined(q.buffers))
           /\ Contents(q) = Joined(q.buffers)[Len(q.buffers)]
<1>1. /\ q.buffers \in Seq(Strings)
      /\ q.depth \in Nat /\ q.offset \in Nat
      /\ q.depth = Len(Contents(q))
      /\ \A i \in 1..Len(q.buffers) : q.buffers[i] # <<>>
  BY DEF Queue, Queues, WellFormed, Strings
<1>2. Len(q.buffers) \in Nat /\ IsJoin(q.buffers, Joined(q.buffers))
  BY <1>1, JoinFacts
<1>3. Contents(q) = Joined(q.buffers)[Len(q.buffers)]
  BY DEF Contents
<1>4. Contents(q) \in Strings
  BY <1>2, <1>3 DEF IsJoin
<1>5. \A i \in 1..Len(q.buffers) : q.buffers[i] \in Strings
  BY <1>1
<1>6. QED
  BY <1>1, <1>2, <1>3, <1>4, <1>5

LEMMA EmptyFacts == Queue(EmptyQueue) /\ Contents(EmptyQueue) = <<>>
<1>1. EmptyQueue \in Queues
  BY EmptySeq DEF EmptyQueue, Queues
<1>2. EmptyQueue.buffers = <<>> /\ EmptyQueue.depth = 0 /\ Len(<<>>) = 0
  BY DEF EmptyQueue
<1>3. <<>> \in Seq(Strings)
  OBVIOUS
<1>4. Contents(EmptyQueue) = <<>>
  BY <1>2, <1>3, JoinFacts DEF Contents, IsJoin
<1>5. QED
  BY <1>1, <1>2, <1>4 DEF Queue, WellFormed

LEMMA PushFacts ==
    ASSUME NEW q, Queue(q), NEW s \in Strings
    PROVE  /\ Queue(PushBuffer(q, s))
           /\ Contents(PushBuffer(q, s)) = Contents(q) \o s
           /\ PushBuffer(q, s).offset = q.offset
           /\ PushBuffer(q, s).depth = q.depth + Len(s)
<1>1. CASE s = <<>>
  BY <1>1, QueueFields, StringFacts DEF PushBuffer
<1>2. CASE s # <<>>
  <2> DEFINE p == PushBuffer(q, s)
             b == q.buffers
             c == Append(b, s)
             N == Len(b)
  <2>1. /\ q \in Queues
        /\ p = [q EXCEPT !.buffers = c, !.depth = @ + Len(s)]
    BY <1>2 DEF PushBuffer, Queue
  <2>2. b \in Seq(Strings) /\ N \in Nat /\ q.depth \in Nat /\ Len(s) \in Nat
    BY QueueFields, StringFacts
  <2>3. /\ c \in Seq(Strings) /\ Len(c) = N + 1 /\ c[N + 1] = s
        /\ \A i \in 1..N : c[i] = b[i]
    BY <2>2
  <2> HIDE DEF c
  <2>4. /\ p.buffers = c /\ p.depth = q.depth + Len(s) /\ p.offset = q.offset
        /\ p \in Queues
    <3>1. c \in Seq(Seq(Nat)) /\ q.depth + Len(s) \in Nat
      BY <2>2, <2>3 DEF Strings
    <3>2. QED
      BY <2>1, <3>1 DEF Queues
  <2> HIDE DEF p
  <2> DEFINE f == Joined(b)
             g == Joined(c)
  <2>5. IsJoin(b, f) /\ IsJoin(c, g)
    BY <2>2, <2>3, JoinFacts
  <2> HIDE DEF f, g, b, N
  <2>6. Follows(f, g, 0, 0, N, <<>>)
    <3>1. Alike(b, c, 0, 0, N)
      BY <2>2, <2>3 DEF N, Alike
    <3>3. f[0] = <<>> \o g[0] /\ <<>> \in Strings
      BY <2>5, StringFacts DEF IsJoin
    <3>2. QED
      BY <2>5, <3>1, <3>3, JoinShift, Zenon
  <2>7. g[N] = f[N] /\ f[N] \in Strings
    <3>1. g[N] \in Strings /\ f[N] \in Strings /\ N \in 0..N
      BY <2>2, <2>3, <2>5 DEF IsJoin, N
    <3>2. f[0 + N] = <<>> \o g[0 + N] /\ 0 + N = N
      BY <2>2, <2>6, <3>1 DEF Follows
    <3>3. QED
      BY <3>1, <3>2, StringFacts
  <2>8. g[N + 1] = g[N] \o c[N + 1]
    <3>1. N + 1 \in 1..Len(c) /\ (N + 1) - 1 = N
      <4>1. N \in Nat /\ Len(c) = N + 1
        BY <2>2, <2>3
      <4>2. QED
        BY <4>1
    <3>2. QED
      BY <2>5, <3>1 DEF IsJoin
  <2>9. Contents(p) = Contents(q) \o s
    BY <2>3, <2>4, <2>7, <2>8 DEF Contents, f, g, N, b
  <2>10. WellFormed(p)
    <3>1. Contents(q) \in Strings /\ q.depth = Len(Contents(q))
          /\ \A i \in 1..N : b[i] # <<>>
      BY QueueFields DEF b, N
    <3>2. Len(Contents(p)) = p.depth
      BY <2>4, <2>9, <3>1, StringFacts
    <3>3. \A i \in 1..Len(c) : c[i] # <<>>
      BY <1>2, <2>2, <2>3, <3>1
    <3>4. QED
      BY <2>4, <3>2, <3>3 DEF WellFormed
  <2>11. QED
    BY <2>4, <2>9, <2>10 DEF Queue, p
<1>3. QED
  BY <1>1, <1>2

\* What is read first is the first buffer.
LEMMA HeadFacts ==
    ASSUME NEW q, Queue(q), q.buffers # <<>>
    PROVE  /\ PeekBuffer(q) \in Strings /\ Len(PeekBuffer(q)) \in 1..q.depth
           /\ \A n \in 0..Len(PeekBuffer(q)) : Peek(q, n) = SubSeq(PeekBuffer(q), 1, n)
<1> DEFINE b == q.buffers
           c == Tail(b)
           h == Head(b)
           N == Len(b)
<1>1. b \in Seq(Strings) /\ b # <<>>
  BY QueueFields
<1>2. /\ c \in Seq(Strings) /\ N \in Nat /\ N > 0 /\ Len(c) = N - 1
      /\ h = b[1] /\ h \in Strings /\ h # <<>>
      /\ \A i \in 1..N - 1 : b[1 + i] = c[0 + i] /\ b[1 + i] \in Strings
  <2>1. c \in Seq(Strings) /\ N \in Nat /\ N > 0 /\ Len(c) = N - 1 /\ h = b[1]
    BY <1>1
  <2>2. \A i \in 1..N : b[i] \in Strings /\ b[i] # <<>>
    BY QueueFields
  <2>3. \A i \in 1..N - 1 : b[1 + i] = c[0 + i]
    BY <1>1, <2>1
  <2> HIDE DEF b, c, N, h
  <2>4. 1 \in 1..N /\ \A i \in 1..N - 1 : 1 + i \in 1..N
    BY <2>1
  <2>5. QED
    BY <2>1, <2>2, <2>3, <2>4
<1> DEFINE f == Joined(b)
           g == Joined(c)
<1>3. IsJoin(b, f) /\ IsJoin(c, g)
  BY <1>1, <1>2, JoinFacts
<1>4. Contents(q) = f[N]
  BY QueueFields
<1>5. PeekBuffer(q) = h
  BY DEF PeekBuffer
<1>6. q.depth = Len(Contents(q))
  BY QueueFields
<1> HIDE DEF f, g, b, c, h
<1>7. Follows(f, g, 1, 0, N - 1, h)
  <2>1. Alike(b, c, 1, 0, N - 1)
    BY <1>2 DEF Alike
  <2>2. f[1] = h \o g[0]
    <3>1. f[1] = f[0] \o b[1]
      <4>1. 1 \in 1..Len(b) /\ 1 - 1 = 0
        BY <1>2
      <4>2. QED
        BY <1>3, <4>1 DEF IsJoin
    <3>2. f[0] = <<>> /\ g[0] = <<>>
      BY <1>3 DEF IsJoin
    <3>3. <<>> \o h = h /\ h \o <<>> = h
      BY <1>2, StringFacts
    <3>4. QED
      BY <1>2, <3>1, <3>2, <3>3
  <2>3. h \in Strings
    BY <1>2
  <2>4. QED
    BY <1>3, <2>1, <2>2, <2>3, JoinShift, Zenon
<1>8. f[N] = h \o g[N - 1] /\ g[N - 1] \in Strings
  <2>1. N - 1 \in 0..N - 1 /\ 1 + (N - 1) = N /\ 0 + (N - 1) = N - 1
    BY <1>2
  <2>2. f[1 + (N - 1)] = h \o g[0 + (N - 1)]
    BY <1>7, <2>1 DEF Follows
  <2>3. g[N - 1] \in Strings
    BY <1>2, <1>3, <2>1 DEF IsJoin
  <2>4. QED
    BY <2>1, <2>2, <2>3
<1>9. Len(h) \in 1..q.depth
  <2>1. Len(h) \in Nat /\ Len(h) > 0 /\ Len(g[N - 1]) \in Nat
        /\ Len(h \o g[N - 1]) = Len(h) + Len(g[N - 1])
    BY <1>2, <1>8, StringFacts
  <2>2. QED
    BY <1>4, <1>6, <1>8, <2>1
<1>10. \A n \in 0..Len(h) : Peek(q, n) = SubSeq(h, 1, n)
  <2> TAKE n \in 0..Len(h)
  <2>1. SubSeq(h \o g[N - 1], 1, n) = SubSeq(h, 1, n)
    BY <1>2, <1>8, FrontFacts
  <2>2. QED
    BY <1>4, <1>8, <2>1 DEF Peek
<1>11. QED
  BY <1>2, <1>5, <1>9, <1>10

\* How many buffers are flushed as a whole.
IsWhole(f, N, n, w) ==
    /\ w \in 0..N
    /\ Len(f[w]) <= n
    /\ w < N => Len(f[w + 1]) > n

LEMMA WholeExists ==
    ASSUME NEW b \in Seq(Strings), NEW f, IsJoin(b, f), NEW n \in Nat
    PROVE  \E w : IsWhole(f, Len(b), n, w)
<1> DEFINE N == Len(b)
           H == {k \in 0..N : Len(f[k]) <= n}
<1>1. N \in Nat /\ \A k \in 0..N : Len(f[k]) \in Nat
  <2>1. N \in Nat
    OBVIOUS
  <2>2. \A k \in 0..N : f[k] \in Strings
    BY DEF IsJoin
  <2>3. QED
    BY <2>1, <2>2, StringFacts
<1>2. SUFFICES ASSUME ~\E w : IsWhole(f, N, n, w) PROVE FALSE
  OBVIOUS
<1> HIDE DEF N
<1>3. 0 \in H
  BY <1>1, StringFacts DEF IsJoin
<1>4. ASSUME NEW k \in 1..N, k - 1 \in H PROVE k \in H
  <2>1. k - 1 \in 0..N /\ k - 1 < N /\ (k - 1) + 1 = k /\ k \in 0..N
    BY <1>1
  <2>2. Len(f[k - 1]) <= n
    BY <1>4
  <2>3. ~(Len(f[k]) > n)
    BY <1>2, <2>1, <2>2 DEF IsWhole
  <2>4. QED
    BY <1>1, <2>1, <2>3
<1>5. \A k \in 0..N : k \in H
  <2>1. H \in SUBSET (0..N)
    OBVIOUS
  <2> HIDE DEF H
  <2>2. QED
    BY <1>1, <1>3, <1>4, <2>1, Upwards
<1>6. IsWhole(f, N, n, N)
  BY <1>1, <1>5 DEF IsWhole
<1>7. QED
  BY <1>2, <1>6

\* What Flush takes away is what Peek returned.
Rest(q, n, p) ==
    /\ Queue(p)
    /\ Contents(q) = Peek(q, n) \o Contents(p)
    /\ p.depth = q.depth - n
    /\ p.offset = q.offset + n

LEMMA FlushFacts ==
    ASSUME NEW q, Queue(q), NEW n \in 0..q.depth
    PROVE  Rest(q, n, Flush(q, n))
<1> DEFINE b == q.buffers
           f == Joined(b)
           N == Len(b)
           w == CHOOSE k \in 0..N : Len(f[k]) <= n /\ (k < N => Len(f[k + 1]) > n)
           tail == SubSeq(b, w + 1, N)
           cut == n - Len(f[w])
           c == IF cut = 0 THEN tail
                ELSE <<SubSeq(Head(tail), cut + 1, Len(Head(tail)))>> \o Tail(tail)
           p == Flush(q, n)
<1>1. p = [buffers |-> c, depth |-> q.depth - n, offset |-> q.offset + n]
  BY DEF Flush
<1>2. /\ b \in Seq(Strings) /\ N \in Nat /\ q.depth \in Nat /\ q.offset \in Nat
      /\ IsJoin(b, f) /\ q.depth = Len(f[N]) /\ Contents(q) = f[N]
      /\ \A i \in 1..N : b[i] # <<>> /\ b[i] \in Strings
  BY QueueFields
<1>3. n \in Nat /\ n <= q.depth
  BY <1>2
<1>4. IsWhole(f, N, n, w)
  <2> HIDE DEF f, b
  <2>1. \E k : IsWhole(f, N, n, k)
    BY <1>2, <1>3, WholeExists
  <2>2. QED
    BY <2>1 DEF IsWhole
<1> HIDE DEF f, w
<1>5. /\ w \in 0..N /\ Len(f[w]) \in Nat /\ f[w] \in Strings /\ Len(f[w]) <= n
      /\ w < N => Len(f[w + 1]) > n
      /\ cut \in Nat
  <2>1. w \in 0..N /\ f[w] \in Strings
    BY <1>2, <1>4 DEF IsWhole, IsJoin
  <2>2. QED
    BY <1>3, <1>4, <2>1, StringFacts DEF IsWhole
<1>6. /\ tail \in Seq(Strings) /\ Len(tail) = N - w
      /\ \A i \in 1..N - w : tail[i] = b[w + i] /\ w + i \in 1..N
  <2> HIDE DEF b
  <2>1. w + 1 \in Int /\ N \in Int /\ \A i \in w + 1..N : b[i] \in Strings
    BY <1>2, <1>5
  <2>2. /\ tail \in Seq(Strings)
        /\ Len(tail) = IF w + 1 <= N THEN N - (w + 1) + 1 ELSE 0
        /\ \A i \in 1..N - (w + 1) + 1 : tail[i] = b[w + 1 + i - 1]
    BY <2>1, SubSeqProperties
  <2> HIDE DEF tail
  <2>3. \A i \in 1..N - w : tail[i] = b[w + i]
    <3> TAKE i \in 1..N - w
    <3>1. i \in 1..N - (w + 1) + 1 /\ w + 1 + i - 1 = w + i
      BY <1>2, <1>5
    <3>2. QED
      BY <2>2, <3>1
  <2>4. QED
    BY <1>2, <1>5, <2>2, <2>3
<1> HIDE DEF tail, b, N
\* What is left is joined as before.
<1>7. /\ c \in Seq(Strings)
      /\ \A i \in 1..Len(c) : c[i] # <<>>
      /\ \E s \in Strings : Len(s) = n /\ f[N] = s \o Joined(c)[Len(c)]
  <2>1. CASE cut = 0
    <3>1. c = tail /\ Len(f[w]) = n
      BY <1>3, <1>5, <2>1
    <3> HIDE DEF c
    <3> DEFINE g == Joined(c)
    <3>2. IsJoin(c, g) /\ c \in Seq(Strings) /\ Len(c) = N - w
      BY <1>6, <3>1, JoinFacts
    <3> HIDE DEF g
    <3>3. Alike(b, c, w, 0, N - w)
      BY <1>2, <1>5, <1>6, <3>1, <3>2 DEF Alike, N
    <3>4. f[w] = f[w] \o g[0]
      BY <1>5, <3>2, StringFacts DEF IsJoin
    <3>5. Follows(f, g, w, 0, N - w, f[w])
      BY <1>2, <1>5, <3>2, <3>3, <3>4, JoinShift, Zenon
    <3>6. f[N] = f[w] \o g[N - w]
      <4>1. N - w \in 0..N - w /\ w + (N - w) = N /\ 0 + (N - w) = N - w
        BY <1>2, <1>5
      <4>2. f[w + (N - w)] = f[w] \o g[0 + (N - w)]
        BY <3>5, <4>1 DEF Follows
      <4>3. QED
        BY <4>1, <4>2
    <3>7. \A i \in 1..Len(c) : c[i] # <<>>
      BY <1>2, <1>6, <3>1
    <3>8. QED
      BY <1>5, <3>1, <3>2, <3>6, <3>7 DEF g
  <2>2. CASE cut # 0
    <3>1. w < N
      <4>1. CASE w = N
        BY <1>2, <1>3, <1>5, <2>2, <4>1
      <4>2. QED
        BY <1>2, <1>5, <4>1
    <3> DEFINE h == Head(tail)
               r == SubSeq(h, cut + 1, Len(h))
               a == SubSeq(h, 1, cut)
               t == Tail(tail)
    <3>2. /\ h = b[w + 1] /\ h \in Strings /\ tail # <<>>
          /\ t \in Seq(Strings) /\ Len(t) = N - w - 1
          /\ \A i \in 1..N - w - 1 : t[i] = tail[i + 1]
      <4>1. tail \in Seq(Strings) /\ Len(tail) > 0 /\ Len(tail) \in Nat
        BY <1>2, <1>5, <1>6, <3>1
      <4>2. tail # <<>> /\ h = tail[1] /\ t \in Seq(Strings) /\ Len(t) = Len(tail) - 1
            /\ \A i \in 1..Len(tail) - 1 : t[i] = tail[i + 1]
        BY <4>1
      <4>3. 1 \in 1..N - w
        BY <1>2, <1>5, <3>1
      <4>4. QED
        BY <1>2, <1>5, <1>6, <4>2, <4>3
    <3>3. f[w + 1] = f[w] \o h
      <4>1. w + 1 \in 1..N /\ (w + 1) - 1 = w
        BY <1>2, <1>5, <3>1
      <4>2. QED
        BY <1>2, <3>2, <4>1 DEF IsJoin, N
    <3>4. cut < Len(h) /\ cut \in 0..Len(h) /\ Len(h) \in Nat
      <4>1. Len(f[w] \o h) = Len(f[w]) + Len(h) /\ Len(h) \in Nat
        BY <1>5, <3>2, StringFacts
      <4>2. Len(f[w + 1]) = Len(f[w]) + Len(h) /\ Len(f[w + 1]) > n
        BY <1>5, <3>1, <3>3, <4>1
      <4> DEFINE H == Len(h)
                 F == Len(f[w])
      <4>3. F \in Nat /\ H \in Nat /\ F + H > n /\ F <= n /\ cut = n - F
        BY <1>5, <4>1, <4>2
      <4> HIDE DEF H, F, cut
      <4>4. cut < H /\ cut \in 0..H /\ H \in Nat
        BY <1>3, <4>3
      <4>5. QED
        BY <4>4 DEF H
    <3>5. /\ h = a \o r /\ a \in Strings /\ r \in Strings
          /\ Len(a) = cut /\ Len(r) = Len(h) - cut
      BY <3>2, <3>4, SplitFacts
    <3>6. c = <<r>> \o t
      BY <2>2
    <3> HIDE DEF c, h, r, a, t
    <3>7. /\ c \in Seq(Strings) /\ Len(c) = N - w /\ c[1] = r
          /\ \A i \in 1..N - w - 1 : c[1 + i] = t[i]
      <4>1. <<r>> \in Seq(Strings) /\ Len(<<r>>) = 1 /\ <<r>>[1] = r
        BY <3>5
      <4>2. /\ c \in Seq(Strings) /\ Len(c) = 1 + Len(t)
            /\ \A i \in 1..1 + Len(t) :
                  c[i] = IF i <= 1 THEN <<r>>[i] ELSE t[i - 1]
        BY <3>2, <3>6, <4>1, ConcatProperties
      <4>3. 1 \in 1..1 + Len(t) /\ Len(t) = N - w - 1 /\ 1 + Len(t) = N - w
        BY <1>2, <1>5, <3>1, <3>2
      <4>4. \A i \in 1..N - w - 1 : c[1 + i] = t[i]
        <5> TAKE i \in 1..N - w - 1
        <5>1. 1 + i \in 1..1 + Len(t) /\ ~(1 + i <= 1) /\ (1 + i) - 1 = i
          BY <1>2, <1>5, <4>3
        <5>2. QED
          BY <4>2, <5>1
      <4>5. QED
        BY <4>1, <4>2, <4>3, <4>4
    <3> DEFINE g == Joined(c)
    <3>8. IsJoin(c, g)
      BY <3>7, JoinFacts
    <3> HIDE DEF g
    <3>9. g[1] = r
      <4>1. 1 \in 1..Len(c) /\ 1 - 1 = 0
        BY <1>2, <1>5, <3>1, <3>7
      <4>2. g[1] = <<>> \o r
        BY <3>7, <3>8, <4>1 DEF IsJoin
      <4>3. QED
        BY <3>5, <4>2, StringFacts
    <3> DEFINE s == f[w] \o a
    <3>10. s \in Strings /\ Len(s) = n
      BY <1>3, <1>5, <3>5, StringFacts
    <3>11. f[w + 1] = s \o g[1]
      <4>1. f[w + 1] = f[w] \o (a \o r)
        BY <3>3, <3>5, Zenon
      <4>2. f[w] \o (a \o r) = (f[w] \o a) \o r
        BY <1>5, <3>5, StringsAssociate
      <4>3. QED
        BY <3>9, <4>1, <4>2, Zenon
    <3> HIDE DEF s
    <3>12. Alike(b, c, w + 1, 1, N - w - 1)
      <4>1. \A i \in 1..N - w - 1 : b[w + 1 + i] = c[1 + i] /\ b[w + 1 + i] \in Strings
        <5> TAKE i \in 1..N - w - 1
        <5>1. i + 1 \in 1..N - w /\ w + (i + 1) = w + 1 + i
          <6>1. N \in Nat /\ w \in Nat
            BY <1>2, <1>5
          <6>2. QED
            BY <6>1
        <5>2. tail[i + 1] = b[w + 1 + i] /\ w + 1 + i \in 1..N
          BY <1>6, <5>1
        <5>3. QED
          BY <1>2, <3>2, <3>7, <5>2
      <4>2. Len(b) = N /\ w + 1 + (N - w - 1) <= N /\ 1 + (N - w - 1) <= N - w
            /\ N - w - 1 \in Nat /\ N - w \in Nat /\ w + 1 \in Nat
        BY <1>2, <1>5, <3>1 DEF N
      <4>3. QED
        BY <1>2, <3>7, <4>1, <4>2 DEF Alike
    <3>13. Follows(f, g, w + 1, 1, N - w - 1, s)
      BY <1>2, <3>8, <3>10, <3>11, <3>12, JoinShift, Zenon
    <3>14. f[N] = s \o g[N - w]
      <4>1. N - w - 1 \in 0..N - w - 1 /\ w + 1 + (N - w - 1) = N /\ 1 + (N - w - 1) = N - w
        BY <1>2, <1>5, <3>1
      <4>2. f[w + 1 + (N - w - 1)] = s \o g[1 + (N - w - 1)]
        BY <3>13, <4>1 DEF Follows
      <4>3. QED
        BY <4>1, <4>2
    <3>15. \A i \in 1..Len(c) : c[i] # <<>>
      <4> TAKE i \in 1..Len(c)
      <4>1. CASE i = 1
        <5>1. Len(r) > 0
          <6> HIDE DEF cut
          <6>1. QED
            BY <1>5, <3>4, <3>5
        <5>2. QED
          BY <3>5, <3>7, <4>1, <5>1, StringFacts
      <4>2. CASE i # 1
        <5>1. i - 1 \in 1..N - w - 1 /\ 1 + (i - 1) = i /\ (i - 1) + 1 = i /\ i \in 1..N - w
          BY <1>2, <1>5, <3>7, <4>2
        <5>2. c[i] = t[i - 1] /\ t[i - 1] = tail[i]
          BY <3>2, <3>7, <5>1
        <5>3. QED
          BY <1>2, <1>6, <5>1, <5>2
      <4>3. QED
        BY <4>1, <4>2
    <3>16. QED
      BY <3>7, <3>10, <3>14, <3>15 DEF g
  <2>3. QED
    BY <2>1, <2>2
<1> HIDE DEF c, p
<1>8. /\ p.buffers = c /\ p.depth = q.depth - n /\ p.offset = q.offset + n
      /\ p \in Queues
  <2>1. q.depth - n \in Nat /\ q.offset + n \in Nat /\ c \in Seq(Seq(Nat))
    BY <1>2, <1>3, <1>7 DEF Strings
  <2>2. QED
    BY <1>1, <2>1 DEF Queues
<1>9. PICK s \in Strings : Len(s) = n /\ f[N] = s \o Joined(c)[Len(c)]
  BY <1>7
<1>10. Contents(p) = Joined(c)[Len(c)] /\ Contents(p) \in Strings
  <2>1. Contents(p) = Joined(c)[Len(c)]
    BY <1>8 DEF Contents
  <2>2. Len(c) \in Nat /\ IsJoin(c, Joined(c))
    BY <1>7, JoinFacts
  <2>3. QED
    BY <2>1, <2>2 DEF IsJoin
<1>11. Contents(q) = s \o Contents(p)
  BY <1>2, <1>9, <1>10
<1>12. Peek(q, n) = s
  <2>1. n \in 0..Len(s)
    BY <1>3, <1>9
  <2>2. SubSeq(s \o Contents(p), 1, n) = SubSeq(s, 1, n)
    BY <1>9, <1>10, <2>1, FrontFacts
  <2>3. SubSeq(s, 1, Len(s)) = s
    BY StringFacts
  <2>4. QED
    BY <1>9, <1>11, <2>2, <2>3 DEF Peek
<1>13. WellFormed(p)
  <2>1. Len(Contents(q)) = n + Len(Contents(p)) /\ Len(Contents(p)) \in Nat
    <3> HIDE DEF cut, f, c
    <3>1. Len(s \o Contents(p)) = Len(s) + Len(Contents(p)) /\ Len(Contents(p)) \in Nat
      BY <1>10, StringFacts
    <3>2. QED
      BY <1>9, <1>11, <3>1, Zenon
  <2>2. q.depth = Len(Contents(q))
    BY QueueFields
  <2>3. p.depth = Len(Contents(p))
    BY <1>2, <1>3, <1>8, <2>1, <2>2
  <2>4. QED
    BY <1>7, <1>8, <2>3 DEF WellFormed
<1>14. QED
  BY <1>8, <1>11, <1>12, <1>13 DEF Rest, Queue, p

\* What a reader of single bytes has got: messages, and the beginning of the next.
ReaderStates == [messages : Seq(Strings), rest : Strings]

IsReading(bytes, f) ==
    /\ f \in [0..Len(bytes) -> ReaderStates]
    /\ f[0] = [messages |-> <<>>, rest |-> <<>>]
    /\ \A n \in 1..Len(bytes) : f[n] = Read(f[n - 1], bytes[n])

LEMMA AppendString ==
    \A s \in Strings, e \in Nat : Append(s, e) \in Strings /\ Append(s, e) = s \o <<e>>
<1> TAKE s \in Strings, e \in Nat
<1>1. s \in Seq(Nat)
  BY DEF Strings
<1>2. Append(s, e) \in Seq(Nat) /\ Append(s, e) = s \o <<e>>
  BY <1>1, AppendProperties, AppendIsConcat
<1>3. QED
  BY <1>2 DEF Strings

LEMMA ReadType ==
    ASSUME NEW state \in ReaderStates, NEW byte \in Nat
    PROVE  Read(state, byte) \in ReaderStates
<1> DEFINE message == Append(state.rest, byte)
<1>1. message \in Strings /\ state.messages \in Seq(Strings)
  BY AppendString DEF ReaderStates
<1> HIDE DEF message
<1>2. CASE byte # Zero
  <2>1. Read(state, byte) = [state EXCEPT !.rest = message]
    BY <1>2 DEF Read, message
  <2>2. QED
    BY <1>1, <2>1 DEF ReaderStates
<1>3. CASE byte = Zero
  <2> DEFINE all == IF Invalid \in ToSet(message) THEN state.messages
                    ELSE Append(state.messages, message)
  <2>1. Read(state, byte) = [messages |-> all, rest |-> <<>>]
    BY <1>3 DEF Read, message
  <2>2. all \in Seq(Strings)
    BY <1>1
  <2> HIDE DEF all
  <2>3. QED
    BY <2>1, <2>2, StringFacts DEF ReaderStates
<1>4. QED
  BY <1>2, <1>3

LEMMA ReadingFacts ==
    ASSUME NEW bytes \in Strings
    PROVE  IsReading(bytes, Reading(bytes))
<1> DEFINE N == Len(bytes)
           base == [messages |-> <<>>, rest |-> <<>>]
           h == [n \in 1..N |-> [s \in ReaderStates |-> Read(s, bytes[n])]]
           rec(f) == [n \in 0..N |-> IF n = 0 THEN base ELSE Read(f[n - 1], bytes[n])]
           reading == CHOOSE f : f = rec(f)
<1>1. N \in Nat /\ \A n \in 1..N : bytes[n] \in Nat
  BY DEF Strings
<1>2. base \in ReaderStates
  BY StringFacts DEF ReaderStates
<1>3. Reading(bytes) = reading
  BY DEF Reading
<1> HIDE DEF N, base
<1>4. h \in [1..N -> [ReaderStates -> ReaderStates]]
  BY <1>1, ReadType
<1>5. PICK f : Steps(ReaderStates, base, N, h, f)
  <2> HIDE DEF h
  <2>1. QED
    BY <1>1, <1>2, <1>4, StepsExist
<1>6. \A n \in 1..N : f[n - 1] \in ReaderStates /\ f[n] = Read(f[n - 1], bytes[n])
  <2>1. TAKE n \in 1..N
  <2>2. n - 1 \in 0..N
    BY <1>1
  <2>3. f[n - 1] \in ReaderStates /\ f[n] = h[n][f[n - 1]]
    BY <1>5, <2>2 DEF Steps
  <2>4. QED
    BY <2>3
<1>7. f = rec(f)
  <2>1. \A n \in 0..N : f[n] = IF n = 0 THEN base ELSE Read(f[n - 1], bytes[n])
    BY <1>1, <1>5, <1>6 DEF Steps
  <2>2. QED
    BY <1>5, <2>1 DEF Steps
<1>8. reading = rec(reading)
  BY <1>7
<1> HIDE DEF reading
<1>9. reading[0] = base /\ \A n \in 1..N : reading[n] = Read(reading[n - 1], bytes[n])
  <2>1. \A n \in 0..N : reading[n] = IF n = 0 THEN base ELSE Read(reading[n - 1], bytes[n])
    BY <1>8, Zenon
  <2>2. 0 \in 0..N /\ \A n \in 1..N : n \in 0..N /\ n # 0
    BY <1>1
  <2>3. QED
    BY <2>1, <2>2, Zenon
<1>10. \A n \in 0..N : reading[n] \in ReaderStates
  <2> DEFINE H == {n \in 0..N : reading[n] \in ReaderStates}
  <2>1. 0 \in H
    BY <1>1, <1>2, <1>9
  <2>2. ASSUME NEW n \in 1..N, n - 1 \in H PROVE n \in H
    <3>1. reading[n - 1] \in ReaderStates /\ bytes[n] \in Nat /\ n \in 0..N
      BY <1>1, <2>2
    <3>2. Read(reading[n - 1], bytes[n]) \in ReaderStates
      BY <3>1, ReadType
    <3>3. QED
      BY <1>9, <3>1, <3>2
  <2>3. H \in SUBSET (0..N)
    OBVIOUS
  <2> HIDE DEF H
  <2>4. \A n \in 0..N : n \in H
    BY <1>1, <2>1, <2>2, <2>3, Upwards
  <2>5. QED
    BY <2>4 DEF H
<1>11. reading \in [0..N -> ReaderStates]
  <2>1. DOMAIN reading = 0..N /\ reading = [n \in DOMAIN reading |-> reading[n]]
    BY <1>8
  <2>2. QED
    BY <1>10, <2>1
<1>12. QED
  BY <1>3, <1>9, <1>11 DEF IsReading, N, base

\* What comes later does not change what was read.
LEMMA ReadingStays ==
    ASSUME NEW s \in Strings, NEW t \in Strings, NEW n \in 0..Len(s)
    PROVE  Reading(s \o t)[n] = Reading(s)[n]
<1> DEFINE f == Reading(s)
           g == Reading(s \o t)
           N == Len(s)
           H == {k \in 0..N : g[k] = f[k]}
<1>1. /\ N \in Nat /\ s \o t \in Strings /\ Len(s \o t) \in Nat /\ N <= Len(s \o t)
      /\ \A k \in 1..N : (s \o t)[k] = s[k]
  <2>1. N \in Nat /\ Len(t) \in Nat /\ s \o t \in Strings /\ Len(s \o t) = N + Len(t)
    BY StringFacts
  <2>2. 0 \in 0..Len(s)
    BY <2>1
  <2>3. \A k \in 1..N : (s \o t)[k] = s[k]
    BY <2>2, FrontFacts
  <2>4. QED
    BY <2>1, <2>3
<1>2. IsReading(s, f) /\ IsReading(s \o t, g)
  BY <1>1, ReadingFacts
<1> HIDE DEF f, g
<1>3. 0 \in H
  BY <1>1, <1>2 DEF IsReading
<1>4. ASSUME NEW k \in 1..N, k - 1 \in H PROVE k \in H
  <2>1. k \in 1..Len(s \o t) /\ k \in 0..N
    BY <1>1
  <2>2. g[k] = Read(g[k - 1], (s \o t)[k]) /\ f[k] = Read(f[k - 1], s[k])
    BY <1>2, <2>1 DEF IsReading
  <2>3. g[k - 1] = f[k - 1] /\ (s \o t)[k] = s[k]
    BY <1>1, <1>4
  <2>4. QED
    BY <2>1, <2>2, <2>3
<1>5. H \in SUBSET (0..N)
  OBVIOUS
<1> HIDE DEF H, N
<1>6. \A k \in 0..N : k \in H
  BY <1>1, <1>3, <1>4, <1>5, Upwards
<1>7. QED
  BY <1>6 DEF H, f, g, N

\* A piece is read behind the first r bytes.
Behind(bytes, r, piece) ==
    /\ r \in 0..Len(bytes) /\ r + Len(piece) <= Len(bytes)
    /\ \A i \in 1..Len(piece) : bytes[r + i] = piece[i]

NoEnd(piece, m) == \A i \in 1..m : piece[i] # Zero

LEMMA PieceFacts ==
    ASSUME NEW piece \in Strings, NEW i \in 1..Len(piece), NEW s \in Strings
    PROVE  /\ piece[i] \in Nat /\ i \in Nat
           /\ SubSeq(piece, 1, i) \in Strings
           /\ s \o SubSeq(piece, 1, i) \in Strings
           /\ Append(s \o SubSeq(piece, 1, i - 1), piece[i]) = s \o SubSeq(piece, 1, i)
<1>1. piece \in Seq(Nat) /\ Len(piece) \in Nat /\ piece[i] \in Nat /\ i \in Nat
  BY DEF Strings
<1> DEFINE a == SubSeq(piece, 1, i - 1)
           e == piece[i]
           c == SubSeq(piece, 1, i)
<1>2. a \in Strings /\ c \in Strings
  <2>1. i \in 0..Len(piece) /\ i - 1 \in 0..Len(piece)
    BY <1>1
  <2>2. QED
    BY <2>1, SplitFacts
<1>3. c = a \o <<e>>
  <2>1. 1 \in 1..Len(piece) /\ i \in 1..Len(piece)
    BY <1>1
  <2>2. QED
    BY <1>1, <2>1, SubSeqRecursiveSecond
<1> HIDE DEF a, e, c
<1>4. <<e>> \in Strings
  BY <1>1 DEF Strings, e
<1>5. s \o a \in Strings /\ s \o c \in Strings
  BY <1>2, StringFacts
<1>6. Append(s \o a, e) = (s \o a) \o <<e>>
  BY <1>1, <1>5, AppendString DEF e
<1>7. (s \o a) \o <<e>> = s \o (a \o <<e>>)
  <2> DEFINE z == <<e>>
  <2>1. z \in Strings
    BY <1>4
  <2> HIDE DEF z
  <2>2. (s \o a) \o z = s \o (a \o z)
    BY <1>2, <2>1, StringsAssociate, ZenonT(40)
  <2>3. QED
    BY <2>2 DEF z
<1>8. Append(s \o a, e) = s \o c
  BY <1>3, <1>6, <1>7
<1>9. QED
  BY <1>1, <1>2, <1>5, <1>8 DEF a, e, c

Grown(bytes, piece, r, m) ==
    /\ Reading(bytes)[r + m].messages = Reading(bytes)[r].messages
    /\ Reading(bytes)[r + m].rest = Reading(bytes)[r].rest \o SubSeq(piece, 1, m)

\* Without the end of a message, the beginning of the next one grows.
LEMMA PlainReading ==
    ASSUME NEW bytes \in Strings, NEW piece \in Strings, NEW r, Behind(bytes, r, piece),
           NEW m \in 0..Len(piece), NoEnd(piece, m)
    PROVE  Grown(bytes, piece, r, m)
<1> DEFINE f == Reading(bytes)
           s == f[r].rest
           H == {i \in 0..m : /\ f[r + i].messages = f[r].messages
                              /\ f[r + i].rest = s \o SubSeq(piece, 1, i)}
<1>1. /\ r \in Nat /\ m \in Nat /\ Len(bytes) \in Nat /\ Len(piece) \in Nat
      /\ m <= Len(piece) /\ r + Len(piece) <= Len(bytes) /\ r \in 0..Len(bytes)
  BY StringFacts DEF Behind
<1>2. IsReading(bytes, f)
  BY ReadingFacts
<1> HIDE DEF f
<1>3. s \in Strings
  BY <1>1, <1>2 DEF IsReading, ReaderStates
<1>4. 0 \in H
  <2>1. SubSeq(piece, 1, 0) = <<>> /\ s \o <<>> = s /\ r + 0 = r
    BY <1>1, <1>3, StringFacts, SubSeqEmpty
  <2>2. /\ 0 \in 0..m /\ f[r + 0].messages = f[r].messages
        /\ f[r + 0].rest = s \o SubSeq(piece, 1, 0)
    <3>1. 0 \in 0..m
      BY <1>1
    <3>2. QED
      BY <2>1, <3>1, Zenon
  <2>3. QED
    BY <2>2
<1>5. ASSUME NEW i \in 1..m, i - 1 \in H PROVE i \in H
  <2>1. /\ i \in 1..Len(piece) /\ r + i \in 1..Len(bytes) /\ i \in 0..m
        /\ (r + i) - 1 = r + (i - 1) /\ r + (i - 1) \in 0..Len(bytes)
    BY <1>1
  <2>2. f[r + i] = Read(f[r + (i - 1)], bytes[r + i])
    BY <1>2, <2>1 DEF IsReading
  <2>3. bytes[r + i] = piece[i] /\ piece[i] # Zero
    BY <2>1 DEF Behind, NoEnd
  <2>4. /\ f[r + (i - 1)].messages = f[r].messages
        /\ f[r + (i - 1)].rest = s \o SubSeq(piece, 1, i - 1)
    BY <1>5
  <2>5. f[r + (i - 1)] \in ReaderStates
    BY <1>2, <2>1 DEF IsReading
  <2>6. f[r + i] = [f[r + (i - 1)] EXCEPT !.rest = Append(s \o SubSeq(piece, 1, i - 1), piece[i])]
    BY <2>2, <2>3, <2>4 DEF Read
  <2>7. Append(s \o SubSeq(piece, 1, i - 1), piece[i]) = s \o SubSeq(piece, 1, i)
    BY <1>3, <2>1, PieceFacts
  <2>8. f[r + i].messages = f[r].messages /\ f[r + i].rest = s \o SubSeq(piece, 1, i)
    BY <2>4, <2>5, <2>6, <2>7 DEF ReaderStates
  <2>9. QED
    BY <2>1, <2>8
<1>6. H \in SUBSET (0..m)
  OBVIOUS
<1>7. m \in H
  <2> HIDE DEF H
  <2>1. \A i \in 0..m : i \in H
    BY <1>1, <1>4, <1>5, <1>6, Upwards
  <2>2. QED
    BY <1>1, <2>1
<1>8. QED
  BY <1>7 DEF f, Grown

Completed(bytes, piece, r, m) ==
    LET state == Reading(bytes)[r]
        message == state.rest \o SubSeq(piece, 1, m)
    IN  Reading(bytes)[r + m] =
          [messages |-> IF Invalid \in ToSet(message) THEN state.messages
                        ELSE Append(state.messages, message),
           rest |-> <<>>]

\* With the end of a message, that is complete.
LEMMA EndReading ==
    ASSUME NEW bytes \in Strings, NEW piece \in Strings, NEW r, Behind(bytes, r, piece),
           NEW m \in 1..Len(piece), NoEnd(piece, m - 1), piece[m] = Zero
    PROVE  Completed(bytes, piece, r, m)
<1> DEFINE f == Reading(bytes)
           s == f[r].rest
<1>1. /\ r \in Nat /\ m \in Nat /\ Len(bytes) \in Nat /\ Len(piece) \in Nat
      /\ m <= Len(piece) /\ r + Len(piece) <= Len(bytes) /\ r \in 0..Len(bytes)
      /\ m - 1 \in 0..Len(piece) /\ m >= 1
  BY StringFacts DEF Behind
<1>2. IsReading(bytes, f)
  BY ReadingFacts
<1>3. s \in Strings
  <2> HIDE DEF f
  <2>1. QED
    BY <1>1, <1>2 DEF IsReading, ReaderStates
<1>4. /\ f[r + (m - 1)].messages = f[r].messages
      /\ f[r + (m - 1)].rest = s \o SubSeq(piece, 1, m - 1)
  <2> DEFINE k == m - 1
  <2>1. k \in 0..Len(piece) /\ NoEnd(piece, k)
    BY <1>1
  <2> HIDE DEF k
  <2>2. Grown(bytes, piece, r, k)
    BY <2>1, PlainReading
  <2>3. QED
    BY <2>2 DEF k, Grown
<1> HIDE DEF f
<1>5. r + m \in 1..Len(bytes) /\ (r + m) - 1 = r + (m - 1)
  BY <1>1
<1>6. f[r + m] = Read(f[r + (m - 1)], bytes[r + m])
  BY <1>2, <1>5 DEF IsReading
<1>7. bytes[r + m] = Zero
  BY <1>1 DEF Behind
<1>8. Append(s \o SubSeq(piece, 1, m - 1), Zero) = s \o SubSeq(piece, 1, m)
  BY <1>1, <1>3, PieceFacts
<1>9. QED
  BY <1>4, <1>6, <1>7, <1>8 DEF Read, f, Completed

\* What MessagesAreIntact says, when the bytes in front have been read.
Sound(bytes, from, queue, messages, front) ==
    /\ bytes \in Strings /\ front \in Strings /\ Queue(from) /\ Queue(queue)
    /\ bytes = front \o Contents(from)
    /\ messages = Reading(bytes)[Len(front)].messages
    /\ Contents(queue) = Reading(bytes)[Len(front)].rest

LEMMA PushSound ==
    ASSUME NEW bytes, NEW from, NEW queue, NEW messages, NEW front,
           Sound(bytes, from, queue, messages, front), NEW chunk \in Strings
    PROVE  Sound(bytes \o chunk, PushBuffer(from, chunk), queue, messages, front)
<1> DEFINE p == PushBuffer(from, chunk)
<1>1. bytes \in Strings /\ front \in Strings /\ Queue(from) /\ Queue(queue)
      /\ bytes = front \o Contents(from)
  BY DEF Sound
<1>2. Queue(p) /\ Contents(p) = Contents(from) \o chunk /\ Contents(from) \in Strings
  BY <1>1, PushFacts, QueueFields
<1> HIDE DEF p
<1>3. bytes \o chunk \in Strings /\ bytes \o chunk = front \o Contents(p)
  <2>1. (front \o Contents(from)) \o chunk = front \o (Contents(from) \o chunk)
    <3> DEFINE C == Contents(from)
    <3>1. C \in Strings /\ front \in Strings
      BY <1>1, <1>2
    <3> HIDE DEF C
    <3>2. (front \o C) \o chunk = front \o (C \o chunk)
      BY <3>1, StringsAssociate
    <3>3. QED
      BY <3>2 DEF C
  <2>2. bytes \o chunk \in Strings
    BY <1>1, StringFacts
  <2>3. QED
    BY <1>1, <1>2, <2>1, <2>2, Zenon
<1>4. Len(front) \in 0..Len(bytes)
  <2>1. Len(front) \in Nat /\ Len(Contents(from)) \in Nat
        /\ Len(front \o Contents(from)) = Len(front) + Len(Contents(from))
    BY <1>1, <1>2, StringFacts
  <2>2. QED
    BY <1>1, <2>1
<1> DEFINE r == Len(front)
<1>5. Reading(bytes \o chunk)[r] = Reading(bytes)[r]
  <2> HIDE DEF r
  <2>1. r \in 0..Len(bytes)
    BY <1>4 DEF r
  <2>2. QED
    BY <1>1, <2>1, ReadingStays
<1>6. messages = Reading(bytes)[r].messages /\ Contents(queue) = Reading(bytes)[r].rest
  BY DEF Sound
<1> HIDE DEF r
<1>7. messages = Reading(bytes \o chunk)[r].messages
      /\ Contents(queue) = Reading(bytes \o chunk)[r].rest
  BY <1>5, <1>6
<1>8. QED
  BY <1>1, <1>2, <1>3, <1>7 DEF Sound, p, r

\* The place of the first end of a message in a buffer.
Ends(buffer) == {i \in 1..Len(buffer) : buffer[i] = Zero}

LEMMA EndFacts ==
    ASSUME NEW buffer \in Strings, Ends(buffer) # {}
    PROVE  /\ Min(Ends(buffer)) \in 1..Len(buffer) /\ buffer[Min(Ends(buffer))] = Zero
           /\ NoEnd(buffer, Min(Ends(buffer)) - 1)
<1> DEFINE E == Ends(buffer)
<1>1. Len(buffer) \in Nat
  BY StringFacts
<1>2. E \in SUBSET Nat /\ E # {} /\ \A i \in E : i \in 1..Len(buffer) /\ buffer[i] = Zero
      /\ \A j \in 1..Len(buffer) : buffer[j] = Zero => j \in E
  BY <1>1 DEF Ends
<1> HIDE DEF E
<1>3. \E m \in E : \A k \in E : m <= k
  BY <1>2, Least
<1>4. Min(E) \in E /\ \A k \in E : Min(E) <= k
  BY <1>3 DEF Min
<1> DEFINE m == Min(E)
<1> HIDE DEF m
<1>5. m \in E /\ \A k \in E : m <= k
  BY <1>4 DEF m
<1>6. NoEnd(buffer, m - 1)
  <2> SUFFICES ASSUME NEW i \in 1..m - 1, buffer[i] = Zero PROVE FALSE
    BY DEF NoEnd
  <2>1. m \in 1..Len(buffer) /\ m \in Nat
    BY <1>2, <1>5
  <2>2. i \in 1..Len(buffer) /\ ~(m <= i)
    BY <1>1, <2>1
  <2>3. QED
    BY <1>2, <1>5, <2>2
<1>7. QED
  BY <1>2, <1>5, <1>6 DEF m, E

\* One round of the loop: the end of a message is found, or not.
LEMMA TakeSound ==
    ASSUME NEW bytes, NEW from, NEW queue, NEW messages, NEW front,
           Sound(bytes, from, queue, messages, front), from.buffers # <<>>,
           NEW len \in 1..Len(PeekBuffer(from)), NEW longer,
           longer = PushBuffer(queue, Peek(from, len))
    PROVE  LET buffer == PeekBuffer(from)
               message == Peek(longer, longer.depth)
               behind == front \o SubSeq(buffer, 1, len)
           IN  /\ NoEnd(buffer, len) =>
                    Sound(bytes, Flush(from, len), longer, messages, behind)
               /\ NoEnd(buffer, len - 1) /\ buffer[len] = Zero =>
                    Sound(bytes, Flush(from, len), Flush(longer, longer.depth),
                          IF Invalid \in ToSet(message) THEN messages
                          ELSE Append(messages, message), behind)
               /\ message \in Strings
<1> DEFINE buffer == PeekBuffer(from)
           a == SubSeq(buffer, 1, len)
           behind == front \o a
           r == Len(front)
           p == Flush(from, len)
           message == Peek(longer, longer.depth)
           e == Flush(longer, longer.depth)
<1>1. /\ bytes \in Strings /\ front \in Strings /\ Queue(from) /\ Queue(queue)
      /\ bytes = front \o Contents(from)
      /\ messages = Reading(bytes)[r].messages
      /\ Contents(queue) = Reading(bytes)[r].rest
  BY DEF Sound
<1>2. /\ buffer \in Strings /\ Len(buffer) \in 1..from.depth /\ from.depth \in Nat
      /\ Len(buffer) \in Nat
      /\ Peek(from, len) = a
  <2>1. buffer \in Strings /\ Len(buffer) \in 1..from.depth /\ from.depth \in Nat
        /\ \A n \in 0..Len(PeekBuffer(from)) : Peek(from, n) = SubSeq(PeekBuffer(from), 1, n)
    BY <1>1, HeadFacts, QueueFields
  <2> HIDE DEF buffer
  <2>2. Len(buffer) \in Nat /\ len \in 0..Len(buffer)
    BY <2>1 DEF buffer
  <2>3. QED
    BY <2>1, <2>2 DEF buffer
<1>3. a \in Strings /\ Len(a) = len /\ len \in 0..Len(buffer) /\ len \in 0..from.depth
      /\ len \in Nat
  <2> HIDE DEF buffer
  <2>1. len \in 1..Len(buffer)
    BY DEF buffer
  <2>2. len \in 0..Len(buffer) /\ len \in 0..from.depth /\ len \in Nat
    BY <1>2, <2>1
  <2>3. QED
    BY <1>2, <2>2, SplitFacts
<1>4. Queue(p) /\ Contents(from) = a \o Contents(p) /\ Contents(p) \in Strings
  <2>1. Rest(from, len, p)
    BY <1>1, <1>3, FlushFacts
  <2> HIDE DEF p, a
  <2>2. Queue(p) /\ Contents(from) = a \o Contents(p)
    BY <1>2, <2>1 DEF Rest
  <2>3. QED
    BY <2>2, QueueFields
<1>5. Queue(longer) /\ Contents(longer) = Contents(queue) \o a /\ Contents(queue) \in Strings
  <2> HIDE DEF a
  <2>1. longer = PushBuffer(queue, a)
    BY <1>2
  <2>2. QED
    BY <1>1, <1>3, <2>1, PushFacts, QueueFields
<1> HIDE DEF p, a, buffer
<1>6. message = Contents(longer) /\ message \in Strings
  <2>1. longer.depth = Len(Contents(longer)) /\ Contents(longer) \in Strings
    BY <1>5, QueueFields
  <2> DEFINE C == Contents(longer)
  <2>2. message = SubSeq(C, 1, Len(C)) /\ C \in Strings
    BY <2>1 DEF Peek
  <2> HIDE DEF C, message
  <2>3. message = C
    BY <2>2, StringFacts
  <2>4. QED
    BY <2>2, <2>3 DEF C
<1>7. Queue(e) /\ Contents(e) = <<>>
  <2>1. longer.depth \in 0..longer.depth
    <3>1. longer.depth \in Nat
      BY <1>5, QueueFields
    <3>2. QED
      BY <3>1
  <2>2. Rest(longer, longer.depth, e)
    BY <1>5, <2>1, FlushFacts
  <2> HIDE DEF e
  <2>3. Queue(e) /\ Contents(longer) = message \o Contents(e)
    BY <2>2 DEF Rest
  <2> HIDE DEF message
  <2>4. Contents(e) \in Strings
    BY <2>3, QueueFields
  <2>5. Contents(e) = <<>>
    <3> DEFINE C == Contents(e)
    <3>1. C \in Strings /\ message \in Strings /\ message = message \o C
      BY <1>6, <2>3, <2>4
    <3> HIDE DEF C
    <3>2. Len(message \o C) = Len(message) + Len(C) /\ Len(C) \in Nat /\ Len(message) \in Nat
      BY <3>1, StringFacts
    <3>3. Len(C) = 0
      BY <3>1, <3>2
    <3>4. C = <<>>
      BY <3>1, <3>3, StringFacts
    <3>5. QED
      BY <3>4 DEF C
  <2>6. QED
    BY <2>3, <2>5
<1> HIDE DEF e, message
<1>8. /\ behind \in Strings /\ Len(behind) = r + len /\ bytes = behind \o Contents(p)
      /\ r \in Nat
  <2>1. behind \in Strings /\ Len(behind) = r + len /\ r \in Nat
    BY <1>1, <1>3, StringFacts
  <2>2. (front \o a) \o Contents(p) = front \o (a \o Contents(p))
    <3> DEFINE C == Contents(p)
    <3>1. C \in Strings /\ front \in Strings /\ a \in Strings
      BY <1>1, <1>3, <1>4
    <3> HIDE DEF C
    <3>2. (front \o a) \o C = front \o (a \o C)
      BY <3>1, StringsAssociate
    <3>3. QED
      BY <3>2 DEF C
  <2>3. QED
    BY <1>1, <1>4, <2>1, <2>2, Zenon
\* The buffer lies behind what was read.
<1>9. Behind(bytes, r, a) /\ SubSeq(a, 1, len) = a
  <2>1. bytes = (front \o a) \o Contents(p)
    BY <1>8
  <2>2. /\ Len((front \o a) \o Contents(p)) = Len(front \o a) + Len(Contents(p))
        /\ Len(Contents(p)) \in Nat
    BY <1>4, <1>8, StringFacts
  <2>3. r \in 0..Len(bytes) /\ r + Len(a) <= Len(bytes)
    <3> DEFINE B == Len(bytes)
               P == Len(Contents(p))
    <3>1. B = r + len + P /\ P \in Nat /\ Len(a) = len
      BY <1>3, <1>8, <2>1, <2>2
    <3> HIDE DEF B, P, r
    <3>2. r \in 0..B /\ r + Len(a) <= B
      BY <1>3, <1>8, <3>1
    <3>3. QED
      BY <3>2 DEF B
  <2>4. \A i \in 1..Len(a) : bytes[r + i] = a[i]
    <3> TAKE i \in 1..Len(a)
    <3>1. (front \o a)[r + i] = a[i]
      <4>1. 0 \in 0..Len(front)
        BY <1>8
      <4>2. \A k \in 1..Len(a) : (front \o a)[Len(front) + k] = a[k]
        BY <1>1, <1>3, <4>1, FrontFacts
      <4>3. QED
        BY <4>2
    <3>2. r + i \in 1..Len(front \o a) /\ 0 \in 0..Len(front \o a)
      BY <1>3, <1>8
    <3>3. \A k \in 1..Len(front \o a) : ((front \o a) \o Contents(p))[k] = (front \o a)[k]
      <4> HIDE DEF behind
      <4>1. front \o a \in Strings
        BY <1>8 DEF behind
      <4>2. QED
        BY <1>4, <3>2, <4>1, FrontFacts
    <3>4. QED
      BY <2>1, <3>1, <3>2, <3>3
  <2>5. SubSeq(a, 1, Len(a)) = a
    BY <1>3, StringFacts
  <2>6. QED
    BY <1>3, <2>3, <2>4, <2>5 DEF Behind
<1>10. /\ NoEnd(buffer, len) => NoEnd(a, len)
       /\ NoEnd(buffer, len - 1) => NoEnd(a, len - 1)
       /\ a[len] = buffer[len]
       /\ len \in 1..Len(a) /\ len \in 0..Len(a)
  <2>1. buffer \in Seq(Nat) /\ len \in 1..Len(buffer) /\ Len(buffer) \in Nat
    BY <1>2 DEF Strings, buffer
  <2>2. \A i \in 1..len : a[i] = buffer[i]
    BY <2>1 DEF a
  <2>3. len \in 1..len /\ \A i \in 1..len - 1 : i \in 1..len
    BY <2>1
  <2>4. QED
    BY <1>3, <2>1, <2>2, <2>3 DEF NoEnd
<1>11. ASSUME NoEnd(buffer, len) PROVE Sound(bytes, p, longer, messages, behind)
  <2>1. Grown(bytes, a, r, len)
    <3> HIDE DEF r
    <3>1. NoEnd(a, len)
      BY <1>10, <1>11
    <3>2. QED
      BY <1>1, <1>3, <1>9, <1>10, <3>1, PlainReading
  <2>2. /\ Reading(bytes)[r + len].messages = messages
        /\ Reading(bytes)[r + len].rest = Contents(queue) \o a
    BY <1>1, <1>9, <2>1 DEF Grown
  <2> HIDE DEF behind, r
  <2>3. QED
    BY <1>1, <1>4, <1>5, <1>8, <2>2 DEF Sound
<1>12. ASSUME NoEnd(buffer, len - 1), buffer[len] = Zero
       PROVE  Sound(bytes, p, e, IF Invalid \in ToSet(message) THEN messages
                                 ELSE Append(messages, message), behind)
  <2>1. Completed(bytes, a, r, len)
    <3> HIDE DEF r
    <3>1. NoEnd(a, len - 1) /\ a[len] = Zero
      BY <1>10, <1>12
    <3>2. QED
      BY <1>1, <1>3, <1>9, <1>10, <3>1, EndReading
  <2>2. message = Reading(bytes)[r].rest \o SubSeq(a, 1, len)
    BY <1>1, <1>5, <1>6, <1>9
  <2>3. Reading(bytes)[r + len] =
          [messages |-> IF Invalid \in ToSet(message) THEN messages
                        ELSE Append(messages, message),
           rest |-> <<>>]
    BY <1>1, <2>1, <2>2 DEF Completed
  <2> DEFINE all == IF Invalid \in ToSet(message) THEN messages ELSE Append(messages, message)
  <2> HIDE DEF behind, r, all
  <2>4. Reading(bytes)[r + len] = [messages |-> all, rest |-> <<>>]
    BY <2>3 DEF all
  <2>5. Sound(bytes, p, e, all, behind)
    <3>1. Reading(bytes)[r + len].messages = all /\ Reading(bytes)[r + len].rest = <<>>
      BY <2>4
    <3>2. /\ all = Reading(bytes)[Len(behind)].messages
          /\ Contents(e) = Reading(bytes)[Len(behind)].rest
      BY <1>7, <1>8, <3>1
    <3>3. bytes \in Strings /\ behind \in Strings /\ Queue(p) /\ Queue(e)
          /\ bytes = behind \o Contents(p)
      BY <1>1, <1>4, <1>7, <1>8
    <3>4. QED
      BY <3>2, <3>3, Zenon DEF Sound
  <2>6. QED
    BY <2>5 DEF all
<1>13. QED
  BY <1>6, <1>11, <1>12 DEF p, e, message, a, buffer

-----------------------------------------------------------------------------
(* XML sockets: what they send *)

LEMMA SentFacts ==
    /\ \A n \in 0..MaxSends : Sent[n] \in Strings
    /\ Sent[0] = <<>>
    /\ \A n \in 1..MaxSends : Sent[n] = Sent[n - 1] \o Message(n)
    /\ \A n \in 1..MaxSends : Message(n) \in Strings
<1> DEFINE list == [k \in 1..MaxSends |-> Message(k)]
<1>1. MaxSends \in Nat /\ Zero \in Nat
  BY BytesAssumption
<1>2. \A n \in 1..MaxSends : Message(n) \in Strings
  <2> TAKE n \in 1..MaxSends
  <2>1. n \in Nat
    BY <1>1
  <2>2. <<Zero>> \in Seq(Nat) /\ <<n, Zero>> \in Seq(Nat)
    BY <1>1, <2>1
  <2>3. QED
    BY <2>2 DEF Message, Strings
<1>3. list \in Seq(Strings) /\ Len(list) = MaxSends /\ \A n \in 1..MaxSends : list[n] = Message(n)
  BY <1>1, <1>2
<1> HIDE DEF list
<1>4. IsJoin(list, Joined(list))
  BY <1>3, JoinFacts
<1>5. Sent = Joined(list)
  BY DEF Sent, list
<1>6. QED
  BY <1>1, <1>2, <1>3, <1>4, <1>5 DEF IsJoin

\* What BytesInOrder says while the socket is in the list.
Going(bytes, queue, n) ==
    /\ bytes \in Strings /\ Queue(queue) /\ n \in 0..MaxSends
    /\ bytes \o Contents(queue) = Sent[n]
    /\ queue.offset = Len(bytes)

LEMMA GoingFacts ==
    ASSUME NEW bytes, NEW queue, NEW n, Going(bytes, queue, n)
    PROVE  IsPrefix(bytes, Sent[n]) /\ WellFormed(queue)
<1> DEFINE C == Contents(queue)
<1>1. bytes \in Strings /\ C \in Strings /\ bytes \o C = Sent[n] /\ WellFormed(queue)
  BY QueueFields DEF Going, Queue
<1> HIDE DEF C
<1>2. /\ Len(bytes) \in Nat /\ Len(C) \in Nat /\ Len(bytes \o C) = Len(bytes) + Len(C)
      /\ SubSeq(bytes, 1, Len(bytes)) = bytes
  BY <1>1, StringFacts
<1>3. SubSeq(bytes \o C, 1, Len(bytes)) = SubSeq(bytes, 1, Len(bytes))
  <2>1. Len(bytes) \in 0..Len(bytes)
    BY <1>2
  <2>2. QED
    BY <1>1, <2>1, FrontFacts
<1>4. QED
  BY <1>1, <1>2, <1>3 DEF IsPrefix

\* The loop that writes takes bytes from the front of the queue.
LEMMA WritesFacts ==
    ASSUME NEW bytes, NEW queue, NEW n, Going(bytes, queue, n), NEW write \in Writes(queue)
    PROVE  /\ Going(bytes \o write.taken, write.queue, n)
           /\ write.end \in {"empty", "full", "error"}
           /\ write.end = "empty" => write.queue.depth = 0
           /\ write.queue \in Queues /\ bytes \o write.taken \in Seq(Nat)
<1>1. PICK k \in 0..queue.depth, end \in {"empty", "full", "error"} :
         /\ write = [queue |-> Flush(queue, k), taken |-> Peek(queue, k), end |-> end]
         /\ end = "empty" => k = queue.depth
  <2>1. queue.depth \in Nat
    BY QueueFields DEF Going
  <2>2. QED
    BY <2>1 DEF Writes
<1> DEFINE p == Flush(queue, k)
           a == Peek(queue, k)
           C == Contents(p)
           D == Contents(queue)
<1>2. write.queue = p /\ write.taken = a /\ write.end = end
  BY <1>1
<1>3. Rest(queue, k, p) /\ Queue(queue) /\ bytes \in Strings /\ queue.offset = Len(bytes)
  BY FlushFacts DEF Going
<1>4. /\ D \in Strings /\ queue.depth = Len(D) /\ k \in 0..Len(D) /\ a = SubSeq(D, 1, k)
      /\ queue.depth \in Nat
  BY <1>3, QueueFields DEF Peek
<1>5. Queue(p) /\ D = a \o C /\ p.depth = queue.depth - k /\ p.offset = queue.offset + k
  BY <1>3 DEF Rest
<1>6. C \in Strings
  BY <1>5, QueueFields
<1> HIDE DEF C, D, p
<1>7. a \in Strings /\ Len(a) = k
  <2> HIDE DEF a
  <2>1. QED
    BY <1>4, SplitFacts
<1> HIDE DEF a
<1>8. (bytes \o a) \o C = Sent[n]
  <2>1. bytes \o D = Sent[n]
    BY DEF Going, D
  <2>2. (bytes \o a) \o C = bytes \o (a \o C)
    BY <1>3, <1>6, <1>7, StringsAssociate
  <2>3. QED
    BY <1>5, <2>1, <2>2, Zenon
<1>9. bytes \o a \in Strings /\ Len(bytes \o a) = Len(bytes) + k
  BY <1>3, <1>7, StringFacts
<1>10. Going(bytes \o a, p, n)
  <2>1. n \in 0..MaxSends
    BY DEF Going
  <2>2. QED
    BY <1>3, <1>5, <1>8, <1>9, <2>1 DEF Going, C
<1>11. end = "empty" => p.depth = 0
  <2>1. /\ end = "empty" => k = queue.depth
        /\ queue.depth \in Nat /\ p.depth = queue.depth - k
    BY <1>1, <1>4, <1>5
  <2>2. QED
    BY <2>1
<1>12. p \in Queues /\ bytes \o a \in Seq(Nat)
  BY <1>5, <1>9 DEF Queue, Strings
<1>13. QED
  BY <1>1, <1>2, <1>10, <1>11, <1>12

\* A string more behind what waits.
LEMMA SendGoing ==
    ASSUME NEW bytes, NEW queue, NEW n, Going(bytes, queue, n), n + 1 \in 0..MaxSends
    PROVE  Going(bytes, PushBuffer(queue, Message(n + 1)), n + 1)
<1> DEFINE s == Message(n + 1)
           p == PushBuffer(queue, s)
           D == Contents(queue)
<1>1. bytes \in Strings /\ Queue(queue) /\ n \in 0..MaxSends /\ bytes \o D = Sent[n]
      /\ queue.offset = Len(bytes)
  BY DEF Going
<1>2. n + 1 \in 1..MaxSends /\ (n + 1) - 1 = n
  BY <1>1, BytesAssumption
<1>3. s \in Strings /\ Sent[n + 1] = Sent[n] \o s
  <2>1. Message(n + 1) \in Strings /\ Sent[n + 1] = Sent[(n + 1) - 1] \o Message(n + 1)
    BY <1>2, SentFacts
  <2>2. QED
    BY <1>2, <2>1
<1> HIDE DEF s
<1>4. Queue(p) /\ Contents(p) = D \o s /\ p.offset = queue.offset /\ D \in Strings
  BY <1>1, <1>3, PushFacts, QueueFields
<1> HIDE DEF p, D
<1>5. bytes \o (D \o s) = (bytes \o D) \o s
  BY <1>1, <1>3, <1>4, StringsAssociate
<1>6. bytes \o Contents(p) = Sent[n + 1]
  BY <1>1, <1>3, <1>4, <1>5, Zenon
<1>7. QED
  BY <1>1, <1>4, <1>6 DEF Going, p, s

-----------------------------------------------------------------------------
(* XML sockets: what is known, and what has to be kept *)

XmlRecords == [listed : BOOLEAN, open : BOOLEAN, queue : Queues, send_queue : Queues,
               script : BOOLEAN]
XmlFields == {"listed", "open", "queue", "send_queue", "script"}

LEMMA XmlFacts ==
    ASSUME NEW x \in XmlRecords
    PROVE  /\ DOMAIN x = XmlFields
           /\ x.listed \in BOOLEAN /\ x.open \in BOOLEAN /\ x.script \in BOOLEAN
           /\ x.queue \in Queues /\ x.send_queue \in Queues
           /\ \A v \in BOOLEAN : /\ [x EXCEPT !.listed = v] \in XmlRecords
                                 /\ [x EXCEPT !.open = v] \in XmlRecords
                                 /\ [x EXCEPT !.script = v] \in XmlRecords
           /\ \A q \in Queues : /\ [x EXCEPT !.queue = q] \in XmlRecords
                                /\ [x EXCEPT !.send_queue = q] \in XmlRecords
<1>1. /\ DOMAIN x = XmlFields
      /\ x.listed \in BOOLEAN /\ x.open \in BOOLEAN /\ x.script \in BOOLEAN
      /\ x.queue \in Queues /\ x.send_queue \in Queues
  BY DEF XmlRecords, XmlFields
<1>2. \A v \in BOOLEAN : [x EXCEPT !.listed = v] \in XmlRecords
  BY DEF XmlRecords
<1>3. \A v \in BOOLEAN : [x EXCEPT !.open = v] \in XmlRecords
  BY DEF XmlRecords
<1>4. \A v \in BOOLEAN : [x EXCEPT !.script = v] \in XmlRecords
  BY DEF XmlRecords
<1>5. \A q \in Queues : [x EXCEPT !.queue = q] \in XmlRecords
  BY DEF XmlRecords
<1>6. \A q \in Queues : [x EXCEPT !.send_queue = q] \in XmlRecords
  BY DEF XmlRecords
<1>7. QED
  BY <1>1, <1>2, <1>3, <1>4, <1>5, <1>6

\* MessagesAreIntact, but for the end of the connection.
IntactOf(bytes, from, queue, messages) ==
    LET unread == Contents(from)
        read == Len(bytes) - Len(unread)
    IN /\ WellFormed(from) /\ WellFormed(queue)
       /\ bytes = SubSeq(bytes, 1, read) \o unread
       /\ messages = Reading(bytes)[read].messages
       /\ Contents(queue) = Reading(bytes)[read].rest

LEMMA SoundIsIntact ==
    ASSUME NEW bytes, NEW from, NEW queue, NEW messages, NEW front,
           Sound(bytes, from, queue, messages, front)
    PROVE  /\ IntactOf(bytes, from, queue, messages)
           /\ bytes \in Seq(Nat) /\ from \in Queues /\ queue \in Queues
           /\ messages \in Seq(Seq(Nat))
<1> DEFINE unread == Contents(from)
           read == Len(bytes) - Len(unread)
<1>1. /\ bytes \in Strings /\ front \in Strings /\ Queue(from) /\ Queue(queue)
      /\ bytes = front \o unread /\ unread \in Strings
  BY QueueFields DEF Sound
<1>2. /\ Len(bytes) = Len(front) + Len(unread) /\ Len(front) \in Nat /\ Len(unread) \in Nat
      /\ SubSeq(front, 1, Len(front)) = front
  BY <1>1, StringFacts
<1>3. read = Len(front) /\ Len(front) \in 0..Len(front) /\ Len(front) \in 0..Len(bytes)
  BY <1>2
<1>4. SubSeq(bytes, 1, read) = front
  <2>1. SubSeq(front \o unread, 1, Len(front)) = SubSeq(front, 1, Len(front))
    <3> HIDE DEF unread
    <3>1. QED
      BY <1>1, <1>3, FrontFacts
  <2> HIDE DEF read, unread
  <2>2. QED
    BY <1>1, <1>2, <1>3, <2>1
<1>5. IntactOf(bytes, from, queue, messages)
  <2>1. /\ messages = Reading(bytes)[Len(front)].messages
        /\ Contents(queue) = Reading(bytes)[Len(front)].rest
    BY DEF Sound
  <2>2. /\ messages = Reading(bytes)[read].messages
        /\ Contents(queue) = Reading(bytes)[read].rest
        /\ bytes = SubSeq(bytes, 1, read) \o unread
        /\ WellFormed(from) /\ WellFormed(queue)
    <3> HIDE DEF read, unread
    <3>1. QED
      BY <1>1, <1>3, <1>4, <2>1 DEF Queue
  <2>3. QED
    BY <2>2 DEF IntactOf
<1>6. messages \in Seq(Seq(Nat))
  <2>1. Reading(bytes)[Len(front)] \in ReaderStates
    BY <1>1, <1>3, ReadingFacts DEF IsReading
  <2>2. messages = Reading(bytes)[Len(front)].messages
    BY DEF Sound
  <2>3. QED
    BY <2>1, <2>2 DEF ReaderStates, Strings
<1>7. QED
  BY <1>1, <1>5, <1>6 DEF Queue, Strings

LEMMA IntactIsSound ==
    ASSUME NEW bytes \in Strings, NEW from \in Queues, NEW queue \in Queues, NEW messages,
           IntactOf(bytes, from, queue, messages)
    PROVE  \E front : Sound(bytes, from, queue, messages, front)
<1> DEFINE unread == Contents(from)
           read == Len(bytes) - Len(unread)
           front == SubSeq(bytes, 1, read)
<1>1. Queue(from) /\ Queue(queue)
  BY DEF IntactOf, Queue
<1>2. unread \in Strings /\ Len(bytes) \in Nat /\ Len(unread) \in Nat
  BY <1>1, QueueFields, StringFacts
<1>3. bytes = front \o unread /\ front \in Strings /\ Len(front) = read
  <2>1. bytes = front \o unread
    BY DEF IntactOf
  <2>2. read \in Int /\ \A i \in 1..read : bytes[i] \in Nat
    <3> HIDE DEF unread
    <3>1. read \in Int /\ \A i \in 1..read : i \in 1..Len(bytes)
      BY <1>2
    <3>2. \A i \in 1..Len(bytes) : bytes[i] \in Nat
      BY DEF Strings
    <3>3. QED
      BY <3>1, <3>2
  <2>3. front \in Strings
    <3> HIDE DEF read
    <3>1. 1 \in Int
      OBVIOUS
    <3>2. QED
      BY <2>2, <3>1, SubSeqProperties DEF Strings
  <2> HIDE DEF front
  <2>4. Len(front \o unread) = Len(front) + Len(unread) /\ Len(front) \in Nat
    BY <1>2, <2>3, StringFacts
  <2>5. Len(bytes) = Len(front) + Len(unread)
    BY <2>1, <2>4, Zenon
  <2>6. Len(front) = read
    <3> HIDE DEF unread
    <3>1. QED
      BY <1>2, <2>4, <2>5
  <2>7. QED
    BY <2>1, <2>3, <2>6
<1>4. /\ messages = Reading(bytes)[read].messages
      /\ Contents(queue) = Reading(bytes)[read].rest
  BY DEF IntactOf
<1> HIDE DEF front, read, unread
<1>5. Sound(bytes, from, queue, messages, front)
  BY <1>1, <1>3, <1>4 DEF Sound, unread
<1>6. QED
  BY <1>5

\* What every step below starts from.
LEMMA SocketKnown ==
    ASSUME SocketInv
    PROVE  /\ IInv /\ stream \in Streams /\ DOMAIN stream = StreamFields /\ kind = "socket"
           /\ xml \in XmlRecords /\ DOMAIN xml = XmlFields
           /\ Queue(arrived) /\ Queue(xml.queue) /\ Queue(xml.send_queue)
           /\ arrived \in Queues /\ received \in Seq(Nat) /\ wire \in Seq(Nat)
           /\ received \in Strings /\ wire \in Strings
           /\ delivered \in Seq(Seq(Nat)) /\ delivered \in Seq(Strings)
           /\ sends \in 0..MaxSends /\ full \in BOOLEAN
           /\ told \in {"nothing", "open", "parse", "close", "error"}
           /\ ListedIsTarget /\ EventIsTold /\ BytesInOrder /\ MessagesAreIntact
           /\ xml.listed => Going(wire, xml.send_queue, sends)
           /\ \E front : Sound(received, arrived, xml.queue, delivered, front)
<1>1. /\ IInv /\ SocketTypes /\ ListedIsTarget /\ EventIsTold /\ BytesInOrder
      /\ MessagesAreIntact
  BY DEF SocketInv
<1>2. stream \in Streams /\ DOMAIN stream = StreamFields
      /\ told \in {"nothing", "open", "parse", "close", "error"} /\ kind = "socket"
  BY <1>1, Known DEF TypeOK, ListedIsTarget
<1>3. /\ xml \in XmlRecords /\ arrived \in Queues /\ received \in Seq(Nat) /\ wire \in Seq(Nat)
      /\ delivered \in Seq(Seq(Nat)) /\ sends \in 0..MaxSends /\ full \in BOOLEAN
  BY <1>1 DEF SocketTypes, XmlRecords
<1>4. received \in Strings /\ wire \in Strings /\ delivered \in Seq(Strings)
  BY <1>3 DEF Strings
<1>5. DOMAIN xml = XmlFields /\ xml.queue \in Queues /\ xml.send_queue \in Queues
  BY <1>3, XmlFacts
<1>6. /\ IntactOf(received, arrived, xml.queue, delivered)
      /\ WellFormed(arrived) /\ WellFormed(xml.queue) /\ WellFormed(xml.send_queue)
  BY <1>1 DEF MessagesAreIntact, IntactOf, BytesInOrder
<1>7. Queue(arrived) /\ Queue(xml.queue) /\ Queue(xml.send_queue)
  BY <1>3, <1>5, <1>6 DEF Queue
<1>8. xml.listed => Going(wire, xml.send_queue, sends)
  BY <1>1, <1>3, <1>4, <1>7 DEF BytesInOrder, Going
<1>9. \E front : Sound(received, arrived, xml.queue, delivered, front)
  BY <1>3, <1>4, <1>5, <1>6, IntactIsSound
<1>10. QED
  BY <1>1, <1>2, <1>3, <1>4, <1>5, <1>7, <1>8, <1>9

\* Nothing happens to what is sent, or to what is received.
SendsNothing == /\ UNCHANGED <<wire, sends, full>>
                /\ xml'.listed = xml.listed /\ xml'.send_queue = xml.send_queue
ReceivesNothing == /\ UNCHANGED <<arrived, received, delivered>>
                   /\ xml'.queue = xml.queue

LEMMA ReceivesNothingKeeps ==
    ASSUME SocketInv, ReceivesNothing, told' = "close" => arrived.buffers = <<>>
    PROVE  MessagesAreIntact'
<1>1. MessagesAreIntact
  BY DEF SocketInv
<1>2. xml'.queue = xml.queue /\ arrived' = arrived /\ received' = received
      /\ delivered' = delivered
  BY DEF ReceivesNothing
<1>3. QED
  BY <1>1, <1>2 DEF MessagesAreIntact

LEMMA SendsNothingKeeps ==
    ASSUME SocketInv, SendsNothing,
           stream'.state = "open" /\ xml.send_queue.depth > 0 =>
             stream.state = "open" /\ stream'.writable = stream.writable
    PROVE  BytesInOrder'
<1>1. BytesInOrder
  BY DEF SocketInv
<1>2. QED
  BY <1>1 DEF BytesInOrder, SendsNothing

\* An empty queue waits for nothing.
LEMMA EmptyDepth == EmptyQueue.depth = 0 /\ WellFormed(EmptyQueue) /\ EmptyQueue \in Queues
BY EmptyFacts DEF Queue, EmptyQueue

SocketKept == /\ SocketTypes' /\ ListedIsTarget' /\ EventIsTold'
              /\ BytesInOrder' /\ MessagesAreIntact'

\* What changes of a stream does not concern what is sent.
Steady == /\ stream'.state = stream.state /\ stream'.target = stream.target
          /\ stream'.writable = stream.writable /\ kind' = kind

LEMMA SteadySteps ==
    ASSUME IInv, kind = "socket", Process \/ Loop \/ Opened \/ Parsed \/ BackendPush
    PROVE  Steady
<1>1. stream \in Streams /\ DOMAIN stream = StreamFields
  BY Known
<1>2. CASE Process
  <2> DEFINE s == [stream EXCEPT !.actions = @ - 1, !.queued = FALSE]
  <2>1. s.state = stream.state /\ s.target = stream.target /\ s.writable = stream.writable
    BY <1>1 DEF StreamFields
  <2>2. stream' = s /\ kind' = kind
    <3> HIDE DEF s
    <3>1. /\ IF s.state = s.processed /\ s.state # "open"
             THEN stream' = s /\ UNCHANGED <<pc, told>>
             ELSE IF s.state = "error" THEN Tell("error", s)
             ELSE stream' = s /\ pc' = "loop" /\ UNCHANGED told
          /\ kind' = kind
      BY <1>2 DEF Process, s
    <3>2. QED
      BY <3>1 DEF Tell
  <2>3. QED
    BY <2>1, <2>2 DEF Steady
<1>3. CASE Loop
  <2> DEFINE a == [stream EXCEPT !.processed = "open"]
             b == [stream EXCEPT !.fresh = FALSE]
  <2>1. stream' \in {stream, a, b} /\ kind' = kind
    <3>1. CASE stream.state # stream.processed /\ stream.processed = "connecting"
      BY <1>1, <1>3, <3>1 DEF Loop, Tell
    <3>2. CASE stream.state # stream.processed /\ stream.processed = "open"
      BY <1>1, <1>3, <3>2 DEF Loop, Tell
    <3>3. CASE stream.state = stream.processed /\ stream.state = "open"
      BY <1>1, <1>3, <3>3 DEF Loop, Tell
    <3>4. CASE stream.state = stream.processed /\ stream.state # "open"
      BY <1>1, <1>3, <3>4 DEF Loop
    <3>5. QED
      BY <1>3, <3>1, <3>2, <3>3, <3>4 DEF Loop
  <2>2. /\ a.state = stream.state /\ a.target = stream.target /\ a.writable = stream.writable
        /\ b.state = stream.state /\ b.target = stream.target /\ b.writable = stream.writable
    BY <1>1 DEF StreamFields
  <2> HIDE DEF a, b
  <2>3. QED
    BY <2>1, <2>2 DEF Steady
<1>4. CASE Opened
  BY <1>4 DEF Opened, Steady
<1>5. CASE Parsed
  <2>1. PICK n \in 0..stream.data :
           LET s == [stream EXCEPT !.data = n]
           IN  stream' = s \/ stream' = [s EXCEPT !.processed = "closed"]
    BY <1>5 DEF Parsed, Tell
  <2>2. kind' = kind
    BY <1>5 DEF Parsed
  <2>3. QED
    BY <1>1, <2>1, <2>2 DEF Steady, StreamFields
<1>6. CASE BackendPush
  <2> DEFINE s == [stream EXCEPT !.data = @ + 1, !.fresh = TRUE]
  <2>1. /\ s.state = stream.state /\ s.target = stream.target
        /\ s.writable = stream.writable /\ DOMAIN s = StreamFields
    BY <1>1 DEF StreamFields
  <2>2. kind' = kind /\ (stream' = QueueProcessing(s) \/ stream' = stream)
    BY <1>6 DEF BackendPush
  <2> HIDE DEF s
  <2>3. /\ QueueProcessing(s).state = s.state /\ QueueProcessing(s).target = s.target
        /\ QueueProcessing(s).writable = s.writable
    BY <2>1 DEF QueueProcessing, StreamFields
  <2>4. QED
    BY <2>1, <2>2, <2>3 DEF Steady
<1>7. QED
  BY <1>2, <1>3, <1>4, <1>5, <1>6

-----------------------------------------------------------------------------
(* XML sockets: every step keeps the invariant *)

EventFollows ==
    /\ event' # event => <<event, event'>> \in
          {<<"none", "onConnect(true)">>, <<"none", "onConnect(false)">>,
           <<"onConnect(true)", "onClose">>}
    /\ delivered' # delivered => event = "onConnect(true)"

SocketStepKept == SocketKept /\ EventFollows

LEMMA SendFailsFacts ==
    ASSUME IInv, SendFails
    PROVE  /\ stream'.state = "error" /\ stream'.target = stream.target
           /\ stream'.writable = stream.writable /\ UNCHANGED <<kind, told>>
<1>1. stream' = QueueProcessing([stream EXCEPT !.state = "error"])
      /\ UNCHANGED <<kind, told>>
  BY DEF SendFails, Error
<1>2. QED
  BY <1>1, ReportFacts

\* What is sent is in order if the socket is in the list, or has gone.
LEMMA SendsInOrder ==
    ASSUME xml'.listed => Going(wire', xml'.send_queue, sends'),
           ~xml'.listed => xml'.send_queue = EmptyQueue /\ IsPrefix(wire', Sent[sends']),
           xml'.send_queue.depth > 0 /\ stream'.state = "open" => full' \/ stream'.writable
    PROVE  BytesInOrder'
<1>1. CASE xml'.listed
  <2>1. Going(wire', xml'.send_queue, sends')
    BY <1>1
  <2>2. IsPrefix(wire', Sent[sends']) /\ WellFormed(xml'.send_queue)
    BY <2>1, GoingFacts
  <2>3. wire' \o Contents(xml'.send_queue) = Sent[sends'] /\ xml'.send_queue.offset = Len(wire')
    BY <2>1 DEF Going
  <2>4. BytesInOrder' <=>
          /\ WellFormed(xml'.send_queue)
          /\ xml'.listed => wire' \o Contents(xml'.send_queue) = Sent[sends']
          /\ IsPrefix(wire', Sent[sends'])
          /\ xml'.listed => xml'.send_queue.offset = Len(wire')
          /\ xml'.send_queue.depth > 0 /\ stream'.state = "open" => full' \/ stream'.writable
    BY DEF BytesInOrder
  <2>5. QED
    BY <2>2, <2>3, <2>4
<1>2. CASE ~xml'.listed
  <2>1. WellFormed(xml'.send_queue)
    BY <1>2, EmptyDepth
  <2>2. QED
    BY <1>2, <2>1 DEF BytesInOrder
<1>3. QED
  BY <1>1, <1>2

LEMMA ConnectKeeps ==
    ASSUME SocketInv, Connect
    PROVE  SocketStepKept
<1>1. SetTarget /\ xml' = [xml EXCEPT !.listed = TRUE]
      /\ UNCHANGED <<arrived, full, event, received, delivered, sends, wire>>
  BY DEF Connect
<1>2. /\ stream.target = "none" /\ told = "nothing" /\ stream'.target = "set"
      /\ UNCHANGED <<kind, told>>
  BY <1>1, SocketKnown, SetTargetFacts
<1>3. sends = 0 /\ wire = <<>> /\ xml.send_queue = EmptyQueue
  BY <1>2, SocketKnown DEF ListedIsTarget
<1>4. /\ xml' \in XmlRecords /\ xml'.listed /\ xml'.open = xml.open
      /\ xml'.queue = xml.queue /\ xml'.send_queue = xml.send_queue
  <2>1. xml' \in XmlRecords
    BY <1>1, SocketKnown, XmlFacts
  <2>2. QED
    BY <1>1, <2>1, SocketKnown DEF XmlFields
<1>5. SocketTypes'
  BY <1>1, <1>4, SocketKnown DEF SocketTypes, XmlRecords
<1>6. ListedIsTarget'
  BY <1>1, <1>2, <1>3, <1>4, SocketKnown DEF ListedIsTarget
<1>7. EventIsTold'
  BY <1>1, <1>2, <1>4, SocketKnown DEF EventIsTold
<1>8. BytesInOrder'
  <2>1. Going(<<>>, EmptyQueue, 0)
    <3>1. 0 \in 0..MaxSends
      BY BytesAssumption
    <3>2. <<>> \o Contents(EmptyQueue) = Sent[0] /\ Queue(EmptyQueue)
      BY EmptyFacts, SentFacts, StringFacts
    <3>3. EmptyQueue.offset = 0
      BY DEF EmptyQueue
    <3>4. QED
      BY <3>1, <3>2, <3>3, StringFacts DEF Going
  <2>2. Going(wire', xml'.send_queue, sends')
    BY <1>1, <1>3, <1>4, <2>1
  <2>3. xml'.send_queue.depth = 0
    BY <1>3, <1>4, EmptyDepth
  <2>4. QED
    BY <1>4, <2>2, <2>3, SendsInOrder
<1>9. MessagesAreIntact'
  BY <1>1, <1>2, <1>4, ReceivesNothingKeeps DEF ReceivesNothing
<1>10. EventFollows
  BY <1>1 DEF EventFollows
<1>11. QED
  BY <1>5, <1>6, <1>7, <1>8, <1>9, <1>10 DEF SocketStepKept, SocketKept

LEMMA SendKeeps ==
    ASSUME SocketInv, Send
    PROVE  SocketStepKept
<1> DEFINE queue == PushBuffer(xml.send_queue, Message(sends + 1))
<1>1. /\ sends < MaxSends /\ xml.listed /\ stream.state = "open" /\ sends' = sends + 1
      /\ UNCHANGED <<arrived, event, received, delivered>>
      /\ IF xml.send_queue.depth = 0 THEN DoWrite(queue)
         ELSE /\ xml' = [xml EXCEPT !.send_queue = queue]
              /\ UNCHANGED <<vars, wire, full>>
  BY DEF Send
<1>2. sends + 1 \in 0..MaxSends
  BY <1>1, SocketKnown, BytesAssumption
<1>3. Going(wire, queue, sends + 1)
  BY <1>1, <1>2, SocketKnown, SendGoing
<1> HIDE DEF queue
<1>4. queue \in Queues
  BY <1>3 DEF Going, Queue
<1>5. stream.target = "set"
  BY <1>1, SocketKnown DEF ListedIsTarget
\* In either case:
<1>6. /\ \E q \in Queues : xml' = [xml EXCEPT !.send_queue = q]
      /\ Going(wire', xml'.send_queue, sends')
      /\ wire' \in Seq(Nat) /\ full' \in BOOLEAN
      /\ xml'.send_queue.depth > 0 /\ stream'.state = "open" => full' \/ stream'.writable
      /\ stream'.target = stream.target /\ stream'.state \in {"open", "error"}
      /\ UNCHANGED <<kind, told>>
  <2>1. CASE xml.send_queue.depth = 0
    <3>1. PICK write \in Writes(queue) :
             /\ xml' = [xml EXCEPT !.send_queue = write.queue]
             /\ wire' = wire \o write.taken
             /\ full' = (full \/ write.end = "full")
             /\ IF write.end = "error" THEN SendFails ELSE UNCHANGED vars
      BY <1>1, <2>1 DEF DoWrite, Took
    <3>2. /\ Going(wire \o write.taken, write.queue, sends + 1)
          /\ write.end \in {"empty", "full", "error"}
          /\ write.end = "empty" => write.queue.depth = 0
          /\ write.queue \in Queues /\ wire \o write.taken \in Seq(Nat)
      BY <1>3, WritesFacts
    <3>3. xml'.send_queue = write.queue
      BY <3>1, SocketKnown DEF XmlFields
    <3>4. full' \in BOOLEAN /\ (write.end = "full" => full')
      BY <3>1, SocketKnown
    <3>5. CASE write.end = "error"
      BY <1>1, <3>1, <3>2, <3>3, <3>4, <3>5, SocketKnown, SendFailsFacts
    <3>6. CASE write.end # "error"
      <4>1. UNCHANGED <<stream, kind, told>>
        BY <3>1, <3>6 DEF vars
      <4>2. write.end \in {"empty", "full"}
        BY <3>2, <3>6
      <4>3. xml'.send_queue.depth > 0 => full'
        BY <3>2, <3>3, <3>4, <4>2
      <4>4. Going(wire', xml'.send_queue, sends')
        BY <1>1, <3>1, <3>2, <3>3
      <4>5. wire' \in Seq(Nat) /\ \E q \in Queues : xml' = [xml EXCEPT !.send_queue = q]
        BY <3>1, <3>2
      <4>6. QED
        BY <1>1, <3>4, <4>1, <4>3, <4>4, <4>5
    <3>7. QED
      BY <3>5, <3>6
  <2>2. CASE xml.send_queue.depth # 0
    <3>1. /\ xml' = [xml EXCEPT !.send_queue = queue]
          /\ UNCHANGED <<stream, kind, told, wire, full>>
      BY <1>1, <2>2 DEF vars
    <3>2. xml.send_queue.depth > 0
      <4>1. xml.send_queue.depth \in Nat
        BY SocketKnown, QueueFields
      <4>2. QED
        BY <2>2, <4>1
    <3>3. full \/ stream.writable
      BY <1>1, <3>2, SocketKnown DEF BytesInOrder
    <3>4. xml'.send_queue = queue
      BY <3>1, SocketKnown DEF XmlFields
    <3>5. QED
      BY <1>1, <1>3, <1>4, <3>1, <3>3, <3>4, SocketKnown
  <2>3. QED
    BY <2>1, <2>2
<1>7. /\ xml' \in XmlRecords /\ xml'.listed = xml.listed /\ xml'.open = xml.open
      /\ xml'.queue = xml.queue
  <2>1. PICK q \in Queues : xml' = [xml EXCEPT !.send_queue = q]
    BY <1>6
  <2>2. xml' \in XmlRecords
    BY <2>1, SocketKnown, XmlFacts
  <2>3. QED
    BY <2>1, <2>2, SocketKnown DEF XmlFields
<1>8. SocketTypes'
  BY <1>1, <1>2, <1>6, <1>7, SocketKnown DEF SocketTypes, XmlRecords
<1>9. ListedIsTarget'
  BY <1>1, <1>5, <1>6, <1>7, SocketKnown DEF ListedIsTarget
<1>10. EventIsTold'
  BY <1>1, <1>6, <1>7, SocketKnown DEF EventIsTold
<1>11. BytesInOrder'
  BY <1>1, <1>6, <1>7, SendsInOrder
<1>12. MessagesAreIntact'
  BY <1>1, <1>6, <1>7, SocketKnown, ReceivesNothingKeeps DEF ReceivesNothing, EventIsTold
<1>13. EventFollows
  BY <1>1 DEF EventFollows
<1>14. QED
  BY <1>8, <1>9, <1>10, <1>11, <1>12, <1>13 DEF SocketStepKept, SocketKept

\* Steps of the stream that the socket does not notice.
LEMMA UnnoticedKeeps ==
    ASSUME SocketInv, UNCHANGED socketVars, UNCHANGED <<kind, told>>,
           stream'.target = stream.target, stream'.writable = stream.writable,
           stream'.state \in {"open", "connecting"} =>
             stream.state = stream'.state \/ stream.state = "connecting"
    PROVE  SocketStepKept
<1>1. UNCHANGED <<arrived, xml, full, event, received, delivered, sends, wire, kind, told>>
  BY DEF socketVars
<1>2. SocketTypes'
  BY <1>1, SocketKnown DEF SocketTypes, XmlRecords
<1>3. ListedIsTarget'
  BY <1>1, SocketKnown DEF ListedIsTarget
<1>4. EventIsTold'
  BY <1>1, SocketKnown DEF EventIsTold
<1>5. BytesInOrder'
  <2>1. stream.state = "connecting" => xml.send_queue.depth = 0
    BY SocketKnown, EmptyDepth DEF ListedIsTarget
  <2>2. QED
    BY <1>1, <2>1, SendsNothingKeeps DEF SendsNothing
<1>6. MessagesAreIntact'
  BY <1>1, SocketKnown, ReceivesNothingKeeps DEF ReceivesNothing, EventIsTold
<1>7. EventFollows
  BY <1>1 DEF EventFollows
<1>8. QED
  BY <1>2, <1>3, <1>4, <1>5, <1>6, <1>7 DEF SocketStepKept, SocketKept

LEMMA SocketCloseKeeps ==
    ASSUME SocketInv, SocketClose
    PROVE  SocketStepKept
<1>1. stream' \in Closings(stream) /\ UNCHANGED <<kind, told>> /\ UNCHANGED socketVars
  BY DEF SocketClose, CloseSocket
<1>2. /\ stream'.state = "closed" /\ stream'.target = stream.target
      /\ stream'.writable = stream.writable
  BY <1>1, SocketKnown, ClosingFacts
<1>3. QED
  BY <1>1, <1>2, UnnoticedKeeps

LEMMA UnconcernedKeeps ==
    ASSUME SocketInv, Unconcerned, UNCHANGED socketVars
    PROVE  SocketStepKept
<1>1. CASE Opened
  BY <1>1, UnnoticedKeeps DEF Opened
<1>2. CASE BackendOpen \/ BackendClose \/ BackendError
  <2>1. \/ stream' = stream
        \/ /\ stream' = QueueProcessing([stream EXCEPT !.state = "open"])
           /\ stream.state = "connecting"
        \/ stream' = QueueProcessing([stream EXCEPT !.state = "closed"])
        \/ stream' = QueueProcessing([stream EXCEPT !.state = "error"])
    BY <1>2 DEF BackendOpen, BackendClose, BackendError, Error
  <2>2. UNCHANGED <<kind, told>>
    BY <1>2 DEF BackendOpen, BackendClose, BackendError
  <2>3. \A v \in {"open", "closed", "error"} :
           LET q == QueueProcessing([stream EXCEPT !.state = v])
           IN  q.state = v /\ q.target = stream.target /\ q.writable = stream.writable
    BY SocketKnown, ReportFacts
  <2>4. /\ stream'.target = stream.target /\ stream'.writable = stream.writable
        /\ stream'.state \in {"open", "connecting"} =>
             stream.state = stream'.state \/ stream.state = "connecting"
    BY <2>1, <2>3
  <2>5. QED
    BY <2>2, <2>4, UnnoticedKeeps
<1>3. QED
  BY <1>1, <1>2 DEF Unconcerned

LEMMA WritableKeeps ==
    ASSUME SocketInv, Writable
    PROVE  SocketStepKept
<1>1. /\ stream.target = "set" /\ stream' = [stream EXCEPT !.writable = TRUE]
      /\ UNCHANGED <<kind, told>> /\ full' = FALSE
      /\ UNCHANGED <<arrived, xml, event, received, delivered, sends, wire>>
  BY DEF Writable, SignalWritable
<1>2. stream'.writable /\ stream'.target = stream.target /\ stream'.state = stream.state
  BY <1>1, SocketKnown DEF StreamFields
<1>3. SocketTypes'
  BY <1>1, SocketKnown DEF SocketTypes, XmlRecords
<1>4. ListedIsTarget'
  BY <1>1, <1>2, SocketKnown DEF ListedIsTarget
<1>5. EventIsTold'
  BY <1>1, SocketKnown DEF EventIsTold
<1>6. BytesInOrder'
  BY <1>1, <1>2, SocketKnown DEF BytesInOrder
<1>7. MessagesAreIntact'
  BY <1>1, SocketKnown, ReceivesNothingKeeps DEF ReceivesNothing, EventIsTold
<1>8. EventFollows
  BY <1>1 DEF EventFollows
<1>9. QED
  BY <1>3, <1>4, <1>5, <1>6, <1>7, <1>8 DEF SocketStepKept, SocketKept

LEMMA SocketWritesKeeps ==
    ASSUME SocketInv, SocketWrites
    PROVE  SocketStepKept
<1>1. /\ stream.writable /\ UNCHANGED <<kind, told>>
      /\ \/ stream' = [stream EXCEPT !.writable = FALSE]
         \/ stream' = [Error(stream) EXCEPT !.writable = FALSE]
      /\ UNCHANGED <<arrived, event, received, delivered, sends>>
  BY DEF SocketWrites, ProcessWritable
<1>2. stream.target = "set" /\ xml.listed
  BY <1>1, SocketKnown, Known DEF Counting, AssertionsHold, ListedIsTarget
<1>3. stream'.target = stream.target
  <2>1. Error(stream).target = stream.target /\ Error(stream) \in Streams
    BY SocketKnown, ReportFacts DEF Error
  <2>2. QED
    BY <1>1, <2>1, SocketKnown, FieldFacts DEF StreamFields
<1>4. /\ \E q \in Queues : xml' = [xml EXCEPT !.send_queue = q]
      /\ Going(wire', xml'.send_queue, sends')
      /\ wire' \in Seq(Nat) /\ full' \in BOOLEAN
      /\ xml'.send_queue.depth > 0 /\ stream'.state = "open" => full'
      /\ stream'.state = "connecting" => stream.state = "connecting" /\ UNCHANGED <<xml, wire>>
  <2>1. CASE stream.state = "open"
    <3>1. PICK write \in Writes(xml.send_queue) :
             /\ xml' = [xml EXCEPT !.send_queue = write.queue]
             /\ wire' = wire \o write.taken
             /\ full' = (full \/ write.end = "full")
             /\ stream'.state = IF write.end = "error" THEN "error" ELSE "open"
      BY <2>1 DEF SocketWrites, Took
    <3>2. /\ Going(wire \o write.taken, write.queue, sends)
          /\ write.end \in {"empty", "full", "error"}
          /\ write.end = "empty" => write.queue.depth = 0
          /\ write.queue \in Queues /\ wire \o write.taken \in Seq(Nat)
      BY <1>2, SocketKnown, WritesFacts
    <3>3. xml'.send_queue = write.queue
      BY <3>1, SocketKnown DEF XmlFields
    <3>4. full' \in BOOLEAN /\ (write.end = "full" => full')
      BY <3>1, SocketKnown
    <3>5. stream'.state = "open" => write.end \in {"empty", "full"}
      BY <3>1, <3>2
    <3>6. xml'.send_queue.depth > 0 /\ stream'.state = "open" => full'
      <4>1. write.end = "empty" => ~(write.queue.depth > 0)
        BY <3>2
      <4>2. QED
        BY <3>3, <3>4, <3>5, <4>1
    <3>7. Going(wire', xml'.send_queue, sends')
      BY <1>1, <3>1, <3>2, <3>3
    <3>8. \E q \in Queues : xml' = [xml EXCEPT !.send_queue = q]
      BY <3>1, <3>2
    <3>9. wire' \in Seq(Nat) /\ stream'.state # "connecting"
      BY <3>1, <3>2
    <3>10. QED
      BY <3>4, <3>6, <3>7, <3>8, <3>9
  <2>2. CASE stream.state # "open"
    <3>1. stream'.state = stream.state /\ UNCHANGED <<xml, wire, full>>
      BY <2>2 DEF SocketWrites
    <3>2. xml = [xml EXCEPT !.send_queue = xml.send_queue] /\ xml.send_queue \in Queues
      BY SocketKnown DEF XmlFields, XmlRecords
    <3>3. QED
      BY <1>1, <1>2, <2>2, <3>1, <3>2, SocketKnown
  <2>3. QED
    BY <2>1, <2>2
<1>5. /\ xml' \in XmlRecords /\ xml'.listed = xml.listed /\ xml'.open = xml.open
      /\ xml'.queue = xml.queue
  <2>1. PICK q \in Queues : xml' = [xml EXCEPT !.send_queue = q]
    BY <1>4
  <2>2. xml' \in XmlRecords
    BY <2>1, SocketKnown, XmlFacts
  <2>3. QED
    BY <2>1, <2>2, SocketKnown DEF XmlFields
<1>6. SocketTypes'
  BY <1>1, <1>4, <1>5, SocketKnown DEF SocketTypes, XmlRecords
<1>7. ListedIsTarget'
  BY <1>1, <1>2, <1>3, <1>4, <1>5, SocketKnown DEF ListedIsTarget
<1>8. EventIsTold'
  BY <1>1, <1>5, SocketKnown DEF EventIsTold
<1>9. BytesInOrder'
  BY <1>2, <1>4, <1>5, SendsInOrder
<1>10. MessagesAreIntact'
  BY <1>1, <1>5, SocketKnown, ReceivesNothingKeeps DEF ReceivesNothing, EventIsTold
<1>11. EventFollows
  BY <1>1 DEF EventFollows
<1>12. QED
  BY <1>6, <1>7, <1>8, <1>9, <1>10, <1>11 DEF SocketStepKept, SocketKept

LEMMA PushKeeps ==
    ASSUME SocketInv, Push
    PROVE  SocketStepKept
<1>1. PICK chunk \in Chunks :
         /\ BackendPush
         /\ IF stream.state = "open"
            THEN /\ arrived' = PushBuffer(arrived, chunk)
                 /\ received' = received \o chunk
            ELSE UNCHANGED <<arrived, received>>
         /\ UNCHANGED <<xml, full, event, delivered, sends, wire>>
  BY DEF Push
<1>2. Steady /\ told' = told
  BY <1>1, SocketKnown, SteadySteps DEF BackendPush
<1>3. chunk \in Strings
  BY <1>1, BytesAssumption DEF Strings
<1>4. PICK front : Sound(received, arrived, xml.queue, delivered, front)
  BY SocketKnown
<1>5. Sound(received', arrived', xml'.queue, delivered', front)
  <2>1. CASE stream.state = "open"
    <3>1. Sound(received \o chunk, PushBuffer(arrived, chunk), xml.queue, delivered, front)
      BY <1>3, <1>4, PushSound
    <3>2. QED
      BY <1>1, <2>1, <3>1
  <2>2. CASE stream.state # "open"
    BY <1>1, <1>4, <2>2
  <2>3. QED
    BY <2>1, <2>2
<1>6. IntactOf(received', arrived', xml'.queue, delivered')
      /\ received' \in Seq(Nat) /\ arrived' \in Queues
  BY <1>5, SoundIsIntact
<1>7. told = "close" => arrived' = arrived
  <2>1. pc = "idle"
    BY <1>1 DEF BackendPush
  <2>2. told = "close" => stream.state # "open"
    BY <2>1, SocketKnown, Known DEF Telling, ToldIsProcessed
  <2>3. QED
    BY <1>1, <2>2
<1>8. SocketTypes'
  BY <1>1, <1>6, SocketKnown DEF SocketTypes, XmlRecords
<1>9. ListedIsTarget'
  BY <1>1, <1>2, SocketKnown DEF ListedIsTarget, Steady
<1>10. EventIsTold'
  BY <1>1, <1>2, <1>7, SocketKnown DEF EventIsTold
<1>11. BytesInOrder'
  BY <1>1, <1>2, SendsNothingKeeps DEF SendsNothing, Steady
<1>12. MessagesAreIntact'
  BY <1>1, <1>2, <1>6, <1>10 DEF MessagesAreIntact, IntactOf, EventIsTold
<1>13. EventFollows
  BY <1>1 DEF EventFollows
<1>14. QED
  BY <1>8, <1>9, <1>10, <1>11, <1>12, <1>13 DEF SocketStepKept, SocketKept

LEMMA TakeKeeps ==
    ASSUME SocketInv, Take
    PROVE  SocketStepKept
<1> DEFINE buffer == PeekBuffer(arrived)
           len == IF Ends(buffer) = {} THEN Len(buffer) ELSE Min(Ends(buffer))
           queue == PushBuffer(xml.queue, Peek(arrived, len))
           message == Peek(queue, queue.depth)
           valid == Invalid \notin ToSet(message)
<1>1. /\ pc \in {"parse", "last parse"} /\ arrived.buffers # <<>>
      /\ arrived' = Flush(arrived, len)
      /\ UNCHANGED <<stream, kind, told, full, event, received, sends, wire>>
      /\ Ends(buffer) = {} => /\ xml' = [xml EXCEPT !.queue = queue, !.script = FALSE]
                              /\ delivered' = delivered
      /\ Ends(buffer) # {} =>
           /\ xml' = [xml EXCEPT !.queue = Flush(queue, queue.depth), !.script = valid]
           /\ delivered' = IF valid THEN Append(delivered, message) ELSE delivered
  BY DEF Take, Ends, vars
<1>2. told = "parse" /\ event = "onConnect(true)" /\ xml.open
  BY <1>1, SocketKnown, Known DEF Place, Callbacks, EventIsTold
<1>3. buffer \in Strings /\ Len(buffer) \in 1..Len(buffer) /\ Len(buffer) \in Nat
  <2>1. buffer \in Strings /\ Len(buffer) \in 1..arrived.depth /\ arrived.depth \in Nat
    BY <1>1, SocketKnown, HeadFacts, QueueFields
  <2>2. QED
    BY <2>1
<1>4. /\ len \in 1..Len(buffer)
      /\ Ends(buffer) = {} => NoEnd(buffer, len)
      /\ Ends(buffer) # {} => NoEnd(buffer, len - 1) /\ buffer[len] = Zero
  <2>1. CASE Ends(buffer) = {}
    <3>1. \A i \in 1..Len(buffer) : buffer[i] # Zero
      BY <2>1 DEF Ends
    <3>2. QED
      BY <1>3, <2>1, <3>1 DEF NoEnd
  <2>2. CASE Ends(buffer) # {}
    BY <1>3, <2>2, EndFacts
  <2>3. QED
    BY <2>1, <2>2
<1>5. PICK front : Sound(received, arrived, xml.queue, delivered, front)
  BY SocketKnown
<1> DEFINE behind == front \o SubSeq(buffer, 1, len)
           all == IF Invalid \in ToSet(message) THEN delivered ELSE Append(delivered, message)
<1>6. /\ NoEnd(buffer, len) =>
           Sound(received, Flush(arrived, len), queue, delivered, behind)
      /\ NoEnd(buffer, len - 1) /\ buffer[len] = Zero =>
           Sound(received, Flush(arrived, len), Flush(queue, queue.depth), all, behind)
  <2> HIDE DEF len
  <2>1. len \in 1..Len(PeekBuffer(arrived)) /\ queue = PushBuffer(xml.queue, Peek(arrived, len))
    BY <1>4
  <2> HIDE DEF queue
  <2>2. QED
    BY <1>1, <1>5, <2>1, TakeSound
<1> HIDE DEF buffer, len, queue, message, behind
\* In either case:
<1>7. \E q, b :
         /\ xml' = [xml EXCEPT !.queue = q, !.script = b] /\ b \in BOOLEAN
         /\ Sound(received, arrived', q, delivered', behind)
  <2>1. CASE Ends(buffer) = {}
    <3>1. Sound(received, arrived', queue, delivered', behind)
      BY <1>1, <1>4, <1>6, <2>1
    <3>2. QED
      BY <1>1, <2>1, <3>1
  <2>2. CASE Ends(buffer) # {}
    <3>1. delivered' = all
      BY <1>1, <2>2
    <3>2. Sound(received, arrived', Flush(queue, queue.depth), delivered', behind)
      <4> HIDE DEF all
      <4>1. QED
        BY <1>1, <1>4, <1>6, <2>2, <3>1
    <3>3. xml' = [xml EXCEPT !.queue = Flush(queue, queue.depth), !.script = valid]
          /\ valid \in BOOLEAN
      BY <1>1, <2>2
    <3> HIDE DEF valid
    <3>4. QED
      BY <3>2, <3>3
  <2>3. QED
    BY <2>1, <2>2
<1>8. PICK q, b : /\ xml' = [xml EXCEPT !.queue = q, !.script = b] /\ b \in BOOLEAN
                  /\ Sound(received, arrived', q, delivered', behind)
  BY <1>7
<1>9. /\ IntactOf(received, arrived', q, delivered') /\ q \in Queues
      /\ arrived' \in Queues /\ delivered' \in Seq(Seq(Nat))
  BY <1>8, SoundIsIntact
<1>10. /\ xml' \in XmlRecords /\ xml'.queue = q /\ xml'.listed = xml.listed
       /\ xml'.open = xml.open /\ xml'.send_queue = xml.send_queue
  <2>1. [xml EXCEPT !.queue = q] \in XmlRecords
    BY <1>9, SocketKnown, XmlFacts
  <2>2. [[xml EXCEPT !.queue = q] EXCEPT !.script = b] \in XmlRecords
    BY <1>8, <2>1, XmlFacts
  <2>3. xml' = [[xml EXCEPT !.queue = q] EXCEPT !.script = b]
    BY <1>8
  <2>4. QED
    BY <1>8, <2>2, <2>3, SocketKnown DEF XmlFields
<1>11. SocketTypes'
  BY <1>1, <1>9, <1>10, SocketKnown DEF SocketTypes, XmlRecords
<1>12. ListedIsTarget'
  BY <1>1, <1>10, SocketKnown DEF ListedIsTarget
<1>13. EventIsTold'
  BY <1>1, <1>2, <1>10 DEF EventIsTold
<1>14. BytesInOrder'
  BY <1>1, <1>10, SendsNothingKeeps DEF SendsNothing
<1>15. MessagesAreIntact'
  BY <1>1, <1>2, <1>9, <1>10 DEF MessagesAreIntact, IntactOf
<1>16. EventFollows
  BY <1>1, <1>2 DEF EventFollows
<1>17. QED
  BY <1>11, <1>12, <1>13, <1>14, <1>15, <1>16 DEF SocketStepKept, SocketKept

LEMMA SocketReturnKeeps ==
    ASSUME SocketInv, SocketReturn
    PROVE  SocketStepKept
<1>1. /\ arrived.buffers = <<>> /\ Parsed
      /\ xml' = [xml EXCEPT !.script = FALSE]
      /\ event' = IF pc' = "close" THEN "onClose" ELSE event
      /\ UNCHANGED <<arrived, full, received, delivered, sends, wire>>
  BY DEF SocketReturn, Report
<1>2. /\ told = "parse" /\ (\/ pc' = "idle" /\ told' = told
                            \/ pc' = "close" /\ told' = "close")
  BY <1>1, SocketKnown, ParsedFacts
<1>3. Steady
  BY <1>1, SocketKnown, SteadySteps
<1>4. event = "onConnect(true)" /\ xml.open
  BY <1>2, SocketKnown DEF EventIsTold
<1>5. /\ xml' \in XmlRecords /\ xml'.listed = xml.listed /\ xml'.open = xml.open
      /\ xml'.queue = xml.queue /\ xml'.send_queue = xml.send_queue
  <2>1. xml' \in XmlRecords
    BY <1>1, SocketKnown, XmlFacts
  <2>2. QED
    BY <1>1, <2>1, SocketKnown DEF XmlFields
<1>6. SocketTypes'
  BY <1>1, <1>5, SocketKnown DEF SocketTypes, XmlRecords
<1>7. ListedIsTarget'
  BY <1>1, <1>3, <1>5, SocketKnown DEF ListedIsTarget, Steady
<1>8. EventIsTold'
  BY <1>1, <1>2, <1>4, <1>5 DEF EventIsTold
<1>9. BytesInOrder'
  BY <1>1, <1>3, <1>5, SendsNothingKeeps DEF SendsNothing, Steady
<1>10. MessagesAreIntact'
  BY <1>1, <1>5, ReceivesNothingKeeps DEF ReceivesNothing
<1>11. EventFollows
  BY <1>1, <1>4 DEF EventFollows
<1>12. QED
  BY <1>6, <1>7, <1>8, <1>9, <1>10, <1>11 DEF SocketStepKept, SocketKept

LEMMA SocketFailKeeps ==
    ASSUME SocketInv, SocketFail
    PROVE  SocketStepKept
<1>1. /\ Process /\ event' = IF pc' = "error" THEN ErrorEvent ELSE event
      /\ UNCHANGED <<arrived, xml, full, received, delivered, sends, wire>>
  BY DEF SocketFail, Report
<1>2. \/ pc' \in {"idle", "loop"} /\ told' = told
      \/ pc' = "error" /\ told' = "error" /\ told \in {"nothing", "open", "parse"}
  BY <1>1, SocketKnown, ProcessFacts
<1>3. Steady
  BY <1>1, SocketKnown, SteadySteps
<1>4. \/ event' = event /\ told' = told
      \/ /\ told' = "error"
         /\ <<event, event'>> \in {<<"none", "onConnect(false)">>,
                                   <<"onConnect(true)", "onClose">>}
  BY <1>1, <1>2, SocketKnown DEF EventIsTold, ErrorEvent
<1>5. SocketTypes'
  BY <1>1, SocketKnown DEF SocketTypes, XmlRecords
<1>6. ListedIsTarget'
  BY <1>1, <1>3, SocketKnown DEF ListedIsTarget, Steady
<1>7. EventIsTold'
  BY <1>1, <1>4, SocketKnown DEF EventIsTold
<1>8. BytesInOrder'
  BY <1>1, <1>3, SendsNothingKeeps DEF SendsNothing, Steady
<1>9. MessagesAreIntact'
  BY <1>1, <1>4, SocketKnown, ReceivesNothingKeeps DEF ReceivesNothing, EventIsTold
<1>10. EventFollows
  BY <1>1, <1>4 DEF EventFollows
<1>11. QED
  BY <1>5, <1>6, <1>7, <1>8, <1>9, <1>10 DEF SocketStepKept, SocketKept

LEMMA SocketStepKeeps ==
    ASSUME SocketInv, SocketStep
    PROVE  SocketStepKept
<1>1. /\ Loop
      /\ pc' = "open" => xml' = [xml EXCEPT !.open = TRUE] /\ event' = "onConnect(true)"
      /\ pc' # "open" => UNCHANGED <<xml, event>>
      /\ UNCHANGED <<arrived, full, received, delivered, sends, wire>>
  BY DEF SocketStep, Report
<1>2. \/ pc' = "open" /\ told = "nothing" /\ told' = "open"
      \/ /\ pc' \in {"parse", "last parse"} /\ told \in {"open", "parse"}
         /\ told' = "parse"
      \/ pc' = "idle" /\ told' = told
  BY <1>1, SocketKnown, LoopFacts
<1>3. Steady
  BY <1>1, SocketKnown, SteadySteps
<1>4. /\ xml' \in XmlRecords /\ xml'.listed = xml.listed
      /\ xml'.queue = xml.queue /\ xml'.send_queue = xml.send_queue
      /\ pc' = "open" => xml'.open
      /\ pc' # "open" => xml'.open = xml.open
  <2>1. xml' \in XmlRecords
    BY <1>1, SocketKnown, XmlFacts
  <2>2. CASE pc' = "open"
    BY <1>1, <2>1, <2>2, SocketKnown DEF XmlFields
  <2>3. CASE pc' # "open"
    BY <1>1, <2>1, <2>3
  <2>4. QED
    BY <2>2, <2>3
<1>5. SocketTypes'
  BY <1>1, <1>4, SocketKnown DEF SocketTypes, XmlRecords
<1>6. ListedIsTarget'
  BY <1>1, <1>3, <1>4, SocketKnown DEF ListedIsTarget, Steady
<1>7. EventIsTold'
  BY <1>1, <1>2, <1>4, SocketKnown DEF EventIsTold
<1>8. BytesInOrder'
  BY <1>1, <1>3, <1>4, SendsNothingKeeps DEF SendsNothing, Steady
<1>9. MessagesAreIntact'
  BY <1>1, <1>2, <1>4, SocketKnown, ReceivesNothingKeeps DEF ReceivesNothing, EventIsTold
<1>10. EventFollows
  BY <1>1, <1>2, SocketKnown DEF EventFollows, EventIsTold
<1>11. QED
  BY <1>5, <1>6, <1>7, <1>8, <1>9, <1>10 DEF SocketStepKept, SocketKept

LEMMA EnsureClosedKeeps ==
    ASSUME SocketInv, EnsureClosed
    PROVE  SocketStepKept
<1>1. /\ Ended
      /\ xml' = [xml EXCEPT !.listed = FALSE, !.send_queue = EmptyQueue]
      /\ UNCHANGED <<arrived, full, event, received, delivered, sends, wire>>
  BY DEF EnsureClosed
<1>2. stream' = Drop(stream) /\ UNCHANGED <<kind, told>>
  BY <1>1, SocketKnown DEF Ended
<1>3. stream'.target = "dropped" /\ stream'.state = stream.state
  BY <1>2, SocketKnown, DropFacts
<1>4. /\ xml' \in XmlRecords /\ ~xml'.listed /\ xml'.open = xml.open
      /\ xml'.queue = xml.queue /\ xml'.send_queue = EmptyQueue
  <2>1. [xml EXCEPT !.listed = FALSE] \in XmlRecords
    BY SocketKnown, XmlFacts
  <2>2. [[xml EXCEPT !.listed = FALSE] EXCEPT !.send_queue = EmptyQueue] \in XmlRecords
    BY <2>1, XmlFacts, EmptyDepth
  <2>3. xml' = [[xml EXCEPT !.listed = FALSE] EXCEPT !.send_queue = EmptyQueue]
    BY <1>1
  <2>4. QED
    BY <1>1, <2>2, <2>3, SocketKnown DEF XmlFields
<1>5. SocketTypes'
  BY <1>1, <1>4, SocketKnown DEF SocketTypes, XmlRecords
<1>6. ListedIsTarget'
  BY <1>1, <1>2, <1>3, <1>4, SocketKnown DEF ListedIsTarget
<1>7. EventIsTold'
  BY <1>1, <1>2, <1>4, SocketKnown DEF EventIsTold
<1>8. BytesInOrder'
  <2>1. IsPrefix(wire', Sent[sends'])
    BY <1>1, SocketKnown DEF BytesInOrder
  <2>2. ~(xml'.send_queue.depth > 0)
    BY <1>4, EmptyDepth
  <2>3. QED
    BY <1>4, <2>1, <2>2, SendsInOrder
<1>9. MessagesAreIntact'
  BY <1>1, <1>2, <1>4, SocketKnown, ReceivesNothingKeeps DEF ReceivesNothing, EventIsTold
<1>10. EventFollows
  BY <1>1 DEF EventFollows
<1>11. QED
  BY <1>5, <1>6, <1>7, <1>8, <1>9, <1>10 DEF SocketStepKept, SocketKept

\* What a socket does are steps of its stream.
LEMMA SocketSteps ==
    ASSUME [SocketNext]_allSocketVars
    PROVE  [Next]_vars
<1>1. CASE UNCHANGED allSocketVars
  BY <1>1 DEF allSocketVars
<1>2. CASE Connect \/ SocketClose
  BY <1>2 DEF Connect, SocketClose, Next, Target
<1>3. CASE Send
  <2>1. SendFails \/ UNCHANGED vars
    BY <1>3 DEF Send, DoWrite
  <2>2. QED
    BY <2>1 DEF Next, Target
<1>4. CASE Writable \/ Push
  BY <1>4 DEF Writable, Push, Next, Backend
<1>5. CASE Take
  BY <1>5 DEF Take
<1>6. CASE SocketWrites \/ SocketReturn \/ SocketFail \/ SocketStep \/ EnsureClosed
  BY <1>6 DEF SocketWrites, SocketReturn, SocketFail, SocketStep, EnsureClosed, Next, Action
<1>7. CASE Unconcerned
  BY <1>7 DEF Unconcerned, Next, Backend, Action
<1>8. QED
  BY <1>1, <1>2, <1>3, <1>4, <1>5, <1>6, <1>7 DEF SocketNext

LEMMA SocketNextKeeps ==
    ASSUME SocketInv, [SocketNext]_allSocketVars
    PROVE  SocketStepKept
<1>1. CASE UNCHANGED allSocketVars
  <2>1. UNCHANGED socketVars /\ UNCHANGED <<kind, told>> /\ stream' = stream
    BY <1>1 DEF allSocketVars, vars
  <2>2. QED
    BY <2>1, UnnoticedKeeps
<1>2. CASE SocketNext
  BY <1>2, ConnectKeeps, SendKeeps, SocketCloseKeeps, WritableKeeps, SocketWritesKeeps,
     PushKeeps, TakeKeeps, SocketReturnKeeps, SocketFailKeeps, SocketStepKeeps,
     EnsureClosedKeeps, UnconcernedKeeps DEF SocketNext
<1>3. QED
  BY <1>1, <1>2

LEMMA SocketInitInv ==
    ASSUME SocketInit
    PROVE  SocketInv
<1>1. IInv /\ Init /\ kind = "socket"
  BY InitInvariant DEF SocketInit
<1>2. /\ arrived = EmptyQueue /\ full = FALSE /\ event = "none" /\ received = <<>>
      /\ delivered = <<>> /\ sends = 0 /\ wire = <<>>
      /\ xml = [listed |-> FALSE, open |-> FALSE, queue |-> EmptyQueue,
                send_queue |-> EmptyQueue, script |-> FALSE]
  BY DEF SocketInit
<1>3. told = "nothing" /\ stream.target = "none"
  BY <1>1 DEF Init
<1>4. /\ EmptyQueue.depth = 0 /\ WellFormed(EmptyQueue) /\ EmptyQueue \in Queues
      /\ EmptyQueue.buffers = <<>> /\ Queue(EmptyQueue) /\ Contents(EmptyQueue) = <<>>
  BY EmptyDepth, EmptyFacts DEF EmptyQueue
<1>5. SocketTypes
  <2>1. 0 \in 0..MaxSends
    BY BytesAssumption
  <2>2. xml \in XmlRecords
    BY <1>2, <1>4 DEF XmlRecords
  <2>3. <<>> \in Seq(Nat) /\ <<>> \in Seq(Seq(Nat))
    OBVIOUS
  <2>4. QED
    BY <1>2, <1>4, <2>1, <2>2, <2>3 DEF SocketTypes, XmlRecords
<1>6. ListedIsTarget
  BY <1>1, <1>2, <1>3 DEF ListedIsTarget
<1>7. EventIsTold
  BY <1>2, <1>3, <1>4 DEF EventIsTold
<1>8. BytesInOrder
  <2>1. IsPrefix(<<>>, Sent[0])
    <3>1. 0 \in 0..MaxSends /\ <<>> \o Contents(EmptyQueue) = Sent[0]
      BY <1>4, BytesAssumption, SentFacts, StringFacts
    <3>2. Going(<<>>, EmptyQueue, 0)
      BY <1>4, <3>1, StringFacts DEF Going, EmptyQueue
    <3>3. QED
      BY <3>2, GoingFacts
  <2>2. /\ xml.send_queue = EmptyQueue /\ ~xml.listed
    BY <1>2
  <2>3. QED
    BY <1>2, <1>4, <2>1, <2>2 DEF BytesInOrder
<1>9. MessagesAreIntact
  <2>1. Reading(<<>>)[0] = [messages |-> <<>>, rest |-> <<>>]
    BY StringFacts, ReadingFacts DEF IsReading
  <2>2. Sound(<<>>, EmptyQueue, EmptyQueue, <<>>, <<>>)
    <3>1. Reading(<<>>)[0].messages = <<>> /\ Reading(<<>>)[0].rest = <<>>
      BY <2>1
    <3>2. Len(<<>>) = 0 /\ <<>> \in Strings /\ <<>> \o <<>> = <<>>
      BY StringFacts
    <3>3. QED
      BY <1>4, <3>1, <3>2 DEF Sound
  <2>3. IntactOf(<<>>, EmptyQueue, EmptyQueue, <<>>)
    BY <2>2, SoundIsIntact
  <2>4. xml.queue = EmptyQueue
    BY <1>2
  <2>5. QED
    BY <1>2, <1>3, <2>3, <2>4 DEF MessagesAreIntact, IntactOf
<1>10. QED
  BY <1>1, <1>5, <1>6, <1>7, <1>8, <1>9 DEF SocketInv

-----------------------------------------------------------------------------
(* XML sockets: the theorems *)

\* What a socket has sent and read, its queues and the events that scripts got
\* agree with its stream in every reachable state, for any bytes, any way to cut
\* them into buffers and any number of calls of send.
THEOREM SocketInvariance == SocketSpec => []SocketInv
<1>1. SocketInit => SocketInv
  BY SocketInitInv
<1>2. SocketInv /\ [SocketNext]_allSocketVars => SocketInv'
  <2> SUFFICES ASSUME SocketInv, [SocketNext]_allSocketVars PROVE SocketInv'
    OBVIOUS
  <2>1. IInv'
    BY SocketKnown, SocketSteps, NextKeeps
  <2>2. SocketStepKept
    BY SocketNextKeeps
  <2>3. QED
    BY <2>1, <2>2 DEF SocketStepKept, SocketKept, SocketInv
<1>3. QED
  BY <1>1, <1>2, PTL DEF SocketSpec

\* A socket takes only steps that a stream and its target may take, so that all
\* that is proved of streams holds for its stream.
THEOREM SocketIsTarget == SocketSpec => Init /\ [][Next]_vars
<1>1. SocketInit => Init
  BY DEF SocketInit
<1>2. [SocketNext]_allSocketVars => [Next]_vars
  BY SocketSteps
<1>3. QED
  BY <1>1, <1>2, PTL DEF SocketSpec

\* Nothing that scripts send is lost, sent twice or overtaken, and what waits will
\* be sent (swfdec_xml_socket_send and _do_write).
THEOREM BytesAlwaysInOrder == SocketSpec => []BytesInOrder
<1>1. SocketInv => BytesInOrder
  BY DEF SocketInv
<1>2. QED
  BY <1>1, SocketInvariance, PTL

\* Scripts get the messages that arrived, however the bytes were cut into buffers
\* (swfdec_xml_socket_stream_target_parse).
THEOREM MessagesAlwaysIntact == SocketSpec => []MessagesAreIntact
<1>1. SocketInv => MessagesAreIntact
  BY DEF SocketInv
<1>2. QED
  BY <1>1, SocketInvariance, PTL

\* onConnect comes once and first, data and onClose only if it connected.
THEOREM ConnectionEvents == SocketSpec => EventsInOrder
<1>1. SocketInv /\ [SocketNext]_allSocketVars => [EventFollows]_allSocketVars
  BY SocketNextKeeps DEF SocketStepKept
<1>2. [EventFollows]_allSocketVars =>
        [event' # event => <<event, event'>> \in
           {<<"none", "onConnect(true)">>, <<"none", "onConnect(false)">>,
            <<"onConnect(true)", "onClose">>}]_allSocketVars
  BY DEF EventFollows
<1>3. [EventFollows]_allSocketVars =>
        [delivered' # delivered => event = "onConnect(true)"]_allSocketVars
  BY DEF EventFollows
<1>4. QED
  BY <1>1, <1>2, <1>3, SocketInvariance, PTL DEF SocketSpec, EventsInOrder
=====
