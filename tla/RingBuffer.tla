---------------------------- MODULE RingBuffer ----------------------------
(***************************************************************************)
(* swfdec_ringbuffer.c: the circular array behind the player's four action *)
(* queues and its queue of external actions.  It never moves an element    *)
(* except in swfdec_ring_buffer_set_size, which has to open a gap in the   *)
(* middle of a wrapped buffer.                                             *)
(*                                                                         *)
(* Callers write an element through the pointer swfdec_ring_buffer_push    *)
(* returns before they do anything else with the buffer, so Push takes the *)
(* value.  Memory that malloc or realloc hands out uninitialised is Junk.  *)
(***************************************************************************)
EXTENDS Integers, Sequences

CONSTANTS
    Values,         \* the elements that users of the buffer store
    Junk,           \* the content of memory nobody wrote yet
    InitialSizes,   \* sizes swfdec_ring_buffer_new is called with
    MaxSize         \* bound: no buffer is grown beyond this size

ASSUME SizeAssumption == /\ InitialSizes \subseteq Nat \ {0, 1}
                         /\ MaxSize \in Nat
ASSUME JunkAssumption == Junk \notin Values

VARIABLES
    data,           \* the array, indexed from 0
    size,           \* its length
    head,           \* index of the oldest element
    tail,           \* index of the next free slot
    n_elements      \* how many slots are in use

vars == <<data, size, head, tail, n_elements>>

Init == /\ size \in InitialSizes
        /\ data = [i \in 0 .. size - 1 |-> Junk]
        /\ head = 0
        /\ tail = 0
        /\ n_elements = 0

\* The index reached by walking d slots on from slot i of a buffer of s slots.
Step(i, d, s) == (i + d) % s

\* swfdec_ring_buffer_peek_nth, for id < n_elements.
PeekNth(id) == data[Step(head, id, size)]

\* Whether growing has to move the part of the buffer from head to the end.
Wrapped == tail <= head /\ n_elements > 0

SetSize(new_size) ==
    LET gap == new_size - size
    IN  /\ size < new_size
        /\ new_size <= MaxSize
        /\ data' = [i \in 0 .. new_size - 1 |->
                      IF Wrapped /\ i >= head + gap THEN data[i - gap]
                      ELSE IF i < size THEN data[i] ELSE Junk]
        /\ head' = IF Wrapped THEN head + gap ELSE head
        /\ size' = new_size
        /\ UNCHANGED <<tail, n_elements>>

\* Operators named Wrong... are faulty variants of the one that follows them:
\* each is what one of the properties below rules out.
WrongPush(v) == /\ data' = [data EXCEPT ![tail] = v]
                /\ tail' = Step(tail, 1, size)
                /\ n_elements' = n_elements + 1
                /\ UNCHANGED <<size, head>>

Push(v) == /\ n_elements # size
           /\ data' = [data EXCEPT ![tail] = v]
           /\ tail' = Step(tail, 1, size)
           /\ n_elements' = n_elements + 1
           /\ UNCHANGED <<size, head>>

Pop == /\ n_elements # 0
       /\ head' = Step(head, 1, size)
       /\ n_elements' = n_elements - 1
       /\ UNCHANGED <<data, size, tail>>

Next == \/ \E v \in Values : Push(v)
        \/ Pop
        \/ \E new_size \in 0 .. MaxSize : SetSize(new_size)

Spec == Init /\ [][Next]_vars

-----------------------------------------------------------------------------
(* Properties *)

\* The elements in the buffer, oldest first, as peek_nth returns them.
Contents == [i \in 1 .. n_elements |-> PeekNth(i - 1)]

\* Every variable has its type: the indices stay inside the array that is
\* allocated for the current size (swfdec_ring_buffer_push, _pop, _set_size).
TypeOK == /\ size \in Nat \ {0}
          /\ head \in 0 .. size - 1
          /\ tail \in 0 .. size - 1
          /\ n_elements \in 0 .. size
          /\ data \in [0 .. size - 1 -> Values \cup {Junk}]

\* head, tail and n_elements are redundant and always agree, also after
\* set_size shifted the head of a wrapped buffer.
IndicesAgree == tail = Step(head, n_elements, size)

\* No element that can be peeked at or popped is memory nobody wrote.
NoJunk == \A i \in DOMAIN Contents : Contents[i] \in Values

\* The buffer behaves as a first-in first-out queue: no operation, growing in
\* particular, loses, duplicates or reorders an element.
Fifo == INSTANCE BoundedFifo WITH queue <- Contents, capacity <- size
ImplementsFifo == Fifo!Spec
=============================================================================
