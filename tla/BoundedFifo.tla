---------------------------- MODULE BoundedFifo ----------------------------
(***************************************************************************)
(* What SwfdecRingBuffer promises to its users: a first-in first-out queue *)
(* with a capacity that only ever grows.  A push on a full queue and a pop *)
(* of an empty one change nothing, which is a stuttering step here.        *)
(***************************************************************************)
EXTENDS Naturals, Sequences

CONSTANT Values     \* what the queue holds

VARIABLES
    queue,          \* the elements, oldest first
    capacity        \* how many of them fit

vars == <<queue, capacity>>

Init == /\ queue = <<>>
        /\ capacity \in Nat \ {0, 1}

Push(v) == /\ Len(queue) < capacity
           /\ queue' = Append(queue, v)
           /\ UNCHANGED capacity

Pop == /\ queue # <<>>
       /\ queue' = Tail(queue)
       /\ UNCHANGED capacity

Grow == /\ capacity' \in Nat
        /\ capacity' > capacity
        /\ UNCHANGED queue

Next == \/ \E v \in Values : Push(v)
        \/ Pop
        \/ Grow

Spec == Init /\ [][Next]_vars
=============================================================================
