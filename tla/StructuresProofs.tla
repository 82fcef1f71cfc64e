--------------------------- MODULE StructuresProofs ---------------------------
(***************************************************************************)
(* Proofs about structures that call nobody back.  SwfdecRingBuffer,       *)
(* for every element type, every initial size and every way to grow: the   *)
(* indices agree, nothing uninitialised is ever handed out, and the buffer *)
(* implements a first-in first-out queue.  The cache of pictures, for all  *)
(* images, streams, variants and sizes: its sum, its order of use and the  *)
(* lists that the renderer searches agree.  The tags of a Flash video      *)
(* file, for any number of them in any order: they are kept, and found by  *)
(* bisection if they come in order.  The text field and its buffer, for    *)
(* all texts, formats and kinds of attributes: the formats stay sound, and *)
(* what is shown changes as if every byte had attributes of its own.  What *)
(* movies look like, for all trees, shapes and places: the three states of *)
(* the cached extents agree, and every point that changed is drawn again.  *)
(***************************************************************************)
EXTENDS RingBuffer, Cache, FlvDecoder, TextField, Drawing, SequenceTheorems, NaturalsInduction,
        WellFoundedInduction, FiniteSetTheorems, TLAPS

-----------------------------------------------------------------------------
(* Walking around the buffer *)

\* A walk of at most one round either stays below the end of the array or
\* wraps once: the meaning of "(i + d) % size" in every buffer operation.
LEMMA StepCases ==
    \A s \in Nat \ {0} : \A i \in 0 .. s - 1, d \in 0 .. s :
        Step(i, d, s) = IF i + d < s THEN i + d ELSE i + d - s
BY SMT DEF Step

\* The inductive invariant: the indices of the buffer agree and every slot
\* between head and tail has been written by a push.
IInv == /\ TypeOK
        /\ IndicesAgree
        /\ \A k \in 0 .. n_elements - 1 : PeekNth(k) \in Values

LEMMA InitIInv == Init => IInv
<1> SUFFICES ASSUME Init PROVE IInv
  OBVIOUS
<1>1. size \in Nat \ {0}
  BY SizeAssumption DEF Init
<1>2. TypeOK
  BY <1>1 DEF Init, TypeOK
<1>3. IndicesAgree
  BY <1>1, StepCases DEF Init, IndicesAgree
<1>4. \A k \in 0 .. n_elements - 1 : PeekNth(k) \in Values
  BY DEF Init
<1>5. QED
  BY <1>2, <1>3, <1>4 DEF IInv

\* What the invariant says of the indices, in the form the arithmetic needs.
Indices == /\ size \in Nat \ {0}
           /\ head \in 0 .. size - 1
           /\ tail \in 0 .. size - 1
           /\ n_elements \in 0 .. size
           /\ data \in [0 .. size - 1 -> Values \cup {Junk}]
           /\ tail = IF head + n_elements < size
                     THEN head + n_elements ELSE head + n_elements - size

LEMMA IndexFacts == IInv => Indices
<1> SUFFICES ASSUME IInv PROVE Indices
  OBVIOUS
<1>1. /\ size \in Nat \ {0} /\ head \in 0 .. size - 1 /\ tail \in 0 .. size - 1
      /\ n_elements \in 0 .. size
      /\ data \in [0 .. size - 1 -> Values \cup {Junk}]
  BY DEF IInv, TypeOK
<1>2. tail = IF head + n_elements < size
             THEN head + n_elements ELSE head + n_elements - size
  BY <1>1, StepCases DEF IInv, IndicesAgree
<1>3. QED
  BY <1>1, <1>2 DEF Indices

\* The elements of the buffer form a sequence of written values.
ContentsTyped == Contents \in Seq(Values) /\ Len(Contents) = n_elements

LEMMA ContentsFacts == IInv => ContentsTyped
<1> SUFFICES ASSUME IInv PROVE ContentsTyped
  OBVIOUS
<1>1. n_elements \in Nat
  BY IndexFacts DEF Indices
<1>2. Contents \in [1 .. n_elements -> Values]
  BY <1>1 DEF IInv, Contents
<1>3. QED
  BY <1>1, <1>2, SeqDef DEF ContentsTyped

\* A push appends to the elements and keeps the invariant.
LEMMA PushStep ==
    ASSUME IInv, NEW v \in Values, Push(v)
    PROVE  IInv' /\ n_elements < size /\ Contents' = Append(Contents, v)
<1> USE DEF Push
<1>1. Indices
  BY IndexFacts
<1>2. n_elements \in 0 .. size - 1 /\ n_elements' \in 1 .. size
  BY <1>1 DEF Indices
<1>3. tail' = IF tail + 1 < size THEN tail + 1 ELSE tail + 1 - size
  BY <1>1, 1 \in 0 .. size, StepCases DEF Indices
<1>4. TypeOK'
  BY <1>1, <1>2, <1>3 DEF TypeOK, Indices
<1>5. IndicesAgree'
  <2>1. n_elements + 1 \in 0 .. size
    BY <1>1, <1>2 DEF Indices
  <2>2. Step(head, n_elements + 1, size)
          = IF head + n_elements + 1 < size THEN head + n_elements + 1
            ELSE head + n_elements + 1 - size
    BY <1>1, <2>1, StepCases DEF Indices
  <2>3. QED
    BY <1>1, <1>2, <1>3, <2>2 DEF IndicesAgree, Indices
<1>6. \A k \in 0 .. n_elements : PeekNth(k)'
                                   = IF k = n_elements THEN v ELSE PeekNth(k)
  <2> SUFFICES ASSUME NEW k \in 0 .. n_elements
               PROVE  PeekNth(k)' = IF k = n_elements THEN v ELSE PeekNth(k)
    OBVIOUS
  <2>1. k \in 0 .. size
    BY <1>1, <1>2 DEF Indices
  <2>2. Step(head, k, size)
          = IF head + k < size THEN head + k ELSE head + k - size
    BY <1>1, <2>1, StepCases DEF Indices
  <2>3. /\ Step(head, k, size) \in 0 .. size - 1
        /\ Step(head, k, size) = tail <=> k = n_elements
    BY <1>1, <1>2, <2>2 DEF Indices
  <2>4. PeekNth(k)' = data'[Step(head, k, size)]
    BY DEF PeekNth
  <2>5. QED
    BY <1>1, <2>3, <2>4 DEF PeekNth, Indices
<1>7. IInv'
  BY <1>1, <1>2, <1>4, <1>5, <1>6 DEF IInv, Indices
<1>8. Contents' = Append(Contents, v)
  <2>1. Contents' \in Seq(Values) /\ Len(Contents') = n_elements + 1
    <3>1. ContentsTyped'
      BY <1>7, ContentsFacts, PTL
    <3>2. QED
      BY <3>1 DEF ContentsTyped
  <2>2. Contents \in Seq(Values) /\ Len(Contents) = n_elements
    BY ContentsFacts DEF ContentsTyped
  <2>3. \A i \in 1 .. n_elements + 1 : Contents'[i] = PeekNth(i - 1)'
    BY <1>1 DEF Contents, Indices
  <2>4. \A i \in 1 .. n_elements : Contents[i] = PeekNth(i - 1)
    BY DEF Contents
  <2>5. \A i \in 1 .. n_elements + 1 : Contents'[i] = Append(Contents, v)[i]
    BY <1>1, <1>6, <2>2, <2>3, <2>4 DEF Indices
  <2>6. Append(Contents, v) \in Seq(Values)
        /\ Len(Append(Contents, v)) = n_elements + 1
    BY <2>2
  <2>7. QED
    BY <2>1, <2>5, <2>6, SeqEqual
<1>9. QED
  BY <1>1, <1>2, <1>7, <1>8 DEF Indices

\* A pop removes the oldest element and keeps the invariant.
LEMMA PopStep ==
    ASSUME IInv, Pop
    PROVE  IInv' /\ Contents # <<>> /\ Contents' = Tail(Contents)
<1> USE DEF Pop
<1>1. Indices
  BY IndexFacts
<1>2. n_elements \in 1 .. size /\ n_elements' \in 0 .. size - 1
  BY <1>1 DEF Indices
<1>3. head' = IF head + 1 < size THEN head + 1 ELSE head + 1 - size
  BY <1>1, 1 \in 0 .. size, StepCases DEF Indices
<1>4. TypeOK'
  BY <1>1, <1>2, <1>3 DEF TypeOK, Indices
<1>5. \A k \in 0 .. n_elements - 1 : Step(head', k, size) = Step(head, k + 1, size)
  <2> SUFFICES ASSUME NEW k \in 0 .. n_elements - 1
               PROVE  Step(head', k, size) = Step(head, k + 1, size)
    OBVIOUS
  <2>1. k \in 0 .. size /\ k + 1 \in 0 .. size /\ head' \in 0 .. size - 1
    BY <1>1, <1>2, <1>3 DEF Indices
  <2>2. Step(head, k + 1, size)
          = IF head + k + 1 < size THEN head + k + 1 ELSE head + k + 1 - size
    BY <1>1, <2>1, StepCases DEF Indices
  <2>3. Step(head', k, size)
          = IF head' + k < size THEN head' + k ELSE head' + k - size
    BY <1>1, <2>1, StepCases DEF Indices
  <2>4. QED
    BY <1>1, <1>2, <1>3, <2>1, <2>2, <2>3 DEF Indices
<1>6. IndicesAgree'
  <2>1. Step(head', n_elements - 1, size) = Step(head, n_elements, size)
    BY <1>1, <1>2, <1>5 DEF Indices
  <2>2. QED
    BY <2>1 DEF IndicesAgree, IInv
<1>7. \A k \in 0 .. n_elements - 2 : PeekNth(k)' = PeekNth(k + 1)
  BY <1>1, <1>2, <1>5 DEF PeekNth, Indices
<1>8. IInv'
  BY <1>1, <1>2, <1>4, <1>6, <1>7 DEF IInv, Indices
<1>9. Contents # <<>> /\ Contents' = Tail(Contents)
  <2>1. Contents' \in Seq(Values) /\ Len(Contents') = n_elements - 1
    <3>1. ContentsTyped'
      BY <1>8, ContentsFacts, PTL
    <3>2. QED
      BY <3>1 DEF ContentsTyped
  <2>2. Contents \in Seq(Values) /\ Len(Contents) = n_elements
    BY ContentsFacts DEF ContentsTyped
  <2>3. /\ Tail(Contents) \in Seq(Values)
        /\ Len(Tail(Contents)) = n_elements - 1
        /\ \A i \in 1 .. n_elements - 1 : Tail(Contents)[i] = Contents[i + 1]
    BY <1>2, <2>2, HeadTailProperties
  <2>4. \A i \in 1 .. n_elements - 1 : Contents'[i] = PeekNth(i - 1)'
    BY <1>1 DEF Contents, Indices
  <2>5. \A i \in 1 .. n_elements - 1 : Contents[i + 1] = PeekNth(i)
    BY <1>1 DEF Contents, Indices
  <2>6. \A i \in 1 .. n_elements - 1 : Contents'[i] = Tail(Contents)[i]
    BY <1>1, <1>7, <2>3, <2>4, <2>5 DEF Indices
  <2>7. QED
    BY <1>2, <2>1, <2>2, <2>3, <2>6, SeqEqual
<1>10. QED
  BY <1>8, <1>9

\* Growing the array keeps every element where peek_nth finds it: of a wrapped
\* buffer the part from head on moves by exactly the number of new slots.
LEMMA SetSizeStep ==
    ASSUME IInv, NEW new_size \in 0 .. MaxSize, SetSize(new_size)
    PROVE  IInv' /\ size' > size /\ size' \in Nat /\ Contents' = Contents
<1> USE DEF SetSize
<1>1. Indices
  BY IndexFacts
<1>2. new_size \in Nat /\ size' = new_size /\ size < new_size
  BY SizeAssumption
<1>3. TypeOK'
  BY <1>1, <1>2 DEF TypeOK, Indices, Wrapped
<1>4. \A k \in 0 .. n_elements :
          Step(head', k, new_size)
            = IF head' + k < new_size THEN head' + k ELSE head' + k - new_size
  <2>1. head' \in 0 .. new_size - 1
    BY <1>2, <1>3 DEF TypeOK
  <2>2. n_elements \in 0 .. new_size /\ new_size \in Nat \ {0}
    BY <1>1, <1>2 DEF Indices
  <2>3. QED
    BY <2>1, <2>2, StepCases
<1>5. IndicesAgree'
  <2>1. tail = IF head' + n_elements < new_size
               THEN head' + n_elements ELSE head' + n_elements - new_size
    BY <1>1, <1>2 DEF Indices, Wrapped
  <2>2. n_elements \in 0 .. n_elements
    BY <1>1 DEF Indices
  <2>3. QED
    BY <1>2, <1>4, <2>1, <2>2 DEF IndicesAgree
<1>6. \A k \in 0 .. n_elements - 1 : PeekNth(k)' = PeekNth(k)
  <2> SUFFICES ASSUME NEW k \in 0 .. n_elements - 1
               PROVE  PeekNth(k)' = PeekNth(k)
    OBVIOUS
  <2>1. k \in 0 .. n_elements /\ k \in 0 .. size
    BY <1>1 DEF Indices
  <2>2. Step(head, k, size)
          = IF head + k < size THEN head + k ELSE head + k - size
    BY <1>1, <2>1, StepCases DEF Indices
  <2>3. Step(head', k, new_size)
          = IF head' + k < new_size THEN head' + k ELSE head' + k - new_size
    BY <1>4, <2>1
  <2>4. PeekNth(k)' = data'[Step(head', k, new_size)]
    BY <1>2 DEF PeekNth
  <2>5. CASE Wrapped
    <3>1. head' = head + new_size - size
      BY <2>5, <1>1, <1>2 DEF Indices
    <3>2. CASE head + k < size
      <4>1. /\ Step(head', k, new_size) = Step(head, k, size) + new_size - size
            /\ Step(head', k, new_size) \in 0 .. new_size - 1
            /\ Step(head', k, new_size) >= head + (new_size - size)
        BY <1>1, <1>2, <2>2, <2>3, <3>1, <3>2 DEF Indices
      <4>2. Step(head', k, new_size) - (new_size - size) = Step(head, k, size)
        BY <1>1, <1>2, <2>2, <4>1 DEF Indices
      <4>3. data'[Step(head', k, new_size)] = data[Step(head, k, size)]
        BY <2>5, <4>1, <4>2
      <4>4. QED
        BY <2>4, <4>3 DEF PeekNth
    <3>3. CASE ~(head + k < size)
      <4>1. /\ Step(head', k, new_size) = Step(head, k, size)
            /\ Step(head', k, new_size) \in 0 .. size - 1
            /\ Step(head', k, new_size) < head
        BY <1>1, <1>2, <2>2, <2>3, <3>1, <3>3 DEF Indices
      <4>2. data'[Step(head', k, new_size)] = data[Step(head, k, size)]
        BY <1>1, <1>2, <4>1 DEF Indices
      <4>3. QED
        BY <2>4, <4>2 DEF PeekNth
    <3>4. QED
      BY <3>2, <3>3
  <2>6. CASE ~Wrapped
    <3>1. head' = head /\ head + k < size
      BY <2>6, <1>1 DEF Indices, Wrapped
    <3>2. /\ Step(head', k, new_size) = Step(head, k, size)
          /\ Step(head', k, new_size) \in 0 .. size - 1
      BY <1>1, <1>2, <2>2, <2>3, <3>1 DEF Indices
    <3>3. data'[Step(head', k, new_size)] = data[Step(head, k, size)]
      BY <1>1, <1>2, <2>6, <3>2 DEF Indices
    <3>4. QED
      BY <2>4, <3>3 DEF PeekNth
  <2>7. QED
    BY <2>5, <2>6
<1>7. IInv'
  BY <1>3, <1>5, <1>6 DEF IInv
<1>8. Contents' = Contents
  BY <1>1, <1>6 DEF Contents, Indices
<1>9. QED
  BY <1>1, <1>2, <1>7, <1>8 DEF Indices

-----------------------------------------------------------------------------
(* The theorems *)

LEMMA NextIInv == IInv /\ [Next]_vars => IInv'
<1> SUFFICES ASSUME IInv, [Next]_vars PROVE IInv'
  OBVIOUS
<1>1. ASSUME NEW v \in Values, Push(v) PROVE IInv'
  BY <1>1, PushStep
<1>2. CASE Pop
  BY <1>2, PopStep
<1>3. ASSUME NEW new_size \in 0 .. MaxSize, SetSize(new_size) PROVE IInv'
  BY <1>3, SetSizeStep
<1>4. CASE UNCHANGED vars
  BY <1>4 DEF vars, IInv, TypeOK, IndicesAgree, PeekNth
<1>5. QED
  BY <1>1, <1>2, <1>3, <1>4 DEF Next

LEMMA Invariance == Spec => []IInv
BY InitIInv, NextIInv, PTL DEF Spec

\* The indices stay inside the allocated array, whatever is pushed, popped
\* and grown (type correctness of swfdec_ringbuffer.c).
THEOREM TypeCorrect == Spec => []TypeOK
<1>1. IInv => TypeOK
  BY DEF IInv
<1>2. QED
  BY <1>1, Invariance, PTL

\* head, tail and n_elements agree in every reachable state.
THEOREM IndicesAlwaysAgree == Spec => []IndicesAgree
<1>1. IInv => IndicesAgree
  BY DEF IInv
<1>2. QED
  BY <1>1, Invariance, PTL

\* No uninitialised slot is ever visible to swfdec_ring_buffer_peek_nth or
\* swfdec_ring_buffer_pop.
THEOREM NeverJunk == Spec => []NoJunk
<1>1. IInv => NoJunk
  <2> SUFFICES ASSUME IInv PROVE NoJunk
    OBVIOUS
  <2>1. n_elements \in Nat
    BY IndexFacts DEF Indices
  <2>2. QED
    BY <2>1 DEF IInv, NoJunk, Contents
<1>2. QED
  BY <1>1, Invariance, PTL

\* The ring buffer implements a first-in first-out queue whose capacity only
\* grows: pushes append, pops take the oldest, growing changes no element.
THEOREM Refinement == Spec => ImplementsFifo
<1>1. Init => Fifo!Init
  <2> SUFFICES ASSUME Init PROVE Fifo!Init
    OBVIOUS
  <2>1. size \in Nat \ {0, 1} /\ n_elements = 0
    BY SizeAssumption DEF Init
  <2>2. Contents = <<>>
    BY <2>1 DEF Contents
  <2>3. QED
    BY <2>1, <2>2 DEF Fifo!Init
<1>2. IInv /\ [Next]_vars => [Fifo!Next]_(Fifo!vars)
  <2> SUFFICES ASSUME IInv, [Next]_vars PROVE [Fifo!Next]_(Fifo!vars)
    OBVIOUS
  <2>1. ASSUME NEW v \in Values, Push(v) PROVE Fifo!Push(v)
    <3>1. n_elements < size /\ Contents' = Append(Contents, v)
      BY <2>1, PushStep
    <3>2. Len(Contents) = n_elements
      BY ContentsFacts DEF ContentsTyped
    <3>3. QED
      BY <2>1, <3>1, <3>2 DEF Fifo!Push, Push
  <2>2. CASE Pop
    <3>1. Contents # <<>> /\ Contents' = Tail(Contents)
      BY <2>2, PopStep
    <3>2. QED
      BY <2>2, <3>1 DEF Fifo!Pop, Fifo!Next, Pop
  <2>3. ASSUME NEW new_size \in 0 .. MaxSize, SetSize(new_size) PROVE Fifo!Grow
    <3>1. size' > size /\ size' \in Nat /\ Contents' = Contents
      BY <2>3, SetSizeStep
    <3>2. QED
      BY <3>1 DEF Fifo!Grow
  <2>4. CASE UNCHANGED vars
    BY <2>4 DEF vars, Fifo!vars, Contents, PeekNth
  <2>5. QED
    BY <2>1, <2>2, <2>3, <2>4 DEF Next, Fifo!Next
<1>3. QED
  BY <1>1, <1>2, Invariance, PTL DEF Spec, ImplementsFifo, Fifo!Spec

-----------------------------------------------------------------------------
(* Lists of cached items: sums of sizes, and parts of lists *)

LEMMA Least ==
    ASSUME NEW K \in SUBSET Nat, K # {}
    PROVE  \E m \in K : \A k \in K : m <= k
<1>1. PICK m \in K : \A i \in K : <<i, m>> \notin OpToRel(<, Nat)
  BY NatLessThanWellFounded, WFMin
<1>2. ASSUME NEW k \in K PROVE m <= k
  <2>1. <<k, m>> \in Nat \X Nat /\ k \in Nat /\ m \in Nat
    OBVIOUS
  <2>2. ~(k < m)
    BY <1>1, <2>1 DEF OpToRel
  <2>3. QED
    BY <2>1, <2>2
<1>3. QED
  BY <1>2

\* What holds of 0 and is passed on holds of all numbers up to N.
LEMMA Upwards ==
    ASSUME NEW N \in Nat, NEW H \in SUBSET (0..N), 0 \in H,
           \A n \in 1..N : n - 1 \in H => n \in H
    PROVE  \A n \in 0..N : n \in H
<1> DEFINE K == {n \in 0..N : n \notin H}
<1>1. SUFFICES ASSUME K # {} PROVE FALSE
  OBVIOUS
<1>2. K \in SUBSET Nat
  OBVIOUS
<1>3. PICK m \in K : \A k \in K : m <= k
  BY <1>1, <1>2, Least
<1>4. m \in 1..N /\ m - 1 \in 0..N /\ ~(m <= m - 1)
  OBVIOUS
<1>5. m - 1 \in H
  BY <1>3, <1>4
<1>6. QED
  BY <1>4, <1>5

\* A function that gives each number a value from the value of the one before.
Steps(V, base, N, h, f) ==
    f \in [0..N -> V] /\ f[0] = base /\ \A n \in 1..N : f[n] = h[n][f[n - 1]]

LEMMA StepsExist ==
    ASSUME NEW V, NEW base \in V, NEW N \in Nat, NEW h \in [1..N -> [V -> V]]
    PROVE  \E f : Steps(V, base, N, h, f)
<1> DEFINE To(f, n) == f[0] = base /\ \A i \in 1..n : f[i] = h[i][f[i - 1]]
           H == {n \in 0..N : \E f \in [0..N -> V] : To(f, n)}
<1>1. 0 \in H
  <2> DEFINE f0 == [i \in 0..N |-> base]
  <2>1. f0 \in [0..N -> V] /\ f0[0] = base
    OBVIOUS
  <2> HIDE DEF f0
  <2>2. To(f0, 0)
    BY <2>1
  <2> HIDE DEF To
  <2>3. QED
    BY <2>1, <2>2
<1>2. ASSUME NEW n \in 1..N, n - 1 \in H PROVE n \in H
  <2>1. PICK f \in [0..N -> V] : To(f, n - 1)
    BY <1>2
  <2> DEFINE v == h[n][f[n - 1]]
             g == [f EXCEPT ![n] = v]
  <2>2. n \in 0..N /\ n - 1 \in 0..N
    OBVIOUS
  <2>3. v \in V
    BY <2>1, <2>2
  <2> HIDE DEF v
  <2>4. /\ g \in [0..N -> V] /\ g[n] = v
        /\ \A i \in 0..N : i # n => g[i] = f[i]
    BY <2>2, <2>3
  <2> HIDE DEF g
  <2>5. g[0] = base
    BY <2>1, <2>4
  <2>6. ASSUME NEW i \in 1..n PROVE g[i] = h[i][g[i - 1]]
    <3>1. i - 1 \in 0..N /\ i - 1 # n /\ i \in 0..N
      BY <2>2
    <3>2. g[i - 1] = f[i - 1]
      BY <2>4, <3>1
    <3>3. CASE i = n
      BY <2>4, <3>2, <3>3 DEF v
    <3>4. CASE i # n
      <4>1. i \in 1..n - 1
        BY <3>4
      <4>2. QED
        BY <2>1, <2>4, <3>1, <3>2, <3>4, <4>1
    <3>5. QED
      BY <3>3, <3>4
  <2>7. To(g, n)
    BY <2>5, <2>6
  <2>8. QED
    BY <2>2, <2>4, <2>7
<1>3. N \in H
  <2>1. H \in SUBSET (0..N)
    OBVIOUS
  <2> HIDE DEF H
  <2>2. \A n \in 0..N : n \in H
    BY <1>1, <1>2, <2>1, Upwards
  <2>3. QED
    BY <2>2
<1>4. QED
  BY <1>3 DEF Steps

\* The sum of SumOfSizes, for any pictures.
Total(items, p) ==
    LET sum[n \in 0..Len(items)] == IF n = 0 THEN 0 ELSE sum[n - 1] + p[items[n]].size
    IN  sum[Len(items)]

LEMMA SumIsTotal == \A items : SumOfSizes(items) = Total(items, pictures)
BY DEF SumOfSizes, Total

\* The running sum of the sizes in a list.
Sums(list, p, f) ==
    /\ f \in [0..Len(list) -> Nat]
    /\ f[0] = 0
    /\ \A n \in 1..Len(list) : f[n] = f[n - 1] + p[list[n]].size

Sized(S, p) == \A i \in S : p[i].size \in Nat

LEMMA SumsExist ==
    ASSUME NEW S, NEW list \in Seq(S), NEW p, Sized(S, p)
    PROVE  \E f : Sums(list, p, f) /\ Total(list, p) = f[Len(list)]
<1> DEFINE N == Len(list)
           h == [n \in 1..N |-> [x \in Nat |-> x + p[list[n]].size]]
           rec(f) == [n \in 0..N |-> IF n = 0 THEN 0 ELSE f[n - 1] + p[list[n]].size]
           sum == CHOOSE f : f = rec(f)
<1>1. N \in Nat /\ \A n \in 1..N : list[n] \in S /\ p[list[n]].size \in Nat
  BY DEF Sized
<1>2. Total(list, p) = sum[N]
  BY DEF Total
<1> HIDE DEF N
<1>3. h \in [1..N -> [Nat -> Nat]]
  BY <1>1
<1>4. PICK f : Steps(Nat, 0, N, h, f)
  <2> HIDE DEF h
  <2>1. N \in Nat /\ 0 \in Nat /\ h \in [1..N -> [Nat -> Nat]]
    BY <1>1, <1>3
  <2>2. QED
    BY <2>1, StepsExist
<1>5. \A n \in 1..N : f[n - 1] \in Nat /\ f[n] = f[n - 1] + p[list[n]].size
  <2>1. TAKE n \in 1..N
  <2>2. n - 1 \in 0..N
    BY <1>1
  <2>3. f[n - 1] \in Nat /\ f[n] = h[n][f[n - 1]]
    BY <1>4, <2>2 DEF Steps
  <2>4. QED
    BY <2>3
<1>6. f = rec(f)
  <2>1. \A n \in 0..N : f[n] = IF n = 0 THEN 0 ELSE f[n - 1] + p[list[n]].size
    BY <1>1, <1>4, <1>5 DEF Steps
  <2>2. QED
    BY <1>4, <2>1 DEF Steps
<1>7. sum = rec(sum)
  BY <1>6
<1> HIDE DEF sum
<1>8. sum[0] = 0 /\ \A n \in 1..N : sum[n] = sum[n - 1] + p[list[n]].size
  BY <1>1, <1>7
<1>9. \A n \in 0..N : sum[n] = f[n]
  <2> DEFINE H == {n \in 0..N : sum[n] = f[n]}
  <2>1. 0 \in H
    BY <1>1, <1>4, <1>8 DEF Steps
  <2>2. ASSUME NEW n \in 1..N, n - 1 \in H PROVE n \in H
    BY <1>1, <1>5, <1>8, <2>2
  <2>3. H \in SUBSET (0..N)
    OBVIOUS
  <2> HIDE DEF H
  <2>4. \A n \in 0..N : n \in H
    BY <1>1, <2>1, <2>2, <2>3, Upwards
  <2>5. QED
    BY <2>4 DEF H
<1>10. Sums(list, p, f) /\ Total(list, p) = f[Len(list)]
  BY <1>1, <1>2, <1>4, <1>5, <1>9 DEF Sums, N, Steps
<1>11. QED
  BY <1>10

\* There is one running sum.
LEMMA SumsAgree ==
    ASSUME NEW S, NEW list \in Seq(S), NEW p, Sized(S, p),
           NEW f, Sums(list, p, f)
    PROVE  Total(list, p) = f[Len(list)] /\ Total(list, p) \in Nat
<1> DEFINE N == Len(list)
<1>1. N \in Nat
  OBVIOUS
<1>2. PICK g : Sums(list, p, g) /\ Total(list, p) = g[N]
  BY SumsExist
<1> DEFINE H == {n \in 0..N : g[n] = f[n]}
<1>3. 0 \in H
  BY <1>1, <1>2 DEF Sums
<1>4. ASSUME NEW n \in 1..N, n - 1 \in H PROVE n \in H
  BY <1>1, <1>2, <1>4 DEF Sums
<1>5. H \in SUBSET (0..N)
  OBVIOUS
<1>6. N \in 0..N
  BY <1>1
<1>7. N \in H
  <2> HIDE DEF H, N
  <2>1. QED
    BY <1>1, <1>3, <1>4, <1>5, <1>6, Upwards
<1>8. QED
  BY <1>2, <1>6, <1>7 DEF Sums

LEMMA TotalIsNat ==
    ASSUME NEW S, NEW list \in Seq(S), NEW p, Sized(S, p)
    PROVE  Total(list, p) \in Nat
BY SumsExist, SumsAgree

LEMMA TotalOfNone == \A p : Total(<<>>, p) = 0
<1> TAKE p
<1>1. <<>> \in Seq({}) /\ Sized({}, p) /\ Len(<<>>) = 0
  BY DEF Sized
<1>2. PICK f : Sums(<<>>, p, f) /\ Total(<<>>, p) = f[Len(<<>>)]
  BY <1>1, SumsExist
<1>3. QED
  BY <1>1, <1>2 DEF Sums

\* Lists behind each other.
LEMMA TotalOfBoth ==
    ASSUME NEW S, NEW a \in Seq(S), NEW b \in Seq(S), NEW p, Sized(S, p)
    PROVE  Total(a \o b, p) = Total(a, p) + Total(b, p)
<1> DEFINE m == Len(a)
           n == Len(b)
           c == a \o b
<1>1. /\ m \in Nat /\ n \in Nat /\ c \in Seq(S) /\ Len(c) = m + n
      /\ \A i \in 1..m : c[i] = a[i]
      /\ \A i \in m + 1..m + n : c[i] = b[i - m]
  BY ConcatProperties
<1>2. PICK f : Sums(a, p, f) /\ Total(a, p) = f[m]
  BY SumsExist
<1>3. PICK g : Sums(b, p, g) /\ Total(b, p) = g[n]
  BY SumsExist
<1> HIDE DEF c
<1>4. /\ f \in [0..m -> Nat] /\ f[0] = 0
      /\ \A i \in 1..m : f[i] = f[i - 1] + p[a[i]].size
      /\ g \in [0..n -> Nat] /\ g[0] = 0
      /\ \A i \in 1..n : g[i] = g[i - 1] + p[b[i]].size
  BY <1>2, <1>3 DEF Sums
<1> HIDE DEF m, n
<1> DEFINE s == [i \in 0..m + n |-> IF i <= m THEN f[i] ELSE f[m] + g[i - m]]
<1>5. s \in [0..m + n -> Nat]
  <2>1. ASSUME NEW i \in 0..m + n PROVE (IF i <= m THEN f[i] ELSE f[m] + g[i - m]) \in Nat
    <3>1. CASE i <= m
      <4>1. i \in 0..m
        BY <1>1, <3>1
      <4>2. f[i] \in Nat
        BY <1>4, <4>1
      <4>3. QED
        BY <3>1, <4>2
    <3>2. CASE ~(i <= m)
      <4>1. i - m \in 0..n /\ m \in 0..m
        BY <1>1, <3>2
      <4>2. f[m] \in Nat /\ g[i - m] \in Nat
        BY <1>4, <4>1
      <4>3. QED
        BY <3>2, <4>2
    <3>3. QED
      BY <3>1, <3>2
  <2>2. QED
    BY <2>1
<1>6. s[0] = 0 /\ s[m + n] = f[m] + g[n]
  <2>1. 0 \in 0..m + n /\ m + n \in 0..m + n /\ 0 <= m
    BY <1>1
  <2>2. s[0] = 0
    BY <1>4, <2>1
  <2>3. CASE n = 0
    <3>1. s[m + n] = f[m] /\ f[m] \in Nat /\ g[n] = 0
      BY <1>1, <1>4, <2>1, <2>3
    <3>2. QED
      BY <2>2, <3>1
  <2>4. CASE n # 0
    <3>1. ~(m + n <= m) /\ (m + n) - m = n
      BY <1>1, <2>4
    <3>2. QED
      BY <2>1, <2>2, <3>1
  <2>5. QED
    BY <2>3, <2>4
<1>7. ASSUME NEW i \in 1..m + n PROVE s[i] = s[i - 1] + p[c[i]].size
  <2>1. i \in 0..m + n /\ i - 1 \in 0..m + n
    BY <1>1
  <2>2. CASE i <= m
    <3>1. i \in 1..m /\ i - 1 <= m
      BY <1>1, <2>2
    <3>2. s[i] = f[i] /\ s[i - 1] = f[i - 1]
      BY <2>1, <2>2, <3>1
    <3>3. QED
      BY <1>1, <1>4, <3>1, <3>2
  <2>3. CASE ~(i <= m)
    <3>1. i \in m + 1..m + n /\ i - m \in 1..n /\ (i - m) - 1 = (i - 1) - m
      BY <1>1, <2>3
    <3>2. s[i] = f[m] + g[i - m] /\ c[i] = b[i - m]
      BY <1>1, <2>1, <2>3, <3>1
    <3>3. s[i - 1] = f[m] + g[(i - m) - 1]
      <4>1. CASE i - 1 <= m
        <5>1. i - 1 = m /\ (i - m) - 1 = 0
          BY <1>1, <2>3, <4>1
        <5>2. s[i - 1] = f[m] /\ f[m] \in Nat
          BY <1>1, <1>4, <2>1, <4>1, <5>1
        <5>3. QED
          BY <1>4, <5>1, <5>2
      <4>2. CASE ~(i - 1 <= m)
        BY <2>1, <3>1, <4>2
      <4>3. QED
        BY <4>1, <4>2
    <3>4. /\ f[m] \in Nat /\ g[(i - m) - 1] \in Nat /\ p[b[i - m]].size \in Nat
          /\ g[i - m] = g[(i - m) - 1] + p[b[i - m]].size
      <4>1. m \in 0..m /\ (i - m) - 1 \in 0..n
        BY <1>1, <3>1
      <4>2. b[i - m] \in S
        BY <3>1 DEF n
      <4>3. QED
        BY <1>4, <3>1, <4>1, <4>2 DEF Sized
    <3> DEFINE d == p[b[i - m]].size
               e == g[(i - m) - 1]
    <3>5. s[i] = f[m] + (e + d) /\ s[i - 1] = f[m] + e /\ p[c[i]].size = d
      BY <3>2, <3>3, <3>4
    <3>6. d \in Nat /\ e \in Nat
      BY <3>4
    <3> HIDE DEF s, d, e
    <3>7. QED
      BY <3>4, <3>5, <3>6
  <2>4. QED
    BY <2>2, <2>3
<1> HIDE DEF s
<1>8. Sums(c, p, s)
  BY <1>1, <1>5, <1>6, <1>7 DEF Sums
<1>9. Total(c, p) = s[m + n]
  BY <1>1, <1>8, SumsAgree
<1>10. QED
  BY <1>2, <1>3, <1>6, <1>9 DEF c, m, n

\* What Only has kept of the first n elements of a list.
Keeps(S, list, items, f) ==
    /\ f \in [0..Len(list) -> Seq(S)]
    /\ f[0] = <<>>
    /\ \A n \in 1..Len(list) :
         f[n] = IF list[n] \in items THEN Append(f[n - 1], list[n]) ELSE f[n - 1]

LEMMA KeepsExist ==
    ASSUME NEW S, NEW list \in Seq(S), NEW items
    PROVE  \E f : Keeps(S, list, items, f) /\ Only(list, items) = f[Len(list)]
<1> DEFINE N == Len(list)
           add(n, x) == IF list[n] \in items THEN Append(x, list[n]) ELSE x
           h == [n \in 1..N |-> [x \in Seq(S) |-> add(n, x)]]
           rec(f) == [n \in 0..N |-> IF n = 0 THEN <<>>
                        ELSE IF list[n] \in items THEN Append(f[n - 1], list[n]) ELSE f[n - 1]]
           left == CHOOSE f : f = rec(f)
<1>1. N \in Nat /\ \A n \in 1..N : list[n] \in S
  OBVIOUS
<1>2. Only(list, items) = left[N]
  BY DEF Only
<1> HIDE DEF N
<1>3. \A n \in 1..N : \A x \in Seq(S) : add(n, x) \in Seq(S)
  BY <1>1
<1>4. h \in [1..N -> [Seq(S) -> Seq(S)]]
  <2> HIDE DEF add
  <2>1. QED
    BY <1>3
<1>5. PICK f : Steps(Seq(S), <<>>, N, h, f)
  <2> HIDE DEF h
  <2>1. N \in Nat /\ <<>> \in Seq(S) /\ h \in [1..N -> [Seq(S) -> Seq(S)]]
    BY <1>1, <1>4
  <2>2. QED
    BY <2>1, StepsExist
<1>6. \A n \in 1..N : f[n - 1] \in Seq(S) /\ f[n] = add(n, f[n - 1])
  <2>1. TAKE n \in 1..N
  <2>2. n - 1 \in 0..N
    BY <1>1
  <2>3. f[n - 1] \in Seq(S) /\ f[n] = h[n][f[n - 1]]
    BY <1>5, <2>2 DEF Steps
  <2> HIDE DEF add
  <2>4. QED
    BY <2>3
<1>7. f \in [0..N -> Seq(S)] /\ f[0] = <<>>
  BY <1>5 DEF Steps
<1>8. f = rec(f)
  <2>1. \A n \in 0..N : f[n] = IF n = 0 THEN <<>> ELSE add(n, f[n - 1])
    <3> HIDE DEF add
    <3>1. QED
      BY <1>1, <1>6, <1>7
  <2>2. QED
    BY <1>7, <2>1
<1>9. left = rec(left)
  BY <1>8
<1> HIDE DEF left
<1>10. left[0] = <<>> /\ \A n \in 1..N : left[n] = add(n, left[n - 1])
  <2> DEFINE r == rec(left)
  <2>1. \A n \in 0..N : r[n] = IF n = 0 THEN <<>> ELSE add(n, left[n - 1])
    OBVIOUS
  <2>2. left = r
    BY <1>9
  <2> HIDE DEF r, add, rec
  <2>3. \A n \in 0..N : left[n] = IF n = 0 THEN <<>> ELSE add(n, left[n - 1])
    BY <2>1, <2>2
  <2>4. 0 \in 0..N /\ \A n \in 1..N : n \in 0..N /\ n # 0
    BY <1>1
  <2>5. QED
    BY <2>3, <2>4
<1>11. \A n \in 0..N : left[n] = f[n]
  <2> DEFINE H == {n \in 0..N : left[n] = f[n]}
  <2>1. 0 \in H
    BY <1>1, <1>7, <1>10
  <2>2. ASSUME NEW n \in 1..N, n - 1 \in H PROVE n \in H
    <3> HIDE DEF add
    <3>1. QED
      BY <1>1, <1>6, <1>10, <2>2
  <2>3. H \in SUBSET (0..N)
    OBVIOUS
  <2> HIDE DEF H
  <2>4. \A n \in 0..N : n \in H
    BY <1>1, <2>1, <2>2, <2>3, Upwards
  <2>5. QED
    BY <2>4 DEF H
<1>12. Keeps(S, list, items, f) /\ Only(list, items) = f[Len(list)]
  BY <1>1, <1>2, <1>6, <1>7, <1>11 DEF Keeps, N
<1>13. QED
  BY <1>12

LEMMA AppendFacts ==
    ASSUME NEW S, NEW s \in Seq(S), NEW x \in S
    PROVE  /\ Append(s, x) \in Seq(S)
           /\ ToSet(Append(s, x)) = ToSet(s) \cup {x}
           /\ IsInjective(s) /\ x \notin ToSet(s) => IsInjective(Append(s, x))
<1> DEFINE n == Len(s)
           t == Append(s, x)
<1>1. /\ n \in Nat /\ DOMAIN s = 1..n /\ t \in Seq(S) /\ DOMAIN t = 1..n + 1
      /\ \A i \in 1..n : t[i] = s[i]
      /\ t[n + 1] = x
  OBVIOUS
<1> HIDE DEF t, n
<1>2. \A i \in 1..n + 1 : i \in 1..n \/ i = n + 1
  BY <1>1
<1>3. 1..n \subseteq 1..n + 1 /\ n + 1 \in 1..n + 1
  BY <1>1
<1>4. ToSet(t) = ToSet(s) \cup {x}
  BY <1>1, <1>2, <1>3 DEF ToSet
<1>5. ASSUME IsInjective(s), x \notin ToSet(s) PROVE IsInjective(t)
  <2>1. ASSUME NEW i \in 1..n + 1, NEW j \in 1..n + 1, t[i] = t[j] PROVE i = j
    <3>1. \A k \in 1..n : s[k] # x
      BY <1>1, <1>5 DEF ToSet
    <3>2. QED
      BY <1>1, <1>2, <1>5, <2>1, <3>1 DEF IsInjective
  <2>2. QED
    BY <1>1, <2>1 DEF IsInjective
<1>6. QED
  BY <1>1, <1>4, <1>5 DEF t

\* Each of these items is in the list once at most.
Once(list, items) ==
    \A m, n \in DOMAIN list : list[m] = list[n] /\ list[m] \in items => m = n

\* Only the items that may stay are left, and no more often than before.
LEMMA OnlyFacts ==
    ASSUME NEW S, NEW list \in Seq(S), NEW items
    PROVE  /\ Only(list, items) \in Seq(S)
           /\ ToSet(Only(list, items)) = ToSet(list) \cap items
           /\ Once(list, items) => IsInjective(Only(list, items))
<1>1. PICK f : Keeps(S, list, items, f) /\ Only(list, items) = f[Len(list)]
  BY KeepsExist
<1> DEFINE N == Len(list)
           First(n) == {list[i] : i \in 1..n}
<1>2. N \in Nat /\ DOMAIN list = 1..N /\ \A n \in 1..N : list[n] \in S
  OBVIOUS
<1>3. /\ \A n \in 0..N : f[n] \in Seq(S)
      /\ f[0] = <<>>
      /\ \A n \in 1..N : f[n] = IF list[n] \in items THEN Append(f[n - 1], list[n])
                                                     ELSE f[n - 1]
  BY <1>1 DEF Keeps
<1> HIDE DEF N
<1>4. /\ First(0) = {}
      /\ \A n \in 1..N : First(n) = First(n - 1) \cup {list[n]}
  <2>1. First(0) = {}
    OBVIOUS
  <2>2. ASSUME NEW n \in 1..N PROVE First(n) = First(n - 1) \cup {list[n]}
    <3>1. 1..n = (1..n - 1) \cup {n}
      BY <1>2
    <3>2. QED
      BY <3>1
  <2>3. QED
    BY <2>1, <2>2
<1>5. First(N) = ToSet(list)
  BY <1>2 DEF ToSet
<1> DEFINE H == {n \in 0..N : ToSet(f[n]) = First(n) \cap items}
<1>6. \A n \in 0..N : n \in H
  <2>1. 0 \in H
    BY <1>2, <1>3, <1>4 DEF ToSet
  <2>2. ASSUME NEW n \in 1..N, n - 1 \in H PROVE n \in H
    <3>1. n - 1 \in 0..N /\ f[n - 1] \in Seq(S) /\ list[n] \in S
      BY <1>2, <1>3
    <3> HIDE DEF First
    <3>2. ToSet(f[n - 1]) = First(n - 1) \cap items
      BY <2>2
    <3>3. CASE list[n] \in items
      <4>1. f[n] = Append(f[n - 1], list[n])
        BY <1>3, <3>3
      <4>2. ToSet(f[n]) = ToSet(f[n - 1]) \cup {list[n]}
        BY <3>1, <4>1, AppendFacts
      <4>3. QED
        BY <1>4, <3>2, <3>3, <4>2
    <3>4. CASE list[n] \notin items
      <4>1. f[n] = f[n - 1]
        BY <1>3, <3>4
      <4>2. QED
        BY <1>4, <3>2, <3>4, <4>1
    <3>5. QED
      BY <3>3, <3>4
  <2>3. H \in SUBSET (0..N)
    OBVIOUS
  <2> HIDE DEF H
  <2>4. QED
    BY <1>2, <2>1, <2>2, <2>3, Upwards
<1>7. N \in 0..N
  BY <1>2
<1>8. ASSUME Once(list, items) PROVE IsInjective(f[N])
  <2> DEFINE J == {n \in 0..N : IsInjective(f[n])}
  <2>1. 0 \in J
    BY <1>2, <1>3 DEF IsInjective
  <2>2. ASSUME NEW n \in 1..N, n - 1 \in J PROVE n \in J
    <3>1. n - 1 \in 0..N /\ f[n - 1] \in Seq(S) /\ list[n] \in S /\ n \in 0..N
      BY <1>2, <1>3
    <3>2. CASE list[n] \in items
      <4>1. list[n] \notin First(n - 1)
        <5>1. SUFFICES ASSUME NEW i \in 1..n - 1, list[i] = list[n] PROVE FALSE
          OBVIOUS
        <5>2. i \in DOMAIN list /\ n \in DOMAIN list /\ i # n
          BY <1>2
        <5>3. QED
          BY <1>8, <3>2, <5>1, <5>2 DEF Once
      <4>2. list[n] \notin ToSet(f[n - 1])
        <5> HIDE DEF First
        <5>1. QED
          BY <1>6, <3>1, <4>1
      <4>3. f[n] = Append(f[n - 1], list[n])
        BY <1>3, <3>2
      <4>4. IsInjective(f[n - 1])
        BY <2>2
      <4>5. IsInjective(Append(f[n - 1], list[n]))
        BY <3>1, <4>2, <4>4, AppendFacts
      <4>6. QED
        BY <3>1, <4>3, <4>5
    <3>3. CASE list[n] \notin items
      BY <1>3, <2>2, <3>1, <3>3
    <3>4. QED
      BY <3>2, <3>3
  <2>3. J \in SUBSET (0..N)
    OBVIOUS
  <2> HIDE DEF J
  <2>4. \A n \in 0..N : n \in J
    BY <1>2, <2>1, <2>2, <2>3, Upwards
  <2>5. QED
    BY <1>7, <2>4 DEF J
<1>9. ToSet(f[N]) = ToSet(list) \cap items
  <2> HIDE DEF First
  <2>1. QED
    BY <1>5, <1>6, <1>7
<1>10. QED
  BY <1>1, <1>3, <1>7, <1>8, <1>9 DEF N

LEMMA AllButFacts ==
    ASSUME NEW S, NEW list \in Seq(S), NEW items
    PROVE  /\ AllBut(list, items) \in Seq(S)
           /\ ToSet(AllBut(list, items)) = ToSet(list) \ items
           /\ Once(list, ToSet(list) \ items) => IsInjective(AllBut(list, items))
BY OnlyFacts DEF AllBut

LEMMA AppendTotal ==
    ASSUME NEW S, NEW s \in Seq(S), NEW x \in S, NEW p, Sized(S, p)
    PROVE  Total(Append(s, x), p) = Total(s, p) + p[x].size
<1> DEFINE n == Len(s)
           t == Append(s, x)
<1>1. PICK f : Sums(s, p, f) /\ Total(s, p) = f[n]
  BY SumsExist
<1>2. /\ n \in Nat /\ t \in Seq(S) /\ Len(t) = n + 1
      /\ \A i \in 1..n : t[i] = s[i]
      /\ t[n + 1] = x
  OBVIOUS
<1>3. p[x].size \in Nat
  BY DEF Sized
<1> DEFINE d == p[x].size
           g == [i \in 0..n + 1 |-> IF i = n + 1 THEN f[n] + d ELSE f[i]]
<1>4. f \in [0..n -> Nat] /\ f[0] = 0 /\ \A i \in 1..n : f[i] = f[i - 1] + p[s[i]].size
  BY <1>1 DEF Sums
<1> HIDE DEF n, t, d
<1>5. g \in [0..n + 1 -> Nat] /\ g[0] = 0 /\ g[n + 1] = f[n] + d
  <2>1. d \in Nat /\ f[n] \in Nat
    BY <1>2, <1>3, <1>4 DEF d
  <2>2. \A i \in 0..n + 1 : i # n + 1 => i \in 0..n
    BY <1>2
  <2>3. 0 \in 0..n + 1 /\ 0 # n + 1 /\ n + 1 \in 0..n + 1
    BY <1>2
  <2>4. QED
    BY <1>4, <2>1, <2>2, <2>3
<1>6. ASSUME NEW i \in 1..n + 1 PROVE g[i] = g[i - 1] + p[t[i]].size
  <2>1. i - 1 \in 0..n + 1 /\ i - 1 # n + 1 /\ i \in 0..n + 1
    BY <1>2
  <2>2. g[i - 1] = f[i - 1]
    BY <2>1
  <2>3. CASE i = n + 1
    <3>1. i - 1 = n /\ p[t[i]].size = d /\ g[i] = f[n] + d
      BY <1>2, <1>5, <2>3 DEF d
    <3>2. QED
      BY <2>2, <3>1
  <2>4. CASE i # n + 1
    <3>1. i \in 1..n /\ g[i] = f[i] /\ t[i] = s[i]
      BY <1>2, <2>1, <2>4
    <3>2. QED
      BY <1>4, <2>2, <3>1
  <2>5. QED
    BY <2>3, <2>4
<1> HIDE DEF g
<1>7. Sums(t, p, g)
  BY <1>2, <1>5, <1>6 DEF Sums
<1>8. Total(t, p) = g[n + 1]
  BY <1>2, <1>7, SumsAgree
<1>9. QED
  BY <1>1, <1>5, <1>8 DEF t, d, n

\* Two parts of a list that share nothing and make up the whole.
LEMMA TotalOfParts ==
    ASSUME NEW S, NEW list \in Seq(S), NEW p, Sized(S, p), NEW a, NEW b,
           \A i \in ToSet(list) : i \in a <=> i \notin b
    PROVE  Total(list, p) = Total(Only(list, a), p) + Total(Only(list, b), p)
<1> DEFINE N == Len(list)
<1>1. PICK f : Keeps(S, list, a, f) /\ Only(list, a) = f[N]
  BY KeepsExist
<1>2. PICK g : Keeps(S, list, b, g) /\ Only(list, b) = g[N]
  BY KeepsExist
<1>3. PICK s : Sums(list, p, s) /\ Total(list, p) = s[N]
  BY SumsExist
<1>4. N \in Nat /\ \A n \in 1..N : list[n] \in S /\ list[n] \in ToSet(list)
  BY DEF ToSet
<1>5. /\ \A n \in 0..N : f[n] \in Seq(S) /\ g[n] \in Seq(S)
      /\ f[0] = <<>> /\ g[0] = <<>> /\ s[0] = 0
      /\ \A n \in 1..N : /\ list[n] \in a => f[n] = Append(f[n - 1], list[n])
                         /\ list[n] \notin a => f[n] = f[n - 1]
                         /\ list[n] \in b => g[n] = Append(g[n - 1], list[n])
                         /\ list[n] \notin b => g[n] = g[n - 1]
                         /\ s[n] = s[n - 1] + p[list[n]].size
  BY <1>1, <1>2, <1>3 DEF Keeps, Sums
<1> HIDE DEF N
<1> DEFINE F(n) == Total(f[n], p)
           G(n) == Total(g[n], p)
           H == {n \in 0..N : s[n] = F(n) + G(n)}
<1>6. 0 \in H
  BY <1>4, <1>5, TotalOfNone
<1>7. ASSUME NEW n \in 1..N, n - 1 \in H PROVE n \in H
  <2> DEFINE d == p[list[n]].size
  <2>1. /\ n - 1 \in 0..N /\ n \in 0..N /\ list[n] \in S /\ list[n] \in ToSet(list)
        /\ f[n - 1] \in Seq(S) /\ g[n - 1] \in Seq(S)
    BY <1>4, <1>5
  <2>2. d \in Nat /\ F(n - 1) \in Nat /\ G(n - 1) \in Nat
    BY <2>1, TotalIsNat DEF Sized
  <2>3. s[n - 1] = F(n - 1) + G(n - 1) /\ s[n] = s[n - 1] + d
    BY <1>5, <1>7
  <2>4. CASE list[n] \in a
    <3>1. list[n] \notin b /\ f[n] = Append(f[n - 1], list[n]) /\ g[n] = g[n - 1]
      BY <1>5, <2>1, <2>4
    <3>2. F(n) = F(n - 1) + d /\ G(n) = G(n - 1)
      BY <2>1, <3>1, AppendTotal
    <3> HIDE DEF F, G, d
    <3>3. s[n] = F(n) + G(n)
      BY <2>2, <2>3, <3>2
    <3>4. QED
      BY <2>1, <3>3
  <2>5. CASE list[n] \notin a
    <3>1. list[n] \in b /\ g[n] = Append(g[n - 1], list[n]) /\ f[n] = f[n - 1]
      BY <1>5, <2>1, <2>5
    <3>2. G(n) = G(n - 1) + d /\ F(n) = F(n - 1)
      BY <2>1, <3>1, AppendTotal
    <3> HIDE DEF F, G, d
    <3>3. s[n] = F(n) + G(n)
      BY <2>2, <2>3, <3>2
    <3>4. QED
      BY <2>1, <3>3
  <2>6. QED
    BY <2>4, <2>5
<1>8. H \in SUBSET (0..N) /\ N \in 0..N
  BY <1>4
<1>9. N \in H
  <2> HIDE DEF H
  <2>1. \A n \in 0..N : n \in H
    BY <1>4, <1>6, <1>7, <1>8, Upwards
  <2>2. QED
    BY <1>8, <2>1
<1>10. QED
  BY <1>1, <1>2, <1>3, <1>9

\* The items at the beginning of a list.
LEMMA OnlyPrefix ==
    ASSUME NEW S, NEW list \in Seq(S), NEW items, NEW k \in 0..Len(list),
           \A n \in 1..Len(list) : list[n] \in items <=> n <= k
    PROVE  Only(list, items) = SubSeq(list, 1, k)
<1> DEFINE N == Len(list)
<1>1. PICK f : Keeps(S, list, items, f) /\ Only(list, items) = f[N]
  BY KeepsExist
<1>2. N \in Nat /\ k \in 0..N /\ \A n \in 1..N : list[n] \in S
  OBVIOUS
<1>3. /\ \A n \in 0..N : f[n] \in Seq(S)
      /\ f[0] = <<>>
      /\ \A n \in 1..N : /\ n <= k => f[n] = Append(f[n - 1], list[n])
                         /\ ~(n <= k) => f[n] = f[n - 1]
  BY <1>1 DEF Keeps
<1> DEFINE H == {n \in 0..N : f[n] = SubSeq(list, 1, IF n <= k THEN n ELSE k)}
<1>4. 0 \in H
  <2>1. SubSeq(list, 1, 0) = <<>> /\ 0 <= k /\ 0 \in 0..N
    BY <1>2
  <2>2. QED
    BY <1>3, <2>1
<1>5. ASSUME NEW n \in 1..N, n - 1 \in H PROVE n \in H
  <2>1. n \in 0..N /\ n - 1 \in 0..N
    BY <1>2
  <2>2. CASE n <= k
    <3>1. n - 1 <= k
      BY <1>2, <2>2
    <3>2. f[n - 1] = SubSeq(list, 1, n - 1) /\ f[n] = Append(f[n - 1], list[n])
      BY <1>3, <1>5, <2>2, <3>1
    <3>3. Append(SubSeq(list, 1, n - 1), list[n]) = SubSeq(list, 1, n)
      BY <1>2
    <3>4. QED
      BY <2>1, <2>2, <3>2, <3>3
  <2>3. CASE ~(n <= k)
    <3>1. f[n] = f[n - 1]
      BY <1>3, <2>3
    <3>2. (IF n - 1 <= k THEN n - 1 ELSE k) = k
      BY <1>2, <2>3
    <3>3. f[n - 1] = SubSeq(list, 1, k)
      BY <1>5, <3>2
    <3>4. QED
      BY <2>1, <2>3, <3>1, <3>3
  <2>4. QED
    BY <2>2, <2>3
<1>6. H \in SUBSET (0..N) /\ N \in 0..N
  BY <1>2
<1>7. N \in H
  <2> HIDE DEF H, N
  <2>1. \A n \in 0..N : n \in H
    BY <1>2, <1>4, <1>5, <1>6, Upwards
  <2>2. QED
    BY <1>6, <2>1
<1>8. (IF N <= k THEN N ELSE k) = k
  BY <1>2
<1>9. QED
  BY <1>1, <1>7, <1>8

\* Sizes of other items do not matter.
LEMMA TotalsAgree ==
    ASSUME NEW S, NEW list \in Seq(S), NEW p, NEW q, Sized(S, p),
           \A i \in ToSet(list) : q[i] = p[i]
    PROVE  Total(list, q) = Total(list, p)
<1> DEFINE T == ToSet(list)
           N == Len(list)
<1>1. list \in Seq(T) /\ N \in Nat /\ \A n \in 1..N : list[n] \in T
  BY DEF ToSet
<1>2. Sized(T, p) /\ Sized(T, q)
  <2>1. \A i \in T : i \in S
    BY DEF ToSet
  <2>2. QED
    BY <2>1 DEF Sized
<1>3. PICK f : Sums(list, p, f) /\ Total(list, p) = f[N]
  BY <1>1, <1>2, SumsExist
<1>4. Sums(list, q, f)
  BY <1>1, <1>3 DEF Sums
<1> HIDE DEF T
<1>5. QED
  BY <1>1, <1>2, <1>3, <1>4, SumsAgree

-----------------------------------------------------------------------------
(* The cache *)

\* The items that a list links to.
Live(list) == ToSet(list) \ {Empty}

\* The lists link to what is not freed and to nothing else: to each item once,
\* to different variants of an image, and to one picture of a stream.
Linked(lists, p) ==
    /\ lists \in [Keys -> Seq(Items \cup {Empty})]
    /\ \A k \in Keys : Once(lists[k], Items)
    /\ \A j, k \in Keys : j # k => Live(lists[j]) \cap Live(lists[k]) = {}
    /\ DOMAIN p = UNION {Live(lists[k]) : k \in Keys}
    /\ \A k \in Keys : \A i, j \in Live(lists[k]) :
          i # j => k \in Images /\ p[i].variant # p[j].variant

\* What is in the cache is what is not freed, in any order, and fits.
Cached(q, sum, p) ==
    /\ q \in Seq(Items)
    /\ IsInjective(q)
    /\ ToSet(q) = DOMAIN p
    /\ Sized(DOMAIN p, p)
    /\ sum = Total(q, p)
    /\ sum <= MaxCacheSize

\* The inductive invariant of the cache.
CacheIInv == Cached(queue, cache_size, pictures) /\ Linked(lookup, pictures)

LEMMA OnceOrInjective == \A list : IsInjective(list) <=> Once(list, ToSet(list))
BY DEF IsInjective, Once, ToSet

\* A new item in front of a list.
LEMMA ConsFacts ==
    ASSUME NEW S, NEW list \in Seq(S), NEW x \in S
    PROVE  /\ <<x>> \o list \in Seq(S)
           /\ ToSet(<<x>> \o list) = {x} \cup ToSet(list)
           /\ \A items : x \notin ToSet(list) /\ Once(list, items)
                            => Once(<<x>> \o list, items)
           /\ x \notin ToSet(list) /\ IsInjective(list) => IsInjective(<<x>> \o list)
<1> DEFINE new == <<x>> \o list
           n == Len(list)
<1>1. n \in Nat /\ DOMAIN list = 1..n /\ <<x>> \in Seq(S)
  OBVIOUS
<1>2. /\ new \in Seq(S) /\ DOMAIN new = 1..n + 1 /\ new[1] = x
      /\ \A i \in 2..n + 1 : new[i] = list[i - 1]
  OBVIOUS
<1> HIDE DEF new, n
<1>3. \A i \in 1..n + 1 : i = 1 \/ (i \in 2..n + 1 /\ i - 1 \in 1..n)
  BY <1>1
<1>4. \A i \in 1..n : i + 1 \in 2..n + 1 /\ i + 1 \in 1..n + 1 /\ (i + 1) - 1 = i
  BY <1>1
<1>5. ToSet(new) = {x} \cup ToSet(list)
  <2>1. ASSUME NEW y \in ToSet(new) PROVE y \in {x} \cup ToSet(list)
    <3>1. PICK i \in 1..n + 1 : new[i] = y
      BY <1>2, <2>1 DEF ToSet
    <3>2. CASE i = 1
      BY <1>2, <3>1, <3>2
    <3>3. CASE i \in 2..n + 1 /\ i - 1 \in 1..n
      <4>1. list[i - 1] = y
        BY <1>2, <3>1, <3>3
      <4>2. QED
        BY <1>1, <3>3, <4>1 DEF ToSet
    <3>4. QED
      BY <1>3, <3>2, <3>3
  <2>2. ASSUME NEW y \in ToSet(list) PROVE y \in ToSet(new)
    <3>1. PICK i \in 1..n : list[i] = y
      BY <1>1, <2>2 DEF ToSet
    <3>2. i + 1 \in 1..n + 1 /\ new[i + 1] = y
      BY <1>2, <1>4, <3>1
    <3>3. QED
      BY <1>2, <3>2 DEF ToSet
  <2>3. x \in ToSet(new)
    <3>1. 1 \in 1..n + 1
      BY <1>1
    <3>2. QED
      BY <1>2, <3>1 DEF ToSet
  <2>4. QED
    BY <2>1, <2>2, <2>3
<1>6. ASSUME NEW items, x \notin ToSet(list), Once(list, items) PROVE Once(new, items)
  <2>1. SUFFICES ASSUME NEW i \in 1..n + 1, NEW j \in 1..n + 1,
                        new[i] = new[j], new[i] \in items
                 PROVE  i = j
    BY <1>2 DEF Once
  <2>2. \A k \in 1..n : list[k] # x
    BY <1>1, <1>6 DEF ToSet
  <2>3. CASE i = 1 \/ j = 1
    BY <1>2, <1>3, <2>1, <2>2, <2>3
  <2>4. CASE i # 1 /\ j # 1
    <3>1. /\ i - 1 \in DOMAIN list /\ j - 1 \in DOMAIN list
          /\ new[i] = list[i - 1] /\ new[j] = list[j - 1]
      BY <1>1, <1>2, <1>3, <2>4
    <3>2. i - 1 = j - 1
      BY <1>6, <2>1, <3>1 DEF Once
    <3>3. QED
      BY <1>1, <3>2
  <2>5. QED
    BY <2>3, <2>4
<1>7. ASSUME x \notin ToSet(list), IsInjective(list) PROVE IsInjective(new)
  <2>1. Once(list, ToSet(new))
    BY <1>7 DEF IsInjective, Once
  <2>2. Once(new, ToSet(new))
    BY <1>6, <1>7, <2>1
  <2>3. QED
    BY <2>2, OnceOrInjective
<1>8. QED
  BY <1>2, <1>5, <1>6, <1>7 DEF new

\* A list cut in two.
LEMMA CutFacts ==
    ASSUME NEW S, NEW list \in Seq(S), NEW k \in 0..Len(list)
    PROVE  /\ SubSeq(list, 1, k) \in Seq(S)
           /\ Len(SubSeq(list, 1, k)) = k
           /\ \A i \in 1..k : SubSeq(list, 1, k)[i] = list[i]
           /\ SubSeq(list, k + 1, Len(list)) \in Seq(S)
           /\ Len(SubSeq(list, k + 1, Len(list))) = Len(list) - k
           /\ \A i \in 1..Len(list) - k :
                 SubSeq(list, k + 1, Len(list))[i] = list[k + i]
           /\ SubSeq(list, 1, k) \o SubSeq(list, k + 1, Len(list)) = list
<1> DEFINE N == Len(list)
           a == SubSeq(list, 1, k)
           b == SubSeq(list, k + 1, N)
<1>1. N \in Nat /\ k \in Nat /\ k <= N /\ \A i \in 1..N : list[i] \in S
  OBVIOUS
<1>2. a \in Seq(S) /\ Len(a) = k /\ \A i \in 1..k : a[i] = list[i]
  OBVIOUS
<1>3. b \in Seq(S)
  OBVIOUS
<1>4. Len(b) = N - k
  OBVIOUS
<1>5. ASSUME NEW i \in 1..N - k PROVE b[i] = list[k + i]
  BY <1>1
<1>6. a \o b = list
  <2> HIDE DEF a, b
  <2>1. /\ a \o b \in Seq(S) /\ Len(a \o b) = N
        /\ \A i \in 1..k : (a \o b)[i] = a[i]
        /\ \A i \in k + 1..N : (a \o b)[i] = b[i - k]
    <3>1. k + Len(b) = N
      BY <1>1, <1>4
    <3>2. QED
      BY <1>2, <1>3, <3>1, ConcatProperties
  <2> DEFINE c == a \o b
  <2> HIDE DEF c, N
  <2>2. ASSUME NEW i \in 1..N PROVE c[i] = list[i]
    <3>1. CASE i <= k
      BY <1>1, <1>2, <2>1, <3>1 DEF c
    <3>2. CASE ~(i <= k)
      <4>1. i \in k + 1..N /\ i - k \in 1..N - k /\ k + (i - k) = i
        BY <1>1, <3>2
      <4>2. c[i] = b[i - k] /\ b[i - k] = list[k + (i - k)]
        BY <1>5, <2>1, <4>1 DEF c
      <4>3. QED
        BY <4>1, <4>2
    <3>3. QED
      BY <3>1, <3>2
  <2>3. c \in Seq(S) /\ Len(c) = Len(list)
    BY <2>1 DEF c, N
  <2>4. \A i \in 1..Len(list) : c[i] = list[i]
    BY <2>2 DEF N
  <2>5. QED
    BY <2>3, <2>4, SeqEqual DEF c
<1>7. QED
  BY <1>2, <1>3, <1>4, <1>5, <1>6

LEMMA ConcatFacts ==
    ASSUME NEW S, NEW a \in Seq(S), NEW b \in Seq(S)
    PROVE  /\ a \o b \in Seq(S)
           /\ Len(a \o b) = Len(a) + Len(b)
           /\ \A i \in 1..Len(a) : (a \o b)[i] = a[i]
           /\ \A i \in Len(a) + 1..Len(a) + Len(b) : (a \o b)[i] = b[i - Len(a)]
BY ConcatProperties

\* Forgetting empty links at the beginning of a list.
LEMMA CleanedFacts ==
    ASSUME NEW list \in Seq(Items \cup {Empty}), NEW stop \in 0..Len(list),
           Once(list, Items),
           NEW new, new = AllBut(SubSeq(list, 1, stop), {Empty})
                            \o SubSeq(list, stop + 1, Len(list))
    PROVE  /\ new \in Seq(Items \cup {Empty})
           /\ Live(new) = Live(list)
           /\ Once(new, Items)
<1> DEFINE S == Items \cup {Empty}
           N == Len(list)
           a == SubSeq(list, 1, stop)
           b == SubSeq(list, stop + 1, N)
           c == AllBut(a, {Empty})
<1>1. N \in Nat /\ DOMAIN list = 1..N /\ stop \in Nat /\ stop <= N
  OBVIOUS
<1>2. /\ a \in Seq(S) /\ DOMAIN a = 1..stop /\ \A i \in 1..stop : a[i] = list[i]
      /\ b \in Seq(S) /\ Len(b) = N - stop /\ DOMAIN b = 1..N - stop
      /\ \A i \in 1..N - stop : b[i] = list[stop + i]
  <2>1. a \in Seq(S) /\ Len(a) = stop /\ \A i \in 1..stop : a[i] = list[i]
    BY CutFacts
  <2>2. b \in Seq(S) /\ Len(b) = N - stop /\ \A i \in 1..N - stop : b[i] = list[stop + i]
    BY CutFacts
  <2> HIDE DEF a, b
  <2>3. QED
    BY <1>1, <2>1, <2>2
<1> HIDE DEF N, a, b
<1>3. /\ c \in Seq(S) /\ ToSet(c) = ToSet(a) \ {Empty}
      /\ Once(a, ToSet(a) \ {Empty}) => IsInjective(c)
  BY <1>2, AllButFacts
<1> HIDE DEF c
<1>4. IsInjective(c)
  <2>1. ToSet(a) \ {Empty} \subseteq Items
    BY <1>2 DEF ToSet
  <2>2. ASSUME NEW m \in 1..stop, NEW n \in 1..stop, a[m] = a[n], a[m] \in Items
        PROVE  m = n
    <3>1. m \in DOMAIN list /\ n \in DOMAIN list /\ m \in DOMAIN a /\ n \in DOMAIN a
      BY <1>1, <1>2
    <3>2. a[m] = list[m] /\ a[n] = list[n]
      BY <1>2
    <3>3. QED
      BY <2>2, <3>1, <3>2 DEF Once
  <2>3. Once(a, ToSet(a) \ {Empty})
    BY <1>2, <2>1, <2>2 DEF Once
  <2>4. QED
    BY <1>3, <2>3
<1> DEFINE k == Len(c)
<1>5. /\ k \in Nat /\ DOMAIN c = 1..k /\ new \in Seq(S) /\ DOMAIN new = 1..k + (N - stop)
      /\ \A i \in 1..k : new[i] = c[i]
      /\ \A i \in k + 1..k + (N - stop) : new[i] = b[i - k]
  <2>1. new = c \o b
    BY DEF a, b, c, N
  <2> DEFINE d == c \o b
  <2>2. /\ d \in Seq(S) /\ Len(d) = k + (N - stop)
        /\ \A i \in 1..k : d[i] = c[i]
        /\ \A i \in k + 1..k + (N - stop) : d[i] = b[i - k]
    <3>1. /\ d \in Seq(S) /\ Len(d) = Len(c) + Len(b)
          /\ \A i \in 1..Len(c) : d[i] = c[i]
          /\ \A i \in Len(c) + 1..Len(c) + Len(b) : d[i] = b[i - Len(c)]
      <4>1. c \in Seq(S) /\ b \in Seq(S)
        BY <1>2, <1>3
      <4> HIDE DEF S
      <4>2. QED
        BY <4>1, ConcatFacts
    <3>2. Len(b) = N - stop
      BY <1>2
    <3> HIDE DEF d
    <3>3. QED
      BY <3>1, <3>2
  <2>3. k \in Nat /\ DOMAIN c = 1..k
    BY <1>3
  <2>4. new = d
    BY <2>1
  <2> HIDE DEF d, k
  <2>5. DOMAIN d = 1..k + (N - stop)
    BY <2>2
  <2>6. QED
    BY <2>2, <2>3, <2>4, <2>5
<1> HIDE DEF k
<1>6. \A i \in k + 1..k + (N - stop) :
         /\ i - k \in 1..N - stop /\ stop + (i - k) \in 1..N /\ stop + (i - k) > stop
         /\ new[i] = list[stop + (i - k)]
  <2>1. TAKE i \in k + 1..k + (N - stop)
  <2>2. i - k \in 1..N - stop /\ stop + (i - k) \in 1..N /\ stop + (i - k) > stop
    BY <1>1, <1>5
  <2>3. QED
    BY <1>2, <1>5, <2>2
<1>7. \A i \in 1..k : \E m \in 1..stop : list[m] = new[i]
  <2>1. TAKE i \in 1..k
  <2>2. new[i] \in ToSet(a)
    BY <1>3, <1>5 DEF ToSet
  <2>3. QED
    BY <1>2, <2>2 DEF ToSet
<1>8. \A i \in 1..k + (N - stop) : i \in 1..k \/ i \in k + 1..k + (N - stop)
  BY <1>1, <1>5
<1>9. 1..stop \subseteq 1..N
  BY <1>1
<1>10. Live(new) = Live(list)
  <2>1. ASSUME NEW x \in Live(new) PROVE x \in Live(list)
    <3>1. PICK i \in 1..k + (N - stop) : new[i] = x
      BY <1>5 DEF Live, ToSet
    <3>2. \E m \in 1..N : list[m] = x
      BY <1>6, <1>7, <1>8, <1>9, <3>1
    <3>3. QED
      BY <1>1, <3>2 DEF Live, ToSet
  <2>2. ASSUME NEW x \in Live(list) PROVE x \in Live(new)
    <3>1. PICK m \in 1..N : list[m] = x
      BY <1>1 DEF Live, ToSet
    <3>2. x # Empty
      BY DEF Live
    <3>3. CASE m <= stop
      <4>1. m \in 1..stop
        BY <1>1, <3>3
      <4>2. x \in ToSet(c)
        BY <1>2, <1>3, <3>1, <3>2, <4>1 DEF ToSet
      <4>3. PICK i \in 1..k : c[i] = x
        BY <1>5, <4>2 DEF ToSet
      <4>4. i \in 1..k + (N - stop)
        BY <1>1, <1>5
      <4>5. new[i] = x
        BY <1>5, <4>3
      <4>6. QED
        BY <1>5, <3>2, <4>4, <4>5 DEF Live, ToSet
    <3>4. CASE ~(m <= stop)
      <4>1. k + (m - stop) \in k + 1..k + (N - stop) /\ (k + (m - stop)) - k = m - stop
            /\ stop + (m - stop) = m
        BY <1>1, <1>5, <3>4
      <4>2. new[k + (m - stop)] = x
        BY <1>6, <3>1, <4>1
      <4>3. k + (m - stop) \in 1..k + (N - stop)
        BY <1>1, <1>5, <3>4
      <4>4. QED
        BY <1>5, <3>2, <4>2, <4>3 DEF Live, ToSet
    <3>5. QED
      BY <3>3, <3>4
  <2>3. QED
    BY <2>1, <2>2
<1>11. Once(new, Items)
  <2>1. \A i, j \in 1..k : new[i] = new[j] => i = j
    BY <1>4, <1>5 DEF IsInjective
  <2>2. ASSUME NEW i \in k + 1..k + (N - stop), NEW j \in k + 1..k + (N - stop),
               new[i] = new[j], new[i] \in Items
        PROVE  i = j
    <3>1. stop + (i - k) = stop + (j - k)
      BY <1>1, <1>6, <2>2 DEF Once
    <3>2. QED
      BY <1>1, <1>5, <3>1
  <2>3. ASSUME NEW i \in 1..k, NEW j \in k + 1..k + (N - stop),
               new[i] = new[j], new[i] \in Items
        PROVE  FALSE
    <3>1. PICK m \in 1..stop : list[m] = new[i]
      BY <1>7
    <3>2. m = stop + (j - k)
      BY <1>1, <1>6, <1>9, <2>3, <3>1 DEF Once
    <3>3. QED
      BY <1>1, <1>6, <3>1, <3>2
  <2>4. ASSUME NEW i \in 1..k + (N - stop), NEW j \in 1..k + (N - stop),
               new[i] = new[j], new[i] \in Items
        PROVE  i = j
    <3>1. CASE i \in 1..k /\ j \in 1..k
      BY <2>1, <2>4, <3>1
    <3>2. CASE i \in 1..k /\ j \in k + 1..k + (N - stop)
      BY <2>3, <2>4, <3>2
    <3>3. CASE j \in 1..k /\ i \in k + 1..k + (N - stop)
      BY <2>3, <2>4, <3>3
    <3>4. CASE i \in k + 1..k + (N - stop) /\ j \in k + 1..k + (N - stop)
      BY <2>2, <2>4, <3>4
    <3>5. QED
      BY <1>8, <3>1, <3>2, <3>3, <3>4
  <2>5. QED
    BY <1>5, <2>4 DEF Once
<1>12. QED
  BY <1>5, <1>10, <1>11

\* Links to what is freed become empty.
LEMMA WithoutItemsFacts ==
    ASSUME NEW lists \in [Keys -> Seq(Items \cup {Empty})], NEW gone,
           \A k \in Keys : Once(lists[k], Items),
           NEW new, new = WithoutItems(lists, gone)
    PROVE  /\ new \in [Keys -> Seq(Items \cup {Empty})]
           /\ \A k \in Keys : Once(new[k], Items)
           /\ \A k \in Keys : Live(new[k]) = Live(lists[k]) \ gone
<1> DEFINE S == Items \cup {Empty}
           swept(list) == [n \in DOMAIN list |-> IF list[n] \in gone THEN Empty ELSE list[n]]
<1>1. new = [k \in Keys |-> swept(lists[k])]
  BY DEF WithoutItems
<1>2. ASSUME NEW list \in Seq(S), Once(list, Items)
      PROVE  /\ swept(list) \in Seq(S)
             /\ Once(swept(list), Items)
             /\ Live(swept(list)) = Live(list) \ gone
  <2> DEFINE w == swept(list)
  <2>1. Len(list) \in Nat /\ DOMAIN list = 1..Len(list) /\ \A n \in DOMAIN list : list[n] \in S
    OBVIOUS
  <2>2. /\ DOMAIN w = DOMAIN list
        /\ \A n \in DOMAIN list : w[n] = IF list[n] \in gone THEN Empty ELSE list[n]
    OBVIOUS
  <2>3. w \in Seq(S)
    <3>1. \A n \in 1..Len(list) : w[n] \in S
      BY <2>1, <2>2
    <3>2. w \in [1..Len(list) -> S]
      BY <2>1, <3>1
    <3>3. QED
      BY <2>1, <3>2
  <2> HIDE DEF w
  <2>4. Once(w, Items)
    BY <1>2, <2>2, CacheAssumption DEF Once
  <2>5. Live(w) = Live(list) \ gone
    <3>1. ASSUME NEW x \in Live(w) PROVE x \in Live(list) \ gone
      BY <2>2, <3>1 DEF Live, ToSet
    <3>2. ASSUME NEW x \in Live(list) \ gone PROVE x \in Live(w)
      <4>1. PICK n \in DOMAIN list : list[n] = x
        BY <3>2 DEF Live, ToSet
      <4>2. x # Empty /\ w[n] = x
        BY <2>2, <3>2, <4>1 DEF Live
      <4>3. QED
        BY <2>2, <4>1, <4>2 DEF Live, ToSet
    <3>3. QED
      BY <3>1, <3>2
  <2>6. QED
    BY <2>3, <2>4, <2>5 DEF w
<1> HIDE DEF swept
<1>3. \A k \in Keys : lists[k] \in Seq(S) /\ new[k] = swept(lists[k])
  BY <1>1
<1>4. \A k \in Keys : /\ new[k] \in Seq(S) /\ Once(new[k], Items)
                      /\ Live(new[k]) = Live(lists[k]) \ gone
  BY <1>2, <1>3
<1>5. new \in [Keys -> Seq(S)]
  BY <1>1, <1>3, <1>4
<1>6. QED
  BY <1>4, <1>5

LEMMA MaxFacts ==
    ASSUME NEW N \in Nat, NEW K \in SUBSET (0..N), K # {}
    PROVE  Max(K) \in K
<1> DEFINE D == {n \in 0..N : N - n \in K}
<1>1. D \in SUBSET Nat /\ D # {}
  <2>1. PICK k : k \in K
    OBVIOUS
  <2>2. N - k \in 0..N /\ N - (N - k) = k
    BY <2>1
  <2>3. N - k \in D
    BY <2>1, <2>2
  <2>4. QED
    BY <2>3
<1>2. PICK m \in D : \A n \in D : m <= n
  BY <1>1, Least
<1>3. ASSUME NEW k \in K PROVE N - m >= k
  <2>1. N - k \in 0..N /\ N - (N - k) = k
    OBVIOUS
  <2>2. N - k \in D
    BY <2>1
  <2>3. m <= N - k /\ m \in 0..N /\ k \in 0..N
    BY <1>2, <2>2
  <2>4. QED
    BY <2>3
<1>4. N - m \in K
  BY <1>2
<1>5. \E x \in K : \A y \in K : x >= y
  BY <1>3, <1>4
<1>6. QED
  BY <1>5 DEF Max

\* What swfdec_cache_shrink leaves are the items at the front, and they fit.
LEMMA ShrunkFacts ==
    ASSUME NEW S, NEW q \in Seq(S), Sized(S, pictures), NEW n \in Nat
    PROVE  \E k \in 0..Len(q) : /\ Shrunk(q, Total(q, pictures), n) = SubSeq(q, 1, k)
                                /\ Total(SubSeq(q, 1, k), pictures) <= n
<1> DEFINE N == Len(q)
           T(s) == Total(s, pictures)
           K == {k \in 0..N : T(q) - SumOfSizes(SubSeq(q, k + 1, N)) <= n \/ k = 0}
           k == Max(K)
<1>1. N \in Nat /\ 0 \in K /\ K \in SUBSET (0..N)
  OBVIOUS
<1>2. k \in K
  <2> HIDE DEF K
  <2>1. QED
    BY <1>1, MaxFacts
<1>3. Shrunk(q, T(q), n) = SubSeq(q, 1, k)
  BY DEF Shrunk
<1> HIDE DEF k
<1>4. k \in 0..N /\ (T(q) - T(SubSeq(q, k + 1, N)) <= n \/ k = 0)
  BY <1>2, SumIsTotal
<1>5. T(SubSeq(q, 1, k)) <= n
  <2> DEFINE a == SubSeq(q, 1, k)
             b == SubSeq(q, k + 1, N)
  <2>1. a \in Seq(S) /\ b \in Seq(S) /\ q = a \o b /\ Len(a) = k
    BY <1>4, CutFacts
  <2>2. CASE k = 0
    <3> HIDE DEF a
    <3>1. a = <<>>
      BY <2>1, <2>2
    <3>2. T(a) = 0
      BY <3>1, TotalOfNone
    <3> HIDE DEF T
    <3>3. QED
      BY <3>2 DEF a
  <2>3. CASE T(q) - T(b) <= n
    <3> HIDE DEF a, b
    <3>1. T(q) = T(a) + T(b) /\ T(a) \in Nat /\ T(b) \in Nat
      BY <2>1, TotalOfBoth, TotalIsNat
    <3> HIDE DEF T
    <3>2. QED
      BY <2>3, <3>1 DEF a
  <2>4. QED
    BY <1>4, <2>2, <2>3
<1>6. QED
  BY <1>3, <1>4, <1>5

-----------------------------------------------------------------------------
(* Finding a picture and using it *)

LEMMA SeqOfElements ==
    ASSUME NEW S, NEW list \in Seq(S)
    PROVE  \A T : ToSet(list) \subseteq T => list \in Seq(T)
<1>1. SUFFICES ASSUME NEW T, ToSet(list) \subseteq T PROVE list \in Seq(T)
  OBVIOUS
<1>2. Len(list) \in Nat /\ DOMAIN list = 1..Len(list) /\ \A i \in 1..Len(list) : list[i] \in T
  BY <1>1 DEF ToSet
<1>3. list \in [1..Len(list) -> T]
  BY <1>2
<1>4. QED
  BY <1>2, <1>3

LEMMA HeadFacts ==
    ASSUME NEW S, NEW list \in Seq(S), list # <<>>
    PROVE  Head(list) \in ToSet(list)
<1>1. Len(list) \in Nat /\ 1 \in DOMAIN list /\ Head(list) = list[1]
  OBVIOUS
<1>2. QED
  BY <1>1 DEF ToSet

LEMMA NoneIn ==
    ASSUME NEW S, NEW list \in Seq(S)
    PROVE  list = <<>> <=> ToSet(list) = {}
<1>1. CASE list = <<>>
  BY <1>1 DEF ToSet
<1>2. CASE list # <<>>
  BY <1>2, HeadFacts
<1>3. QED
  BY <1>1, <1>2

LEMMA OneIn ==
    ASSUME NEW S, NEW list \in Seq(S), NEW x, IsInjective(list), ToSet(list) = {x}
    PROVE  list = <<x>>
<1> DEFINE n == Len(list)
<1>1. n \in Nat /\ DOMAIN list = 1..n
  OBVIOUS
<1>2. \A i \in 1..n : list[i] = x
  BY <1>1 DEF ToSet
<1>3. n = 1
  <2>1. n # 0
    <3>1. list # <<>>
      BY NoneIn
    <3>2. QED
      BY <3>1
  <2>2. ASSUME n > 1 PROVE FALSE
    <3>1. 1 \in DOMAIN list /\ 2 \in DOMAIN list /\ list[1] = list[2]
      BY <1>1, <1>2, <2>2
    <3>2. 1 = 2
      BY <3>1 DEF IsInjective
    <3>3. QED
      BY <3>2
  <2>3. QED
    BY <1>1, <2>1, <2>2
<1>4. QED
  BY <1>2, <1>3

LEMMA TotalOfOne ==
    ASSUME NEW S, NEW x \in S, NEW p, Sized(S, p)
    PROVE  Total(<<x>>, p) = p[x].size
<1>1. <<>> \in Seq(S) /\ Append(<<>>, x) = <<x>> /\ p[x].size \in Nat
  BY DEF Sized
<1>2. Total(Append(<<>>, x), p) = Total(<<>>, p) + p[x].size
  BY <1>1, AppendTotal
<1>3. QED
  BY <1>1, <1>2, TotalOfNone

LEMMA LinkFacts ==
    ASSUME CacheIInv, NEW k \in Keys
    PROVE  /\ lookup[k] \in Seq(Items \cup {Empty})
           /\ Once(lookup[k], Items)
           /\ Live(lookup[k]) \subseteq DOMAIN pictures
           /\ Live(lookup[k]) \subseteq Items
<1>1. lookup[k] \in Seq(Items \cup {Empty}) /\ Once(lookup[k], Items)
  BY DEF CacheIInv, Linked
<1>2. Live(lookup[k]) \subseteq DOMAIN pictures
  BY DEF CacheIInv, Linked
<1>3. Live(lookup[k]) \subseteq Items
  BY <1>1 DEF Live, ToSet
<1>4. QED
  BY <1>1, <1>2, <1>3

\* Searching leaves the list with the same links.
LEMMA SearchedFacts ==
    ASSUME CacheIInv, NEW key \in Keys, NEW item \in Live(lookup[key]) \cup {Empty}
    PROVE  /\ Searched(key, item) \in Seq(Items \cup {Empty})
           /\ Live(Searched(key, item)) = Live(lookup[key])
           /\ Once(Searched(key, item), Items)
<1> DEFINE list == lookup[key]
           stop == IF item = Empty THEN Len(list)
                   ELSE CHOOSE n \in DOMAIN list : list[n] = item
           new == AllBut(SubSeq(list, 1, stop), {Empty}) \o SubSeq(list, stop + 1, Len(list))
<1>1. list \in Seq(Items \cup {Empty}) /\ Once(list, Items)
  BY LinkFacts
<1>2. stop \in 0..Len(list)
  <2>1. Len(list) \in Nat /\ DOMAIN list = 1..Len(list)
    BY <1>1
  <2>2. CASE item = Empty
    BY <2>1, <2>2
  <2>3. CASE item # Empty
    <3>1. \E n \in DOMAIN list : list[n] = item
      BY <2>3 DEF Live, ToSet
    <3>2. stop \in DOMAIN list
      BY <2>3, <3>1
    <3> HIDE DEF stop
    <3>3. QED
      BY <2>1, <3>2
  <2>4. QED
    BY <2>2, <2>3
<1>3. Searched(key, item) = new
  BY DEF Searched
<1> HIDE DEF list, stop
<1>4. /\ new \in Seq(Items \cup {Empty})
      /\ Live(new) = Live(list)
      /\ Once(new, Items)
  BY <1>1, <1>2, CleanedFacts
<1>5. QED
  BY <1>3, <1>4 DEF list

\* What is found is linked, and a picture that is not found is not there.
LEMMA FoundFacts ==
    ASSUME CacheIInv, NEW key \in Keys, NEW variant
    PROVE  /\ Found(key, variant) \in Live(lookup[key]) \cup {Empty}
           /\ ~Hit(key, variant) /\ key \notin Streams =>
                 \A i \in Live(lookup[key]) : pictures[i].variant # variant
<1> DEFINE S == Items \cup {Empty}
           same == {i \in DOMAIN pictures : pictures[i].variant = variant}
           live == AllBut(lookup[key], {Empty})
           equal == Only(live, same)
<1>1. /\ lookup[key] \in Seq(S) /\ Live(lookup[key]) \subseteq DOMAIN pictures
      /\ Live(lookup[key]) \subseteq Items
  BY LinkFacts
<1>2. live \in Seq(S) /\ ToSet(live) = Live(lookup[key])
  BY <1>1, AllButFacts DEF Live
<1> HIDE DEF live
<1>3. equal \in Seq(S) /\ ToSet(equal) = ToSet(live) \cap same
  BY <1>2, OnlyFacts
<1>4. Found(key, variant) = IF key \in Streams THEN IF live = <<>> THEN Empty ELSE Head(live)
                            ELSE IF equal = <<>> THEN Empty ELSE Head(equal)
  BY DEF Found, live
<1> HIDE DEF equal
<1>5. live # <<>> => Head(live) \in Live(lookup[key])
  BY <1>2, HeadFacts
<1>6. equal # <<>> => Head(equal) \in Live(lookup[key]) \cap same
  BY <1>2, <1>3, HeadFacts
<1>7. Found(key, variant) \in Live(lookup[key]) \cup {Empty}
  BY <1>4, <1>5, <1>6
<1>8. ASSUME ~Hit(key, variant), key \notin Streams, NEW i \in Live(lookup[key]),
             pictures[i].variant = variant
      PROVE  FALSE
  <2>1. i \in same
    BY <1>1, <1>8
  <2>2. ToSet(equal) # {}
    BY <1>2, <1>3, <2>1
  <2>3. equal # <<>>
    BY <1>3, <2>2, NoneIn
  <2>4. Found(key, variant) = Head(equal)
    BY <1>4, <1>8, <2>3
  <2>5. Found(key, variant) \in Items /\ pictures[Found(key, variant)].variant = variant
    BY <1>1, <1>6, <2>3, <2>4
  <2>6. QED
    BY <1>8, <2>5, CacheAssumption DEF Hit
<1>9. QED
  BY <1>7, <1>8

LEMMA CacheInitStep == CacheInit => CacheIInv
<1> SUFFICES ASSUME CacheInit PROVE CacheIInv
  OBVIOUS
<1>1. queue = <<>> /\ cache_size = 0 /\ lookup = [k \in Keys |-> <<>>] /\ pictures = <<>>
  BY DEF CacheInit
<1>2. DOMAIN pictures = {} /\ ToSet(queue) = {} /\ IsInjective(queue)
  BY <1>1 DEF ToSet, IsInjective
<1>3. Cached(queue, cache_size, pictures)
  BY <1>1, <1>2, TotalOfNone, CacheAssumption DEF Cached, Sized
<1>4. \A k \in Keys : lookup[k] = <<>> /\ ToSet(lookup[k]) = {} /\ Live(lookup[k]) = {}
  BY <1>1 DEF Live, ToSet
<1>5. \A k \in Keys : Once(lookup[k], Items)
  BY <1>4 DEF Once
<1>6. lookup \in [Keys -> Seq(Items \cup {Empty})]
  BY <1>1
<1>7. Linked(lookup, pictures)
  BY <1>2, <1>4, <1>5, <1>6, Zenon DEF Linked
<1>8. QED
  BY <1>3, <1>7 DEF CacheIInv

\* The queue as a list of pictures with sizes.
LEMMA QueueFacts ==
    ASSUME CacheIInv
    PROVE  /\ queue \in Seq(DOMAIN pictures) /\ ToSet(queue) = DOMAIN pictures
           /\ DOMAIN pictures \subseteq Items
           /\ Sized(DOMAIN pictures, pictures)
           /\ IsInjective(queue)
           /\ \A items : Once(queue, items)
           /\ cache_size = Total(queue, pictures) /\ cache_size \in Nat
           /\ cache_size <= MaxCacheSize /\ MaxCacheSize \in Nat
<1>1. /\ queue \in Seq(Items) /\ ToSet(queue) = DOMAIN pictures
      /\ Sized(DOMAIN pictures, pictures)
      /\ IsInjective(queue)
      /\ cache_size = Total(queue, pictures)
      /\ cache_size <= MaxCacheSize
  BY DEF CacheIInv, Cached
<1>2. queue \in Seq(DOMAIN pictures)
  BY <1>1, SeqOfElements
<1>3. DOMAIN pictures \subseteq Items
  BY <1>1 DEF ToSet
<1>4. \A items : Once(queue, items)
  BY <1>1 DEF IsInjective, Once
<1>5. cache_size \in Nat
  BY <1>1, <1>2, TotalIsNat
<1>6. QED
  BY <1>1, <1>2, <1>3, <1>4, <1>5, CacheAssumption

\* A list that has the same links.
LEMMA RelinkStep ==
    ASSUME CacheIInv, NEW key \in Keys, NEW list \in Seq(Items \cup {Empty}),
           Live(list) = Live(lookup[key]), Once(list, Items),
           NEW new, new = [lookup EXCEPT ![key] = list]
    PROVE  Linked(new, pictures)
<1>1. Linked(lookup, pictures)
  BY DEF CacheIInv
<1>2. /\ new \in [Keys -> Seq(Items \cup {Empty})]
      /\ new[key] = list /\ \A k \in Keys : k # key => new[k] = lookup[k]
  BY <1>1 DEF Linked
<1>3. \A k \in Keys : Live(new[k]) = Live(lookup[k]) /\ Once(new[k], Items)
  BY <1>1, <1>2 DEF Linked
<1>4. UNION {Live(new[k]) : k \in Keys} = UNION {Live(lookup[k]) : k \in Keys}
  BY <1>3
<1>5. QED
  BY <1>1, <1>2, <1>3, <1>4 DEF Linked

LEMMA UsePictureStep ==
    ASSUME CacheIInv, NEW key \in Keys, NEW variant \in Variants, UsePicture(key, variant)
    PROVE  CacheIInv'
<1> DEFINE item == Found(key, variant)
           D == DOMAIN pictures
           rest == AllBut(queue, {item})
<1>1. /\ Hit(key, variant)
      /\ lookup' = [lookup EXCEPT ![key] = Searched(key, item)]
      /\ queue' = <<item>> \o rest
      /\ cache_size' = cache_size /\ pictures' = pictures
  BY DEF UsePicture
<1>2. item \in Live(lookup[key]) /\ item \in D
  <2>1. item \in Live(lookup[key]) \cup {Empty} /\ item # Empty
    BY <1>1, FoundFacts DEF Hit
  <2>2. QED
    BY <2>1, LinkFacts
<1>3. /\ queue \in Seq(D) /\ ToSet(queue) = D /\ D \subseteq Items /\ Sized(D, pictures)
      /\ \A items : Once(queue, items)
      /\ cache_size = Total(queue, pictures) /\ cache_size <= MaxCacheSize
  BY QueueFacts
<1> HIDE DEF item, D
<1>4. rest \in Seq(D) /\ ToSet(rest) = D \ {item} /\ IsInjective(rest)
  BY <1>3, AllButFacts
<1>5. Only(queue, {item}) = <<item>>
  <2>1. /\ Only(queue, {item}) \in Seq(D) /\ ToSet(Only(queue, {item})) = D \cap {item}
        /\ IsInjective(Only(queue, {item}))
    BY <1>3, OnlyFacts
  <2>2. D \cap {item} = {item}
    BY <1>2
  <2>3. QED
    BY <2>1, <2>2, OneIn
<1>6. Total(queue, pictures) = Total(<<item>>, pictures) + Total(rest, pictures)
  <2>1. \A i \in ToSet(queue) : i \in {item} <=> i \notin ToSet(queue) \ {item}
    OBVIOUS
  <2>2. Total(queue, pictures) = Total(Only(queue, {item}), pictures)
                                 + Total(Only(queue, ToSet(queue) \ {item}), pictures)
    BY <1>3, <2>1, TotalOfParts
  <2>3. QED
    BY <1>5, <2>2 DEF AllBut
<1> HIDE DEF rest
<1>7. <<item>> \in Seq(D)
  BY <1>2
<1>8. Total(queue', pictures) = cache_size
  <2>1. Total(<<item>> \o rest, pictures) = Total(<<item>>, pictures) + Total(rest, pictures)
    <3> DEFINE one == <<item>>
    <3>1. one \in Seq(D) /\ rest \in Seq(D) /\ Sized(D, pictures)
      BY <1>3, <1>4, <1>7
    <3> HIDE DEF one
    <3>2. Total(one \o rest, pictures) = Total(one, pictures) + Total(rest, pictures)
      BY <3>1, TotalOfBoth
    <3>3. QED
      BY <3>2 DEF one
  <2>2. QED
    BY <1>1, <1>3, <1>6, <2>1
<1>9. queue' \in Seq(D) /\ ToSet(queue') = D /\ IsInjective(queue')
  <2>1. item \notin ToSet(rest)
    BY <1>4
  <2>2. /\ <<item>> \o rest \in Seq(D) /\ ToSet(<<item>> \o rest) = {item} \cup ToSet(rest)
        /\ IsInjective(<<item>> \o rest)
    BY <1>2, <1>4, <2>1, ConsFacts
  <2>3. {item} \cup ToSet(rest) = D
    BY <1>2, <1>4
  <2>4. QED
    BY <1>1, <2>2, <2>3
<1>10. queue' \in Seq(Items)
  BY <1>3, <1>9, SeqOfElements
<1>11. Cached(queue', cache_size, pictures)
  BY <1>3, <1>8, <1>9, <1>10 DEF Cached, D
<1>12. Linked(lookup', pictures)
  <2>1. /\ Searched(key, item) \in Seq(Items \cup {Empty})
        /\ Live(Searched(key, item)) = Live(lookup[key])
        /\ Once(Searched(key, item), Items)
    BY <1>2, SearchedFacts
  <2>2. QED
    BY <1>1, <2>1, RelinkStep
<1>13. QED
  BY <1>1, <1>11, <1>12 DEF CacheIInv

-----------------------------------------------------------------------------
(* Adding a picture *)

\* The items in front of some place.
LEMMA FrontFacts ==
    ASSUME NEW S, NEW list \in Seq(S), IsInjective(list), NEW k \in 0..Len(list),
           NEW front, front = SubSeq(list, 1, k)
    PROVE  /\ front \in Seq(S)
           /\ IsInjective(front)
           /\ ToSet(front) \subseteq ToSet(list)
           /\ Only(list, ToSet(front)) = front
<1> DEFINE N == Len(list)
<1>1. N \in Nat /\ DOMAIN list = 1..N /\ k \in 0..N
  OBVIOUS
<1>2. front \in Seq(S) /\ Len(front) = k /\ \A i \in 1..k : front[i] = list[i]
  BY CutFacts
<1>3. DOMAIN front = 1..k
  BY <1>2
<1>4. 1..k \subseteq 1..N
  BY <1>1
<1>5. IsInjective(front) /\ ToSet(front) \subseteq ToSet(list)
  BY <1>1, <1>2, <1>3, <1>4 DEF IsInjective, ToSet
<1>6. ASSUME NEW n \in 1..N PROVE list[n] \in ToSet(front) <=> n <= k
  <2>1. ASSUME n <= k PROVE list[n] \in ToSet(front)
    <3>1. n \in 1..k
      BY <1>1, <2>1
    <3>2. QED
      BY <1>2, <1>3, <3>1 DEF ToSet
  <2>2. ASSUME list[n] \in ToSet(front) PROVE n <= k
    <3>1. PICK i \in 1..k : front[i] = list[n]
      BY <1>3, <2>2 DEF ToSet
    <3>2. i = n
      BY <1>1, <1>2, <1>4, <3>1 DEF IsInjective
    <3>3. QED
      BY <1>1, <3>2
  <2>3. QED
    BY <2>1, <2>2
<1>7. Only(list, ToSet(front)) = SubSeq(list, 1, k)
  BY <1>6, OnlyPrefix
<1>8. QED
  BY <1>2, <1>5, <1>7

\* What AddPicture keeps of the queue, as it is defined there.
Rest(replaced) == AllBut(queue, replaced)
Sum(replaced) == SizeWithout(Only(queue, replaced))
Kept(replaced, needed) ==
    IF needed <= MaxCacheSize /\ Room(needed) < Sum(replaced)
    THEN Shrunk(Rest(replaced), Sum(replaced), Room(needed)) ELSE Rest(replaced)
Freed(replaced, needed) == ToSet(queue) \ ToSet(Kept(replaced, needed))

\* Of the others what is kept leaves room for a picture of the size needed, and
\* the sum without the rest of them is the one of what is kept.
LeavesRoom(kept, others, sum, replaced, needed) ==
    /\ kept \in Seq(DOMAIN pictures)
    /\ IsInjective(kept)
    /\ ToSet(kept) \subseteq ToSet(queue) \ replaced
    /\ sum - SumOfSizes(Only(others, ToSet(queue) \ ToSet(kept))) = Total(kept, pictures)
    /\ Total(kept, pictures) \in Nat
    /\ Total(kept, pictures) <= MaxCacheSize
    /\ needed <= MaxCacheSize => Total(kept, pictures) + needed <= MaxCacheSize

\* There is room for the new picture besides what is kept, and the sum that is
\* left is the one of what is kept.
LEMMA KeptFacts ==
    ASSUME CacheIInv, NEW replaced, NEW needed \in Nat,
           NEW kept, kept = Kept(replaced, needed),
           NEW rest, rest = Rest(replaced),
           NEW sum, sum = Sum(replaced)
    PROVE  LeavesRoom(kept, rest, sum, replaced, needed)
<1> DEFINE D == DOMAIN pictures
           T(s) == Total(s, pictures)
           gone == Only(queue, replaced)
<1>1. /\ queue \in Seq(D) /\ ToSet(queue) = D /\ Sized(D, pictures)
      /\ \A items : Once(queue, items)
      /\ cache_size = T(queue) /\ cache_size \in Nat
      /\ cache_size <= MaxCacheSize /\ MaxCacheSize \in Nat
  BY QueueFacts
<1> HIDE DEF D
<1>2. rest \in Seq(D) /\ ToSet(rest) = ToSet(queue) \ replaced /\ IsInjective(rest)
  BY <1>1, AllButFacts DEF Rest
<1>3. gone \in Seq(D)
  BY <1>1, OnlyFacts
<1>4. T(queue) = T(gone) + T(rest)
  <2>1. \A i \in ToSet(queue) : i \in replaced <=> i \notin ToSet(queue) \ replaced
    OBVIOUS
  <2>2. T(queue) = T(Only(queue, replaced)) + T(Only(queue, ToSet(queue) \ replaced))
    BY <1>1, <2>1, TotalOfParts
  <2>3. QED
    BY <2>2 DEF AllBut, Rest
<1>5. T(gone) \in Nat /\ T(rest) \in Nat
  BY <1>1, <1>2, <1>3, TotalIsNat
<1>6. sum = T(rest)
  <2>1. sum = cache_size - T(gone)
    BY SumIsTotal DEF Sum, SizeWithout
  <2> HIDE DEF T, gone
  <2>2. QED
    BY <1>1, <1>4, <1>5, <2>1
<1> HIDE DEF gone
<1>7. \E k \in 0..Len(rest) : /\ kept = SubSeq(rest, 1, k)
                              /\ needed <= MaxCacheSize => T(kept) <= MaxCacheSize - needed
  <2>1. CASE needed <= MaxCacheSize /\ Room(needed) < sum
    <3>1. Room(needed) \in Nat /\ Room(needed) = MaxCacheSize - needed
      BY <1>1, <2>1 DEF Room
    <3>2. kept = Shrunk(rest, T(rest), Room(needed))
      BY <1>6, <2>1 DEF Kept
    <3>3. \E k \in 0..Len(rest) : /\ Shrunk(rest, T(rest), Room(needed)) = SubSeq(rest, 1, k)
                                  /\ T(SubSeq(rest, 1, k)) <= Room(needed)
      BY <1>1, <1>2, <3>1, ShrunkFacts
    <3>4. QED
      BY <3>1, <3>2, <3>3
  <2>2. CASE ~(needed <= MaxCacheSize /\ Room(needed) < sum)
    <3>1. kept = rest
      BY <2>2 DEF Kept
    <3>2. rest = SubSeq(rest, 1, Len(rest)) /\ Len(rest) \in 0..Len(rest)
      BY <1>2
    <3>3. needed <= MaxCacheSize => T(rest) <= MaxCacheSize - needed
      BY <1>1, <1>5, <1>6, <2>2 DEF Room
    <3>4. QED
      BY <3>1, <3>2, <3>3
  <2>3. QED
    BY <2>1, <2>2
<1>8. PICK k \in 0..Len(rest) : /\ kept = SubSeq(rest, 1, k)
                                /\ needed <= MaxCacheSize => T(kept) <= MaxCacheSize - needed
  BY <1>7
<1>9. /\ kept \in Seq(D) /\ IsInjective(kept) /\ ToSet(kept) \subseteq ToSet(rest)
      /\ Only(rest, ToSet(kept)) = kept
  <2>1. k \in 0..Len(rest) /\ kept = SubSeq(rest, 1, k)
    BY <1>8
  <2>2. rest \in Seq(D) /\ IsInjective(rest)
    BY <1>2
  <2>3. QED
    BY <2>1, <2>2, FrontFacts
<1> DEFINE freed == ToSet(queue) \ ToSet(kept)
           lost == Only(rest, freed)
<1>10. T(rest) = T(kept) + T(lost)
  <2>1. \A i \in ToSet(rest) : i \in ToSet(kept) <=> i \notin freed
    BY <1>2
  <2>2. T(rest) = T(Only(rest, ToSet(kept))) + T(Only(rest, freed))
    BY <1>1, <1>2, <2>1, TotalOfParts
  <2>3. QED
    BY <1>9, <2>2
<1>11. lost \in Seq(D)
  BY <1>2, OnlyFacts
<1>12. T(kept) \in Nat /\ T(lost) \in Nat
  BY <1>1, <1>9, <1>11, TotalIsNat
<1>13. SumOfSizes(lost) = T(lost)
  BY SumIsTotal
<1> HIDE DEF T, lost
<1>14. sum - SumOfSizes(lost) = T(kept) /\ T(kept) <= MaxCacheSize
  BY <1>1, <1>4, <1>5, <1>6, <1>10, <1>12, <1>13
<1>15. needed <= MaxCacheSize => T(kept) + needed <= MaxCacheSize
  BY <1>1, <1>8, <1>12
<1>16. QED
  BY <1>2, <1>9, <1>12, <1>14, <1>15 DEF D, T, lost, LeavesRoom

\* The pictures that are not freed after one is added.
Pictures(freed, fits, item, variant, needed) ==
    [i \in (DOMAIN pictures \ freed) \cup (IF fits THEN {item} ELSE {}) |->
       IF i = item THEN [variant |-> variant, size |-> needed] ELSE pictures[i]]

\* The queue and the pictures after one is added.
LEMMA AddedStep ==
    ASSUME CacheIInv, NEW needed \in Nat, NEW item \in Items, item \notin DOMAIN pictures,
           NEW kept \in Seq(DOMAIN pictures), IsInjective(kept),
           Total(kept, pictures) <= MaxCacheSize,
           needed <= MaxCacheSize => Total(kept, pictures) + needed <= MaxCacheSize,
           NEW variant, NEW fits \in BOOLEAN, fits <=> needed <= MaxCacheSize,
           NEW p, p = Pictures(ToSet(queue) \ ToSet(kept), fits, item, variant, needed),
           NEW q, q = IF fits THEN <<item>> \o kept ELSE kept,
           NEW sum, sum = Total(kept, pictures) + (IF fits THEN needed ELSE 0)
    PROVE  Cached(q, sum, p)
<1> DEFINE D == DOMAIN pictures
           E == DOMAIN p
<1>1. ToSet(queue) = D /\ Sized(D, pictures) /\ D \subseteq Items
  BY QueueFacts
<1>2. ToSet(kept) \subseteq D
  BY DEF ToSet
<1>3. E = ToSet(kept) \cup (IF fits THEN {item} ELSE {})
  BY <1>1, <1>2 DEF Pictures
<1>4. \A i \in ToSet(kept) : p[i] = pictures[i]
  BY <1>2, <1>3 DEF Pictures
<1>5. fits => p[item].size = needed
  BY <1>3 DEF Pictures
<1> HIDE DEF E
<1>6. Sized(E, p)
  <2>1. SUFFICES ASSUME NEW i \in E PROVE p[i].size \in Nat
    BY DEF Sized
  <2>2. CASE i \in ToSet(kept)
    BY <1>1, <1>2, <1>4, <2>2 DEF Sized
  <2>3. CASE i \notin ToSet(kept)
    BY <1>3, <1>5, <2>3
  <2>4. QED
    BY <2>2, <2>3
<1>7. kept \in Seq(E)
  BY <1>3, SeqOfElements
<1>8. Total(kept, p) = Total(kept, pictures) /\ Total(kept, pictures) \in Nat
  <2>1. kept \in Seq(D)
    OBVIOUS
  <2> HIDE DEF D
  <2>2. Total(kept, pictures) \in Nat
    BY <1>1, <2>1, TotalIsNat
  <2>3. Total(kept, p) = Total(kept, pictures)
    BY <1>1, <1>4, <2>1, TotalsAgree
  <2>4. QED
    BY <2>2, <2>3
<1>9. CASE fits
  <2> DEFINE one == <<item>>
  <2>1. item \in E /\ item \notin ToSet(kept)
    BY <1>2, <1>3, <1>9
  <2>2. /\ one \o kept \in Seq(E) /\ ToSet(one \o kept) = {item} \cup ToSet(kept)
        /\ IsInjective(one \o kept)
    BY <1>7, <2>1, ConsFacts
  <2>3. Total(one, p) = needed
    BY <1>5, <1>6, <1>9, <2>1, TotalOfOne
  <2>4. one \in Seq(E)
    BY <2>1
  <2> HIDE DEF one
  <2>5. Total(one \o kept, p) = needed + Total(kept, pictures)
    BY <1>6, <1>7, <1>8, <2>3, <2>4, TotalOfBoth
  <2>6. q = one \o kept /\ sum = Total(kept, pictures) + needed
    BY <1>9 DEF one
  <2>7. sum = Total(q, p) /\ sum <= MaxCacheSize
    <3> DEFINE t == Total(kept, pictures)
    <3>1. t \in Nat /\ t + needed <= MaxCacheSize
      BY <1>8, <1>9
    <3>2. sum = t + needed /\ Total(q, p) = needed + t
      BY <2>5, <2>6
    <3> HIDE DEF t
    <3>3. QED
      BY <3>1, <3>2
  <2>8. ToSet(q) = E /\ IsInjective(q) /\ q \in Seq(E)
    BY <1>3, <1>9, <2>2, <2>6
  <2>9. q \in Seq(Items)
    <3>1. E \subseteq Items
      BY <1>1, <1>2, <1>3
    <3>2. QED
      BY <2>8, <3>1, SeqOfElements
  <2>10. QED
    BY <1>6, <2>7, <2>8, <2>9 DEF Cached, E
<1>10. CASE ~fits
  <2>1. q = kept /\ sum = Total(q, p) /\ ToSet(q) = E /\ sum <= MaxCacheSize
    BY <1>3, <1>8, <1>10
  <2>2. q \in Seq(Items)
    <3>1. ToSet(kept) \subseteq Items
      BY <1>1, <1>2
    <3>2. QED
      BY <2>1, <3>1, SeqOfElements
  <2>3. QED
    BY <1>6, <2>1, <2>2 DEF Cached, E
<1>11. QED
  BY <1>9, <1>10

\* The links after a picture is added: a stream forgets its last one.
LEMMA LinkedStep ==
    ASSUME CacheIInv, NEW key \in Keys, NEW variant, NEW item \in Items,
           item \notin DOMAIN pictures, NEW needed, NEW fits \in BOOLEAN,
           key \notin Streams => \A i \in Live(lookup[key]) : pictures[i].variant # variant,
           NEW list \in Seq(Items \cup {Empty}), Once(list, Items),
           Live(list) = Live(lookup[key]),
           NEW links, links = <<item>> \o (IF key \in Streams THEN <<>> ELSE list),
           NEW freed \in SUBSET DOMAIN pictures,
           key \in Streams => Live(lookup[key]) \subseteq freed,
           NEW p, p = Pictures(freed, fits, item, variant, needed),
           NEW new, new = WithoutItems([lookup EXCEPT ![key] = links],
                                       IF fits THEN freed ELSE freed \cup {item})
    PROVE  Linked(new, p)
<1> DEFINE gone == IF fits THEN freed ELSE freed \cup {item}
           lists == [lookup EXCEPT ![key] = links]
           base == IF key \in Streams THEN {} ELSE Live(lookup[key])
           D == DOMAIN pictures
<1>1. /\ lookup \in [Keys -> Seq(Items \cup {Empty})]
      /\ \A k \in Keys : Once(lookup[k], Items)
      /\ \A j, k \in Keys : j # k => Live(lookup[j]) \cap Live(lookup[k]) = {}
      /\ D = UNION {Live(lookup[k]) : k \in Keys}
      /\ \A k \in Keys : \A i, j \in Live(lookup[k]) :
            i # j => k \in Images /\ pictures[i].variant # pictures[j].variant
  BY DEF CacheIInv, Linked
<1>2. \A k \in Keys : Live(lookup[k]) \subseteq D /\ item \notin Live(lookup[k])
  BY <1>1
<1>3. item # Empty
  BY CacheAssumption
<1>4. /\ links \in Seq(Items \cup {Empty}) /\ Once(links, Items)
      /\ Live(links) = {item} \cup base
  <2> DEFINE rest == IF key \in Streams THEN <<>> ELSE list
  <2>1. rest \in Seq(Items \cup {Empty}) /\ Once(rest, Items) /\ Live(rest) = base
    <3>1. CASE key \in Streams
      <4>1. rest = <<>> /\ ToSet(rest) = {} /\ base = {}
        BY <3>1 DEF ToSet
      <4>2. Once(rest, Items)
        BY <4>1 DEF Once
      <4>3. QED
        BY <4>1, <4>2 DEF Live
    <3>2. CASE key \notin Streams
      BY <3>2
    <3>3. QED
      BY <3>1, <3>2
  <2>2. item \notin ToSet(rest)
    <3>1. item \notin Live(rest)
      BY <1>2, <2>1
    <3>2. QED
      BY <1>3, <3>1 DEF Live
  <2>3. links = <<item>> \o rest
    OBVIOUS
  <2> HIDE DEF rest, base
  <2>4. item \in Items \cup {Empty}
    OBVIOUS
  <2>5. /\ links \in Seq(Items \cup {Empty}) /\ ToSet(links) = {item} \cup ToSet(rest)
        /\ Once(links, Items)
    BY <2>1, <2>2, <2>3, <2>4, ConsFacts
  <2>6. QED
    BY <1>3, <2>1, <2>5 DEF Live
<1> HIDE DEF base
<1>5. /\ lists \in [Keys -> Seq(Items \cup {Empty})]
      /\ lists[key] = links /\ \A k \in Keys : k # key => lists[k] = lookup[k]
  BY <1>1, <1>4
<1> HIDE DEF lists
<1>6. \A k \in Keys : Once(lists[k], Items)
  BY <1>1, <1>4, <1>5
<1>7. new = WithoutItems(lists, gone)
  BY DEF lists
<1> HIDE DEF gone
<1>8. /\ new \in [Keys -> Seq(Items \cup {Empty})]
      /\ \A k \in Keys : Once(new[k], Items)
      /\ \A k \in Keys : Live(new[k]) = Live(lists[k]) \ gone
  <2> DEFINE S == Items \cup {Empty}
  <2>1. lists \in [Keys -> Seq(S)]
    BY <1>5
  <2> HIDE DEF S
  <2>2. /\ new \in [Keys -> Seq(S)]
        /\ \A k \in Keys : Once(new[k], Items)
        /\ \A k \in Keys : Live(new[k]) = Live(lists[k]) \ gone
    BY <1>6, <1>7, <2>1, WithoutItemsFacts DEF S
  <2>3. QED
    BY <2>2 DEF S
<1>9. /\ Live(new[key]) = ({item} \cup base) \ gone
      /\ \A k \in Keys : k # key => Live(new[k]) = Live(lookup[k]) \ gone
  BY <1>4, <1>5, <1>8
<1>10. /\ gone \cap D = freed /\ (item \in gone <=> ~fits)
       /\ base \subseteq Live(lookup[key]) /\ Live(lookup[key]) \ gone \subseteq base
  BY <1>2 DEF gone, base
<1>11. \A j, k \in Keys : j # k => Live(new[j]) \cap Live(new[k]) = {}
  <2>1. ASSUME NEW k \in Keys, k # key PROVE Live(new[key]) \cap Live(new[k]) = {}
    <3>1. Live(lookup[key]) \cap Live(lookup[k]) = {} /\ item \notin Live(lookup[k])
      BY <1>1, <1>2, <2>1
    <3>2. Live(new[k]) \subseteq Live(lookup[k])
      BY <1>9, <2>1
    <3>3. Live(new[key]) \subseteq {item} \cup Live(lookup[key])
      BY <1>9, <1>10
    <3>4. QED
      BY <3>1, <3>2, <3>3
  <2>2. SUFFICES ASSUME NEW j \in Keys, NEW k \in Keys, j # k
                 PROVE  Live(new[j]) \cap Live(new[k]) = {}
    OBVIOUS
  <2>3. CASE j = key
    BY <2>1, <2>2, <2>3
  <2>4. CASE k = key
    <3>1. Live(new[key]) \cap Live(new[j]) = {}
      BY <2>1, <2>2, <2>4
    <3>2. QED
      BY <2>4, <3>1
  <2>5. CASE j # key /\ k # key
    <3>1. Live(lookup[j]) \cap Live(lookup[k]) = {}
      BY <1>1, <2>2
    <3>2. Live(new[j]) \subseteq Live(lookup[j]) /\ Live(new[k]) \subseteq Live(lookup[k])
      BY <1>9, <2>5
    <3>3. QED
      BY <3>1, <3>2
  <2>6. QED
    BY <2>3, <2>4, <2>5
<1>12. DOMAIN p = (D \ freed) \cup (IF fits THEN {item} ELSE {})
  BY DEF Pictures
<1>13. DOMAIN p = UNION {Live(new[k]) : k \in Keys}
  <2>1. ASSUME NEW i \in DOMAIN p PROVE \E k \in Keys : i \in Live(new[k])
    <3>1. CASE i = item
      BY <1>2, <1>9, <1>10, <1>12, <2>1, <3>1
    <3>2. CASE i # item
      <4>1. i \in D \ freed
        BY <1>12, <2>1, <3>2
      <4>2. i \notin gone
        BY <1>10, <4>1
      <4>3. PICK k \in Keys : i \in Live(lookup[k])
        BY <1>1, <4>1
      <4>4. QED
        BY <1>9, <1>10, <4>2, <4>3
    <3>3. QED
      BY <3>1, <3>2
  <2>2. ASSUME NEW k \in Keys, NEW i \in Live(new[k]) PROVE i \in DOMAIN p
    <3>1. i \notin gone /\ (i = item \/ i \in Live(lookup[k]))
      BY <1>9, <1>10, <2>2
    <3>2. CASE i = item
      BY <1>10, <1>12, <3>1, <3>2
    <3>3. CASE i \in Live(lookup[k])
      BY <1>2, <1>10, <1>12, <3>1, <3>3
    <3>4. QED
      BY <3>1, <3>2, <3>3
  <2> DEFINE P == DOMAIN p
             U == UNION {Live(new[k]) : k \in Keys}
  <2>3. \A i : i \in U <=> \E k \in Keys : i \in Live(new[k])
    OBVIOUS
  <2>4. \A i : i \in P <=> \E k \in Keys : i \in Live(new[k])
    BY <2>1, <2>2
  <2> HIDE DEF P, U
  <2>5. P = U
    BY <2>3, <2>4
  <2>6. QED
    BY <2>5 DEF P, U
<1>14. \A i \in DOMAIN p : i # item => p[i] = pictures[i]
  BY DEF Pictures
<1>15. item \in DOMAIN p => p[item].variant = variant
  BY DEF Pictures
<1>16. ASSUME NEW k \in Keys, NEW i \in Live(new[k]), NEW j \in Live(new[k]), i # j
       PROVE  k \in Images /\ p[i].variant # p[j].variant
  <2>1. i \in DOMAIN p /\ j \in DOMAIN p
    BY <1>13, <1>16
  <2>2. /\ i = item => k = key
        /\ j = item => k = key
        /\ i # item => i \in Live(lookup[k])
        /\ j # item => j \in Live(lookup[k])
        /\ k = key => (i # item => i \in base) /\ (j # item => j \in base)
    BY <1>2, <1>9, <1>10, <1>16
  <2>3. CASE i # item /\ j # item
    <3>1. i \in Live(lookup[k]) /\ j \in Live(lookup[k])
      BY <2>2, <2>3
    <3>2. k \in Images /\ pictures[i].variant # pictures[j].variant
      BY <1>1, <1>16, <3>1
    <3>3. p[i] = pictures[i] /\ p[j] = pictures[j]
      BY <1>14, <2>1, <2>3
    <3>4. QED
      BY <3>2, <3>3
  <2>4. CASE i = item \/ j = item
    <3>1. k = key /\ base # {}
      BY <1>16, <2>2, <2>4
    <3>2. key \notin Streams /\ key \in Images
      BY <3>1 DEF base, Keys
    <3>3. \A n \in Live(lookup[key]) : pictures[n].variant # variant
      BY <3>2
    <3>4. QED
      BY <1>14, <1>15, <1>16, <2>1, <2>2, <2>4, <3>1, <3>2, <3>3
  <2>5. QED
    BY <2>3, <2>4
<1>17. QED
  BY <1>8, <1>11, <1>13, <1>16 DEF Linked

LEMMA AddPictureStep ==
    ASSUME CacheIInv, NEW key \in Keys, NEW variant \in Variants, NEW needed \in Sizes,
           NEW item \in Items, AddPicture(key, variant, needed, item)
    PROVE  CacheIInv'
<1> DEFINE list == Searched(key, Found(key, variant))
           replaced == IF key \in Streams THEN ToSet(list) \ {Empty} ELSE {}
           others == AllBut(queue, replaced)
           sum == SizeWithout(Only(queue, replaced))
           fits == needed <= MaxCacheSize
           kept == IF fits /\ Room(needed) < sum THEN Shrunk(others, sum, Room(needed))
                   ELSE others
           freed == ToSet(queue) \ ToSet(kept)
           links == <<item>> \o IF key \in Streams THEN <<>> ELSE list
           left == sum - SumOfSizes(Only(others, freed))
<1>1. /\ ~Hit(key, variant)
      /\ item \notin DOMAIN pictures
      /\ queue' = IF fits THEN <<item>> \o kept ELSE kept
      /\ cache_size' = left + (IF fits THEN needed ELSE 0)
      /\ lookup' = WithoutItems([lookup EXCEPT ![key] = links],
                                IF fits THEN freed ELSE freed \cup {item})
      /\ pictures' = Pictures(freed, fits, item, variant, needed)
  BY DEF AddPicture, Pictures
<1>2. needed \in Nat /\ fits \in BOOLEAN
  BY CacheAssumption
<1>3. /\ list \in Seq(Items \cup {Empty})
      /\ Live(list) = Live(lookup[key])
      /\ Once(list, Items)
  <2>1. Found(key, variant) \in Live(lookup[key]) \cup {Empty}
    BY FoundFacts
  <2>2. QED
    BY <2>1, SearchedFacts
<1>4. key \notin Streams => \A i \in Live(lookup[key]) : pictures[i].variant # variant
  BY <1>1, FoundFacts
<1>5. kept = Kept(replaced, needed) /\ others = Rest(replaced) /\ sum = Sum(replaced)
  BY DEF Kept, Rest, Sum
<1> HIDE DEF list
<1>6. key \in Streams => replaced = Live(lookup[key])
  BY <1>3 DEF Live
<1> HIDE DEF kept, others, sum, replaced, fits
<1>7. /\ kept \in Seq(DOMAIN pictures)
      /\ IsInjective(kept)
      /\ ToSet(kept) \subseteq ToSet(queue) \ replaced
      /\ left = Total(kept, pictures)
      /\ Total(kept, pictures) \in Nat
      /\ Total(kept, pictures) <= MaxCacheSize
      /\ fits => Total(kept, pictures) + needed <= MaxCacheSize
  <2>1. LeavesRoom(kept, others, sum, replaced, needed)
    BY <1>2, <1>5, KeptFacts
  <2>2. QED
    BY <2>1 DEF LeavesRoom, fits
<1>8. ToSet(queue) = DOMAIN pictures
  BY QueueFacts
<1> HIDE DEF left
<1>9. Cached(queue', cache_size', pictures')
  <2>1. cache_size' = Total(kept, pictures) + (IF fits THEN needed ELSE 0)
    BY <1>1, <1>7
  <2>2. pictures' = Pictures(ToSet(queue) \ ToSet(kept), fits, item, variant, needed)
    BY <1>1
  <2>3. fits <=> needed <= MaxCacheSize
    BY DEF fits
  <2>4. needed <= MaxCacheSize => Total(kept, pictures) + needed <= MaxCacheSize
    BY <1>7, <2>3
  <2> DEFINE q == queue'
             s == cache_size'
             p == pictures'
  <2>5. /\ q = IF fits THEN <<item>> \o kept ELSE kept
        /\ s = Total(kept, pictures) + (IF fits THEN needed ELSE 0)
        /\ p = Pictures(ToSet(queue) \ ToSet(kept), fits, item, variant, needed)
    BY <1>1, <2>1, <2>2
  <2> HIDE DEF q, s, p, freed, links
  <2>6. Cached(q, s, p)
    BY <1>1, <1>2, <1>7, <2>3, <2>4, <2>5, AddedStep
  <2>7. QED
    BY <2>6 DEF q, s, p
<1>10. Linked(lookup', pictures')
  <2>1. freed \in SUBSET DOMAIN pictures
    BY <1>8
  <2>2. key \in Streams => Live(lookup[key]) \subseteq freed
    <3>1. Live(lookup[key]) \subseteq DOMAIN pictures
      BY LinkFacts
    <3>2. QED
      BY <1>6, <1>7, <1>8, <3>1
  <2>3. links = <<item>> \o (IF key \in Streams THEN <<>> ELSE list)
    OBVIOUS
  <2> HIDE DEF freed, links, fits
  <2>4. QED
    BY <1>1, <1>2, <1>3, <1>4, <2>1, <2>2, <2>3, LinkedStep
<1>11. QED
  BY <1>9, <1>10 DEF CacheIInv

\* The inductive invariant of the cache holds in every reachable state, for all
\* images, streams, variants and sizes, and every size of the cache.
THEOREM CacheIsSound == CacheSpec => []CacheIInv
<1>1. CacheIInv /\ [CacheNext]_cacheVars => CacheIInv'
  <2> SUFFICES ASSUME CacheIInv, [CacheNext]_cacheVars PROVE CacheIInv'
    OBVIOUS
  <2>1. CASE CacheNext
    BY <2>1, UsePictureStep, AddPictureStep DEF CacheNext
  <2>2. CASE UNCHANGED cacheVars
    BY <2>2 DEF cacheVars, CacheIInv
  <2>3. QED
    BY <2>1, <2>2
<1>2. QED
  BY <1>1, CacheInitStep, PTL DEF CacheSpec

\* The sum, the order and the lists of the cache agree: no picture is freed or
\* counted twice, none is lost, and the sum never exceeds the maximum.
THEOREM CacheAlwaysAgrees == CacheSpec => []CacheAgrees
<1>1. CacheIInv => CacheAgrees
  <2> SUFFICES ASSUME CacheIInv PROVE CacheAgrees
    OBVIOUS
  <2>1. /\ cache_size = SumOfSizes(queue) /\ cache_size <= MaxCacheSize
        /\ IsInjective(queue) /\ ToSet(queue) = DOMAIN pictures
    BY QueueFacts, SumIsTotal
  <2>2. ASSUME NEW k \in Keys, NEW n \in DOMAIN lookup[k], lookup[k][n] # Empty
        PROVE  lookup[k][n] \in Live(lookup[k]) /\ lookup[k][n] \in Items
    <3>1. lookup[k][n] \in Live(lookup[k])
      BY <2>2 DEF Live, ToSet
    <3>2. QED
      BY <3>1, LinkFacts
  <2>3. ASSUME NEW i \in DOMAIN pictures
        PROVE  Cardinality(UNION {{k} \X {n \in DOMAIN lookup[k] : lookup[k][n] = i} : k \in Keys}) = 1
    <3> DEFINE at(k) == {n \in DOMAIN lookup[k] : lookup[k][n] = i}
               P == UNION {{k} \X at(k) : k \in Keys}
    <3>1. PICK k \in Keys : i \in Live(lookup[k])
      BY <2>3 DEF CacheIInv, Linked
    <3>2. PICK n \in DOMAIN lookup[k] : lookup[k][n] = i
      BY <3>1 DEF Live, ToSet
    <3>3. i \in Items /\ i # Empty
      BY <3>1, LinkFacts DEF Live
    <3>4. \A m \in DOMAIN lookup[k] : lookup[k][m] = i => m = n
      BY <3>2, <3>3, LinkFacts DEF Once
    <3>5. \A j \in Keys : j # k => at(j) = {}
      <4>1. SUFFICES ASSUME NEW j \in Keys, j # k, NEW m \in at(j) PROVE FALSE
        OBVIOUS
      <4>2. i \in Live(lookup[j])
        BY <3>3, <4>1 DEF Live, ToSet
      <4>3. QED
        BY <3>1, <4>1, <4>2 DEF CacheIInv, Linked
    <3>6. at(k) = {n}
      BY <3>2, <3>4
    <3> HIDE DEF at
    <3>7. P = {<<k, n>>}
      BY <3>5, <3>6
    <3> HIDE DEF P
    <3>8. Cardinality(P) = 1
      BY <3>7, FS_Singleton
    <3>9. QED
      BY <3>8 DEF P, at
  <2>4. ASSUME NEW k \in Keys, NEW m \in DOMAIN lookup[k], NEW n \in DOMAIN lookup[k],
               lookup[k][m] # Empty, lookup[k][n] # Empty, m # n
        PROVE  k \in Images /\ pictures[lookup[k][m]].variant # pictures[lookup[k][n]].variant
    <3>1. /\ lookup[k][m] \in Live(lookup[k]) /\ lookup[k][m] \in Items
          /\ lookup[k][n] \in Live(lookup[k])
      BY <2>2, <2>4
    <3>2. lookup[k][m] # lookup[k][n]
      BY <2>4, <3>1, LinkFacts DEF Once
    <3>3. QED
      BY <3>1, <3>2 DEF CacheIInv, Linked
  <2>5. QED
    BY <2>1, <2>3, <2>4 DEF CacheAgrees
<1>2. QED
  BY <1>1, CacheIsSound, PTL

-----------------------------------------------------------------------------
(* Tags of a video file: bisection *)

\* Where a search for a time may be: what is before min is not later, and what
\* is at max is.  Every round makes the range smaller, down to one tag.
Between(tags, time, n, range) ==
    /\ range \in [min : 0..Len(tags), max : 0..Len(tags)]
    /\ range.min < range.max
    /\ range.min = 0 \/ tags[range.min + 1].time <= time
    /\ range.max = Len(tags) \/ tags[range.max + 1].time > time
    /\ range.max - range.min + n <= Len(tags) \/ range.max - range.min = 1

LEMMA Middle ==
    \A i, j \in Nat : j - i > 1 => /\ (i + j) \div 2 \in Nat
                                   /\ i < (i + j) \div 2 /\ (i + j) \div 2 < j
OBVIOUS

LEMMA MiddleIsNat == \A i, j \in Nat : (i + j) \div 2 \in Nat /\ ((i + j) \div 2 <= i \/ (i + j) \div 2 <= j)
OBVIOUS

LEMMA HalvesAreShorter ==
    \A i, j, c, n, N \in Nat :
        i < c /\ c < j /\ j - i + n <= N =>
            c - i + (n + 1) <= N /\ j - c + (n + 1) <= N
OBVIOUS

LEMMA HalfTyped ==
    ASSUME NEW tags, NEW time, NEW N \in Nat, NEW range \in [min : 0..N, max : 0..N]
    PROVE  Half(tags, time, range) \in [min : 0..N, max : 0..N]
<1> DEFINE cur == (range.min + range.max) \div 2
           R == [min : 0..N, max : 0..N]
<1>1. range.min \in 0..N /\ range.max \in 0..N
  OBVIOUS
<1>2. cur \in 0..N
  BY <1>1, MiddleIsNat
<1>3. Half(tags, time, range) = IF range.max - range.min <= 1 THEN range
                                ELSE IF tags[cur + 1].time > time THEN [range EXCEPT !.max = cur]
                                ELSE [range EXCEPT !.min = cur]
  BY DEF Half
<1> HIDE DEF cur
<1>4. [range EXCEPT !.max = cur] \in R /\ [range EXCEPT !.min = cur] \in R
  BY <1>2
<1> HIDE DEF R
<1>5. range \in R
  BY DEF R
<1>6. Half(tags, time, range) \in R
  BY <1>3, <1>4, <1>5
<1>7. QED
  BY <1>6 DEF R

LEMMA HalfStep ==
    ASSUME NEW S, \A t \in S : t.time \in Nat, NEW tags \in Seq(S), NEW time \in Nat,
           NEW n \in Nat, NEW range, Between(tags, time, n, range),
           NEW next, next = Half(tags, time, range)
    PROVE  Between(tags, time, n + 1, next)
<1> DEFINE N == Len(tags)
           i == range.min
           j == range.max
           cur == (i + j) \div 2
<1>1. N \in Nat /\ i \in 0..N /\ j \in 0..N /\ i < j /\ range \in [min : 0..N, max : 0..N]
  BY DEF Between
<1>2. CASE j - i <= 1
  <2>1. next = range /\ j - i = 1
    BY <1>1, <1>2 DEF Half
  <2>2. QED
    BY <2>1 DEF Between
<1>3. CASE j - i > 1
  <2>1. cur \in Nat /\ i < cur /\ cur < j
    BY <1>1, <1>3, Middle
  <2> DEFINE low == [range EXCEPT !.max = cur]
             high == [range EXCEPT !.min = cur]
  <2>2. next = IF tags[cur + 1].time > time THEN low ELSE high
    BY <1>1, <1>3 DEF Half
  <2> HIDE DEF cur
  <2>3. cur \in 0..N
    BY <1>1, <2>1
  <2>4. /\ low \in [min : 0..N, max : 0..N] /\ low.min = i /\ low.max = cur
        /\ high \in [min : 0..N, max : 0..N] /\ high.min = cur /\ high.max = j
    BY <1>1, <2>3
  <2>5. tags[cur + 1].time \in Nat
    <3>1. cur + 1 \in 1..N
      BY <1>1, <2>1
    <3>2. tags[cur + 1] \in S
      BY <3>1
    <3>3. QED
      BY <3>2
  <2> HIDE DEF low, high
  <2>6. /\ i = 0 \/ tags[i + 1].time <= time
        /\ j = N \/ tags[j + 1].time > time
        /\ j - i + n <= N
    BY <1>1, <1>3 DEF Between
  <2> HIDE DEF i, j, N
  <2>7. cur - i + (n + 1) <= N /\ j - cur + (n + 1) <= N
    <3>1. i \in Nat /\ j \in Nat /\ cur \in Nat /\ N \in Nat
      BY <1>1, <2>1
    <3>2. i < cur /\ cur < j /\ j - i + n <= N
      BY <2>1, <2>6
    <3>3. QED
      BY <3>1, <3>2, HalvesAreShorter
  <2>8. CASE tags[cur + 1].time > time
    <3>1. next.min = i /\ next.max = cur /\ next \in [min : 0..N, max : 0..N]
      BY <2>2, <2>4, <2>8
    <3>2. QED
      BY <2>1, <2>6, <2>7, <2>8, <3>1 DEF Between, N
  <2>9. CASE ~(tags[cur + 1].time > time)
    <3>1. next.min = cur /\ next.max = j /\ next \in [min : 0..N, max : 0..N]
      BY <2>2, <2>4, <2>9
    <3>2. tags[cur + 1].time <= time
      BY <2>5, <2>9
    <3>3. QED
      BY <2>1, <2>6, <2>7, <3>1, <3>2 DEF Between, N
  <2>10. QED
    BY <2>8, <2>9
<1>4. QED
  BY <1>1, <1>2, <1>3

\* What is found is not later, unless nothing is, and what is next is.
Finds(tags, time, n) ==
    /\ n \in 1..Len(tags)
    /\ n = 1 \/ tags[n].time <= time
    /\ n = Len(tags) \/ tags[n + 1].time > time

LEMMA FindFacts ==
    ASSUME NEW S, \A t \in S : t.time \in Nat, NEW tags \in Seq(S), tags # <<>>,
           NEW time \in Nat
    PROVE  Finds(tags, time, Find(tags, time))
<1> DEFINE N == Len(tags)
           V == [min : 0..N, max : 0..N]
           base == [min |-> 0, max |-> N]
           h == [n \in 1..N |-> [r \in V |-> Half(tags, time, r)]]
           rec(f) == [n \in 0..N |-> IF n = 0 THEN base ELSE Half(tags, time, f[n - 1])]
           range == CHOOSE f : f = rec(f)
<1>1. N \in Nat /\ N > 0
  OBVIOUS
<1>2. Find(tags, time) = range[N].min + 1
  BY DEF Find
<1>3. base \in V /\ base.min = 0 /\ base.max = N
  BY <1>1
<1>4. \A r \in V : Half(tags, time, r) \in V
  BY <1>1, HalfTyped
<1> HIDE DEF N, V, base
<1>5. h \in [1..N -> [V -> V]]
  BY <1>4
<1>6. PICK f : Steps(V, base, N, h, f)
  <2> HIDE DEF h
  <2>1. QED
    BY <1>1, <1>3, <1>5, StepsExist
<1>7. \A n \in 1..N : f[n] = Half(tags, time, f[n - 1])
  <2>1. TAKE n \in 1..N
  <2>2. n - 1 \in 0..N
    BY <1>1
  <2>3. f[n - 1] \in V /\ f[n] = h[n][f[n - 1]]
    BY <1>6, <2>2 DEF Steps
  <2>4. QED
    BY <2>3
<1>8. f = rec(f)
  <2>1. \A n \in 0..N : f[n] = IF n = 0 THEN base ELSE Half(tags, time, f[n - 1])
    BY <1>1, <1>6, <1>7 DEF Steps
  <2>2. QED
    BY <1>6, <2>1 DEF Steps
<1>9. range = rec(range)
  BY <1>8
<1> HIDE DEF range
<1>10. range[0] = base /\ \A n \in 1..N : range[n] = Half(tags, time, range[n - 1])
  BY <1>1, <1>9
<1> DEFINE H == {n \in 0..N : Between(tags, time, n, range[n])}
<1>11. 0 \in H
  <2>1. Between(tags, time, 0, base)
    BY <1>1, <1>3 DEF Between, V, N
  <2>2. QED
    BY <1>1, <1>10, <2>1
<1>12. ASSUME NEW n \in 1..N, n - 1 \in H PROVE n \in H
  <2>1. n - 1 \in Nat /\ n \in 0..N /\ (n - 1) + 1 = n
    BY <1>1
  <2>2. Between(tags, time, n - 1, range[n - 1])
    BY <1>12
  <2>3. Between(tags, time, (n - 1) + 1, Half(tags, time, range[n - 1]))
    BY <2>1, <2>2, HalfStep
  <2>4. QED
    BY <1>10, <2>1, <2>3
<1>13. N \in H
  <2>1. H \in SUBSET (0..N) /\ N \in 0..N
    BY <1>1
  <2> HIDE DEF H
  <2>2. QED
    BY <1>1, <1>11, <1>12, <2>1, Upwards
<1> DEFINE r == range[N]
<1>14. Between(tags, time, N, r)
  BY <1>13
<1> HIDE DEF r
<1>15. /\ r.min \in 0..N /\ r.max \in 0..N /\ r.max = r.min + 1
       /\ r.min = 0 \/ tags[r.min + 1].time <= time
       /\ r.max = N \/ tags[r.max + 1].time > time
  BY <1>1, <1>14 DEF Between, N
<1>16. Find(tags, time) = r.min + 1
  BY <1>2 DEF r
<1>17. QED
  BY <1>1, <1>15, <1>16 DEF Finds, N

-----------------------------------------------------------------------------
(* Tags of a video file: keeping them *)

\* Everything that came is kept, and in its order if that is the one of time.
Increasing(tags) == \A i \in 2..Len(tags) : tags[i - 1].time < tags[i].time

Stored(tags, kept) ==
    /\ Len(tags) = Len(kept)
    /\ ToSet(tags) = ToSet(kept)
    /\ Increasing(kept) => tags = kept

\* A list with one more element somewhere in it.
LEMMA InsertAtFacts ==
    ASSUME NEW S, NEW list \in Seq(S), NEW x \in S, NEW k \in 1..Len(list),
           NEW new, new = InsertAt(list, k, x)
    PROVE  /\ new \in Seq(S)
           /\ Len(new) = Len(list) + 1
           /\ ToSet(new) = ToSet(list) \cup {x}
<1> DEFINE N == Len(list)
           m == k - 1
           left == SubSeq(list, 1, m)
           one == <<x>>
           right == SubSeq(list, m + 1, N)
           both == left \o one
<1>1. N \in Nat /\ k \in 1..N /\ m \in 0..N /\ m + 1 = k /\ DOMAIN list = 1..N
  OBVIOUS
<1>2. new = both \o right
  BY <1>1 DEF InsertAt
<1> HIDE DEF m
<1>3. /\ left \in Seq(S) /\ Len(left) = m /\ \A i \in 1..m : left[i] = list[i]
      /\ right \in Seq(S) /\ Len(right) = N - m /\ \A i \in 1..N - m : right[i] = list[m + i]
  BY <1>1, CutFacts
<1>4. one \in Seq(S) /\ Len(one) = 1 /\ one[1] = x
  OBVIOUS
<1> HIDE DEF N, left, one, right
<1>5. /\ both \in Seq(S)
      /\ Len(both) = Len(left) + Len(one)
      /\ \A i \in 1..Len(left) : both[i] = left[i]
      /\ \A i \in Len(left) + 1..Len(left) + Len(one) : both[i] = one[i - Len(left)]
  <2>1. left \in Seq(S) /\ one \in Seq(S)
    BY <1>3, <1>4
  <2>2. QED
    BY <2>1, ConcatFacts
<1> HIDE DEF both
<1>6. /\ Len(both) = k
      /\ \A i \in 1..m : both[i] = list[i]
      /\ both[k] = x
  <2>1. Len(both) = k
    BY <1>1, <1>3, <1>4, <1>5
  <2>2. \A i \in 1..m : both[i] = list[i]
    BY <1>3, <1>5
  <2>3. k \in Len(left) + 1..Len(left) + Len(one) /\ k - Len(left) = 1
    BY <1>1, <1>3, <1>4
  <2>4. both[k] = x
    BY <1>4, <1>5, <2>3
  <2>5. QED
    BY <2>1, <2>2, <2>4
<1>7. /\ new \in Seq(S)
      /\ Len(new) = Len(both) + Len(right)
      /\ \A i \in 1..Len(both) : new[i] = both[i]
      /\ \A i \in Len(both) + 1..Len(both) + Len(right) : new[i] = right[i - Len(both)]
  <2>1. both \in Seq(S) /\ right \in Seq(S)
    BY <1>3, <1>5
  <2>2. /\ both \o right \in Seq(S)
        /\ Len(both \o right) = Len(both) + Len(right)
        /\ \A i \in 1..Len(both) : (both \o right)[i] = both[i]
        /\ \A i \in Len(both) + 1..Len(both) + Len(right) :
              (both \o right)[i] = right[i - Len(both)]
    BY <2>1, ConcatFacts
  <2>3. QED
    BY <1>2, <2>2
<1>8. Len(new) = N + 1 /\ DOMAIN new = 1..N + 1
  <2>1. Len(new) = N + 1
    BY <1>1, <1>3, <1>6, <1>7
  <2>2. QED
    BY <1>7, <2>1
<1>9. ASSUME NEW i \in k + 1..N + 1 PROVE new[i] = list[i - 1]
  <2>1. /\ i \in Len(both) + 1..Len(both) + Len(right)
        /\ i - Len(both) \in 1..N - m
        /\ m + (i - Len(both)) = i - 1
    BY <1>1, <1>3, <1>6
  <2>2. new[i] = right[i - Len(both)]
    BY <1>7, <2>1
  <2>3. QED
    BY <1>3, <2>1, <2>2
<1>10. ASSUME NEW i \in 1..N + 1 PROVE new[i] \in ToSet(list) \cup {x}
  <2>1. CASE i < k
    <3>1. i \in 1..Len(both) /\ i \in 1..m /\ i \in 1..N
      BY <1>1, <1>6, <2>1
    <3>2. new[i] = list[i]
      BY <1>6, <1>7, <3>1
    <3>3. QED
      BY <1>1, <3>1, <3>2 DEF ToSet
  <2>2. CASE i = k
    <3>1. i \in 1..Len(both)
      BY <1>1, <1>6, <2>2
    <3>2. QED
      BY <1>6, <1>7, <2>2, <3>1
  <2>3. CASE i > k
    <3>1. i \in k + 1..N + 1 /\ i - 1 \in 1..N
      BY <1>1, <2>3
    <3>2. QED
      BY <1>1, <1>9, <3>1 DEF ToSet
  <2>4. QED
    BY <1>1, <2>1, <2>2, <2>3
<1>11. ASSUME NEW i \in 1..N PROVE list[i] \in ToSet(new)
  <2>1. CASE i < k
    <3>1. i \in 1..Len(both) /\ i \in 1..m /\ i \in 1..N + 1
      BY <1>1, <1>6, <2>1
    <3>2. new[i] = list[i]
      BY <1>6, <1>7, <3>1
    <3>3. QED
      BY <1>8, <3>1, <3>2 DEF ToSet
  <2>2. CASE i >= k
    <3>1. i + 1 \in k + 1..N + 1 /\ (i + 1) - 1 = i /\ i + 1 \in 1..N + 1
      BY <1>1, <2>2
    <3>2. new[i + 1] = list[i]
      BY <1>9, <3>1
    <3>3. QED
      BY <1>8, <3>1, <3>2 DEF ToSet
  <2>3. QED
    BY <1>1, <2>1, <2>2
<1>12. x \in ToSet(new)
  <2>1. k \in 1..Len(both) /\ k \in 1..N + 1
    BY <1>1, <1>6
  <2>2. new[k] = x
    BY <1>6, <1>7, <2>1
  <2>3. QED
    BY <1>8, <2>1, <2>2 DEF ToSet
<1>13. ToSet(new) = ToSet(list) \cup {x}
  <2>1. \A y : y \in ToSet(new) <=> \E i \in 1..N + 1 : new[i] = y
    BY <1>8 DEF ToSet
  <2>2. \A y : y \in ToSet(list) <=> \E i \in 1..N : list[i] = y
    BY <1>1 DEF ToSet
  <2>3. QED
    BY <1>10, <1>11, <1>12, <2>1, <2>2
<1>14. QED
  BY <1>7, <1>8, <1>13 DEF N

LEMMA AppendedFacts ==
    ASSUME NEW S, NEW list \in Seq(S), NEW x \in S
    PROVE  /\ Append(list, x) \in Seq(S)
           /\ Len(Append(list, x)) = Len(list) + 1
           /\ ToSet(Append(list, x)) = ToSet(list) \cup {x}
           /\ \A i \in 1..Len(list) : Append(list, x)[i] = list[i]
           /\ Append(list, x)[Len(list) + 1] = x
<1> DEFINE N == Len(list)
           new == Append(list, x)
<1>1. N \in Nat /\ DOMAIN list = 1..N
  OBVIOUS
<1>2. /\ new \in Seq(S) /\ Len(new) = N + 1
      /\ \A i \in 1..N : new[i] = list[i]
      /\ new[N + 1] = x
  OBVIOUS
<1>3. DOMAIN new = 1..N + 1
  BY <1>2
<1> HIDE DEF N, new
<1>4. 1..N + 1 = (1..N) \cup {N + 1}
  BY <1>1
<1>5. ToSet(new) = ToSet(list) \cup {x}
  BY <1>1, <1>2, <1>3, <1>4 DEF ToSet
<1>6. QED
  BY <1>2, <1>5 DEF N, new

\* A tag that comes is kept with the others, behind them if it is later.
LEMMA InsertIsStored ==
    ASSUME NEW S, \A t \in S : t.time \in Nat,
           NEW tags \in Seq(S), NEW kept \in Seq(S), NEW tag \in S, Stored(tags, kept),
           NEW new, new = Insert(tags, tag)
    PROVE  new \in Seq(S) /\ Stored(new, Append(kept, tag))
<1> DEFINE N == Len(kept)
           all == Append(kept, tag)
<1>1. N \in Nat /\ Len(tags) = N /\ ToSet(tags) = ToSet(kept)
  BY DEF Stored
<1>2. /\ all \in Seq(S) /\ Len(all) = N + 1 /\ ToSet(all) = ToSet(kept) \cup {tag}
      /\ \A i \in 1..N : all[i] = kept[i]
      /\ all[N + 1] = tag
  <2>1. kept \in Seq(S) /\ tag \in S
    OBVIOUS
  <2>2. QED
    BY <2>1, AppendedFacts
<1> HIDE DEF all, N
<1>3. CASE tags = <<>> \/ Last(tags).time < tag.time
  <2>1. new = Append(tags, tag)
    BY <1>3 DEF Insert
  <2>2. new \in Seq(S) /\ Len(new) = Len(tags) + 1 /\ ToSet(new) = ToSet(tags) \cup {tag}
    <3>1. tags \in Seq(S) /\ tag \in S
      OBVIOUS
    <3>2. /\ Append(tags, tag) \in Seq(S)
          /\ Len(Append(tags, tag)) = Len(tags) + 1
          /\ ToSet(Append(tags, tag)) = ToSet(tags) \cup {tag}
      BY <3>1, AppendedFacts
    <3>3. QED
      BY <2>1, <3>2
  <2>3. Increasing(all) => new = all
    <3>1. ASSUME Increasing(all) PROVE Increasing(kept)
      <4>1. SUFFICES ASSUME NEW i \in 2..N PROVE kept[i - 1].time < kept[i].time
        BY DEF Increasing, N
      <4>2. i \in 2..N + 1 /\ i \in 1..N /\ i - 1 \in 1..N
        BY <1>1
      <4>3. QED
        BY <1>2, <3>1, <4>2 DEF Increasing
    <3>2. QED
      BY <2>1, <3>1 DEF Stored, all
  <2>4. QED
    BY <1>1, <1>2, <2>2, <2>3 DEF Stored, all
<1>4. CASE ~(tags = <<>> \/ Last(tags).time < tag.time)
  <2>1. new = InsertAt(tags, Find(tags, tag.time), tag)
    BY <1>4 DEF Insert
  <2>2. Find(tags, tag.time) \in 1..Len(tags)
    BY <1>4, FindFacts DEF Finds
  <2>3. new \in Seq(S) /\ Len(new) = Len(tags) + 1 /\ ToSet(new) = ToSet(tags) \cup {tag}
    BY <2>1, <2>2, InsertAtFacts
  <2>4. ~Increasing(all)
    <3>1. SUFFICES ASSUME Increasing(all) PROVE FALSE
      OBVIOUS
    <3>2. Increasing(kept)
      <4>1. SUFFICES ASSUME NEW i \in 2..N PROVE kept[i - 1].time < kept[i].time
        BY DEF Increasing, N
      <4>2. i \in 2..N + 1 /\ i \in 1..N /\ i - 1 \in 1..N
        BY <1>1
      <4>3. QED
        BY <1>2, <3>1, <4>2 DEF Increasing
    <3>3. tags = kept
      BY <3>2 DEF Stored
    <3>4. N > 0
      BY <1>1, <1>4
    <3>5. N + 1 \in 2..N + 1 /\ (N + 1) - 1 = N /\ N \in 1..N
      BY <1>1, <3>4
    <3>6. kept[N].time < tag.time
      BY <1>2, <3>1, <3>5 DEF Increasing
    <3>7. QED
      BY <1>1, <1>4, <3>3, <3>6 DEF Last
  <2>5. QED
    BY <1>1, <1>2, <2>3, <2>4 DEF Stored, all
<1>5. QED
  BY <1>3, <1>4

-----------------------------------------------------------------------------
(* Tags of a video file: finding them *)

LEMMA MaxIs ==
    ASSUME NEW K \in SUBSET Nat, NEW m \in K, \A k \in K : k <= m
    PROVE  Max(K) = m
<1>1. \A x \in K : (\A y \in K : x >= y) <=> x = m
  OBVIOUS
<1>2. QED
  BY <1>1 DEF Max

LEMMA MinIs ==
    ASSUME NEW K \in SUBSET Nat, NEW m \in K, \A k \in K : m <= k
    PROVE  Min(K) = m
<1>1. \A x \in K : (\A y \in K : x <= y) <=> x = m
  OBVIOUS
<1>2. QED
  BY <1>1 DEF Min

TagSet == [time : TagTimes, key : BOOLEAN, number : Nat]

LEMMA TagFacts ==
    ASSUME NEW t \in TagSet
    PROVE  t.time \in TagTimes /\ t.time \in Nat /\ t.time < UintSize /\ t.key \in BOOLEAN
<1>1. t.time \in TagTimes /\ t.key \in BOOLEAN
  BY DEF TagSet
<1>2. t.time \in 0..(UintSize - 1) /\ UintSize \in Nat
  BY <1>1, FlvAssumption
<1> DEFINE n == t.time
<1>3. n \in 0..(UintSize - 1)
  BY <1>2
<1> HIDE DEF n
<1>4. n \in Nat /\ n < UintSize
  BY <1>2, <1>3
<1>5. QED
  BY <1>1, <1>4 DEF n

LEMMA Remainder == \A n \in Nat : \A m \in Nat : n < m => n % m = n /\ (n + m) % m = n
OBVIOUS

\* What is shown at a time counted from the first tag: what is found at their
\* sum.
Shows(tags, time, first, n) ==
    /\ first \in Nat /\ time \in Nat
    /\ Finds(tags, time + first, n)
    /\ \A i \in 1..Len(tags) : tags[i].time \in Nat
    /\ GetVideo(tags, time, FALSE).id = n
    /\ GetVideo(tags, time, TRUE).id = Max({i \in 1..n : i = 1 \/ tags[i].key})
    /\ GetVideo(tags, time, FALSE).next =
         IF n = Len(tags) THEN 0 ELSE tags[n + 1].time - first

\* Times do not wrap around, but those of tags before the first one's.
LEMMA VideoFacts ==
    ASSUME NEW tags \in Seq(TagSet), tags # <<>>, NEW time \in TagTimes
    PROVE  Shows(tags, time, tags[1].time, Find(tags, time + tags[1].time))
<1> DEFINE first == tags[1].time
           n == Find(tags, time + first)
<1>1. Len(tags) \in Nat /\ 1 \in 1..Len(tags)
  OBVIOUS
<1>2. \A i \in 1..Len(tags) : tags[i] \in TagSet
  OBVIOUS
<1>3. \A i \in 1..Len(tags) : tags[i].time \in TagTimes /\ tags[i].time \in Nat /\ tags[i].time < UintSize
  BY <1>2, TagFacts
<1>4. first \in TagTimes /\ first \in Nat
  BY <1>1, <1>3
<1>5. time \in Nat /\ UintSize \in Nat /\ time + first < UintSize
  BY <1>4, FlvAssumption
<1> HIDE DEF first
<1>6. Plus(time, first) = time + first
  <2> DEFINE sum == time + first
  <2>1. sum \in Nat /\ sum < UintSize
    BY <1>4, <1>5
  <2> HIDE DEF sum
  <2>2. sum % UintSize = sum
    BY <1>5, <2>1, Remainder
  <2>3. QED
    BY <2>2 DEF Plus, sum
<1>7. Finds(tags, time + first, n)
  <2>1. \A t \in TagSet : t.time \in Nat
    BY TagFacts
  <2>2. time + first \in Nat
    BY <1>4, <1>5
  <2>3. QED
    BY <2>1, <2>2, FindFacts
<1> HIDE DEF n
<1>8. n # Len(tags) => tags[n + 1].time > time + first /\ tags[n + 1].time \in Nat /\ tags[n + 1].time < UintSize
  <2>1. n # Len(tags) => n + 1 \in 1..Len(tags)
    BY <1>1, <1>7 DEF Finds
  <2>2. QED
    BY <1>3, <1>7, <2>1 DEF Finds
<1>9. n # Len(tags) => Minus(tags[n + 1].time, first) = tags[n + 1].time - first
  <2>1. SUFFICES ASSUME n # Len(tags) PROVE Minus(tags[n + 1].time, first) = tags[n + 1].time - first
    OBVIOUS
  <2> DEFINE t == tags[n + 1].time
  <2>2. t \in Nat /\ t < UintSize /\ t > time + first
    BY <1>8, <2>1
  <2> HIDE DEF t
  <2>3. t - first \in Nat /\ t - first < UintSize /\ t + UintSize - first = (t - first) + UintSize
    BY <1>4, <1>5, <2>2
  <2>4. Minus(t, first) = t - first
    BY <1>5, <2>3, Remainder DEF Minus
  <2>5. QED
    BY <2>4 DEF t
<1>10. /\ GetVideo(tags, time, FALSE).id = n
       /\ GetVideo(tags, time, TRUE).id = Max({i \in 1..n : i = 1 \/ tags[i].key})
       /\ GetVideo(tags, time, FALSE).next =
            IF n = Len(tags) THEN 0 ELSE Minus(tags[n + 1].time, first)
  BY <1>6 DEF GetVideo, n, first
<1>11. Shows(tags, time, first, n)
  BY <1>3, <1>4, <1>5, <1>7, <1>9, <1>10 DEF Shows
<1>12. QED
  BY <1>11 DEF first, n

\* In the order of their times, tags behind each other are later.
LEMMA OrderFacts ==
    ASSUME NEW tags \in Seq(TagSet), Increasing(tags),
           NEW i \in 1..Len(tags), NEW j \in 1..Len(tags), i < j
    PROVE  tags[i].time < tags[j].time
<1> DEFINE N == Len(tags)
           H == {k \in 0..N : k > i => tags[i].time < tags[k].time}
<1>1. N \in Nat /\ i \in 1..N /\ j \in 1..N
  OBVIOUS
<1>2. \A k \in 1..N : tags[k].time \in Nat
  <2>1. \A k \in 1..N : tags[k] \in TagSet
    OBVIOUS
  <2>2. QED
    BY <2>1, TagFacts
<1>3. \A k \in 2..N : tags[k - 1].time < tags[k].time
  BY DEF Increasing
<1> HIDE DEF N
<1>4. 0 \in H
  BY <1>1
<1>5. ASSUME NEW k \in 1..N, k - 1 \in H PROVE k \in H
  <2>1. CASE k > i
    <3>1. k \in 2..N /\ k - 1 \in 1..N
      BY <1>1, <2>1
    <3>2. tags[k - 1].time < tags[k].time
      BY <1>3, <3>1
    <3>3. tags[i].time < tags[k - 1].time \/ k - 1 = i
      BY <1>1, <1>5, <2>1
    <3>4. tags[i].time \in Nat /\ tags[k].time \in Nat /\ tags[k - 1].time \in Nat
      BY <1>1, <1>2, <3>1
    <3>5. tags[i].time < tags[k].time
      BY <3>2, <3>3, <3>4
    <3>6. QED
      BY <1>1, <3>5
  <2>2. CASE ~(k > i)
    BY <1>1, <2>2
  <2>3. QED
    BY <2>1, <2>2
<1>6. H \in SUBSET (0..N)
  OBVIOUS
<1>7. j \in H
  <2> HIDE DEF H
  <2>1. \A k \in 0..N : k \in H
    BY <1>1, <1>4, <1>5, <1>6, Upwards
  <2>2. j \in 0..N
    BY <1>1
  <2>3. QED
    BY <2>1, <2>2
<1>8. QED
  BY <1>1, <1>7

\* What is found in tags that are in order.
LEMMA FindInOrder ==
    ASSUME NEW tags \in Seq(TagSet), Increasing(tags), NEW time \in Nat,
           NEW n, Finds(tags, time, n)
    PROVE  /\ \A i \in n + 1..Len(tags) : tags[i].time > time
           /\ \A i \in 1..n - 1 : tags[i].time < time
           /\ \A i \in 2..n : tags[i].time <= time
<1>1. /\ Len(tags) \in Nat /\ n \in 1..Len(tags)
      /\ n = 1 \/ tags[n].time <= time
      /\ n = Len(tags) \/ tags[n + 1].time > time
  BY DEF Finds
<1>2. \A k \in 1..Len(tags) : tags[k].time \in Nat
  <2>1. \A k \in 1..Len(tags) : tags[k] \in TagSet
    OBVIOUS
  <2>2. QED
    BY <2>1, TagFacts
<1>3. ASSUME NEW i \in n + 1..Len(tags) PROVE tags[i].time > time
  <2>1. n # Len(tags) /\ n + 1 \in 1..Len(tags) /\ i \in 1..Len(tags)
    BY <1>1
  <2>2. CASE i = n + 1
    BY <1>1, <2>1, <2>2
  <2>3. CASE i # n + 1
    <3>1. tags[n + 1].time < tags[i].time
      BY <1>1, <2>1, <2>3, OrderFacts
    <3>2. tags[n + 1].time \in Nat /\ tags[i].time \in Nat /\ tags[n + 1].time > time
      BY <1>1, <1>2, <2>1
    <3>3. QED
      BY <3>1, <3>2
  <2>4. QED
    BY <2>2, <2>3
<1>4. ASSUME NEW i \in 1..n - 1 PROVE tags[i].time < time
  <2>1. n # 1 /\ i \in 1..Len(tags) /\ i < n
    BY <1>1
  <2>2. tags[i].time < tags[n].time
    BY <1>1, <2>1, OrderFacts
  <2>3. tags[i].time \in Nat /\ tags[n].time \in Nat /\ tags[n].time <= time
    BY <1>1, <1>2, <2>1
  <2>4. QED
    BY <2>2, <2>3
<1>5. ASSUME NEW i \in 2..n PROVE tags[i].time <= time
  <2>1. CASE i = n
    BY <1>1, <2>1
  <2>2. CASE i # n
    <3>1. i \in 1..n - 1 /\ i \in 1..Len(tags)
      BY <1>1, <2>2
    <3>2. tags[i].time < time /\ tags[i].time \in Nat
      BY <1>2, <1>4, <3>1
    <3>3. QED
      BY <3>2
  <2>3. QED
    BY <2>1, <2>2
<1>6. QED
  BY <1>3, <1>4, <1>5

\* What TagsAreFound says of an array and of what came for it.
ArrayFinds(tags, kept) ==
    LET first == tags[1].time
        due(time) == {i \in DOMAIN tags : tags[i].time <= first + time}
    IN  /\ Len(tags) = Len(kept) /\ ToSet(tags) = ToSet(kept)
        /\ tags # <<>> => \A time \in TagTimes :
             LET next == GetVideo(tags, time, FALSE).next
             IN  next # 0 => next > time
        /\ (tags # <<>> /\ \A i \in 2..Len(kept) : kept[i - 1].time < kept[i].time) =>
             /\ tags = kept
             /\ \A time \in TagTimes :
                  /\ GetVideo(tags, time, FALSE).id = Max(due(time))
                  /\ Max(due(time)) < Len(tags) =>
                       GetVideo(tags, time, FALSE).next =
                         Min({tags[i].time : i \in DOMAIN tags \ due(time)}) - first
                  /\ GetVideo(tags, time, TRUE).id =
                       Max({1} \cup {i \in due(time) : tags[i].key})
                  /\ LET from == {i \in DOMAIN tags : tags[i].time >= time}
                     IN  GetData(tags, time) = IF from = {} THEN 0 ELSE Min(from)

ShowsLast(tags, time, first, due) ==
    /\ GetVideo(tags, time, FALSE).id = Max(due)
    /\ Max(due) < Len(tags) =>
         GetVideo(tags, time, FALSE).next = Min({tags[i].time : i \in DOMAIN tags \ due}) - first
    /\ GetVideo(tags, time, TRUE).id = Max({1} \cup {i \in due : tags[i].key})

\* A video shows the last of what is due, and knows what is next.
LEMMA ShowsDue ==
    ASSUME NEW tags \in Seq(TagSet), tags # <<>>, Increasing(tags), NEW time \in TagTimes,
           NEW first, first = tags[1].time,
           NEW due, due = {i \in DOMAIN tags : tags[i].time <= first + time}
    PROVE  ShowsLast(tags, time, first, due)
<1> DEFINE N == Len(tags)
           n == Find(tags, time + first)
<1>1. /\ first \in Nat /\ time \in Nat
      /\ Finds(tags, time + first, n)
      /\ \A i \in 1..N : tags[i].time \in Nat
      /\ GetVideo(tags, time, FALSE).id = n
      /\ GetVideo(tags, time, TRUE).id = Max({i \in 1..n : i = 1 \/ tags[i].key})
      /\ GetVideo(tags, time, FALSE).next = IF n = N THEN 0 ELSE tags[n + 1].time - first
  <2>1. Shows(tags, time, first, n)
    BY VideoFacts
  <2> HIDE DEF n
  <2>2. QED
    BY <2>1 DEF Shows
<1> HIDE DEF n
<1>2. N \in Nat /\ DOMAIN tags = 1..N /\ n \in 1..N
  BY <1>1 DEF Finds
<1>3. /\ \A i \in n + 1..N : tags[i].time > time + first
      /\ \A i \in 2..n : tags[i].time <= time + first
  <2>1. time + first \in Nat
    BY <1>1
  <2>2. QED
    BY <1>1, <2>1, FindInOrder
<1> HIDE DEF N
<1>4. due = 1..n
  <2>1. ASSUME NEW i \in 1..N PROVE tags[i].time <= first + time <=> i <= n
    <3>1. CASE i = 1
      <4>1. tags[i].time = first
        BY <3>1
      <4>2. QED
        BY <1>1, <1>2, <3>1, <4>1
    <3>2. CASE i \in 2..n
      BY <1>1, <1>2, <1>3, <3>2
    <3>3. CASE i \in n + 1..N
      <4>1. tags[i].time > time + first /\ tags[i].time \in Nat
        BY <1>1, <1>3, <3>3
      <4>2. QED
        BY <1>1, <1>2, <3>3, <4>1
    <3>4. QED
      BY <1>2, <3>1, <3>2, <3>3
  <2>2. due = {i \in 1..N : i <= n}
    BY <1>2, <2>1
  <2>3. QED
    BY <1>2, <2>2
<1>5. Max(due) = n
  <2>1. due \in SUBSET Nat /\ n \in due /\ \A k \in due : k <= n
    BY <1>2, <1>4
  <2>2. QED
    BY <2>1, MaxIs
<1>6. ASSUME n < N PROVE Min({tags[i].time : i \in DOMAIN tags \ due}) = tags[n + 1].time
  <2> DEFINE T == {tags[i].time : i \in DOMAIN tags \ due}
             t == tags[n + 1].time
  <2>1. DOMAIN tags \ due = n + 1..N /\ n + 1 \in n + 1..N
    BY <1>2, <1>4, <1>6
  <2>2. \A i \in n + 1..N : i \in 1..N
    BY <1>2
  <2>3. T \in SUBSET Nat
    BY <1>1, <2>1, <2>2
  <2>4. t \in T
    BY <2>1
  <2>5. ASSUME NEW i \in n + 1..N PROVE t <= tags[i].time
    <3>1. n + 1 \in 1..N /\ i \in 1..N /\ (i = n + 1 \/ n + 1 < i)
      BY <1>2, <2>1
    <3>2. t \in Nat /\ tags[i].time \in Nat
      BY <1>1, <3>1
    <3>3. n + 1 < i => t < tags[i].time
      BY <3>1, OrderFacts DEF N
    <3>4. QED
      BY <3>1, <3>2, <3>3
  <2>6. \A x \in T : t <= x
    BY <2>1, <2>5
  <2> HIDE DEF T, t
  <2>7. Min(T) = t
    BY <2>3, <2>4, <2>6, MinIs
  <2>8. QED
    BY <2>7 DEF T, t
<1>7. Max(due) < N =>
        GetVideo(tags, time, FALSE).next = Min({tags[i].time : i \in DOMAIN tags \ due}) - first
  <2>1. SUFFICES ASSUME n < N
                 PROVE  GetVideo(tags, time, FALSE).next
                          = Min({tags[i].time : i \in DOMAIN tags \ due}) - first
    BY <1>5
  <2>2. n # N
    BY <1>2, <2>1
  <2>3. QED
    BY <1>1, <1>6, <2>1, <2>2
<1>8. {i \in 1..n : i = 1 \/ tags[i].key} = {1} \cup {i \in due : tags[i].key}
  BY <1>2, <1>4
<1>9. QED
  BY <1>1, <1>5, <1>7, <1>8 DEF N, ShowsLast

\* All data from a time on is met.
LEMMA MeetsData ==
    ASSUME NEW tags \in Seq(TagSet), tags # <<>>, Increasing(tags), NEW time \in TagTimes,
           NEW from, from = {i \in DOMAIN tags : tags[i].time >= time}
    PROVE  GetData(tags, time) = IF from = {} THEN 0 ELSE Min(from)
<1> DEFINE n == Find(tags, time)
           later == {i \in n..Len(tags) : tags[i].time >= time}
<1>1. time \in Nat
  BY FlvAssumption
<1>2. Finds(tags, time, n)
  <2>1. \A t \in TagSet : t.time \in Nat
    BY TagFacts
  <2>2. QED
    BY <1>1, <2>1, FindFacts
<1> HIDE DEF n
<1>3. \A i \in 1..n - 1 : tags[i].time < time
  BY <1>1, <1>2, FindInOrder
<1>4. Len(tags) \in Nat /\ DOMAIN tags = 1..Len(tags) /\ n \in 1..Len(tags)
  BY <1>2 DEF Finds
<1>5. \A i \in 1..Len(tags) : tags[i].time \in Nat
  <2>1. \A k \in 1..Len(tags) : tags[k] \in TagSet
    OBVIOUS
  <2>2. QED
    BY <2>1, TagFacts
<1>6. later = from
  <2>1. ASSUME NEW i \in 1..Len(tags), tags[i].time >= time PROVE i >= n
    <3>1. SUFFICES ASSUME i < n PROVE FALSE
      BY <1>4
    <3>2. i \in 1..n - 1
      BY <1>4, <3>1
    <3>3. tags[i].time < time /\ tags[i].time \in Nat
      BY <1>3, <1>5, <3>2
    <3>4. QED
      BY <1>1, <2>1, <3>3
  <2>2. \A i \in n..Len(tags) : i \in 1..Len(tags)
    BY <1>4
  <2>3. QED
    BY <1>4, <2>1, <2>2
<1>7. GetData(tags, time) = IF later = {} THEN 0 ELSE Min(later)
  BY DEF GetData, n
<1>8. QED
  BY <1>6, <1>7

LEMMA TagsFoundIn ==
    ASSUME NEW tags \in Seq(TagSet), NEW kept \in Seq(TagSet), Stored(tags, kept)
    PROVE  ArrayFinds(tags, kept)
<1> DEFINE first == tags[1].time
           due(time) == {i \in DOMAIN tags : tags[i].time <= first + time}
           from(time) == {i \in DOMAIN tags : tags[i].time >= time}
<1>1. Len(tags) = Len(kept) /\ ToSet(tags) = ToSet(kept)
  BY DEF Stored
<1>2. ASSUME tags # <<>>, NEW time \in TagTimes,
             GetVideo(tags, time, FALSE).next # 0
      PROVE  GetVideo(tags, time, FALSE).next > time
  <2> DEFINE n == Find(tags, time + first)
             next == GetVideo(tags, time, FALSE).next
             t == tags[n + 1].time
  <2>1. /\ first \in Nat /\ time \in Nat
        /\ Finds(tags, time + first, n)
        /\ \A i \in 1..Len(tags) : tags[i].time \in Nat
        /\ next = IF n = Len(tags) THEN 0 ELSE t - first
    <3>1. Shows(tags, time, first, n)
      BY <1>2, VideoFacts
    <3> HIDE DEF n
    <3>2. QED
      BY <3>1 DEF Shows
  <2> HIDE DEF n
  <2>2. n # Len(tags)
    BY <1>2, <2>1
  <2>3. n + 1 \in 1..Len(tags) /\ t > time + first
    BY <2>1, <2>2 DEF Finds
  <2>4. t \in Nat /\ next = t - first
    BY <2>1, <2>2, <2>3
  <2> HIDE DEF t, next, first
  <2>5. next > time
    BY <2>1, <2>3, <2>4
  <2>6. QED
    BY <2>5 DEF next
<1>3. ASSUME tags # <<>>, Increasing(kept)
      PROVE  /\ tags = kept
             /\ \A time \in TagTimes :
                  /\ GetVideo(tags, time, FALSE).id = Max(due(time))
                  /\ Max(due(time)) < Len(tags) =>
                       GetVideo(tags, time, FALSE).next =
                         Min({tags[i].time : i \in DOMAIN tags \ due(time)}) - first
                  /\ GetVideo(tags, time, TRUE).id =
                       Max({1} \cup {i \in due(time) : tags[i].key})
                  /\ GetData(tags, time) = IF from(time) = {} THEN 0 ELSE Min(from(time))
  <2>1. tags = kept /\ Increasing(tags)
    BY <1>3 DEF Stored
  <2>2. ASSUME NEW time \in TagTimes
        PROVE  GetData(tags, time) = IF from(time) = {} THEN 0 ELSE Min(from(time))
    BY <1>3, <2>1, MeetsData
  <2>3. ASSUME NEW time \in TagTimes
        PROVE  ShowsLast(tags, time, first, due(time))
    BY <1>3, <2>1, ShowsDue
  <2> HIDE DEF due, from, first
  <2>4. QED
    BY <2>1, <2>2, <2>3 DEF ShowsLast
<1>4. QED
  BY <1>1, <1>2, <1>3, Zenon DEF ArrayFinds, Increasing

-----------------------------------------------------------------------------
(* The tags of a video file *)

\* Of the tags that came, those that did not announce their kind.
Late(kind) ==
    IF kind \in flv.announced \cup {"data"} \/ came[kind] = <<>>
    THEN came[kind] ELSE Tail(came[kind])

\* The inductive invariant: the arrays hold what came late, and there is an
\* array as soon as there is anything to hold.
FlvIInv ==
    /\ DOMAIN flv = {"state", "announced", "arrays", "tags"}
    /\ flv.tags \in [TagKinds -> Seq(TagSet)]
    /\ came \in [TagKinds -> Seq(TagSet)]
    /\ flv.announced \subseteq flv.arrays
    /\ \A kind \in TagKinds :
         /\ Stored(flv.tags[kind], Late(kind))
         /\ kind \notin flv.arrays => came[kind] = <<>>
         /\ kind \in flv.arrays \ (flv.announced \cup {"data"}) => came[kind] # <<>>
    /\ flv.state = "header" => flv.arrays = {} /\ flv.announced = {}

LEMMA FlvInitStep == FlvInit => FlvIInv
<1> SUFFICES ASSUME FlvInit PROVE FlvIInv
  OBVIOUS
<1> DEFINE none == [k \in TagKinds |-> <<>>]
<1>1. /\ flv.announced = {} /\ flv.arrays = {} /\ flv.tags = none /\ came = none
      /\ DOMAIN flv = {"state", "announced", "arrays", "tags"}
  BY DEF FlvInit
<1>2. <<>> \in Seq(TagSet)
  OBVIOUS
<1>3. none \in [TagKinds -> Seq(TagSet)] /\ \A k \in TagKinds : none[k] = <<>>
  BY <1>2
<1> HIDE DEF none
<1>4. \A k \in TagKinds : Late(k) = <<>> /\ came[k] = <<>> /\ flv.tags[k] = <<>>
  BY <1>1, <1>3 DEF Late
<1>5. Stored(<<>>, <<>>)
  BY DEF Stored
<1>6. QED
  BY <1>1, <1>3, <1>4, <1>5 DEF FlvIInv

LEMMA HeaderStep ==
    ASSUME FlvIInv, NEW announced \in SUBSET {"audio", "video"}, ParseHeader(announced)
    PROVE  FlvIInv'
<1>1. /\ DOMAIN flv = {"state", "announced", "arrays", "tags"}
      /\ flv.tags \in [TagKinds -> Seq(TagSet)] /\ came \in [TagKinds -> Seq(TagSet)]
      /\ flv.state = "header" /\ flv.arrays = {} /\ flv.announced = {}
  BY DEF FlvIInv, ParseHeader
<1>2. /\ DOMAIN flv' = DOMAIN flv
      /\ flv'.state = "tag" /\ flv'.announced = announced /\ flv'.arrays = announced
      /\ flv'.tags = flv.tags /\ came' = came
  BY <1>1 DEF ParseHeader
<1>3. \A k \in TagKinds : came[k] = <<>> /\ Stored(flv.tags[k], Late(k))
  BY <1>1 DEF FlvIInv
<1>4. \A k \in TagKinds : Late(k)' = <<>> /\ Late(k) = <<>>
  BY <1>2, <1>3, Zenon DEF Late
<1>5. QED
  BY <1>1, <1>2, <1>3, <1>4 DEF FlvIInv

LEMMA EndStep ==
    ASSUME FlvIInv, EndOfFile
    PROVE  FlvIInv'
<1>1. /\ DOMAIN flv' = DOMAIN flv
      /\ flv'.state = "eof" /\ flv'.announced = flv.announced /\ flv'.arrays = flv.arrays
      /\ flv'.tags = flv.tags /\ came' = came
  BY DEF EndOfFile, FlvIInv
<1>2. \A k \in TagKinds : Late(k)' = Late(k)
  BY <1>1, Zenon DEF Late
<1>3. QED
  BY <1>1, <1>2 DEF FlvIInv

LEMMA TagStep ==
    ASSUME FlvIInv, NEW kind \in TagKinds, NEW tag \in TagSet, ParseTag(kind, tag)
    PROVE  FlvIInv'
<1> DEFINE new == IF kind \in flv.arrays \cup {"data"} THEN Insert(flv.tags[kind], tag)
                  ELSE flv.tags[kind]
           list == came[kind]
           announced == flv.announced \cup {"data"}
<1>1. /\ DOMAIN flv = {"state", "announced", "arrays", "tags"}
      /\ flv.tags \in [TagKinds -> Seq(TagSet)] /\ came \in [TagKinds -> Seq(TagSet)]
      /\ flv.announced \subseteq flv.arrays
      /\ \A k \in TagKinds :
           /\ Stored(flv.tags[k], Late(k))
           /\ k \notin flv.arrays => came[k] = <<>>
           /\ k \in flv.arrays \ announced => came[k] # <<>>
  BY DEF FlvIInv
<1>2. /\ DOMAIN flv' = DOMAIN flv
      /\ flv'.state = "tag" /\ flv'.announced = flv.announced
      /\ flv'.arrays = flv.arrays \cup {kind}
      /\ flv'.tags = [flv.tags EXCEPT ![kind] = new]
      /\ came' = [came EXCEPT ![kind] = Append(@, tag)]
  BY <1>1 DEF ParseTag
<1> HIDE DEF new
<1>3. \A k \in TagKinds : k # kind => /\ flv'.tags[k] = flv.tags[k] /\ came'[k] = came[k]
                                   /\ Late(k)' = Late(k)
  <2>1. \A k \in TagKinds : k # kind => flv'.tags[k] = flv.tags[k] /\ came'[k] = came[k]
    BY <1>1, <1>2
  <2>2. ASSUME NEW k \in TagKinds, k # kind PROVE Late(k)' = Late(k)
    <3>1. flv'.announced = flv.announced /\ came'[k] = came[k]
      BY <1>2, <2>1, <2>2
    <3>2. Late(k)' = IF k \in flv'.announced \cup {"data"} \/ came'[k] = <<>>
                     THEN came'[k] ELSE Tail(came'[k])
      BY DEF Late
    <3>3. QED
      BY <3>1, <3>2, Zenon DEF Late
  <2>3. QED
    BY <2>1, <2>2
<1>4. flv'.tags[kind] = new /\ came'[kind] = Append(list, tag) /\ list \in Seq(TagSet)
  BY <1>1, <1>2
<1>5. Append(list, tag) \in Seq(TagSet) /\ Append(list, tag) # <<>>
  BY <1>4
<1>6. new \in Seq(TagSet) /\ Stored(new, Late(kind)')
  <2>1. flv.tags[kind] \in Seq(TagSet) /\ Stored(flv.tags[kind], Late(kind))
    BY <1>1
  <2>2. Late(kind)' = IF kind \in announced THEN Append(list, tag) ELSE Tail(Append(list, tag))
    <3>1. Late(kind)' = IF kind \in flv'.announced \cup {"data"} \/ came'[kind] = <<>>
                        THEN came'[kind] ELSE Tail(came'[kind])
      BY DEF Late
    <3>2. QED
      BY <1>2, <1>4, <1>5, <3>1
  <2>3. CASE kind \in flv.arrays \cup {"data"}
    <3>1. new = Insert(flv.tags[kind], tag)
      BY <2>3 DEF new
    <3>2. Late(kind) \in Seq(TagSet) /\ Late(kind)' = Append(Late(kind), tag)
      <4>1. CASE kind \in announced
        <5>1. Late(kind) = list
          BY <4>1 DEF Late
        <5>2. QED
          BY <1>4, <2>2, <4>1, <5>1
      <4>2. CASE kind \notin announced
        <5>1. list # <<>>
          BY <1>1, <2>3, <4>2
        <5>2. Late(kind) = Tail(list)
          BY <4>2, <5>1 DEF Late
        <5>3. Tail(list) \in Seq(TagSet) /\ Tail(Append(list, tag)) = Append(Tail(list), tag)
          BY <1>4, <5>1
        <5>4. QED
          BY <2>2, <4>2, <5>2, <5>3
      <4>3. QED
        BY <4>1, <4>2
    <3>3. \A t \in TagSet : t.time \in Nat
      BY TagFacts
    <3>4. new \in Seq(TagSet) /\ Stored(new, Append(Late(kind), tag))
      BY <2>1, <3>1, <3>2, <3>3, InsertIsStored
    <3>5. QED
      BY <3>2, <3>4
  <2>4. CASE kind \notin flv.arrays \cup {"data"}
    <3>1. new = flv.tags[kind] /\ list = <<>> /\ kind \notin announced
      BY <1>1, <2>4 DEF new
    <3>2. Late(kind) = <<>>
      BY <3>1 DEF Late
    <3>3. Tail(Append(<<>>, tag)) = <<>>
      OBVIOUS
    <3>4. Late(kind)' = Late(kind)
      BY <2>2, <3>1, <3>2, <3>3
    <3>5. QED
      BY <2>1, <3>1, <3>4
  <2>5. QED
    BY <2>3, <2>4
<1>7. flv'.tags \in [TagKinds -> Seq(TagSet)] /\ came' \in [TagKinds -> Seq(TagSet)]
  BY <1>1, <1>2, <1>4, <1>5, <1>6
<1>8. \A k \in TagKinds : Stored(flv'.tags[k], Late(k)')
  BY <1>1, <1>3, <1>4, <1>6
<1>9. ASSUME NEW k \in TagKinds
      PROVE  /\ k \notin flv'.arrays => came'[k] = <<>>
             /\ k \in flv'.arrays \ announced => came'[k] # <<>>
  BY <1>1, <1>2, <1>3, <1>4, <1>5
<1>10. QED
  BY <1>1, <1>2, <1>7, <1>8, <1>9 DEF FlvIInv

\* The arrays of tags hold what came in every reachable state, for files of any
\* length, and any times of 24 bits.
THEOREM TagsAreStored == FlvSpec => []FlvIInv
<1>1. FlvIInv /\ [FlvNext]_flvVars => FlvIInv'
  <2> SUFFICES ASSUME FlvIInv, [FlvNext]_flvVars PROVE FlvIInv'
    OBVIOUS
  <2>1. CASE \E announced \in SUBSET {"audio", "video"} : ParseHeader(announced)
    BY <2>1, HeaderStep
  <2>2. ASSUME NEW kind \in TagKinds, NEW time \in TagTimes, NEW key \in BOOLEAN,
               ParseTag(kind, [time |-> time, key |-> key, number |-> Arrived + 1])
        PROVE  FlvIInv'
    <3>1. Arrived + 1 \in Nat
      <4>1. \A k \in TagKinds : came[k] \in Seq(TagSet)
        BY DEF FlvIInv
      <4>2. \A k \in TagKinds : Len(came[k]) \in Nat
        BY <4>1
      <4> DEFINE x == Len(came["audio"])
                 y == Len(came["video"])
                 z == Len(came["data"])
      <4>3. x \in Nat /\ y \in Nat /\ z \in Nat
        BY <4>2 DEF TagKinds
      <4>4. Arrived = x + y + z
        BY DEF Arrived
      <4> HIDE DEF x, y, z
      <4>5. QED
        BY <4>3, <4>4
    <3> DEFINE tag == [time |-> time, key |-> key, number |-> Arrived + 1]
    <3>2. tag \in TagSet
      BY <3>1 DEF TagSet
    <3>3. ParseTag(kind, tag)
      BY <2>2
    <3> HIDE DEF tag
    <3>4. QED
      BY <3>2, <3>3, TagStep
  <2>3. CASE EndOfFile
    BY <2>3, EndStep
  <2>4. CASE UNCHANGED flvVars
    <3>1. flv' = flv /\ came' = came
      BY <2>4 DEF flvVars
    <3>2. \A k \in TagKinds : Late(k)' = Late(k)
      BY <3>1 DEF Late
    <3>3. QED
      BY <3>1, <3>2 DEF FlvIInv
  <2>5. QED
    BY <2>1, <2>2, <2>3, <2>4 DEF FlvNext
<1>2. QED
  BY <1>1, FlvInitStep, PTL DEF FlvSpec

\* Every tag is kept, and if they come in order they are found by time; in any
\* order the next image is later than the time that was asked for.
THEOREM TagsAreAlwaysFound == FlvSpec => []TagsAreFound
<1>1. FlvIInv => TagsAreFound
  <2> SUFFICES ASSUME FlvIInv PROVE TagsAreFound
    OBVIOUS
  <2>1. ASSUME NEW kind \in TagKinds PROVE ArrayFinds(flv.tags[kind], Late(kind))
    <3>1. flv.tags[kind] \in Seq(TagSet) /\ came[kind] \in Seq(TagSet)
          /\ Stored(flv.tags[kind], Late(kind))
      BY DEF FlvIInv
    <3>2. Late(kind) \in Seq(TagSet)
      BY <3>1 DEF Late
    <3>3. QED
      BY <3>1, <3>2, TagsFoundIn
  <2>2. QED
    BY <2>1, Zenon DEF TagsAreFound, ArrayFinds, Late
<1>2. QED
  BY <1>1, TagsAreStored, PTL

-----------------------------------------------------------------------------
(* The buffer of a text field: formats, and parts of them *)

LEMMA Greatest ==
    ASSUME NEW N \in Nat, NEW K \in SUBSET (0..N), K # {}
    PROVE  \E m \in K : \A k \in K : k <= m
<1> DEFINE R == {x \in 0..N : N - x \in K}
<1>0. ASSUME NEW k \in K PROVE k \in 0..N /\ N - k \in R
  <2>1. k \in 0..N
    OBVIOUS
  <2>2. N - k \in 0..N /\ N - (N - k) = k
    BY <2>1
  <2>3. QED
    BY <2>1, <2>2
<1>1. R \in SUBSET Nat /\ R # {}
  <2>1. \A x \in R : x \in Nat
    OBVIOUS
  <2>2. QED
    BY <1>0, <2>1
<1>2. PICK r \in R : \A x \in R : r <= x
  BY <1>1, Least
<1>3. N - r \in K /\ r \in 0..N
  OBVIOUS
<1>4. ASSUME NEW k \in K PROVE k <= N - r
  <2>1. N - k \in R /\ k \in 0..N
    BY <1>0
  <2>2. r <= N - k
    BY <1>2, <2>1
  <2>3. QED
    BY <1>3, <2>1, <2>2
<1>5. QED
  BY <1>3, <1>4

\* How many of some places are at most i: one more for every place passed.
LEMMA RankFacts ==
    ASSUME NEW N \in Nat, NEW K \in SUBSET (1..N)
    PROVE  /\ \A i \in 0..N : Cardinality({p \in K : p <= i}) \in Nat
           /\ Cardinality({p \in K : p <= 0}) = 0
           /\ Cardinality({p \in K : p <= N}) = Cardinality(K)
           /\ \A i \in 1..N : Cardinality({p \in K : p <= i}) =
                IF i \in K THEN Cardinality({p \in K : p <= i - 1}) + 1
                ELSE Cardinality({p \in K : p <= i - 1})
           /\ \A i, j \in 0..N : i <= j =>
                Cardinality({p \in K : p <= i}) <= Cardinality({p \in K : p <= j})
<1> DEFINE U(i) == {p \in K : p <= i}
<1>0. \A p \in K : p \in 1..N
  OBVIOUS
<1>1. \A i \in 0..N : IsFiniteSet(U(i)) /\ Cardinality(U(i)) \in Nat
  <2> SUFFICES ASSUME NEW i \in 0..N PROVE IsFiniteSet(U(i)) /\ Cardinality(U(i)) \in Nat
    OBVIOUS
  <2>0. \A s \in U(i) : s \in Nat /\ s <= i
    BY <1>0
  <2>1. U(i) \in SUBSET Nat
    BY <2>0, Zenon
  <2>2. IsFiniteSet(U(i))
    <3>1. i \in Nat
      OBVIOUS
    <3>2. QED
      BY <2>0, <2>1, <3>1, FS_BoundedSetOfNaturals
  <2>3. QED
    BY <2>2, FS_CardinalityType
<1>2. U(0) = {} /\ U(N) = K
  <2>1. \A p \in K : ~(p <= 0) /\ p <= N
    BY <1>0
  <2>2. QED
    BY <2>1, Zenon
<1>3. ASSUME NEW i \in 1..N
      PROVE  Cardinality(U(i)) = IF i \in K THEN Cardinality(U(i - 1)) + 1
                                 ELSE Cardinality(U(i - 1))
  <2>1. i - 1 \in 0..N /\ i \notin U(i - 1)
    OBVIOUS
  <2>2. CASE i \in K
    <3>0. \A p \in K : p <= i <=> p <= i - 1 \/ p = i
      BY <1>0
    <3>1. U(i) = U(i - 1) \cup {i}
      <4>1. \A x : x \in U(i) <=> x \in U(i - 1) \cup {i}
        BY <2>2, <3>0
      <4>2. QED
        BY <4>1
    <3>2. QED
      BY <1>1, <2>1, <2>2, <3>1, FS_AddElement
  <2>3. CASE i \notin K
    <3>0. \A p \in K : p <= i <=> p <= i - 1
      BY <1>0, <2>3
    <3>1. U(i) = U(i - 1)
      BY <3>0, Zenon
    <3>2. QED
      BY <2>3, <3>1
  <2>4. QED
    BY <2>2, <2>3
<1>4. ASSUME NEW i \in 0..N, NEW j \in 0..N, i <= j
      PROVE  Cardinality(U(i)) <= Cardinality(U(j))
  <2>0. \A p \in K : p <= i => p <= j
    BY <1>0, <1>4
  <2>1. U(i) \in SUBSET U(j)
    BY <2>0
  <2>2. QED
    BY <1>1, <2>1, FS_Subset
<1>5. Cardinality(U(0)) = 0 /\ Cardinality(U(N)) = Cardinality(K)
  BY <1>2, FS_EmptySet
<1>6. QED
  BY <1>1, <1>3, <1>4, <1>5

\* The formats t are those that were at the places K of fs, in their order: e says
\* where each of them was.
PlacesAt(fs, K, t, e) ==
    /\ e \in [DOMAIN t -> K]
    /\ \A j \in DOMAIN t : t[j] = fs[e[j]]
    /\ \A i, j \in DOMAIN t : i < j => e[i] < e[j]
    /\ \A k \in K : \E j \in DOMAIN t : e[j] = k

LEMMA PickedFacts ==
    ASSUME NEW S, NEW fs \in Seq(S), NEW K \in SUBSET (DOMAIN fs)
    PROVE  /\ Picked(fs, K) \in Seq(S)
           /\ \E e : PlacesAt(fs, K, Picked(fs, K), e)
<1> DEFINE N == Len(fs)
           C == Cardinality(K)
           r == [i \in 0..N |-> Cardinality({p \in K : p <= i})]
           e == [j \in 1..C |-> CHOOSE i \in K : Cardinality({p \in K : p <= i}) = j]
           t == Picked(fs, K)
<1>1. N \in Nat /\ K \in SUBSET (1..N) /\ DOMAIN fs = 1..N
  OBVIOUS
<1>2. /\ r \in [0..N -> Nat] /\ r[0] = 0 /\ r[N] = C /\ C \in Nat
      /\ \A i \in 1..N : r[i] = IF i \in K THEN r[i - 1] + 1 ELSE r[i - 1]
      /\ \A i, j \in 0..N : i <= j => r[i] <= r[j]
  <2> HIDE DEF N, C
  <2>1. N \in 0..N /\ 0 \in 0..N /\ \A i \in 1..N : i \in 0..N /\ i - 1 \in 0..N
    BY <1>1
  <2>2. QED
    <3> DEFINE U(i) == Cardinality({p \in K : p <= i})
    <3>1. /\ \A i \in 0..N : U(i) \in Nat
          /\ U(0) = 0 /\ U(N) = C
          /\ \A i \in 1..N : U(i) = IF i \in K THEN U(i - 1) + 1 ELSE U(i - 1)
          /\ \A i, j \in 0..N : i <= j => U(i) <= U(j)
      BY <1>1, RankFacts DEF C
    <3>2. \A i \in 0..N : r[i] = U(i)
      OBVIOUS
    <3>3. r \in [0..N -> Nat]
      BY <3>1
    <3> HIDE DEF U, r
    <3>4. r[0] = 0 /\ r[N] = C /\ C \in Nat
      BY <2>1, <3>1, <3>2
    <3>5. \A i \in 1..N : r[i] = IF i \in K THEN r[i - 1] + 1 ELSE r[i - 1]
      BY <2>1, <3>1, <3>2
    <3>6. \A i, j \in 0..N : i <= j => r[i] <= r[j]
      BY <3>1, <3>2
    <3>7. QED
      BY <3>3, <3>4, <3>5, <3>6
<1>3. ASSUME NEW j \in 1..C PROVE \E i \in K : r[i] = j
  <2> HIDE DEF r, N, C
  <2> DEFINE B == {i \in 0..N : r[i] >= j}
  <2>1. N \in B /\ B \in SUBSET Nat
    BY <1>1, <1>2
  <2>2. PICK i \in B : \A x \in B : i <= x
    BY <2>1, Least
  <2>3. i \in 1..N /\ i - 1 \in 0..N /\ i - 1 \notin B
    BY <1>1, <1>2, <2>2
  <2>4. r[i] >= j /\ r[i - 1] < j /\ r[i] \in Nat /\ r[i - 1] \in Nat
    BY <1>2, <2>2, <2>3
  <2>5. QED
    BY <1>2, <2>3, <2>4
<1>4. \A j \in 1..C : e[j] \in K /\ r[e[j]] = j
  <2> SUFFICES ASSUME NEW j \in 1..C PROVE e[j] \in K /\ r[e[j]] = j
    OBVIOUS
  <2>1. PICK i \in K : r[i] = j
    BY <1>3
  <2>2. \A x \in K : r[x] = Cardinality({p \in K : p <= x})
    BY <1>1
  <2> HIDE DEF r, C
  <2>3. QED
    BY <2>1, <2>2
<1>5. t = [j \in 1..C |-> fs[e[j]]]
  BY DEF Picked
<1> HIDE DEF t, e, r, C, N
<1>6. t \in [1..C -> S] /\ DOMAIN t = 1..C /\ \A j \in 1..C : t[j] = fs[e[j]]
  BY <1>1, <1>4, <1>5
<1>7. t \in Seq(S)
  BY <1>2, <1>6
<1>8. ASSUME NEW i \in 1..C, NEW j \in 1..C, i < j PROVE e[i] < e[j]
  <2>1. e[i] \in 0..N /\ e[j] \in 0..N /\ r[e[i]] = i /\ r[e[j]] = j
    BY <1>1, <1>4
  <2>2. e[j] <= e[i] => j <= i
    BY <1>2, <2>1
  <2>3. QED
    BY <1>1, <1>2, <1>8, <2>1, <2>2
<1>9. ASSUME NEW k \in K PROVE \E j \in 1..C : e[j] = k
  <2> DEFINE j == r[k]
  <2>1. k \in 1..N /\ k \in 0..N /\ k - 1 \in 0..N /\ N \in 0..N /\ k <= N
    BY <1>1
  <2>2. r[k] = r[k - 1] + 1 /\ r[k - 1] \in Nat /\ r[k] <= C
    BY <1>2, <2>1
  <2>3. j \in 1..C
    BY <1>2, <2>2
  <2>4. e[j] \in 1..N /\ r[e[j]] = r[k] /\ e[j] \in K /\ e[j] - 1 \in 0..N /\ e[j] \in 0..N
    BY <1>1, <1>4, <2>3
  <2>5. ~(e[j] < k)
    <3>1. e[j] < k => e[j] <= k - 1
      BY <1>1, <2>1, <2>4
    <3>2. e[j] <= k - 1 => r[e[j]] <= r[k - 1]
      BY <1>2, <2>1, <2>4
    <3>3. r[e[j]] \in Nat /\ ~(r[e[j]] <= r[k - 1])
      BY <2>2, <2>4
    <3>4. QED
      BY <3>1, <3>2, <3>3
  <2>6. ~(k < e[j])
    <3>1. k < e[j] => k <= e[j] - 1
      BY <1>1, <2>1, <2>4
    <3>2. k <= e[j] - 1 => r[k] <= r[e[j] - 1]
      BY <1>2, <2>1, <2>4
    <3>3. r[e[j]] = r[e[j] - 1] + 1 /\ r[e[j] - 1] \in Nat
      BY <1>2, <2>4
    <3>4. QED
      BY <2>4, <3>1, <3>2, <3>3
  <2>7. e[j] = k
    BY <2>1, <2>4, <2>5, <2>6
  <2>8. QED
    BY <2>3, <2>7
<1>10. /\ e \in [1..C -> K] /\ \A j \in 1..C : t[j] = fs[e[j]]
       /\ \A i, j \in 1..C : i < j => e[i] < e[j]
       /\ \A k \in K : \E j \in 1..C : e[j] = k
  <2>1. e \in [1..C -> K]
    BY <1>4 DEF e
  <2>2. QED
    BY <1>6, <1>8, <1>9, <2>1
<1>11. t \in Seq(S) /\ PlacesAt(fs, K, t, e)
  <2>1. DOMAIN t = 1..C
    BY <1>6
  <2>2. e \in [DOMAIN t -> K]
    BY <1>10, <2>1
  <2>3. /\ \A j \in DOMAIN t : t[j] = fs[e[j]]
        /\ \A i, j \in DOMAIN t : i < j => e[i] < e[j]
        /\ \A k \in K : \E j \in DOMAIN t : e[j] = k
    BY <1>10, <2>1
  <2>4. QED
    BY <1>7, <2>2, <2>3 DEF PlacesAt
<1>12. QED
  BY <1>11 DEF t

FormatType == [start : Nat, attr : Attributes]

\* Formats start one behind the other.
Ordered(fs) == \A i, j \in DOMAIN fs : i < j => fs[i].start < fs[j].start

\* The format i is the last one that starts no later than p.
Governs(fs, p, i) ==
    i \in DOMAIN fs /\ fs[i].start <= p /\ \A j \in DOMAIN fs : i < j => p < fs[j].start

\* The attributes of the byte behind p.
LookAt(fs, p) == fs[IterForPos(fs, p)].attr

\* The formats of a text: what CHECK_ATTRIBUTES asserts, of any two of them.
Well(fs, len) ==
    /\ fs \in Seq(FormatType) /\ Ordered(fs)
    /\ \A i \in DOMAIN fs : fs[i].start < len
    /\ len > 0 => \E i \in DOMAIN fs : fs[i].start = 0

LEMMA FormatIs ==
    ASSUME NEW fs \in Seq(FormatType), NEW i \in DOMAIN fs
    PROVE  /\ i \in Nat \ {0} /\ i \in 1..Len(fs)
           /\ fs[i] \in FormatType /\ fs[i].start \in Nat /\ fs[i].attr \in Attributes
<1>1. i \in 1..Len(fs) /\ fs[i] \in FormatType
  OBVIOUS
<1>2. QED
  BY <1>1 DEF FormatType

\* The search finds the format that governs.
LEMMA GovernorFound ==
    ASSUME NEW fs \in Seq(FormatType), Ordered(fs), NEW p \in Nat, NEW i, Governs(fs, p, i)
    PROVE  IterForPos(fs, p) = i /\ LookAt(fs, p) = fs[i].attr
<1> DEFINE Right(x) == fs[x].start <= p /\ (x < Len(fs) => fs[x + 1].start > p)
<1>1. i \in DOMAIN fs /\ DOMAIN fs = 1..Len(fs) /\ Len(fs) \in Nat
  BY DEF Governs
<1>2. \A x \in DOMAIN fs : x \in Nat /\ fs[x].start \in Nat
  BY FormatIs
<1>3. Right(i)
  <2>1. fs[i].start <= p
    BY DEF Governs
  <2>2. ASSUME i < Len(fs) PROVE fs[i + 1].start > p
    <3>1. i + 1 \in DOMAIN fs /\ i < i + 1
      BY <1>1, <2>2
    <3>2. p < fs[i + 1].start /\ fs[i + 1].start \in Nat
      BY <1>2, <3>1 DEF Governs
    <3>3. QED
      BY <3>2
  <2>3. QED
    BY <2>1, <2>2
<1>4. ASSUME NEW x \in DOMAIN fs, Right(x) PROVE x = i
  <2>1. ~(x < i)
    <3>1. SUFFICES ASSUME x < i PROVE FALSE
      OBVIOUS
    <3>2. x < Len(fs) /\ x + 1 \in DOMAIN fs /\ (x + 1 = i \/ x + 1 < i)
      BY <1>1, <3>1
    <3>3. fs[x + 1].start <= fs[i].start
      BY <1>1, <1>2, <3>2 DEF Ordered
    <3>4. fs[x + 1].start > p /\ fs[i].start <= p
      BY <1>3, <1>4, <3>2
    <3>5. QED
      BY <1>1, <1>2, <3>2, <3>3, <3>4
  <2>2. ~(i < x)
    <3>1. SUFFICES ASSUME i < x PROVE FALSE
      OBVIOUS
    <3>2. p < fs[x].start /\ fs[x].start <= p
      BY <1>4, <3>1 DEF Governs
    <3>3. QED
      BY <1>2, <3>2
  <2>3. QED
    BY <1>1, <1>2, <2>1, <2>2
<1>5. IterForPos(fs, p) = CHOOSE x \in DOMAIN fs : Right(x)
  BY DEF IterForPos
<1> HIDE DEF Right
<1>6. IterForPos(fs, p) = i
  BY <1>1, <1>3, <1>4, <1>5
<1>7. QED
  BY <1>6 DEF LookAt

\* Every position is governed.
LEMMA GovernorExists ==
    ASSUME NEW len \in Nat \ {0}, NEW fs, Well(fs, len), NEW p \in Nat
    PROVE  \E i \in DOMAIN fs : Governs(fs, p, i)
<1> DEFINE K == {i \in 0..Len(fs) : i \in DOMAIN fs /\ fs[i].start <= p}
<1>1. fs \in Seq(FormatType) /\ Len(fs) \in Nat /\ DOMAIN fs = 1..Len(fs)
  BY DEF Well
<1>2. PICK o \in DOMAIN fs : fs[o].start = 0
  BY DEF Well
<1>3. o \in K
  BY <1>1, <1>2
<1>4. PICK m \in K : \A k \in K : k <= m
  BY <1>1, <1>3, Greatest
<1>5. m \in DOMAIN fs /\ fs[m].start <= p /\ m \in Nat
  BY <1>1, <1>4
<1>6. ASSUME NEW j \in DOMAIN fs, m < j PROVE p < fs[j].start
  <2>1. fs[j].start \in Nat /\ j \in Nat /\ j \in 0..Len(fs)
    BY <1>1, FormatIs
  <2>2. j \notin K
    BY <1>4, <1>5, <1>6, <2>1
  <2>3. QED
    BY <2>1, <2>2
<1>7. QED
  BY <1>5, <1>6 DEF Governs

\* Of formats that are picked each keeps its place: who governed among them
\* governs now.
LEMMA PickedIs ==
    ASSUME NEW fs \in Seq(FormatType), NEW K \in SUBSET (DOMAIN fs),
           \A i, j \in K : i < j => fs[i].start < fs[j].start
    PROVE  /\ Picked(fs, K) \in Seq(FormatType) /\ Ordered(Picked(fs, K))
           /\ \A j \in DOMAIN Picked(fs, K) : \E k \in K : Picked(fs, K)[j] = fs[k]
           /\ \A k \in K : \E j \in DOMAIN Picked(fs, K) : Picked(fs, K)[j] = fs[k]
           /\ \A p \in Nat : \A k \in K :
                /\ fs[k].start <= p
                /\ \A x \in K : k < x => p < fs[x].start
                => LookAt(Picked(fs, K), p) = fs[k].attr
<1> DEFINE t == Picked(fs, K)
<1> HIDE DEF t
<1>1. t \in Seq(FormatType)
  BY PickedFacts DEF t
<1>2. PICK e : /\ e \in [DOMAIN t -> K]
               /\ \A j \in DOMAIN t : t[j] = fs[e[j]]
               /\ \A i, j \in DOMAIN t : i < j => e[i] < e[j]
               /\ \A k \in K : \E j \in DOMAIN t : e[j] = k
  <2>1. PICK e : PlacesAt(fs, K, t, e)
    BY PickedFacts DEF t
  <2>2. QED
    BY <2>1 DEF PlacesAt
<1>3. \A j \in DOMAIN t : e[j] \in K /\ e[j] \in Nat /\ j \in Nat
  BY <1>1, <1>2, FormatIs
<1>4. Ordered(t)
  BY <1>2, <1>3 DEF Ordered
<1>5. \A k \in K : \E j \in DOMAIN t : t[j] = fs[k]
  BY <1>2
<1>6. \A j \in DOMAIN t : \E k \in K : t[j] = fs[k]
  BY <1>2, <1>3
<1>7. ASSUME NEW p \in Nat, NEW k \in K, fs[k].start <= p,
             \A x \in K : k < x => p < fs[x].start
      PROVE  LookAt(t, p) = fs[k].attr
  <2>1. PICK i \in DOMAIN t : e[i] = k
    BY <1>2
  <2>2. t[i] = fs[k]
    BY <1>2, <2>1
  <2>3. ASSUME NEW j \in DOMAIN t, i < j PROVE p < t[j].start
    <3>1. e[i] < e[j] /\ e[j] \in K /\ t[j] = fs[e[j]]
      BY <1>2, <1>3, <2>3
    <3>2. QED
      BY <1>7, <2>1, <3>1
  <2>4. Governs(t, p, i)
    BY <1>7, <2>2, <2>3 DEF Governs
  <2>5. QED
    BY <1>1, <1>4, <2>2, <2>4, GovernorFound
<1>8. QED
  BY <1>1, <1>4, <1>5, <1>6, <1>7 DEF t

\* Removing duplicates gives no byte other attributes.
LEMMA DuplicatesGo ==
    ASSUME NEW len \in Nat \ {0}, NEW fs, Well(fs, len), NEW first \in Nat \ {0}, NEW end \in Nat
    PROVE  /\ Well(RemoveDuplicates(fs, first, end), len)
           /\ \A p \in Nat : LookAt(RemoveDuplicates(fs, first, end), p) = LookAt(fs, p)
<1> DEFINE K == {i \in DOMAIN fs :
                   i \in first + 1 .. end - 1 => fs[i].attr # fs[i - 1].attr}
           t == Picked(fs, K)
<1>1. fs \in Seq(FormatType) /\ Ordered(fs) /\ K \in SUBSET (DOMAIN fs)
  BY DEF Well
<1>2. RemoveDuplicates(fs, first, end) = t
  BY DEF RemoveDuplicates
<1>3. \A i \in DOMAIN fs : i \in Nat \ {0} /\ i \in 1..Len(fs) /\ fs[i].start \in Nat
  BY <1>1, FormatIs
<1>4. PICK o \in DOMAIN fs : fs[o].start = 0
  BY DEF Well
<1>5. o \in K
  <2>1. o = 1
    <3>1. 1 \in DOMAIN fs
      BY <1>1, <1>3, <1>4
    <3>2. ~(1 < o)
      BY <1>1, <1>3, <1>4, <3>1 DEF Ordered
    <3>3. QED
      BY <1>3, <1>4, <3>2
  <2>2. QED
    BY <1>4, <2>1
<1>6. ASSUME NEW i \in DOMAIN fs
      PROVE  \E k \in K : k <= i /\ fs[k].attr = fs[i].attr /\ \A x \in K : k < x => i < x
  <2> DEFINE B == {x \in 0..i : x \in K}
  <2>1. i \in Nat /\ o \in B
    <3>1. o <= i
      BY <1>1, <1>3, <1>4 DEF Ordered
    <3>2. QED
      BY <1>3, <1>4, <1>5, <3>1
  <2>2. PICK k \in B : \A x \in B : x <= k
    BY <2>1, Greatest
  <2>3. k \in K /\ k \in DOMAIN fs /\ k \in Nat /\ k <= i
    BY <1>1, <1>3, <2>1, <2>2
  <2>4. ASSUME NEW x \in K, k < x PROVE i < x
    <3>1. x \in Nat /\ x \notin B
      BY <1>1, <1>3, <2>2, <2>3, <2>4
    <3>2. QED
      BY <2>1, <3>1
  <2>5. fs[k].attr = fs[i].attr
    <3> DEFINE D == {x \in Nat : k <= x /\ x <= i /\ fs[x].attr # fs[k].attr}
    <3>1. SUFFICES ASSUME D # {} PROVE FALSE
      BY <2>1, <2>3
    <3>2. PICK x \in D : \A y \in D : x <= y
      BY <3>1, Least
    <3>3. x \in Nat /\ k < x /\ x <= i /\ fs[x].attr # fs[k].attr
      BY <2>3, <3>2
    <3>4. x - 1 \in Nat /\ k <= x - 1 /\ x - 1 <= i /\ ~(x <= x - 1)
      BY <2>1, <2>3, <3>3
    <3>5. fs[x - 1].attr = fs[k].attr
      BY <3>2, <3>4
    <3>6. x \in DOMAIN fs /\ x \notin K
      <4>1. x \in DOMAIN fs
        BY <1>1, <1>3, <2>1, <2>3, <3>3
      <4>2. ~(i < x)
        BY <2>1, <3>3
      <4>3. QED
        BY <2>4, <3>3, <4>1, <4>2
    <3>7. fs[x].attr = fs[x - 1].attr
      BY <3>6
    <3>8. QED
      BY <3>3, <3>5, <3>7
  <2>6. QED
    BY <2>3, <2>4, <2>5
<1> HIDE DEF K
<1>7. \A i, j \in K : i < j => fs[i].start < fs[j].start
  BY <1>1 DEF Ordered
<1>8. /\ t \in Seq(FormatType) /\ Ordered(t)
      /\ \A j \in DOMAIN t : \E k \in K : t[j] = fs[k]
      /\ \A k \in K : \E j \in DOMAIN t : t[j] = fs[k]
      /\ \A p \in Nat : \A k \in K :
           /\ fs[k].start <= p
           /\ \A x \in K : k < x => p < fs[x].start
           => LookAt(t, p) = fs[k].attr
  BY <1>1, <1>7, PickedIs
<1> HIDE DEF t
<1>9. ASSUME NEW p \in Nat PROVE LookAt(t, p) = LookAt(fs, p)
  <2>1. PICK i \in DOMAIN fs : Governs(fs, p, i)
    BY GovernorExists
  <2>2. PICK k \in K : k <= i /\ fs[k].attr = fs[i].attr /\ \A x \in K : k < x => i < x
    BY <1>6
  <2>3. k \in DOMAIN fs /\ fs[k].start <= fs[i].start
    BY <1>1, <1>3, <2>2 DEF Ordered
  <2>4. fs[k].start <= p
    BY <1>3, <2>1, <2>3 DEF Governs
  <2>5. \A x \in K : k < x => p < fs[x].start
    BY <1>1, <2>1, <2>2 DEF Governs
  <2>6. LookAt(t, p) = fs[k].attr
    BY <1>8, <2>4, <2>5
  <2>7. LookAt(fs, p) = fs[i].attr
    BY <1>1, <2>1, GovernorFound
  <2>8. QED
    BY <2>2, <2>6, <2>7
<1>10. Well(t, len)
  <2>1. \A j \in DOMAIN t : t[j].start < len
    BY <1>1, <1>8 DEF Well
  <2>2. \E j \in DOMAIN t : t[j].start = 0
    BY <1>4, <1>5, <1>8
  <2>3. QED
    BY <1>8, <2>1, <2>2 DEF Well
<1>11. QED
  BY <1>2, <1>9, <1>10

\* Formats that start elsewhere, with the attributes that they had.
Moved(fs, g) == [i \in DOMAIN fs |-> [fs[i] EXCEPT !.start = g[i]]]

LEMMA MovedFacts ==
    ASSUME NEW fs \in Seq(FormatType), NEW g \in [DOMAIN fs -> Nat]
    PROVE  /\ Moved(fs, g) \in Seq(FormatType) /\ DOMAIN Moved(fs, g) = DOMAIN fs
           /\ \A i \in DOMAIN fs :
                Moved(fs, g)[i].start = g[i] /\ Moved(fs, g)[i].attr = fs[i].attr
<1> DEFINE t == Moved(fs, g)
<1>1. \A i \in DOMAIN fs : fs[i] \in FormatType /\ g[i] \in Nat
  BY FormatIs
<1>2. ASSUME NEW f \in FormatType, NEW s \in Nat
      PROVE  /\ [f EXCEPT !.start = s] \in FormatType
             /\ [f EXCEPT !.start = s].start = s /\ [f EXCEPT !.start = s].attr = f.attr
  BY DEF FormatType
<1>3. DOMAIN t = DOMAIN fs /\ \A i \in DOMAIN fs : t[i] = [fs[i] EXCEPT !.start = g[i]]
  BY DEF Moved
<1>4. \A i \in DOMAIN fs :
        t[i] \in FormatType /\ t[i].start = g[i] /\ t[i].attr = fs[i].attr
  <2> HIDE DEF t
  <2> SUFFICES ASSUME NEW i \in DOMAIN fs
               PROVE  t[i] \in FormatType /\ t[i].start = g[i] /\ t[i].attr = fs[i].attr
    OBVIOUS
  <2>1. fs[i] \in FormatType /\ g[i] \in Nat /\ t[i] = [fs[i] EXCEPT !.start = g[i]]
    BY <1>1, <1>3
  <2>2. QED
    BY <1>2, <2>1
<1>5. t \in Seq(FormatType)
  <2>1. t \in [1..Len(fs) -> FormatType] /\ Len(fs) \in Nat
    BY <1>4 DEF Moved
  <2>2. QED
    BY <2>1
<1>6. QED
  BY <1>3, <1>4, <1>5

\* A text that is appended starts a format of its own.
LEMMA AppendedFormat ==
    ASSUME NEW len \in Nat, NEW fs, Well(fs, len), NEW n \in Nat \ {0}, NEW default \in Attributes
    PROVE  LET a == Append(fs, [start |-> len, attr |-> default])
           IN  /\ Well(a, len + n)
               /\ \A p \in Nat : LookAt(a, p) = IF p < len THEN LookAt(fs, p) ELSE default
<1> DEFINE f == [start |-> len, attr |-> default]
           a == Append(fs, f)
           N == Len(fs)
<1>1. /\ fs \in Seq(FormatType) /\ Ordered(fs) /\ DOMAIN fs = 1..N /\ N \in Nat
      /\ \A i \in DOMAIN fs : fs[i].start \in Nat /\ fs[i].start < len
  BY FormatIs DEF Well
<1>2. f \in FormatType /\ f.start = len /\ f.attr = default
  BY DEF FormatType
<1> HIDE DEF f
<1>3. /\ a \in Seq(FormatType) /\ DOMAIN a = 1 .. N + 1
      /\ \A i \in 1..N : a[i] = fs[i]
      /\ a[N + 1] = f
  BY <1>1, <1>2
<1> HIDE DEF a, N
<1>4. Ordered(a)
  <2>1. ASSUME NEW i \in DOMAIN a, NEW j \in DOMAIN a, i < j PROVE a[i].start < a[j].start
    <3>1. i \in 1..N
      BY <1>1, <1>3, <2>1
    <3>2. CASE j = N + 1
      BY <1>1, <1>2, <1>3, <3>1, <3>2
    <3>3. CASE j # N + 1
      <4>1. j \in 1..N
        BY <1>1, <1>3, <3>3
      <4>2. QED
        BY <1>1, <1>3, <2>1, <3>1, <4>1 DEF Ordered
    <3>4. QED
      BY <3>2, <3>3
  <2>2. QED
    BY <2>1 DEF Ordered
<1>5. \A i \in DOMAIN a : a[i].start < len + n /\ a[i].start <= len
  <2> SUFFICES ASSUME NEW i \in DOMAIN a PROVE a[i].start < len + n /\ a[i].start <= len
    OBVIOUS
  <2>1. CASE i = N + 1
    BY <1>2, <1>3, <2>1
  <2>2. CASE i # N + 1
    <3>1. i \in 1..N
      BY <1>1, <1>3, <2>2
    <3>2. QED
      BY <1>1, <1>3, <3>1
  <2>3. QED
    BY <2>1, <2>2
<1>6. \E i \in DOMAIN a : a[i].start = 0
  <2>1. CASE len = 0
    <3>1. N + 1 \in DOMAIN a
      BY <1>1, <1>3
    <3>2. QED
      BY <1>2, <1>3, <2>1, <3>1
  <2>2. CASE len # 0
    <3>1. PICK i \in DOMAIN fs : fs[i].start = 0
      BY <2>2 DEF Well
    <3>2. i \in DOMAIN a /\ a[i] = fs[i]
      BY <1>1, <1>3
    <3>3. QED
      BY <3>1, <3>2
  <2>3. QED
    BY <2>1, <2>2
<1>7. Well(a, len + n)
  BY <1>3, <1>4, <1>5, <1>6 DEF Well
<1>8. ASSUME NEW p \in Nat PROVE LookAt(a, p) = IF p < len THEN LookAt(fs, p) ELSE default
  <2>1. CASE p < len
    <3>1. PICK i \in DOMAIN fs : Governs(fs, p, i)
      BY <2>1, GovernorExists
    <3>2. i \in DOMAIN a /\ a[i] = fs[i]
      BY <1>1, <1>3
    <3>3. ASSUME NEW j \in DOMAIN a, i < j PROVE p < a[j].start
      <4>1. CASE j = N + 1
        BY <1>2, <1>3, <2>1, <4>1
      <4>2. CASE j # N + 1
        <5>1. j \in DOMAIN fs /\ a[j] = fs[j]
          BY <1>1, <1>3, <4>2
        <5>2. QED
          BY <3>1, <3>3, <5>1 DEF Governs
      <4>3. QED
        BY <4>1, <4>2
    <3>4. Governs(a, p, i)
      BY <3>1, <3>2, <3>3 DEF Governs
    <3>5. LookAt(a, p) = a[i].attr /\ LookAt(fs, p) = fs[i].attr
      BY <1>1, <1>3, <1>4, <3>1, <3>4, GovernorFound
    <3>6. QED
      BY <2>1, <3>2, <3>5
  <2>2. CASE ~(p < len)
    <3>1. N + 1 \in DOMAIN a /\ \A j \in DOMAIN a : ~(N + 1 < j)
      BY <1>1, <1>3
    <3>2. a[N + 1].start <= p
      BY <1>2, <1>3, <2>2
    <3>3. Governs(a, p, N + 1)
      BY <3>1, <3>2 DEF Governs
    <3>4. LookAt(a, p) = a[N + 1].attr
      BY <1>3, <1>4, <3>3, GovernorFound
    <3>5. QED
      BY <1>2, <1>3, <2>2, <3>4
  <2>3. QED
    BY <2>1, <2>2
<1>9. QED
  BY <1>7, <1>8 DEF a, f

\* The formats t give bytes the attributes that they have when n are inserted.
MadeRoom(t, fs, pos, n, len, default) ==
    /\ Well(t, len + n)
    /\ \A p \in 0 .. len + n - 1 :
         LookAt(t, p) = IF p < pos THEN LookAt(fs, p)
                        ELSE IF p < pos + n THEN IF pos = len THEN default ELSE LookAt(fs, pos)
                        ELSE LookAt(fs, p - n)

LEMMA InsertedFacts ==
    ASSUME NEW len \in Nat, NEW fs, Well(fs, len), NEW pos \in 0..len, NEW n \in Nat \ {0},
           NEW default \in Attributes
    PROVE  MadeRoom(Inserted(fs, pos, n, len, default), fs, pos, n, len, default)
<1>1. fs \in Seq(FormatType) /\ Ordered(fs)
  BY DEF Well
<1>2. CASE pos = len
  <2> DEFINE a == Append(fs, [start |-> pos, attr |-> default])
             first == IF fs = <<>> THEN 1 ELSE Len(fs)
  <2>1. Well(a, len + n) /\ \A p \in Nat : LookAt(a, p) = IF p < len THEN LookAt(fs, p) ELSE default
    BY <1>2, AppendedFormat
  <2>2. first \in Nat \ {0} /\ Len(fs) + 2 \in Nat /\ len + n \in Nat \ {0}
    BY <1>1
  <2>3. Inserted(fs, pos, n, len, default) = RemoveDuplicates(a, first, Len(fs) + 2)
    BY <1>2 DEF Inserted
  <2> HIDE DEF a, first
  <2>4. /\ Well(RemoveDuplicates(a, first, Len(fs) + 2), len + n)
        /\ \A p \in Nat : LookAt(RemoveDuplicates(a, first, Len(fs) + 2), p) = LookAt(a, p)
    BY <2>1, <2>2, DuplicatesGo
  <2>5. QED
    BY <1>2, <2>1, <2>3, <2>4 DEF MadeRoom
<1>3. CASE pos # len
  <2> DEFINE g == [i \in DOMAIN fs |-> IF fs[i].start > pos THEN fs[i].start + n ELSE fs[i].start]
             t == Moved(fs, g)
  <2>1. \A i \in DOMAIN fs : i \in Nat /\ fs[i].start \in Nat /\ fs[i].start < len
    BY <1>1, FormatIs DEF Well
  <2>2. Inserted(fs, pos, n, len, default) = t
    BY <1>3 DEF Inserted, Moved
  <2>3. g \in [DOMAIN fs -> Nat]
    BY <2>1
  <2>4. \A i \in DOMAIN fs : g[i] = IF fs[i].start > pos THEN fs[i].start + n ELSE fs[i].start
    OBVIOUS
  <2> HIDE DEF g
  <2>5. /\ t \in Seq(FormatType) /\ DOMAIN t = DOMAIN fs
        /\ \A i \in DOMAIN fs : t[i].start = g[i] /\ t[i].attr = fs[i].attr
    BY <1>1, <2>3, MovedFacts
  <2> HIDE DEF t
  <2>6. /\ pos \in Nat /\ pos < len
        /\ \A i \in DOMAIN fs :
             t[i].start = IF fs[i].start > pos THEN fs[i].start + n ELSE fs[i].start
    BY <1>3, <2>4, <2>5
  <2>7. Ordered(t)
    <3>1. ASSUME NEW i \in DOMAIN fs, NEW j \in DOMAIN fs, i < j PROVE t[i].start < t[j].start
      <4>1. fs[i].start < fs[j].start
        BY <1>1, <3>1 DEF Ordered
      <4>2. QED
        BY <2>1, <2>6, <4>1
    <3>2. QED
      BY <2>5, <3>1 DEF Ordered
  <2>8. \A i \in DOMAIN t : t[i].start < len + n
    BY <2>1, <2>5, <2>6
  <2>9. \E i \in DOMAIN t : t[i].start = 0
    <3>1. PICK i \in DOMAIN fs : fs[i].start = 0
      BY <2>6 DEF Well
    <3>2. QED
      BY <2>5, <2>6, <3>1
  <2>10. Well(t, len + n)
    BY <2>5, <2>7, <2>8, <2>9 DEF Well
  <2>11. ASSUME NEW p \in 0 .. len + n - 1, NEW q \in Nat,
                q = IF p < pos THEN p ELSE IF p < pos + n THEN pos ELSE p - n
         PROVE  LookAt(t, p) = LookAt(fs, q)
    <3>1. len \in Nat \ {0} /\ p \in Nat
      BY <2>6
    <3>2. PICK i \in DOMAIN fs : Governs(fs, q, i)
      BY <3>1, GovernorExists
    <3>3. t[i].start <= p
      BY <2>1, <2>6, <2>11, <3>1, <3>2 DEF Governs
    <3>4. ASSUME NEW j \in DOMAIN t, i < j PROVE p < t[j].start
      <4>1. q < fs[j].start /\ fs[j].start \in Nat
        BY <2>1, <2>5, <3>2, <3>4 DEF Governs
      <4>2. QED
        BY <2>5, <2>6, <2>11, <3>1, <4>1
    <3>5. Governs(t, p, i)
      BY <2>5, <3>3, <3>4 DEF Governs
    <3>6. LookAt(t, p) = t[i].attr /\ LookAt(fs, q) = fs[i].attr
      BY <1>1, <2>5, <2>7, <3>1, <3>2, <3>5, GovernorFound
    <3>7. QED
      BY <2>5, <3>6
  <2>12. ASSUME NEW p \in 0 .. len + n - 1
         PROVE  LookAt(t, p) = IF p < pos THEN LookAt(fs, p)
                               ELSE IF p < pos + n THEN LookAt(fs, pos) ELSE LookAt(fs, p - n)
    <3>1. p < pos => LookAt(t, p) = LookAt(fs, p)
      BY <2>6, <2>11
    <3>2. ~(p < pos) /\ p < pos + n => LookAt(t, p) = LookAt(fs, pos)
      BY <2>6, <2>11
    <3>3. ~(p < pos) /\ ~(p < pos + n) => LookAt(t, p) = LookAt(fs, p - n)
      <4>1. ~(p < pos + n) => p - n \in Nat
        BY <2>6
      <4>2. QED
        BY <2>6, <2>11, <4>1
    <3>4. QED
      BY <3>1, <3>2, <3>3
  <2>13. QED
    BY <1>3, <2>2, <2>10, <2>12 DEF MadeRoom
<1>4. QED
  BY <1>2, <1>3

\* The formats t give bytes the attributes that they had before n were deleted.
ClosedUp(t, fs, pos, n, len) ==
    /\ Well(t, len - n)
    /\ \A p \in Nat : p < len - n =>
         LookAt(t, p) = IF p < pos THEN LookAt(fs, p) ELSE LookAt(fs, p + n)

LEMMA DeletedFacts ==
    ASSUME NEW len \in Nat, NEW fs, Well(fs, len), NEW pos \in Nat, NEW n \in Nat \ {0},
           pos + n <= len
    PROVE  ClosedUp(Deleted(fs, pos, n, len), fs, pos, n, len)
<1> DEFINE end == pos + n
           inside == {i \in DOMAIN fs : fs[i].start \in pos..end}
           g == [i \in DOMAIN fs |-> IF i \in inside THEN pos
                                     ELSE IF fs[i].start > end THEN fs[i].start - n
                                     ELSE fs[i].start]
           m == Moved(fs, g)
           K == {i \in DOMAIN fs : i \in inside => i + 1 \notin inside /\ end # len}
           t == Picked(m, K)
<1>1. /\ fs \in Seq(FormatType) /\ Ordered(fs) /\ DOMAIN fs = 1..Len(fs) /\ Len(fs) \in Nat
      /\ \A i \in DOMAIN fs : i \in Nat \ {0} /\ fs[i].start \in Nat /\ fs[i].start < len
  BY FormatIs DEF Well
<1>2. Deleted(fs, pos, n, len) = t
  BY DEF Deleted, Moved
<1>3. end \in Nat /\ len \in Nat \ {0} /\ end <= len /\ pos < end /\ end - n = pos
      /\ len - n \in Nat
  OBVIOUS
<1>4. \A i \in DOMAIN fs : i \in inside <=> pos <= fs[i].start /\ fs[i].start <= end
  BY <1>1, <1>3
<1>5. \A i \in DOMAIN fs :
        g[i] = IF i \in inside THEN pos
               ELSE IF fs[i].start > end THEN fs[i].start - n ELSE fs[i].start
  OBVIOUS
<1>6. g \in [DOMAIN fs -> Nat]
  BY <1>1, <1>3
<1>7. /\ K \in SUBSET (DOMAIN fs) /\ inside \in SUBSET (DOMAIN fs)
      /\ \A i \in DOMAIN fs : i \in K <=> (i \in inside => i + 1 \notin inside /\ end # len)
  OBVIOUS
<1> HIDE DEF end, inside, g, K, m
<1>8. /\ m \in Seq(FormatType) /\ DOMAIN m = DOMAIN fs
      /\ \A i \in DOMAIN fs : m[i].start = g[i] /\ m[i].attr = fs[i].attr
  BY <1>1, <1>6, MovedFacts DEF m
\* Only the last of those inside is kept, and all of them now start at pos.
<1>9. ASSUME NEW i \in K, NEW j \in K, i < j PROVE g[i] < g[j]
  <2>1. /\ i \in DOMAIN fs /\ j \in DOMAIN fs /\ fs[i].start < fs[j].start
        /\ fs[i].start \in Nat /\ fs[j].start \in Nat /\ i \in Nat /\ j \in Nat
    BY <1>1, <1>7, <1>9 DEF Ordered
  <2>2. ~(i \in inside /\ j \in inside)
    <3>1. SUFFICES ASSUME i \in inside, j \in inside PROVE FALSE
      OBVIOUS
    <3>2. i + 1 \in DOMAIN fs /\ (i + 1 = j \/ i + 1 < j)
      BY <1>1, <1>9, <2>1
    <3>3. i < i + 1 /\ fs[i + 1].start \in Nat
      BY <1>1, <2>1, <3>2
    <3>4. fs[i].start < fs[i + 1].start /\ fs[i + 1].start <= fs[j].start
      BY <1>1, <2>1, <3>2, <3>3 DEF Ordered
    <3>5. i + 1 \in inside
      BY <1>3, <1>4, <2>1, <3>1, <3>2, <3>3, <3>4
    <3>6. QED
      BY <1>7, <2>1, <3>1, <3>5
  <2>3. QED
    BY <1>3, <1>4, <1>5, <2>1, <2>2
<1>10. ASSUME NEW i \in K, NEW j \in K, i < j PROVE m[i].start < m[j].start
  BY <1>7, <1>8, <1>9, <1>10
<1>11. K \in SUBSET (DOMAIN m)
  BY <1>7, <1>8
<1>12. /\ t \in Seq(FormatType) /\ Ordered(t)
       /\ \A j \in DOMAIN t : \E k \in K : t[j] = m[k]
       /\ \A k \in K : \E j \in DOMAIN t : t[j] = m[k]
       /\ \A p \in Nat : \A k \in K :
            /\ m[k].start <= p
            /\ \A x \in K : k < x => p < m[x].start
            => LookAt(t, p) = m[k].attr
  BY <1>8, <1>10, <1>11, PickedIs
<1> HIDE DEF t
<1>13. \A j \in DOMAIN t : t[j].start < len - n
  <2> SUFFICES ASSUME NEW j \in DOMAIN t PROVE t[j].start < len - n
    OBVIOUS
  <2>1. PICK k \in K : t[j] = m[k]
    BY <1>12
  <2>2. k \in DOMAIN fs /\ m[k].start = g[k] /\ fs[k].start \in Nat /\ fs[k].start < len
    BY <1>1, <1>7, <1>8
  <2>3. CASE k \in inside
    <3>1. end # len /\ g[k] = pos
      BY <1>5, <1>7, <2>2, <2>3
    <3>2. QED
      BY <1>3, <2>1, <2>2, <3>1
  <2>4. CASE k \notin inside
    BY <1>3, <1>4, <1>5, <2>1, <2>2, <2>4
  <2>5. QED
    BY <2>3, <2>4
\* The format of a byte that stays is kept.
<1>14. ASSUME NEW p \in Nat, p < len - n, NEW q \in Nat, q = IF p < pos THEN p ELSE p + n
       PROVE  \E k \in K : /\ m[k].start <= p /\ m[k].attr = LookAt(fs, q)
                           /\ \A x \in K : k < x => p < m[x].start
  <2>1. PICK i \in DOMAIN fs : Governs(fs, q, i)
    BY <1>3, GovernorExists
  <2>2. LookAt(fs, q) = fs[i].attr /\ fs[i].start <= q /\ fs[i].start \in Nat /\ i \in Nat
    BY <1>1, <2>1, GovernorFound DEF Governs
  <2>3. q < len
    BY <1>3, <1>14
  <2>4. i \in K
    <3>1. SUFFICES ASSUME i \in inside PROVE i + 1 \notin inside /\ end # len
      BY <1>7, <2>1
    <3>2. ~(p < pos) /\ end <= q
      BY <1>3, <1>4, <1>14, <2>1, <2>2, <3>1
    <3>3. i + 1 \notin inside
      <4>1. SUFFICES ASSUME i + 1 \in inside PROVE FALSE
        OBVIOUS
      <4>2. i + 1 \in DOMAIN fs /\ i < i + 1
        BY <1>7, <2>2, <4>1
      <4>3. q < fs[i + 1].start /\ fs[i + 1].start <= end /\ fs[i + 1].start \in Nat
        BY <1>1, <1>4, <2>1, <4>1, <4>2 DEF Governs
      <4>4. QED
        BY <1>3, <3>2, <4>3
    <3>4. QED
      BY <1>3, <2>3, <3>2, <3>3
  <2>5. m[i].start <= p
    BY <1>3, <1>4, <1>5, <1>8, <1>14, <2>1, <2>2
  <2>6. ASSUME NEW x \in K, i < x PROVE p < m[x].start
    <3>1. /\ x \in DOMAIN fs /\ q < fs[x].start /\ fs[x].start \in Nat
          /\ m[x].start = g[x]
      BY <1>1, <1>7, <1>8, <2>1, <2>6 DEF Governs
    <3>2. CASE p < pos
      BY <1>3, <1>4, <1>5, <1>14, <3>1, <3>2
    <3>3. CASE ~(p < pos)
      <4>1. end < fs[x].start /\ x \notin inside
        BY <1>3, <1>4, <1>14, <3>1, <3>3
      <4>2. g[x] = fs[x].start - n
        BY <1>3, <1>5, <3>1, <4>1
      <4>3. QED
        BY <1>14, <3>1, <3>3, <4>2
    <3>4. QED
      BY <3>2, <3>3
  <2>7. m[i].attr = LookAt(fs, q)
    BY <1>8, <2>1, <2>2
  <2>8. QED
    BY <2>4, <2>5, <2>6, <2>7
<1>15. ASSUME NEW p \in Nat, p < len - n
       PROVE  LookAt(t, p) = IF p < pos THEN LookAt(fs, p) ELSE LookAt(fs, p + n)
  <2> DEFINE q == IF p < pos THEN p ELSE p + n
  <2>1. q \in Nat /\ q = IF p < pos THEN p ELSE p + n
    OBVIOUS
  <2> HIDE DEF q
  <2>2. PICK k \in K : /\ m[k].start <= p /\ m[k].attr = LookAt(fs, q)
                       /\ \A x \in K : k < x => p < m[x].start
    BY <1>14, <1>15, <2>1
  <2>3. LookAt(t, p) = LookAt(fs, q)
    BY <1>12, <2>2
  <2>4. QED
    BY <2>1, <2>3
<1>16. ASSUME len - n > 0 PROVE \E j \in DOMAIN t : t[j].start = 0
  <2>1. 0 \in Nat /\ 0 < len - n
    BY <1>3, <1>16
  <2> DEFINE q == IF 0 < pos THEN 0 ELSE 0 + n
  <2>2. q \in Nat /\ q = IF 0 < pos THEN 0 ELSE 0 + n
    OBVIOUS
  <2> HIDE DEF q
  <2>3. PICK k \in K : m[k].start <= 0
    BY <1>14, <2>1, <2>2
  <2>4. k \in DOMAIN fs /\ m[k].start = g[k] /\ g[k] \in Nat
    BY <1>6, <1>7, <1>8
  <2>5. PICK j \in DOMAIN t : t[j] = m[k]
    BY <1>12
  <2>6. QED
    BY <2>3, <2>4, <2>5
<1>17. Well(t, len - n)
  BY <1>12, <1>13, <1>16 DEF Well
<1>18. QED
  BY <1>2, <1>15, <1>17 DEF ClosedUp

\* Three lists behind each other.
Joined(t, a, b, c) ==
    /\ Len(t) = Len(a) + Len(b) + Len(c)
    /\ \A i \in 1 .. Len(a) + Len(b) + Len(c) :
         t[i] = IF i <= Len(a) THEN a[i]
                ELSE IF i <= Len(a) + Len(b) THEN b[i - Len(a)]
                ELSE c[i - (Len(a) + Len(b))]

LEMMA ThreeParts ==
    ASSUME NEW S, NEW a \in Seq(S), NEW b \in Seq(S), NEW c \in Seq(S)
    PROVE  a \o b \o c \in Seq(S) /\ Joined(a \o b \o c, a, b, c)
<1> DEFINE ab == a \o b
           x == Len(a)
           y == Len(b)
           z == Len(c)
<1>1. x \in Nat /\ y \in Nat /\ z \in Nat
  OBVIOUS
<1>2. /\ ab \in Seq(S) /\ Len(ab) = x + y
      /\ \A i \in 1..x : ab[i] = a[i]
      /\ \A i \in x + 1 .. x + y : ab[i] = b[i - x]
  BY ConcatFacts
<1> HIDE DEF ab
<1> DEFINE t == ab \o c
<1>3. /\ t \in Seq(S) /\ Len(t) = Len(ab) + z
      /\ \A i \in 1..Len(ab) : t[i] = ab[i]
      /\ \A i \in Len(ab) + 1 .. Len(ab) + z : t[i] = c[i - Len(ab)]
  <2>1. ab \in Seq(S) /\ c \in Seq(S)
    BY <1>2
  <2>2. QED
    BY <2>1, ConcatFacts, Zenon DEF t, z
<1> HIDE DEF t, x, y, z
<1>4. t \in Seq(S) /\ Len(t) = x + y + z
  BY <1>2, <1>3
<1>5. ASSUME NEW i \in 1 .. x + y + z
      PROVE  t[i] = IF i <= x THEN a[i] ELSE IF i <= x + y THEN b[i - x] ELSE c[i - (x + y)]
  <2>1. CASE i <= x
    <3>1. i \in 1..x /\ i \in 1..Len(ab)
      BY <1>1, <1>2, <2>1
    <3>2. QED
      BY <1>2, <1>3, <2>1, <3>1
  <2>2. CASE ~(i <= x) /\ i <= x + y
    <3>1. i \in x + 1 .. x + y /\ i \in 1..Len(ab)
      BY <1>1, <1>2, <2>2
    <3>2. t[i] = ab[i] /\ ab[i] = b[i - x]
      BY <1>2, <1>3, <3>1
    <3>3. QED
      BY <2>2, <3>2
  <2>3. CASE ~(i <= x) /\ ~(i <= x + y)
    <3>1. i \in Len(ab) + 1 .. Len(ab) + z
      BY <1>1, <1>2, <2>3
    <3>2. t[i] = c[i - Len(ab)]
      BY <1>3, <3>1
    <3>3. QED
      BY <1>2, <2>3, <3>2
  <2>4. QED
    BY <2>1, <2>2, <2>3
<1>6. QED
  BY <1>4, <1>5 DEF Joined, t, ab, x, y, z

\* A list with one more element before place k.
OneMore(t, list, k, x) ==
    /\ Len(t) = Len(list) + 1
    /\ \A i \in 1 .. Len(list) + 1 :
         t[i] = IF i < k THEN list[i] ELSE IF i = k THEN x ELSE list[i - 1]

LEMMA InsertAtPlaces ==
    ASSUME NEW S, NEW list \in Seq(S), NEW x \in S, NEW k \in 1 .. Len(list) + 1
    PROVE  InsertAt(list, k, x) \in Seq(S) /\ OneMore(InsertAt(list, k, x), list, k, x)
<1> DEFINE N == Len(list)
           m == k - 1
           a == SubSeq(list, 1, m)
           b == <<x>>
           c == SubSeq(list, m + 1, N)
           t == a \o b \o c
<1>1. N \in Nat /\ m \in 0..N /\ m + 1 = k /\ k \in Nat
  OBVIOUS
<1>2. InsertAt(list, k, x) = t
  BY <1>1 DEF InsertAt
<1> HIDE DEF m
<1>3. /\ a \in Seq(S) /\ Len(a) = m /\ \A i \in 1..m : a[i] = list[i]
      /\ c \in Seq(S) /\ Len(c) = N - m /\ \A i \in 1 .. N - m : c[i] = list[m + i]
  BY <1>1, CutFacts
<1>4. b \in Seq(S) /\ Len(b) = 1 /\ b[1] = x
  OBVIOUS
<1> HIDE DEF a, b, c, N
<1>5. /\ t \in Seq(S) /\ Len(t) = Len(a) + Len(b) + Len(c)
      /\ \A i \in 1 .. Len(a) + Len(b) + Len(c) :
           t[i] = IF i <= Len(a) THEN a[i]
                  ELSE IF i <= Len(a) + Len(b) THEN b[i - Len(a)]
                  ELSE c[i - (Len(a) + Len(b))]
  <2>1. t \in Seq(S) /\ Joined(t, a, b, c)
    BY <1>3, <1>4, ThreeParts
  <2> HIDE DEF t
  <2>2. QED
    BY <2>1 DEF Joined
<1> HIDE DEF t
<1>6. Len(t) = N + 1 /\ Len(a) + Len(b) + Len(c) = N + 1 /\ Len(a) = m /\ Len(a) + Len(b) = k
  BY <1>1, <1>3, <1>4, <1>5
<1>7. ASSUME NEW i \in 1 .. N + 1
      PROVE  t[i] = IF i < k THEN list[i] ELSE IF i = k THEN x ELSE list[i - 1]
  <2>1. t[i] = IF i <= m THEN a[i] ELSE IF i <= k THEN b[i - m] ELSE c[i - k]
    BY <1>5, <1>6
  <2>2. CASE i < k
    <3>1. i \in 1..m
      BY <1>1, <2>2
    <3>2. QED
      BY <1>3, <2>1, <2>2, <3>1
  <2>3. CASE i = k
    <3>1. i - m = 1 /\ ~(i <= m) /\ i <= k
      BY <1>1, <2>3
    <3>2. QED
      BY <1>4, <2>1, <2>3, <3>1
  <2>4. CASE k < i
    <3>1. i - k \in 1 .. N - m /\ m + (i - k) = i - 1 /\ ~(i <= m) /\ ~(i <= k)
      BY <1>1, <2>4
    <3>2. t[i] = c[i - k] /\ c[i - k] = list[m + (i - k)]
      BY <1>3, <2>1, <3>1
    <3>3. QED
      BY <1>1, <2>4, <3>1, <3>2
  <2>5. QED
    BY <1>1, <2>2, <2>3, <2>4
<1>8. QED
  BY <1>2, <1>5, <1>6, <1>7 DEF N, OneMore

\* The formats t are fs with one that starts at pos, and no byte looks different.
SplitAt(t, fs, len, pos) ==
    /\ Well(t, len)
    /\ \A p \in Nat : LookAt(t, p) = LookAt(fs, p)
    /\ \E i \in DOMAIN t : t[i].start = pos
    /\ \A j \in DOMAIN fs : \E i \in DOMAIN t : t[i].start = fs[j].start

\* A format that starts among the bytes of another one, with its attributes.
LEMMA SplitFacts ==
    ASSUME NEW len \in Nat \ {0}, NEW fs, Well(fs, len), NEW pos \in Nat, pos < len
    PROVE  SplitAt(Split(fs, pos), fs, len, pos)
<1>1. /\ fs \in Seq(FormatType) /\ Ordered(fs) /\ DOMAIN fs = 1..Len(fs) /\ Len(fs) \in Nat
      /\ \A i \in DOMAIN fs : i \in Nat \ {0} /\ fs[i].start \in Nat /\ fs[i].start < len
  BY FormatIs DEF Well
<1>2. PICK g \in DOMAIN fs : Governs(fs, pos, g)
  BY GovernorExists
<1>3. IterForPos(fs, pos) = g
  BY <1>1, <1>2, GovernorFound
<1>4. fs[g].start <= pos /\ \A j \in DOMAIN fs : g < j => pos < fs[j].start
  BY <1>2 DEF Governs
<1>5. CASE ~(fs[g].start < pos)
  <2>1. Split(fs, pos) = fs /\ fs[g].start = pos
    BY <1>1, <1>3, <1>4, <1>5 DEF Split
  <2>2. QED
    BY <2>1 DEF SplitAt
<1>6. CASE fs[g].start < pos
  <2> DEFINE new == [start |-> pos, attr |-> fs[g].attr]
             t == InsertAt(fs, g + 1, new)
             N == Len(fs)
  <2>1. Split(fs, pos) = t
    BY <1>3, <1>6 DEF Split
  <2>2. new \in FormatType /\ new.start = pos /\ new.attr = fs[g].attr
    BY <1>1, FormatIs DEF FormatType
  <2> HIDE DEF new
  <2>3. g + 1 \in 1 .. Len(fs) + 1 /\ g \in 1..N
    BY <1>1
  <2>4. /\ t \in Seq(FormatType) /\ Len(t) = N + 1
        /\ \A i \in 1 .. N + 1 :
             t[i] = IF i < g + 1 THEN fs[i] ELSE IF i = g + 1 THEN new ELSE fs[i - 1]
    <3>1. t \in Seq(FormatType) /\ OneMore(t, fs, g + 1, new)
      BY <1>1, <2>2, <2>3, InsertAtPlaces
    <3> HIDE DEF t
    <3>2. QED
      BY <3>1 DEF OneMore
  <2>5. DOMAIN t = 1 .. N + 1 /\ N \in Nat /\ DOMAIN fs = 1..N /\ g \in Nat
    BY <1>1, <2>3, <2>4
  <2> HIDE DEF t, N
  \* Each is the new one, or was there: before it or behind it.
  <2>6. ASSUME NEW i \in DOMAIN t
        PROVE  \/ i <= g /\ i \in DOMAIN fs /\ t[i] = fs[i]
               \/ i = g + 1 /\ t[i] = new
               \/ i > g + 1 /\ i - 1 \in DOMAIN fs /\ g < i - 1 /\ t[i] = fs[i - 1]
    <3>1. i \in 1 .. N + 1
      BY <2>5
    <3>2. t[i] = IF i < g + 1 THEN fs[i] ELSE IF i = g + 1 THEN new ELSE fs[i - 1]
      BY <2>4, <3>1
    <3>3. CASE i < g + 1
      BY <2>3, <2>5, <3>1, <3>2, <3>3
    <3>4. CASE i = g + 1
      BY <2>5, <3>2, <3>4
    <3>5. CASE g + 1 < i
      BY <2>5, <3>1, <3>2, <3>5
    <3>6. QED
      BY <2>5, <3>1, <3>3, <3>4, <3>5
  <2>7. \A j \in DOMAIN fs : \E i \in DOMAIN t : t[i] = fs[j]
    <3> SUFFICES ASSUME NEW j \in DOMAIN fs PROVE \E i \in DOMAIN t : t[i] = fs[j]
      OBVIOUS
    <3>1. CASE j <= g
      <4>1. j \in 1 .. N + 1 /\ j < g + 1
        BY <2>5, <3>1
      <4>2. QED
        BY <2>4, <2>5, <4>1
    <3>2. CASE g < j
      <4>1. j + 1 \in 1 .. N + 1 /\ ~(j + 1 < g + 1) /\ j + 1 # g + 1 /\ (j + 1) - 1 = j
        BY <2>5, <3>2
      <4>2. t[j + 1] = fs[j]
        BY <2>4, <4>1
      <4>3. QED
        BY <2>5, <4>1, <4>2
    <3>3. QED
      BY <1>1, <2>5, <3>1, <3>2
  <2>8. g + 1 \in DOMAIN t /\ t[g + 1] = new
    BY <2>3, <2>4, <2>5
  <2>9. Ordered(t)
    <3>1. ASSUME NEW i \in DOMAIN t, NEW j \in DOMAIN t, i < j PROVE t[i].start < t[j].start
      <4>0. i \in Nat /\ j \in Nat
        BY <2>5
      <4>1. CASE i <= g /\ i \in DOMAIN fs /\ t[i] = fs[i]
        <5>0. fs[i].start <= fs[g].start
          BY <1>1, <4>1, <2>5 DEF Ordered
        <5>1. CASE j <= g /\ j \in DOMAIN fs /\ t[j] = fs[j]
          BY <1>1, <3>1, <4>1, <5>1 DEF Ordered
        <5>2. CASE j = g + 1 /\ t[j] = new
          BY <1>1, <1>6, <2>2, <4>1, <5>0, <5>2
        <5>3. CASE j > g + 1 /\ j - 1 \in DOMAIN fs /\ g < j - 1 /\ t[j] = fs[j - 1]
          <6>1. pos < fs[j - 1].start /\ fs[j - 1].start \in Nat
            BY <1>1, <1>4, <5>3
          <6>2. QED
            BY <1>1, <1>6, <4>1, <5>0, <5>3, <6>1
        <5>4. QED
          BY <2>6, <5>1, <5>2, <5>3
      <4>2. CASE i = g + 1 /\ t[i] = new
        <5>1. j > g + 1 /\ j - 1 \in DOMAIN fs /\ g < j - 1 /\ t[j] = fs[j - 1]
          BY <2>5, <2>6, <3>1, <4>0, <4>2
        <5>2. QED
          BY <1>4, <2>2, <4>2, <5>1
      <4>3. CASE i > g + 1 /\ i - 1 \in DOMAIN fs /\ g < i - 1 /\ t[i] = fs[i - 1]
        <5>1. j > g + 1 /\ j - 1 \in DOMAIN fs /\ t[j] = fs[j - 1] /\ i - 1 < j - 1
          BY <2>5, <2>6, <3>1, <4>0, <4>3
        <5>2. QED
          BY <1>1, <4>3, <5>1 DEF Ordered
      <4>4. QED
        BY <2>6, <4>1, <4>2, <4>3
    <3>2. QED
      BY <3>1 DEF Ordered
  <2>10. Well(t, len)
    <3>1. \A i \in DOMAIN t : t[i].start < len
      BY <1>1, <2>2, <2>6
    <3>2. PICK o \in DOMAIN fs : fs[o].start = 0
      BY DEF Well
    <3>3. \E i \in DOMAIN t : t[i].start = 0
      BY <2>7, <3>2
    <3>4. QED
      BY <2>4, <2>9, <3>1, <3>3 DEF Well
  <2>11. ASSUME NEW p \in Nat PROVE LookAt(t, p) = LookAt(fs, p)
    <3>1. PICK h \in DOMAIN fs : Governs(fs, p, h)
      BY GovernorExists
    <3>2. LookAt(fs, p) = fs[h].attr /\ fs[h].start <= p /\ h \in Nat
      BY <1>1, <3>1, GovernorFound DEF Governs
    <3>3. CASE pos <= p /\ h <= g
      <4>1. h = g
        BY <1>1, <1>4, <3>1, <3>3, <2>5 DEF Governs
      <4>2. ASSUME NEW j \in DOMAIN t, g + 1 < j PROVE p < t[j].start
        <5>1. j - 1 \in DOMAIN fs /\ g < j - 1 /\ t[j] = fs[j - 1]
          BY <2>5, <2>6, <4>2
        <5>2. QED
          BY <3>1, <4>1, <5>1 DEF Governs
      <4>3. Governs(t, p, g + 1)
        BY <2>2, <2>8, <3>3, <4>2 DEF Governs
      <4>4. LookAt(t, p) = t[g + 1].attr
        BY <2>4, <2>9, <4>3, GovernorFound
      <4>5. QED
        BY <2>2, <2>8, <3>2, <4>1, <4>4
    <3>4. CASE ~(pos <= p)
      <4>1. h <= g
        <5>1. ~(g < h)
          BY <1>1, <1>4, <3>2, <3>4
        <5>2. QED
          BY <2>5, <3>2, <5>1
      <4>2. h \in DOMAIN t /\ t[h] = fs[h]
        <5>1. h \in 1 .. N + 1 /\ h < g + 1
          BY <2>5, <4>1
        <5>2. QED
          BY <2>4, <2>5, <5>1
      <4>3. ASSUME NEW j \in DOMAIN t, h < j PROVE p < t[j].start
        <5>1. CASE j <= g /\ j \in DOMAIN fs /\ t[j] = fs[j]
          BY <3>1, <4>3, <5>1 DEF Governs
        <5>2. CASE j = g + 1 /\ t[j] = new
          BY <2>2, <3>4, <5>2
        <5>3. CASE j > g + 1 /\ j - 1 \in DOMAIN fs /\ g < j - 1 /\ t[j] = fs[j - 1]
          <6>1. h < j - 1
            BY <2>5, <3>2, <4>1, <5>3
          <6>2. QED
            BY <3>1, <5>3, <6>1 DEF Governs
        <5>4. QED
          BY <2>6, <5>1, <5>2, <5>3
      <4>4. Governs(t, p, h)
        BY <3>2, <4>2, <4>3 DEF Governs
      <4>5. QED
        BY <2>4, <2>9, <3>2, <4>2, <4>4, GovernorFound
    <3>5. CASE pos <= p /\ g < h
      <4>1. h + 1 \in DOMAIN t /\ t[h + 1] = fs[h]
        <5>1. h + 1 \in 1 .. N + 1 /\ ~(h + 1 < g + 1) /\ h + 1 # g + 1 /\ (h + 1) - 1 = h
          BY <2>5, <3>5
        <5>2. t[h + 1] = fs[h]
          BY <2>4, <5>1
        <5>3. QED
          BY <2>5, <5>1, <5>2
      <4>2. ASSUME NEW j \in DOMAIN t, h + 1 < j PROVE p < t[j].start
        <5>1. j - 1 \in DOMAIN fs /\ h < j - 1 /\ t[j] = fs[j - 1]
          BY <2>5, <2>6, <3>2, <3>5, <4>2
        <5>2. QED
          BY <3>1, <5>1 DEF Governs
      <4>3. Governs(t, p, h + 1)
        BY <3>2, <4>1, <4>2 DEF Governs
      <4>4. QED
        BY <2>4, <2>9, <3>2, <4>1, <4>3, GovernorFound
    <3>6. QED
      BY <2>5, <3>2, <3>3, <3>4, <3>5
  <2>12. QED
    BY <2>1, <2>2, <2>7, <2>8, <2>10, <2>11 DEF SplitAt
<1>7. QED
  BY <1>5, <1>6

LEMMA CopiedIs ==
    ASSUME NEW x \in Attributes, NEW other \in Attributes, NEW mask \in SUBSET Kinds
    PROVE  /\ Copied(x, other, mask) \in Attributes
           /\ \A k \in Kinds : Copied(x, other, mask)[k] = IF k \in mask THEN other[k] ELSE x[k]
BY DEF Copied, Attributes

\* Formats with the attributes of some of them changed.
Painted(fs, start, end, attr, mask) ==
    [i \in DOMAIN fs |-> IF fs[i].start \in start .. end - 1
                         THEN [fs[i] EXCEPT !.attr = Copied(@, attr, mask)] ELSE fs[i]]

LEMMA PaintedFacts ==
    ASSUME NEW len \in Nat \ {0}, NEW fs, Well(fs, len), NEW start \in Nat, NEW end \in Nat,
           start < end, NEW attr \in Attributes, NEW mask \in SUBSET Kinds,
           \E i \in DOMAIN fs : fs[i].start = start,
           end < len => \E i \in DOMAIN fs : fs[i].start = end, end <= len
    PROVE  /\ Well(Painted(fs, start, end, attr, mask), len)
           /\ \A p \in Nat : p < len =>
                LookAt(Painted(fs, start, end, attr, mask), p) =
                  IF start <= p /\ p < end THEN Copied(LookAt(fs, p), attr, mask)
                  ELSE LookAt(fs, p)
<1> DEFINE t == Painted(fs, start, end, attr, mask)
<1>1. /\ fs \in Seq(FormatType) /\ Ordered(fs) /\ DOMAIN fs = 1..Len(fs) /\ Len(fs) \in Nat
      /\ \A i \in DOMAIN fs : /\ i \in Nat \ {0} /\ fs[i].start \in Nat /\ fs[i].start < len
                              /\ fs[i] \in FormatType /\ fs[i].attr \in Attributes
  BY FormatIs DEF Well
<1>2. \A i \in DOMAIN fs : fs[i].start \in start .. end - 1 <=> start <= fs[i].start /\ fs[i].start < end
  BY <1>1
<1>3. ASSUME NEW f \in FormatType
      PROVE  /\ [f EXCEPT !.attr = Copied(@, attr, mask)] \in FormatType
             /\ [f EXCEPT !.attr = Copied(@, attr, mask)].start = f.start
             /\ [f EXCEPT !.attr = Copied(@, attr, mask)].attr = Copied(f.attr, attr, mask)
  <2>1. f.attr \in Attributes /\ Copied(f.attr, attr, mask) \in Attributes
    BY CopiedIs DEF FormatType
  <2>2. QED
    BY <2>1 DEF FormatType
<1>4. /\ DOMAIN t = DOMAIN fs
      /\ \A i \in DOMAIN fs :
           t[i] = IF start <= fs[i].start /\ fs[i].start < end
                  THEN [fs[i] EXCEPT !.attr = Copied(@, attr, mask)] ELSE fs[i]
  BY <1>2 DEF Painted
<1>5. t = [i \in DOMAIN fs |-> t[i]]
  BY DEF Painted
<1> HIDE DEF t
<1>6. ASSUME NEW i \in DOMAIN fs
      PROVE  /\ t[i] \in FormatType /\ t[i].start = fs[i].start
             /\ t[i].attr = IF start <= fs[i].start /\ fs[i].start < end
                            THEN Copied(fs[i].attr, attr, mask) ELSE fs[i].attr
  <2>1. fs[i] \in FormatType
    BY <1>1
  <2>2. CASE start <= fs[i].start /\ fs[i].start < end
    <3>1. t[i] = [fs[i] EXCEPT !.attr = Copied(@, attr, mask)]
      BY <1>4, <2>2
    <3>2. QED
      BY <1>3, <2>1, <2>2, <3>1
  <2>3. CASE ~(start <= fs[i].start /\ fs[i].start < end)
    <3>1. t[i] = fs[i]
      BY <1>4, <2>3
    <3>2. QED
      BY <2>1, <2>3, <3>1
  <2>4. QED
    BY <2>2, <2>3
<1>7. t \in Seq(FormatType)
  <2>1. t \in [1..Len(fs) -> FormatType] /\ Len(fs) \in Nat
    BY <1>1, <1>5, <1>6
  <2>2. QED
    BY <2>1
<1>8. Ordered(t)
  BY <1>1, <1>4, <1>6 DEF Ordered
<1>9. Well(t, len)
  <2>1. PICK o \in DOMAIN fs : fs[o].start = 0
    BY DEF Well
  <2>2. QED
    BY <1>1, <1>4, <1>6, <1>7, <1>8, <2>1 DEF Well
<1>10. ASSUME NEW p \in Nat, p < len
       PROVE  LookAt(t, p) = IF start <= p /\ p < end THEN Copied(LookAt(fs, p), attr, mask)
                             ELSE LookAt(fs, p)
  <2>1. PICK g \in DOMAIN fs : Governs(fs, p, g)
    BY GovernorExists
  <2>2. LookAt(fs, p) = fs[g].attr /\ fs[g].start <= p /\ g \in Nat /\ fs[g].start \in Nat
    BY <1>1, <2>1, GovernorFound DEF Governs
  <2>3. Governs(t, p, g)
    BY <1>4, <1>6, <2>1 DEF Governs
  <2>4. LookAt(t, p) = t[g].attr
    BY <1>7, <1>8, <2>3, GovernorFound
  <2>5. ASSUME start <= p PROVE start <= fs[g].start
    <3>1. PICK i \in DOMAIN fs : fs[i].start = start
      OBVIOUS
    <3>2. ~(g < i)
      BY <1>1, <2>1, <2>2, <2>5, <3>1 DEF Governs
    <3>3. i = g \/ i < g
      BY <1>1, <2>2, <3>2
    <3>4. QED
      BY <1>1, <2>2, <3>1, <3>3 DEF Ordered
  <2>6. ASSUME end <= p PROVE end <= fs[g].start
    <3>1. PICK i \in DOMAIN fs : fs[i].start = end
      BY <1>10, <2>6
    <3>2. ~(g < i)
      BY <1>1, <2>1, <2>2, <2>6, <3>1 DEF Governs
    <3>3. i = g \/ i < g
      BY <1>1, <2>2, <3>2
    <3>4. QED
      BY <1>1, <2>2, <3>1, <3>3 DEF Ordered
  <2>7. (start <= fs[g].start /\ fs[g].start < end) <=> (start <= p /\ p < end)
    BY <2>2, <2>5, <2>6
  <2>8. QED
    BY <1>6, <2>2, <2>4, <2>7
<1>11. QED
  BY <1>9, <1>10 DEF t

\* What swfdec_text_buffer_set_attributes makes of the formats.
Restyled(fs, len, start, n, attr, mask) ==
    LET end == start + n
        first == Split(fs, start)
        both == IF end = len THEN first ELSE Split(first, end)
        from == IterForPos(both, start)
        to == IF end = len THEN Len(both) + 1 ELSE IterForPos(both, end) + 1
    IN  RemoveDuplicates(Painted(both, start, end, attr, mask),
                         IF from = 1 THEN 1 ELSE from - 1, to)

LEMMA RestyledFacts ==
    ASSUME NEW len \in Nat \ {0}, NEW fs, Well(fs, len), NEW start \in Nat, NEW n \in Nat \ {0},
           start + n <= len, NEW attr \in Attributes, NEW mask \in SUBSET Kinds
    PROVE  /\ Well(Restyled(fs, len, start, n, attr, mask), len)
           /\ \A p \in Nat : p < len =>
                LookAt(Restyled(fs, len, start, n, attr, mask), p) =
                  IF start <= p /\ p < start + n THEN Copied(LookAt(fs, p), attr, mask)
                  ELSE LookAt(fs, p)
<1> DEFINE end == start + n
           first == Split(fs, start)
           both == IF end = len THEN first ELSE Split(first, end)
           from == IterForPos(both, start)
           to == IF end = len THEN Len(both) + 1 ELSE IterForPos(both, end) + 1
           painted == Painted(both, start, end, attr, mask)
           one == IF from = 1 THEN 1 ELSE from - 1
<1>1. Restyled(fs, len, start, n, attr, mask) = RemoveDuplicates(painted, one, to)
  BY DEF Restyled
<1>2. end \in Nat /\ start < end /\ end <= len /\ start < len
  OBVIOUS
<1> HIDE DEF end
<1>3. /\ Well(first, len) /\ \A p \in Nat : LookAt(first, p) = LookAt(fs, p)
      /\ \E i \in DOMAIN first : first[i].start = start
  BY <1>2, SplitFacts DEF SplitAt
<1> HIDE DEF first
<1>4. /\ Well(both, len) /\ \A p \in Nat : LookAt(both, p) = LookAt(fs, p)
      /\ \E i \in DOMAIN both : both[i].start = start
      /\ end < len => \E i \in DOMAIN both : both[i].start = end
  <2>1. CASE end = len
    BY <1>2, <1>3, <2>1
  <2>2. CASE end # len
    <3> DEFINE second == Split(first, end)
    <3>1. end < len /\ both = second
      BY <1>2, <2>2
    <3>2. /\ Well(second, len) /\ \A p \in Nat : LookAt(second, p) = LookAt(first, p)
          /\ \E i \in DOMAIN second : second[i].start = end
          /\ \A j \in DOMAIN first : \E i \in DOMAIN second : second[i].start = first[j].start
      <4>1. SplitAt(second, first, len, end)
        BY <1>2, <1>3, <3>1, SplitFacts
      <4> HIDE DEF second
      <4>2. QED
        BY <4>1 DEF SplitAt
    <3> HIDE DEF second, both
    <3>3. \E i \in DOMAIN second : second[i].start = start
      BY <1>3, <3>2
    <3>4. QED
      BY <1>3, <3>1, <3>2, <3>3
  <2>3. QED
    BY <2>1, <2>2
<1> HIDE DEF both
<1>5. both \in Seq(FormatType) /\ Ordered(both) /\ Len(both) \in Nat /\ DOMAIN both = 1..Len(both)
  BY <1>4 DEF Well
<1>6. from \in Nat \ {0}
  <2>1. PICK i \in DOMAIN both : Governs(both, start, i)
    BY <1>4, GovernorExists
  <2>2. from = i
    BY <1>5, <2>1, GovernorFound
  <2>3. QED
    BY <1>5, <2>1, <2>2
<1>7. to \in Nat
  <2>1. PICK i \in DOMAIN both : Governs(both, end, i)
    BY <1>2, <1>4, GovernorExists
  <2>2. IterForPos(both, end) = i
    BY <1>2, <1>5, <2>1, GovernorFound
  <2>3. QED
    BY <1>5, <2>1, <2>2
<1>8. one \in Nat \ {0}
  BY <1>6
<1> HIDE DEF from, to, one
<1>9. /\ Well(painted, len)
      /\ \A p \in Nat : p < len =>
           LookAt(painted, p) = IF start <= p /\ p < end THEN Copied(LookAt(both, p), attr, mask)
                                ELSE LookAt(both, p)
  BY <1>2, <1>4, PaintedFacts
<1> HIDE DEF painted
<1>10. /\ Well(RemoveDuplicates(painted, one, to), len)
       /\ \A p \in Nat : LookAt(RemoveDuplicates(painted, one, to), p) = LookAt(painted, p)
  BY <1>7, <1>8, <1>9, DuplicatesGo
<1>11. QED
  BY <1>1, <1>4, <1>9, <1>10 DEF end

StyledByte == [byte : Bytes, style : Attributes]

\* The list s without n elements, and with new bytes that look like what they
\* are put in front of.
CutOf(s, p, n) == SubSeq(s, 1, p) \o SubSeq(s, p + n + 1, Len(s))
Look(s, p, default) == IF p < Len(s) THEN s[p + 1].style ELSE default
NewBytes(s, p, bytes, default) ==
    [i \in 1..Len(bytes) |-> [byte |-> bytes[i], style |-> Look(s, p, default)]]
PutOf(s, p, bytes, default) ==
    SubSeq(s, 1, p) \o NewBytes(s, p, bytes, default) \o SubSeq(s, p + 1, Len(s))

\* The elements of a list without n of them.
IsCut(t, s, p, n) ==
    /\ Len(t) = Len(s) - n
    /\ \A i \in 1 .. Len(s) - n : t[i] = IF i <= p THEN s[i] ELSE s[i + n]

LEMMA CutOfFacts ==
    ASSUME NEW S, NEW s \in Seq(S), NEW p \in Nat, NEW n \in Nat, p + n <= Len(s)
    PROVE  CutOf(s, p, n) \in Seq(S) /\ IsCut(CutOf(s, p, n), s, p, n)
<1> DEFINE a == SubSeq(s, 1, p)
           e == p + n
           c == SubSeq(s, e + 1, Len(s))
           t == a \o c
           N == Len(s)
<1>1. N \in Nat /\ p \in 0..N /\ e \in 0..N
  OBVIOUS
<1>2. CutOf(s, p, n) = t
  BY DEF CutOf
<1>3. e = p + n
  OBVIOUS
<1> HIDE DEF e
<1>4. a \in Seq(S) /\ Len(a) = p /\ \A i \in 1..p : a[i] = s[i]
  BY <1>1, CutFacts
<1>5. c \in Seq(S) /\ Len(c) = N - e /\ \A i \in 1 .. N - e : c[i] = s[e + i]
  BY <1>1, CutFacts
<1> HIDE DEF a, c
<1>6. /\ t \in Seq(S) /\ Len(t) = Len(a) + Len(c)
      /\ \A i \in 1..Len(a) : t[i] = a[i]
      /\ \A i \in Len(a) + 1 .. Len(a) + Len(c) : t[i] = c[i - Len(a)]
  BY <1>4, <1>5, ConcatFacts
<1> HIDE DEF t, N
<1>7. Len(t) = N - n
  BY <1>1, <1>3, <1>4, <1>5, <1>6
<1>8. ASSUME NEW i \in 1 .. N - n PROVE t[i] = IF i <= p THEN s[i] ELSE s[i + n]
  <2>1. CASE i <= p
    <3>1. i \in 1..p
      BY <1>1, <2>1
    <3>2. QED
      BY <1>4, <1>6, <2>1, <3>1
  <2>2. CASE ~(i <= p)
    <3>1. /\ i \in Len(a) + 1 .. Len(a) + Len(c) /\ i - p \in 1 .. N - e
          /\ e + (i - p) = i + n
      BY <1>1, <1>3, <1>4, <1>5, <2>2
    <3>2. t[i] = c[i - p] /\ c[i - p] = s[e + (i - p)]
      BY <1>4, <1>5, <1>6, <3>1
    <3>3. QED
      BY <2>2, <3>1, <3>2
  <2>3. QED
    BY <2>1, <2>2
<1>9. QED
  BY <1>2, <1>6, <1>7, <1>8 DEF N, IsCut

\* The elements of a list with another one in it.
IsPut(t, s, p, new) ==
    /\ Len(t) = Len(s) + Len(new)
    /\ \A i \in 1 .. Len(s) + Len(new) :
         t[i] = IF i <= p THEN s[i] ELSE IF i <= p + Len(new) THEN new[i - p]
                ELSE s[i - Len(new)]

LEMMA InsideFacts ==
    ASSUME NEW S, NEW s \in Seq(S), NEW new \in Seq(S), NEW p \in 0..Len(s)
    PROVE  LET t == SubSeq(s, 1, p) \o new \o SubSeq(s, p + 1, Len(s))
           IN  t \in Seq(S) /\ IsPut(t, s, p, new)
<1> DEFINE N == Len(s)
           n == Len(new)
           a == SubSeq(s, 1, p)
           c == SubSeq(s, p + 1, N)
           t == a \o new \o c
<1>1. N \in Nat /\ n \in Nat /\ p \in Nat /\ p <= N
  OBVIOUS
<1>2. /\ a \in Seq(S) /\ Len(a) = p /\ \A i \in 1..p : a[i] = s[i]
      /\ c \in Seq(S) /\ Len(c) = N - p /\ \A i \in 1 .. N - p : c[i] = s[p + i]
  BY CutFacts
<1> HIDE DEF a, c
<1>3. t \in Seq(S) /\ Joined(t, a, new, c)
  BY <1>2, ThreeParts
<1> HIDE DEF t, N, n
<1>4. /\ Len(t) = N + n /\ Len(a) + Len(new) + Len(c) = N + n
      /\ Len(a) + Len(new) = p + n /\ Len(a) = p
  BY <1>1, <1>2, <1>3 DEF Joined, n
<1>5. ASSUME NEW i \in 1 .. N + n
      PROVE  t[i] = IF i <= p THEN s[i] ELSE IF i <= p + n THEN new[i - p] ELSE s[i - n]
  <2>1. t[i] = IF i <= p THEN a[i] ELSE IF i <= p + n THEN new[i - p] ELSE c[i - (p + n)]
    BY <1>3, <1>4 DEF Joined
  <2>2. CASE i <= p
    <3>1. i \in 1..p
      BY <1>1, <2>2
    <3>2. QED
      BY <1>2, <2>1, <2>2, <3>1
  <2>3. CASE ~(i <= p) /\ i <= p + n
    BY <2>1, <2>3
  <2>4. CASE ~(i <= p) /\ ~(i <= p + n)
    <3>1. i - (p + n) \in 1 .. N - p /\ p + (i - (p + n)) = i - n
      BY <1>1, <2>4
    <3>2. QED
      BY <1>2, <2>1, <2>4, <3>1
  <2>5. QED
    BY <2>2, <2>3, <2>4
<1>6. QED
  BY <1>3, <1>4, <1>5 DEF t, a, c, N, n, IsPut

LEMMA NewBytesFacts ==
    ASSUME NEW s \in Seq(StyledByte), NEW p \in 0..Len(s), NEW bytes \in Seq(Bytes),
           NEW default \in Attributes
    PROVE  /\ NewBytes(s, p, bytes, default) \in Seq(StyledByte)
           /\ Len(NewBytes(s, p, bytes, default)) = Len(bytes)
           /\ \A i \in 1..Len(bytes) :
                NewBytes(s, p, bytes, default)[i] =
                  [byte |-> bytes[i], style |-> Look(s, p, default)]
<1> DEFINE x == Look(s, p, default)
<1>1. x \in Attributes
  <2>1. CASE p < Len(s)
    <3>1. p + 1 \in 1..Len(s)
      BY <2>1
    <3>2. s[p + 1] \in StyledByte
      BY <3>1
    <3>3. QED
      BY <2>1, <3>2 DEF Look, StyledByte
  <2>2. CASE ~(p < Len(s))
    BY <2>2 DEF Look
  <2>3. QED
    BY <2>1, <2>2
<1> HIDE DEF x
<1> DEFINE t == [i \in 1..Len(bytes) |-> [byte |-> bytes[i], style |-> x]]
<1>2. \A i \in 1..Len(bytes) : [byte |-> bytes[i], style |-> x] \in StyledByte
  BY <1>1 DEF StyledByte
<1>3. t \in [1..Len(bytes) -> StyledByte] /\ Len(bytes) \in Nat
  BY <1>2
<1>4. /\ t \in Seq(StyledByte) /\ Len(t) = Len(bytes)
      /\ \A i \in 1..Len(bytes) : t[i] = [byte |-> bytes[i], style |-> x]
  BY <1>3
<1>5. QED
  BY <1>4 DEF NewBytes, x

\* The elements of a list with new bytes in it.
IsPutIn(t, s, p, bytes, default) ==
    /\ Len(t) = Len(s) + Len(bytes)
    /\ \A i \in 1 .. Len(s) + Len(bytes) :
         t[i] = IF i <= p THEN s[i]
                ELSE IF i <= p + Len(bytes)
                     THEN [byte |-> bytes[i - p], style |-> Look(s, p, default)]
                ELSE s[i - Len(bytes)]

LEMMA PutOfFacts ==
    ASSUME NEW s \in Seq(StyledByte), NEW p \in 0..Len(s), NEW bytes \in Seq(Bytes),
           NEW default \in Attributes
    PROVE  /\ PutOf(s, p, bytes, default) \in Seq(StyledByte)
           /\ IsPutIn(PutOf(s, p, bytes, default), s, p, bytes, default)
<1> DEFINE new == NewBytes(s, p, bytes, default)
           t == SubSeq(s, 1, p) \o new \o SubSeq(s, p + 1, Len(s))
           n == Len(bytes)
<1>1. PutOf(s, p, bytes, default) = t
  BY DEF PutOf
<1>2. /\ new \in Seq(StyledByte) /\ Len(new) = n
      /\ \A i \in 1..n : new[i] = [byte |-> bytes[i], style |-> Look(s, p, default)]
  BY NewBytesFacts
<1> HIDE DEF new
<1>3. t \in Seq(StyledByte) /\ IsPut(t, s, p, new)
  BY <1>2, InsideFacts
<1> HIDE DEF t, n
<1>4. /\ Len(t) = Len(s) + n /\ n \in Nat /\ p \in Nat
      /\ \A i \in 1 .. Len(s) + n :
           t[i] = IF i <= p THEN s[i] ELSE IF i <= p + n THEN new[i - p] ELSE s[i - n]
  BY <1>2, <1>3 DEF IsPut, n
<1>5. ASSUME NEW i \in 1 .. Len(s) + n
      PROVE  t[i] = IF i <= p THEN s[i]
                    ELSE IF i <= p + n
                         THEN [byte |-> bytes[i - p], style |-> Look(s, p, default)]
                    ELSE s[i - n]
  <2>1. CASE ~(i <= p) /\ i <= p + n
    <3>1. i - p \in 1..n
      BY <1>4, <2>1
    <3>2. QED
      BY <1>2, <1>4, <2>1, <3>1
  <2>2. CASE i <= p \/ ~(i <= p + n)
    BY <1>4, <2>2
  <2>3. QED
    BY <2>1, <2>2
<1>6. QED
  BY <1>1, <1>3, <1>4, <1>5 DEF n, IsPutIn

BufferType == [text : Seq(Bytes), attributes : Seq(FormatType), default : Attributes,
               cursor_start : Nat, cursor_end : Nat]

\* The formats are those of the text, and the cursor is in it.
BufferOK(b) ==
    /\ b \in BufferType /\ Well(b.attributes, Len(b.text))
    /\ b.cursor_start <= Len(b.text) /\ b.cursor_end <= Len(b.text)

\* What a buffer shows.
ShownIn(b) == [i \in 1..Len(b.text) |-> [byte |-> b.text[i], style |-> GetAttributes(b, i - 1)]]

BufferOf(t, f, d, s, e) ==
    [text |-> t, attributes |-> f, default |-> d, cursor_start |-> s, cursor_end |-> e]

LEMMA BufferOfIs ==
    ASSUME NEW t, NEW f, NEW d, NEW s, NEW e
    PROVE  /\ BufferOf(t, f, d, s, e).text = t /\ BufferOf(t, f, d, s, e).attributes = f
           /\ BufferOf(t, f, d, s, e).default = d
           /\ BufferOf(t, f, d, s, e).cursor_start = s
           /\ BufferOf(t, f, d, s, e).cursor_end = e
BY DEF BufferOf

LEMMA BufferIs ==
    ASSUME NEW b \in BufferType
    PROVE  /\ b = BufferOf(b.text, b.attributes, b.default, b.cursor_start, b.cursor_end)
           /\ b.text \in Seq(Bytes) /\ b.attributes \in Seq(FormatType) /\ b.default \in Attributes
           /\ b.cursor_start \in Nat /\ b.cursor_end \in Nat
BY DEF BufferType, BufferOf

LEMMA BufferMade ==
    ASSUME NEW t \in Seq(Bytes), NEW f, Well(f, Len(t)), NEW d \in Attributes,
           NEW s \in 0..Len(t), NEW e \in 0..Len(t)
    PROVE  BufferOK(BufferOf(t, f, d, s, e))
<1>1. f \in Seq(FormatType) /\ s \in Nat /\ e \in Nat
  BY DEF Well
<1>2. BufferOf(t, f, d, s, e) \in BufferType
  BY <1>1 DEF BufferOf, BufferType
<1> DEFINE b == BufferOf(t, f, d, s, e)
<1>3. b.text = t /\ b.attributes = f /\ b.cursor_start = s /\ b.cursor_end = e
  BY BufferOfIs
<1> HIDE DEF b
<1>4. b \in BufferType /\ s <= Len(t) /\ e <= Len(t)
  BY <1>2 DEF b
<1>5. BufferOK(b)
  BY <1>3, <1>4 DEF BufferOK
<1>6. QED
  BY <1>5 DEF b

\* Every byte has the attributes of its format.
LEMMA LookIs ==
    ASSUME NEW fs, NEW len \in Nat, Well(fs, len), NEW p \in Nat, p < len
    PROVE  LookAt(fs, p) \in Attributes
<1>1. len \in Nat \ {0} /\ fs \in Seq(FormatType) /\ Ordered(fs)
  BY DEF Well
<1>2. PICK i \in DOMAIN fs : Governs(fs, p, i)
  BY <1>1, GovernorExists
<1>3. LookAt(fs, p) = fs[i].attr
  BY <1>1, <1>2, GovernorFound
<1>4. QED
  BY <1>1, <1>2, <1>3, FormatIs

\* The elements of what a buffer shows.
LEMMA ShownFacts ==
    ASSUME NEW b, BufferOK(b)
    PROVE  /\ ShownIn(b) \in Seq(StyledByte) /\ Len(ShownIn(b)) = Len(b.text)
           /\ \A i \in 1..Len(b.text) :
                /\ ShownIn(b)[i] = [byte |-> b.text[i], style |-> LookAt(b.attributes, i - 1)]
                /\ ShownIn(b)[i].byte = b.text[i]
                /\ ShownIn(b)[i].style = LookAt(b.attributes, i - 1)
<1> DEFINE N == Len(b.text)
           s == ShownIn(b)
<1>1. b \in BufferType /\ b.text \in Seq(Bytes) /\ N \in Nat /\ Well(b.attributes, N)
  BY BufferIs DEF BufferOK
<1>2. ASSUME NEW i \in 1..N
      PROVE  /\ GetAttributes(b, i - 1) = LookAt(b.attributes, i - 1)
             /\ LookAt(b.attributes, i - 1) \in Attributes /\ b.text[i] \in Bytes
  <2>1. i - 1 \in Nat /\ i - 1 < N /\ i - 1 # N
    BY <1>1
  <2>2. GetAttributes(b, i - 1) = LookAt(b.attributes, i - 1)
    BY <2>1 DEF GetAttributes, LookAt
  <2>3. LookAt(b.attributes, i - 1) \in Attributes
    BY <1>1, <2>1, LookIs
  <2>4. b.text[i] \in Bytes
    BY <1>1
  <2>5. QED
    BY <2>2, <2>3, <2>4
<1>3. s = [i \in 1..N |-> [byte |-> b.text[i], style |-> GetAttributes(b, i - 1)]]
  BY DEF ShownIn
<1> HIDE DEF s, N
<1>4. \A i \in 1..N :
        /\ s[i] = [byte |-> b.text[i], style |-> LookAt(b.attributes, i - 1)]
        /\ s[i] \in StyledByte /\ s[i].byte = b.text[i]
        /\ s[i].style = LookAt(b.attributes, i - 1)
  BY <1>2, <1>3 DEF StyledByte
<1>5. s \in [1..N -> StyledByte]
  BY <1>3, <1>4
<1>6. s \in Seq(StyledByte) /\ Len(s) = N
  BY <1>1, <1>5
<1>7. QED
  BY <1>4, <1>6 DEF s, N

\* Lists of styled bytes are equal if their elements are.
LEMMA SameShown ==
    ASSUME NEW b, BufferOK(b), NEW t \in Seq(StyledByte), Len(t) = Len(b.text),
           \A i \in 1..Len(b.text) :
             t[i] = [byte |-> b.text[i], style |-> LookAt(b.attributes, i - 1)]
    PROVE  ShownIn(b) = t
<1>1. ShownIn(b) \in Seq(StyledByte) /\ Len(ShownIn(b)) = Len(t)
  BY ShownFacts
<1>2. \A i \in 1..Len(t) : ShownIn(b)[i] = t[i]
  BY ShownFacts
<1>3. QED
  BY <1>1, <1>2, SeqEqual

\* Inserting text puts bytes in front of one, and they look like it.
LEMMA InsertTextFacts ==
    ASSUME NEW b, BufferOK(b), NEW pos \in 0..Len(b.text), NEW text \in Seq(Bytes)
    PROVE  /\ BufferOK(InsertText(b, pos, text))
           /\ InsertText(b, pos, text).default = b.default
           /\ Len(InsertText(b, pos, text).text) = Len(b.text) + Len(text)
           /\ ShownIn(InsertText(b, pos, text)) = PutOf(ShownIn(b), pos, text, b.default)
<1> DEFINE N == Len(b.text)
           n == Len(text)
           s == ShownIn(b)
           put == PutOf(s, pos, text, b.default)
           c == InsertText(b, pos, text)
<1>1. /\ b \in BufferType /\ b.text \in Seq(Bytes) /\ N \in Nat /\ Well(b.attributes, N)
      /\ b.default \in Attributes /\ n \in Nat /\ pos \in 0..N /\ pos \in Nat
      /\ b.cursor_start \in Nat /\ b.cursor_end \in Nat
      /\ b.cursor_start <= N /\ b.cursor_end <= N
  BY BufferIs DEF BufferOK
<1>2. /\ s \in Seq(StyledByte) /\ Len(s) = N
      /\ \A i \in 1..N : /\ s[i] = [byte |-> b.text[i], style |-> LookAt(b.attributes, i - 1)]
                         /\ s[i].style = LookAt(b.attributes, i - 1)
  BY ShownFacts
<1> HIDE DEF s
<1>3. /\ put \in Seq(StyledByte) /\ Len(put) = N + n
      /\ \A i \in 1 .. N + n :
           put[i] = IF i <= pos THEN s[i]
                    ELSE IF i <= pos + n
                         THEN [byte |-> text[i - pos], style |-> Look(s, pos, b.default)]
                    ELSE s[i - n]
  <2>1. put \in Seq(StyledByte) /\ IsPutIn(put, s, pos, text, b.default)
    BY <1>1, <1>2, PutOfFacts
  <2> HIDE DEF put
  <2>2. QED
    BY <1>2, <2>1 DEF IsPutIn
<1> HIDE DEF put
<1>4. CASE n = 0
  <2>1. c = b
    BY <1>4 DEF InsertText
  <2>2. \A i \in 1..N : put[i] = s[i]
    BY <1>1, <1>3, <1>4
  <2>3. s = put
    BY <1>1, <1>2, <1>3, <1>4, <2>2, SeqEqual
  <2>4. QED
    BY <1>1, <1>4, <2>1, <2>3 DEF s, put
<1>5. CASE n # 0
  <2> DEFINE t == SubSeq(b.text, 1, pos) \o text \o SubSeq(b.text, pos + 1, N)
             fs == Inserted(b.attributes, pos, n, N, b.default)
             cs == IF b.cursor_start >= pos THEN b.cursor_start + n ELSE b.cursor_start
             ce == IF b.cursor_end >= pos THEN b.cursor_end + n ELSE b.cursor_end
  <2>1. c = [b EXCEPT !.text = t, !.attributes = fs, !.cursor_start = cs, !.cursor_end = ce]
    BY <1>1, <1>5 DEF InsertText
  <2>2. cs \in 0 .. N + n /\ ce \in 0 .. N + n
    BY <1>1
  <2>3. t \in Seq(Bytes) /\ IsPut(t, b.text, pos, text)
    BY <1>1, InsideFacts
  <2>4. /\ Well(fs, N + n)
        /\ \A p \in 0 .. N + n - 1 :
             LookAt(fs, p) = IF p < pos THEN LookAt(b.attributes, p)
                             ELSE IF p < pos + n
                                  THEN IF pos = N THEN b.default ELSE LookAt(b.attributes, pos)
                             ELSE LookAt(b.attributes, p - n)
    <3>1. MadeRoom(fs, b.attributes, pos, n, N, b.default)
      BY <1>1, <1>5, InsertedFacts
    <3> HIDE DEF fs
    <3>2. QED
      BY <3>1 DEF MadeRoom
  <2> HIDE DEF t, fs, cs, ce, c
  <2>5. c = BufferOf(t, fs, b.default, cs, ce)
    <3>1. b = BufferOf(b.text, b.attributes, b.default, b.cursor_start, b.cursor_end)
      BY <1>1, BufferIs
    <3>2. QED
      BY <2>1, <3>1 DEF BufferOf
  <2>6. /\ c.text = t /\ c.attributes = fs /\ c.default = b.default
        /\ c.cursor_start = cs /\ c.cursor_end = ce
    BY <2>5, BufferOfIs
  <2>7. Len(t) = N + n
    BY <2>3 DEF IsPut
  <2>8. BufferOK(c)
    BY <1>1, <2>2, <2>3, <2>4, <2>5, <2>7, BufferMade
  <2>9. ASSUME NEW i \in 1 .. N + n
        PROVE  put[i] = [byte |-> t[i], style |-> LookAt(fs, i - 1)]
    <3>1. /\ i \in Nat /\ i - 1 \in 0 .. N + n - 1
          /\ t[i] = IF i <= pos THEN b.text[i] ELSE IF i <= pos + n THEN text[i - pos]
                    ELSE b.text[i - n]
      <4>1. i \in Nat /\ i - 1 \in 0 .. N + n - 1
        BY <1>1
      <4>2. QED
        BY <2>3, <4>1 DEF IsPut
    <3>2. CASE i <= pos
      <4>1. i \in 1..N /\ i - 1 < pos
        BY <1>1, <3>2
      <4>2. LookAt(fs, i - 1) = LookAt(b.attributes, i - 1)
        BY <2>4, <3>1, <4>1
      <4>3. QED
        BY <1>2, <1>3, <3>1, <3>2, <4>1, <4>2
    <3>3. CASE ~(i <= pos) /\ i <= pos + n
      <4>1. ~(i - 1 < pos) /\ i - 1 < pos + n
        BY <1>1, <3>3
      <4>2. LookAt(fs, i - 1) = IF pos = N THEN b.default ELSE LookAt(b.attributes, pos)
        BY <2>4, <3>1, <4>1
      <4>3. Look(s, pos, b.default) = LookAt(fs, i - 1)
        <5>1. CASE pos = N
          BY <1>1, <1>2, <4>2, <5>1 DEF Look
        <5>2. CASE pos # N
          <6>1. pos < N /\ pos + 1 \in 1..N /\ (pos + 1) - 1 = pos
            BY <1>1, <5>2
          <6>2. s[pos + 1].style = LookAt(b.attributes, pos)
            BY <1>2, <6>1
          <6>3. QED
            BY <1>2, <4>2, <5>2, <6>1, <6>2 DEF Look
        <5>3. QED
          BY <5>1, <5>2
      <4>4. QED
        BY <1>3, <3>1, <3>3, <4>3
    <3>4. CASE ~(i <= pos) /\ ~(i <= pos + n)
      <4>1. i - n \in 1..N /\ ~(i - 1 < pos) /\ ~(i - 1 < pos + n) /\ (i - 1) - n = (i - n) - 1
        BY <1>1, <3>4
      <4>2. LookAt(fs, i - 1) = LookAt(b.attributes, (i - n) - 1)
        BY <2>4, <3>1, <4>1
      <4>3. put[i] = s[i - n] /\ t[i] = b.text[i - n]
        BY <1>3, <3>1, <3>4
      <4>4. QED
        BY <1>2, <4>1, <4>2, <4>3
    <3>5. QED
      BY <3>2, <3>3, <3>4
  <2>10. ShownIn(c) = put
    BY <1>3, <2>6, <2>7, <2>8, <2>9, SameShown
  <2>11. QED
    BY <2>6, <2>7, <2>8, <2>10 DEF c, put, s
<1>6. QED
  BY <1>4, <1>5

\* Deleting text changes nothing of the bytes around it.
LEMMA DeleteTextFacts ==
    ASSUME NEW b, BufferOK(b), NEW pos \in Nat, NEW n \in Nat \ {0}, pos + n <= Len(b.text)
    PROVE  /\ BufferOK(DeleteText(b, pos, n))
           /\ DeleteText(b, pos, n).default = b.default
           /\ Len(DeleteText(b, pos, n).text) = Len(b.text) - n
           /\ ShownIn(DeleteText(b, pos, n)) = CutOf(ShownIn(b), pos, n)
<1> DEFINE N == Len(b.text)
           s == ShownIn(b)
           cut == CutOf(s, pos, n)
           c == DeleteText(b, pos, n)
           end == pos + n
           t == CutOf(b.text, pos, n)
           fs == Deleted(b.attributes, pos, n, N)
           cs == IF b.cursor_start > end THEN b.cursor_start - n
                 ELSE IF b.cursor_start > pos THEN pos ELSE b.cursor_start
           ce == IF b.cursor_end > end THEN b.cursor_end - n
                 ELSE IF b.cursor_end > pos THEN pos ELSE b.cursor_end
<1>1. /\ b \in BufferType /\ b.text \in Seq(Bytes) /\ N \in Nat /\ Well(b.attributes, N)
      /\ b.default \in Attributes /\ N - n \in Nat
      /\ b.cursor_start \in Nat /\ b.cursor_end \in Nat
      /\ b.cursor_start <= N /\ b.cursor_end <= N
  BY BufferIs DEF BufferOK
<1>2. /\ s \in Seq(StyledByte) /\ Len(s) = N
      /\ \A i \in 1..N : s[i] = [byte |-> b.text[i], style |-> LookAt(b.attributes, i - 1)]
  BY ShownFacts
<1> HIDE DEF s
<1>3. cut \in Seq(StyledByte) /\ IsCut(cut, s, pos, n)
  BY <1>1, <1>2, CutOfFacts
<1>4. t \in Seq(Bytes) /\ IsCut(t, b.text, pos, n)
  BY <1>1, CutOfFacts
<1>5. /\ Well(fs, N - n)
      /\ \A p \in Nat : p < N - n =>
           LookAt(fs, p) = IF p < pos THEN LookAt(b.attributes, p) ELSE LookAt(b.attributes, p + n)
  <2>1. ClosedUp(fs, b.attributes, pos, n, N)
    BY <1>1, DeletedFacts
  <2> HIDE DEF fs
  <2>2. QED
    BY <2>1 DEF ClosedUp
<1>6. c = [b EXCEPT !.text = t, !.attributes = fs, !.cursor_start = cs, !.cursor_end = ce]
  BY <1>1 DEF DeleteText, CutOf
<1>7. cs \in 0 .. N - n /\ ce \in 0 .. N - n
  BY <1>1
<1> HIDE DEF t, fs, cs, ce, c, cut
<1>8. c = BufferOf(t, fs, b.default, cs, ce)
  <2>1. b = BufferOf(b.text, b.attributes, b.default, b.cursor_start, b.cursor_end)
    BY <1>1, BufferIs
  <2>2. QED
    BY <1>6, <2>1 DEF BufferOf
<1>9. c.text = t /\ c.attributes = fs /\ c.default = b.default
  BY <1>8, BufferOfIs
<1>10. Len(t) = N - n
  BY <1>4 DEF IsCut
<1>11. BufferOK(c)
  BY <1>1, <1>4, <1>5, <1>7, <1>8, <1>10, BufferMade
<1>12. Len(cut) = N - n
  BY <1>2, <1>3 DEF IsCut
<1>13. ASSUME NEW i \in 1 .. N - n
       PROVE  cut[i] = [byte |-> t[i], style |-> LookAt(fs, i - 1)]
  <2>1. /\ i \in Nat /\ i - 1 \in Nat /\ i - 1 < N - n
        /\ t[i] = IF i <= pos THEN b.text[i] ELSE b.text[i + n]
        /\ cut[i] = IF i <= pos THEN s[i] ELSE s[i + n]
    <3>1. i \in Nat /\ i - 1 \in Nat /\ i - 1 < N - n
      BY <1>1
    <3>2. t[i] = IF i <= pos THEN b.text[i] ELSE b.text[i + n]
      BY <1>4 DEF IsCut
    <3>3. cut[i] = IF i <= pos THEN s[i] ELSE s[i + n]
      BY <1>2, <1>3 DEF IsCut
    <3>4. QED
      BY <3>1, <3>2, <3>3
  <2>2. CASE i <= pos
    <3>1. i \in 1..N /\ i - 1 < pos
      BY <1>1, <2>2
    <3>2. LookAt(fs, i - 1) = LookAt(b.attributes, i - 1)
      BY <1>5, <2>1, <3>1
    <3>3. QED
      BY <1>2, <2>1, <2>2, <3>1, <3>2
  <2>3. CASE ~(i <= pos)
    <3>1. i + n \in 1..N /\ ~(i - 1 < pos) /\ (i - 1) + n = (i + n) - 1
      BY <1>1, <2>3
    <3>2. LookAt(fs, i - 1) = LookAt(b.attributes, (i + n) - 1)
      BY <1>5, <2>1, <3>1
    <3>3. QED
      BY <1>2, <2>1, <2>3, <3>1, <3>2
  <2>4. QED
    BY <2>2, <2>3
<1>14. ShownIn(c) = cut
  BY <1>3, <1>9, <1>10, <1>11, <1>12, <1>13, SameShown
<1>15. QED
  BY <1>9, <1>10, <1>11, <1>14 DEF c, cut, s

-----------------------------------------------------------------------------
(* The buffer of a text field: its operations *)

LEMMA SetCursorFacts ==
    ASSUME NEW b, BufferOK(b), NEW x \in Nat, NEW y \in Nat
    PROVE  /\ BufferOK(SetCursor(b, x, y)) /\ SetCursor(b, x, y).default = b.default
           /\ ShownIn(SetCursor(b, x, y)) = ShownIn(b)
<1> DEFINE c == SetCursor(b, x, y)
<1>1. /\ b \in BufferType /\ b.text \in Seq(Bytes) /\ Well(b.attributes, Len(b.text))
      /\ b.default \in Attributes
  BY BufferIs DEF BufferOK
<1>2. CASE x > Len(b.text) \/ y > Len(b.text)
  <2>1. c = b
    BY <1>2 DEF SetCursor
  <2>2. QED
    BY <2>1
<1>3. CASE ~(x > Len(b.text) \/ y > Len(b.text))
  <2>1. c = [b EXCEPT !.cursor_start = x, !.cursor_end = y]
    BY <1>3 DEF SetCursor
  <2>2. b = BufferOf(b.text, b.attributes, b.default, b.cursor_start, b.cursor_end)
    BY <1>1, BufferIs
  <2>3. c = BufferOf(b.text, b.attributes, b.default, x, y)
    BY <2>1, <2>2 DEF BufferOf
  <2>4. x \in 0..Len(b.text) /\ y \in 0..Len(b.text)
    BY <1>1, <1>3
  <2> HIDE DEF c
  <2>5. BufferOK(c)
    BY <1>1, <2>3, <2>4, BufferMade
  <2>6. c.text = b.text /\ c.attributes = b.attributes /\ c.default = b.default
    BY <2>3, BufferOfIs
  <2>7. ShownIn(c) = ShownIn(b)
    BY <2>6 DEF ShownIn, GetAttributes
  <2>8. QED
    BY <2>5, <2>6, <2>7 DEF c
<1>4. QED
  BY <1>2, <1>3

\* The attributes of text that is put behind all others are not shown.
LEMMA DefaultFacts ==
    ASSUME NEW b, BufferOK(b), NEW d \in Attributes
    PROVE  /\ BufferOK([b EXCEPT !.default = d]) /\ [b EXCEPT !.default = d].default = d
           /\ ShownIn([b EXCEPT !.default = d]) = ShownIn(b)
<1> DEFINE c == [b EXCEPT !.default = d]
<1>1. /\ b \in BufferType /\ b.text \in Seq(Bytes) /\ Well(b.attributes, Len(b.text))
      /\ b.cursor_start \in 0..Len(b.text) /\ b.cursor_end \in 0..Len(b.text)
  BY BufferIs DEF BufferOK
<1>2. b = BufferOf(b.text, b.attributes, b.default, b.cursor_start, b.cursor_end)
  BY <1>1, BufferIs
<1>3. c = BufferOf(b.text, b.attributes, d, b.cursor_start, b.cursor_end)
  BY <1>2 DEF BufferOf
<1> HIDE DEF c
<1>4. BufferOK(c)
  BY <1>1, <1>3, BufferMade
<1>5. c.text = b.text /\ c.attributes = b.attributes /\ c.default = d
  BY <1>3, BufferOfIs
<1>6. ShownIn(b) \in Seq(StyledByte) /\ Len(ShownIn(b)) = Len(c.text)
      /\ \A i \in 1..Len(c.text) :
           ShownIn(b)[i] = [byte |-> c.text[i], style |-> LookAt(c.attributes, i - 1)]
  BY <1>5, ShownFacts
<1>7. ShownIn(c) = ShownIn(b)
  BY <1>4, <1>6, SameShown
<1>8. QED
  BY <1>4, <1>5, <1>7 DEF c

\* The bytes of a part of the text look alike in some ways, the others as before.
IsRestyled(t, s, start, n, attr, mask) ==
    /\ Len(t) = Len(s)
    /\ \A i \in 1..Len(s) :
         /\ t[i].byte = s[i].byte /\ t[i].style \in Attributes
         /\ t[i].style = IF i \in start + 1 .. start + n
                         THEN Copied(s[i].style, attr, mask) ELSE s[i].style

LEMMA SetAttributesFacts ==
    ASSUME NEW b, BufferOK(b), NEW start \in Nat, NEW n \in Nat \ {0},
           start + n <= Len(b.text), NEW attr \in Attributes, NEW mask \in SUBSET Kinds
    PROVE  /\ BufferOK(SetAttributes(b, start, n, attr, mask))
           /\ SetAttributes(b, start, n, attr, mask).default = b.default
           /\ IsRestyled(ShownIn(SetAttributes(b, start, n, attr, mask)), ShownIn(b),
                         start, n, attr, mask)
<1> DEFINE N == Len(b.text)
           fs == Restyled(b.attributes, N, start, n, attr, mask)
           c == SetAttributes(b, start, n, attr, mask)
<1>1. /\ b \in BufferType /\ b.text \in Seq(Bytes) /\ Well(b.attributes, N) /\ N \in Nat \ {0}
      /\ b.cursor_start \in 0..N /\ b.cursor_end \in 0..N /\ b.default \in Attributes
  BY BufferIs DEF BufferOK
<1>2. c = [b EXCEPT !.attributes = fs]
  BY DEF SetAttributes, Restyled, Painted
<1> HIDE DEF c
<1>3. /\ Well(fs, N)
      /\ \A p \in Nat : p < N =>
           LookAt(fs, p) = IF start <= p /\ p < start + n
                           THEN Copied(LookAt(b.attributes, p), attr, mask)
                           ELSE LookAt(b.attributes, p)
  BY <1>1, RestyledFacts
<1> HIDE DEF fs
<1>4. c = BufferOf(b.text, fs, b.default, b.cursor_start, b.cursor_end)
  <2>1. b = BufferOf(b.text, b.attributes, b.default, b.cursor_start, b.cursor_end)
    BY <1>1, BufferIs
  <2>2. QED
    BY <1>2, <2>1 DEF BufferOf
<1>5. c.text = b.text /\ c.attributes = fs /\ c.default = b.default
  BY <1>4, BufferOfIs
<1>6. BufferOK(c)
  BY <1>1, <1>3, <1>4, BufferMade
<1> DEFINE s == ShownIn(b)
           t == ShownIn(c)
<1>7. /\ Len(s) = N
      /\ \A i \in 1..N : s[i].byte = b.text[i] /\ s[i].style = LookAt(b.attributes, i - 1)
  BY ShownFacts
<1>8. /\ Len(t) = N /\ t \in Seq(StyledByte)
      /\ \A i \in 1..N : t[i].byte = b.text[i] /\ t[i].style = LookAt(fs, i - 1)
  <2>1. /\ Len(t) = Len(c.text) /\ t \in Seq(StyledByte)
        /\ \A i \in 1..Len(c.text) :
             t[i].byte = c.text[i] /\ t[i].style = LookAt(c.attributes, i - 1)
    BY <1>6, ShownFacts
  <2> HIDE DEF t
  <2>2. QED
    BY <1>5, <2>1
<1> HIDE DEF s, t, N
<1>9. ASSUME NEW i \in 1..N
      PROVE  /\ t[i].byte = s[i].byte /\ t[i].style \in Attributes
             /\ t[i].style = IF i \in start + 1 .. start + n
                             THEN Copied(s[i].style, attr, mask) ELSE s[i].style
  <2>1. i - 1 \in Nat /\ i - 1 < N
    BY <1>1
  <2>2. (start <= i - 1 /\ i - 1 < start + n) <=> i \in start + 1 .. start + n
    BY <1>1
  <2>3. LookAt(fs, i - 1) \in Attributes
    BY <1>1, <1>3, <2>1, LookIs
  <2>4. QED
    BY <1>3, <1>7, <1>8, <2>1, <2>2, <2>3
<1>10. IsRestyled(t, s, start, n, attr, mask)
  BY <1>7, <1>8, <1>9 DEF IsRestyled
<1>11. QED
  BY <1>5, <1>6, <1>10 DEF c, s, t

\* getTextFormat reports what all bytes agree about.
LEMMA UniqueFacts ==
    ASSUME NEW b, BufferOK(b), NEW start \in 0 .. Len(b.text) - 1,
           NEW n \in 1 .. Len(b.text) - start
    PROVE  GetUnique(b, start, n) =
             {k \in Kinds : \A p \in start .. start + n - 1 :
                GetAttributes(b, p)[k] = GetAttributes(b, start)[k]}
<1> DEFINE N == Len(b.text)
           fs == b.attributes
           others(i) == {j \in i + 1 .. Len(fs) : fs[j].start < start + n}
<1>1. N \in Nat /\ start \in Nat /\ start < N /\ n \in Nat \ {0} /\ start + n <= N
      /\ Well(fs, N) /\ fs \in Seq(FormatType) /\ Ordered(fs) /\ DOMAIN fs = 1..Len(fs)
      /\ Len(fs) \in Nat
  BY BufferIs DEF BufferOK, Well
<1>2. \A j \in DOMAIN fs : j \in Nat \ {0} /\ fs[j].start \in Nat
  BY <1>1, FormatIs
<1>3. PICK i \in DOMAIN fs : Governs(fs, start, i)
  <2> HIDE DEF fs, N
  <2>1. N \in Nat \ {0} /\ start \in Nat
    BY <1>1
  <2>2. QED
    BY <1>1, <2>1, GovernorExists
<1>4. IterForPos(fs, start) = i /\ LookAt(fs, start) = fs[i].attr /\ fs[i].start <= start
  BY <1>1, <1>3, GovernorFound DEF Governs
<1>5. GetUnique(b, start, n) =
        {k \in Kinds : \A j \in others(i) : fs[j].attr[k] = fs[i].attr[k]}
  BY <1>1, <1>4 DEF GetUnique
<1>6. \A j : j \in others(i) <=> j \in DOMAIN fs /\ i < j /\ fs[j].start < start + n
  BY <1>1, <1>2
<1>7. \A p \in start .. start + n - 1 : p \in Nat /\ p < N /\ GetAttributes(b, p) = LookAt(fs, p)
  <2> SUFFICES ASSUME NEW p \in start .. start + n - 1
               PROVE  p \in Nat /\ p < N /\ GetAttributes(b, p) = LookAt(fs, p)
    OBVIOUS
  <2>1. p \in Nat /\ p < N /\ p # N
    BY <1>1
  <2>2. QED
    BY <2>1 DEF GetAttributes, LookAt
<1>8. start \in start .. start + n - 1
  BY <1>1
<1>9. ASSUME NEW k
      PROVE  (\A j \in others(i) : fs[j].attr[k] = fs[i].attr[k])
               <=> \A p \in start .. start + n - 1 :
                     GetAttributes(b, p)[k] = GetAttributes(b, start)[k]
  <2>1. ASSUME \A j \in others(i) : fs[j].attr[k] = fs[i].attr[k],
               NEW p \in start .. start + n - 1
        PROVE  GetAttributes(b, p)[k] = GetAttributes(b, start)[k]
    <3>1. p \in Nat /\ N \in Nat \ {0} /\ start <= p /\ p < start + n
      BY <1>1
    <3>2. PICK g \in DOMAIN fs : Governs(fs, p, g)
      BY <1>1, <3>1, GovernorExists
    <3>3. LookAt(fs, p) = fs[g].attr /\ fs[g].start <= p
      BY <1>1, <3>1, <3>2, GovernorFound DEF Governs
    <3>4. ~(g < i)
      BY <1>1, <1>2, <1>3, <1>4, <3>1, <3>2 DEF Governs
    <3>5. CASE g = i
      BY <1>4, <1>7, <1>8, <3>3, <3>5
    <3>6. CASE i < g
      <4>1. g \in others(i)
        <5>1. fs[g].start < start + n
          BY <1>1, <1>2, <3>1, <3>2, <3>3
        <5>2. QED
          BY <1>6, <3>2, <3>6, <5>1
      <4>2. fs[g].attr[k] = fs[i].attr[k]
        BY <2>1, <4>1
      <4>3. QED
        BY <1>4, <1>7, <1>8, <3>3, <4>2
    <3>7. QED
      BY <1>2, <3>2, <3>4, <3>5, <3>6
  <2>2. ASSUME \A p \in start .. start + n - 1 :
                 GetAttributes(b, p)[k] = GetAttributes(b, start)[k],
               NEW j \in others(i)
        PROVE  fs[j].attr[k] = fs[i].attr[k]
    <3>1. j \in DOMAIN fs /\ i < j /\ fs[j].start < start + n /\ fs[j].start \in Nat
      BY <1>2, <1>6
    <3>2. fs[j].start \in start .. start + n - 1
      <4>1. start < fs[j].start
        BY <1>3, <3>1 DEF Governs
      <4>2. QED
        BY <1>1, <3>1, <4>1
    <3>3. Governs(fs, fs[j].start, j)
      BY <1>1, <1>2, <3>1 DEF Governs, Ordered
    <3>4. LookAt(fs, fs[j].start) = fs[j].attr
      BY <1>1, <3>1, <3>3, GovernorFound
    <3>5. QED
      BY <1>4, <1>7, <1>8, <2>2, <3>2, <3>4
  <2>3. QED
    BY <2>1, <2>2
<1> HIDE DEF others, fs
<1>10. QED
  BY <1>5, <1>9

LEMMA CutOfNone ==
    ASSUME NEW S, NEW s \in Seq(S), NEW p \in 0..Len(s)
    PROVE  CutOf(s, p, 0) = s
<1>1. p \in Nat /\ Len(s) \in Nat /\ p + 0 <= Len(s)
  OBVIOUS
<1> DEFINE t == CutOf(s, p, 0)
<1>2. t \in Seq(S) /\ IsCut(t, s, p, 0)
  BY <1>1, CutOfFacts
<1> HIDE DEF t
<1>3. Len(t) = Len(s) /\ \A i \in 1..Len(s) : t[i] = s[i]
  BY <1>1, <1>2 DEF IsCut
<1>4. t = s
  BY <1>2, <1>3, SeqEqual
<1>5. QED
  BY <1>4 DEF t

LEMMA PutOfNone ==
    ASSUME NEW s \in Seq(StyledByte), NEW p \in 0..Len(s), NEW default \in Attributes
    PROVE  PutOf(s, p, <<>>, default) = s
<1> DEFINE t == PutOf(s, p, <<>>, default)
<1>1. <<>> \in Seq(Bytes) /\ Len(<<>>) = 0 /\ p \in Nat /\ Len(s) \in Nat
  OBVIOUS
<1>2. t \in Seq(StyledByte) /\ IsPutIn(t, s, p, <<>>, default)
  BY <1>1, PutOfFacts
<1> HIDE DEF t
<1>3. Len(t) = Len(s) /\ \A i \in 1..Len(s) : t[i] = s[i]
  BY <1>1, <1>2 DEF IsPutIn
<1>4. t = s
  BY <1>2, <1>3, SeqEqual
<1>5. QED
  BY <1>4 DEF t

\* What is shown changes in one place: some bytes, or none, give way to others.
Edits(b, c) ==
    \E p \in Nat, n \in Nat, bytes \in Seq(Bytes) :
      /\ p + n <= Len(b.text)
      /\ ShownIn(c) = PutOf(CutOf(ShownIn(b), p, n), p, bytes, b.default)

\* A step from the buffer b to c that edits it and keeps its invariant.
Edited(b, c) == BufferOK(c) /\ c.default \in Attributes /\ Edits(b, c)

LEMMA LengthIs ==
    ASSUME NEW b, BufferOK(b)
    PROVE  /\ Len(b.text) \in Nat /\ b.default \in Attributes
           /\ ShownIn(b) \in Seq(StyledByte) /\ Len(ShownIn(b)) = Len(b.text)
BY BufferIs, ShownFacts DEF BufferOK

LEMMA SameIsEdited ==
    ASSUME NEW b, BufferOK(b), NEW c, BufferOK(c), ShownIn(c) = ShownIn(b)
    PROVE  Edited(b, c)
<1> DEFINE s == ShownIn(b)
<1>1. s \in Seq(StyledByte) /\ Len(s) = Len(b.text) /\ Len(s) \in Nat /\ b.default \in Attributes
      /\ c.default \in Attributes
  BY LengthIs
<1> HIDE DEF s
<1>2. 0 \in 0..Len(s)
  BY <1>1
<1>3. CutOf(s, 0, 0) = s /\ PutOf(s, 0, <<>>, b.default) = s
  BY <1>1, <1>2, CutOfNone, PutOfNone
<1>4. ShownIn(c) = PutOf(CutOf(s, 0, 0), 0, <<>>, b.default)
  BY <1>3 DEF s
<1>5. 0 \in Nat /\ <<>> \in Seq(Bytes) /\ 0 + 0 <= Len(b.text)
  BY <1>1
<1>6. Edits(b, c)
  BY <1>4, <1>5 DEF Edits, s
<1>7. QED
  BY <1>1, <1>6 DEF Edited

\* What keys and scripts do before they insert text.
Replaced(b, start, end) == IF start = end THEN b ELSE DeleteText(b, start, end - start)

LEMMA ReplacedFacts ==
    ASSUME NEW b, BufferOK(b), NEW start \in Nat, NEW end \in Nat, start <= end,
           end <= Len(b.text)
    PROVE  /\ BufferOK(Replaced(b, start, end)) /\ Replaced(b, start, end).default = b.default
           /\ Len(Replaced(b, start, end).text) = Len(b.text) - (end - start)
           /\ ShownIn(Replaced(b, start, end)) = CutOf(ShownIn(b), start, end - start)
<1>1. Len(b.text) \in Nat /\ ShownIn(b) \in Seq(StyledByte) /\ Len(ShownIn(b)) = Len(b.text)
  BY LengthIs
<1>2. CASE start = end
  <2>1. Replaced(b, start, end) = b /\ end - start = 0 /\ start \in 0..Len(ShownIn(b))
    BY <1>1, <1>2 DEF Replaced
  <2>2. CutOf(ShownIn(b), start, 0) = ShownIn(b)
    BY <1>1, <2>1, CutOfNone
  <2>3. QED
    BY <1>1, <2>1, <2>2
<1>3. CASE start # end
  <2> DEFINE n == end - start
  <2>1. n \in Nat \ {0} /\ start + n = end /\ start + n <= Len(b.text)
    BY <1>3
  <2>2. Replaced(b, start, end) = DeleteText(b, start, n)
    BY <1>3 DEF Replaced
  <2> HIDE DEF n
  <2>3. /\ BufferOK(DeleteText(b, start, n)) /\ DeleteText(b, start, n).default = b.default
        /\ Len(DeleteText(b, start, n).text) = Len(b.text) - n
        /\ ShownIn(DeleteText(b, start, n)) = CutOf(ShownIn(b), start, n)
    BY <2>1, DeleteTextFacts
  <2>4. QED
    BY <2>2, <2>3 DEF n
<1>4. QED
  BY <1>2, <1>3

\* Some text is replaced by some other.
LEMMA PutFacts ==
    ASSUME NEW b, BufferOK(b), NEW start \in Nat, NEW end \in Nat, start <= end,
           end <= Len(b.text), NEW bytes \in Seq(Bytes)
    PROVE  /\ Edited(b, InsertText(Replaced(b, start, end), start, bytes))
           /\ InsertText(Replaced(b, start, end), start, bytes).default = b.default
<1> DEFINE r == Replaced(b, start, end)
           c == InsertText(r, start, bytes)
<1>1. /\ BufferOK(r) /\ r.default = b.default /\ Len(r.text) = Len(b.text) - (end - start)
      /\ ShownIn(r) = CutOf(ShownIn(b), start, end - start)
  BY ReplacedFacts
<1> HIDE DEF r
<1>2. Len(b.text) \in Nat /\ b.default \in Attributes
  BY LengthIs
<1>3. start \in 0..Len(r.text) /\ end - start \in Nat /\ start + (end - start) <= Len(b.text)
  BY <1>1, <1>2
<1>4. /\ BufferOK(c) /\ c.default = r.default
      /\ ShownIn(c) = PutOf(ShownIn(r), start, bytes, r.default)
  BY <1>1, <1>3, InsertTextFacts
<1> HIDE DEF c
<1>5. ShownIn(c) = PutOf(CutOf(ShownIn(b), start, end - start), start, bytes, b.default)
  BY <1>1, <1>4
<1>6. Edits(b, c)
  BY <1>3, <1>5 DEF Edits
<1>7. QED
  BY <1>1, <1>2, <1>4, <1>6 DEF Edited, r, c

\* Text is deleted, or the call fails its check.
LEMMA DeletedIsEdited ==
    ASSUME NEW b, BufferOK(b), NEW start \in Nat, NEW end \in Nat, start <= end
    PROVE  Edited(b, Replaced(b, start, end))
<1>1. Len(b.text) \in Nat /\ b.default \in Attributes /\ Len(ShownIn(b)) = Len(b.text)
      /\ ShownIn(b) \in Seq(StyledByte)
  BY LengthIs
<1>2. CASE end <= Len(b.text)
  <2> DEFINE n == end - start
             r == Replaced(b, start, end)
             s == CutOf(ShownIn(b), start, n)
  <2>1. n \in Nat /\ start + n <= Len(b.text)
    BY <1>2
  <2>2. /\ BufferOK(r) /\ r.default = b.default /\ Len(r.text) = Len(b.text) - n
        /\ ShownIn(r) = s
    BY <1>2, ReplacedFacts
  <2> HIDE DEF n, r, s
  <2>3. s \in Seq(StyledByte) /\ IsCut(s, ShownIn(b), start, n)
    BY <1>1, <2>1, CutOfFacts DEF s
  <2>4. start \in 0..Len(s)
    BY <1>1, <2>1, <2>3 DEF IsCut
  <2>5. PutOf(s, start, <<>>, b.default) = s
    BY <1>1, <2>3, <2>4, PutOfNone
  <2>6. ShownIn(r) = PutOf(CutOf(ShownIn(b), start, n), start, <<>>, b.default)
    BY <2>2, <2>5 DEF s
  <2>7. <<>> \in Seq(Bytes)
    OBVIOUS
  <2>8. Edits(b, r)
    BY <2>1, <2>6, <2>7 DEF Edits
  <2>9. QED
    BY <1>1, <2>2, <2>8 DEF Edited, r
<1>3. CASE ~(end <= Len(b.text))
  <2>1. Replaced(b, start, end) = b
    <3>1. start + (end - start) = end /\ end > Len(b.text)
      BY <1>1, <1>3
    <3>2. QED
      BY <3>1 DEF Replaced, DeleteText
  <2>2. QED
    BY <2>1, SameIsEdited
<1>4. QED
  BY <1>2, <1>3

-----------------------------------------------------------------------------
(* The text field *)

\* The inductive invariant: the buffer is sound, and the numbers that the mouse
\* and scripts leave are natural.  Nothing says that they are in the text.
TextIInv ==
    /\ BufferOK(buffer)
    /\ scroll \in Nat
    /\ mouse \in {Up, Down} \cup Nat

\* The largest of some numbers.
LEMMA MaxFacts2 ==
    ASSUME NEW N \in Nat, NEW K \in SUBSET (0..N), K # {}
    PROVE  Max(K) \in K /\ Max(K) \in 0..N
<1>1. PICK m \in K : \A k \in K : k <= m
  BY Greatest
<1>2. K \in SUBSET Nat
  OBVIOUS
<1>3. Max(K) = m
  BY <1>1, <1>2, MaxIs
<1>4. QED
  BY <1>3

LEMMA PositionsAreNat ==
    ASSUME BufferOK(buffer)
    PROVE  /\ Length \in Nat /\ XYToIndex \subseteq Nat /\ Offsets \subseteq 0..Length
           /\ \A p \in Nat : Backward(p) \in 0..p
           /\ \A p \in 0..Length : Forward(p) \in Nat /\ p <= Forward(p)
           /\ Selection(buffer).start \in Nat /\ Selection(buffer).end \in Nat
           /\ Selection(buffer).start <= Selection(buffer).end
           /\ Selection(buffer).end <= Length
<1>1. Length \in Nat
  BY LengthIs DEF Length, Text
<1>2. XYToIndex \subseteq Nat
  <2>1. ASSUME NEW q \in QueryPosition PROVE q.index \in Nat /\ q.trailing \in Nat
    <3>1. CASE scroll >= NRows(Text)
      <4>1. QueryPosition = {Position(p, 0) : p \in 0 .. Length + 1}
        BY <3>1 DEF QueryPosition
      <4>2. QED
        BY <1>1, <2>1, <4>1 DEF Position
    <3>2. CASE ~(scroll >= NRows(Text))
      <4>1. \E p \in Nat, t \in Nat : q = Position(p, t)
        BY <1>1, <2>1, <3>2 DEF QueryPosition, Offsets
      <4>2. QED
        BY <4>1 DEF Position
    <3>3. QED
      BY <3>1, <3>2
  <2>2. QED
    BY <2>1 DEF XYToIndex
<1>3. ASSUME NEW p \in Nat PROVE Backward(p) \in 0..p
  <2> DEFINE K == {0} \cup {q \in 0 .. p - 1 : Text[q + 1] # Continuation}
  <2>1. \A x \in K : x \in 0..p
    OBVIOUS
  <2>2. K \in SUBSET (0..p) /\ K # {}
    BY <2>1, Zenon
  <2>3. Max(K) \in 0..p
    BY <2>2, MaxFacts2
  <2>4. QED
    BY <2>3 DEF Backward
<1>4. \A p \in 0..Length : Forward(p) \in Nat /\ p <= Forward(p)
  BY <1>1 DEF Forward
<1>5. /\ Selection(buffer).start \in Nat /\ Selection(buffer).end \in Nat
      /\ Selection(buffer).start <= Selection(buffer).end
      /\ Selection(buffer).end <= Length
  BY <1>1, BufferIs DEF Selection, BufferOK, Length, Text
<1>6. Offsets \subseteq 0..Length
  BY DEF Offsets
<1>7. QED
  BY <1>1, <1>2, <1>3, <1>4, <1>5, <1>6

\* The row on top that a layout allows.
LEMMA ClampedIsNat ==
    ASSUME NEW row \in Nat, NEW text \in Seq(Bytes)
    PROVE  Clamped(row, text) \in Nat
<1> DEFINE r == NRows(text) - VisibleRows
           m == ScrollMax(text)
<1>1. NRows(text) \in Nat
  <2> DEFINE K == {i \in 1..Len(text) : text[i] = Newline}
  <2>1. IsFiniteSet(1..Len(text)) /\ K \in SUBSET (1..Len(text))
    BY FS_Interval
  <2>2. IsFiniteSet(K)
    BY <2>1, FS_Subset
  <2>3. Cardinality(K) \in Nat
    BY <2>2, FS_CardinalityType
  <2>4. QED
    BY <2>3 DEF NRows, Row
<1>2. VisibleRows \in Nat /\ r \in Int
  BY <1>1, TextAssumption
<1>3. m \in Nat
  <2>1. CASE r <= 0
    <3>1. \A x \in {0, r} : (\A y \in {0, r} : x >= y) <=> x = 0
      BY <1>2, <2>1
    <3>2. Max({0, r}) = 0
      BY <3>1 DEF Max
    <3>3. QED
      BY <3>2 DEF ScrollMax
  <2>2. CASE ~(r <= 0)
    <3>1. \A x \in {0, r} : (\A y \in {0, r} : x >= y) <=> x = r
      BY <1>2, <2>2
    <3>2. Max({0, r}) = r
      BY <3>1 DEF Max
    <3>3. QED
      BY <1>2, <2>2, <3>2 DEF ScrollMax
  <2>3. QED
    BY <2>1, <2>2
<1> HIDE DEF m
<1>4. Min({row, m}) \in Nat
  <2>1. PICK x \in {row, m} : \A y \in {row, m} : x <= y
    BY <1>3
  <2>2. {row, m} \in SUBSET Nat
    BY <1>3
  <2>3. Min({row, m}) = x
    BY <2>1, <2>2, MinIs
  <2>4. QED
    BY <1>3, <2>3
<1>5. QED
  BY <1>4 DEF Clamped, m

-----------------------------------------------------------------------------
(* The steps of a text field *)

\* A step from the buffer b to c that changes attributes and keeps the text.
Repainted(b, c) ==
    /\ BufferOK(c) /\ c.default = b.default
    /\ \E start \in Nat, n \in Nat, attr \in Attributes, mask \in SUBSET Kinds :
         /\ start + n <= Len(b.text)
         /\ IsRestyled(ShownIn(c), ShownIn(b), start, n, attr, mask)

Changed(b, c) == Edited(b, c) \/ Repainted(b, c)

LEMMA FormatsAre ==
    ASSUME NEW f \in Formats
    PROVE  f.attr \in Attributes /\ f.values_set \in SUBSET Kinds
BY TextAssumption

LEMMA TextInitOK ==
    ASSUME TextInit
    PROVE  TextIInv
<1>1. PICK f \in Formats : buffer = EmptyBuffer(f.attr)
  BY DEF TextInit
<1> DEFINE d == f.attr
<1>2. d \in Attributes
  BY FormatsAre
<1> HIDE DEF d
<1>3. Well(<<>>, 0) /\ <<>> \in Seq(Bytes) /\ Len(<<>>) = 0
  BY DEF Well, Ordered
<1>4. BufferOK(BufferOf(<<>>, <<>>, d, 0, 0))
  <2>1. 0 \in 0..Len(<<>>)
    BY <1>3
  <2>2. Well(<<>>, Len(<<>>))
    BY <1>3
  <2>3. QED
    BY <1>2, <1>3, <2>1, <2>2, BufferMade
<1>5. buffer = BufferOf(<<>>, <<>>, d, 0, 0)
  BY <1>1 DEF EmptyBuffer, BufferOf, d
<1>6. QED
  BY <1>4, <1>5 DEF TextInit, TextIInv

\* The cursor goes somewhere, or the call fails its check.
LEMMA CursorMoved ==
    ASSUME NEW b, BufferOK(b), NEW x \in Nat, NEW y \in Nat, NEW c, c = SetCursor(b, x, y)
    PROVE  Changed(b, c)
<1>1. BufferOK(c) /\ ShownIn(c) = ShownIn(b)
  BY SetCursorFacts
<1>2. QED
  BY <1>1, SameIsEdited DEF Changed

LEMMA MouseSteps ==
    ASSUME TextIInv, MousePress \/ FocusIn \/ EndPress \/ MouseMove \/ MouseRelease
    PROVE  TextIInv' /\ Changed(buffer, buffer')
<1>1. BufferOK(buffer) /\ scroll \in Nat
  BY DEF TextIInv
<1>2. Changed(buffer, buffer)
  BY <1>1, SameIsEdited DEF Changed
<1>3. CASE MousePress
  BY <1>1, <1>2, <1>3, PositionsAreNat DEF MousePress, TextIInv
<1>4. CASE FocusIn
  <2>1. Changed(buffer, buffer')
    BY <1>1, <1>4, PositionsAreNat, CursorMoved DEF FocusIn
  <2>2. QED
    BY <1>4, <2>1 DEF FocusIn, TextIInv, Changed, Edited, Repainted
<1>5. CASE EndPress
  <2>1. mouse \in Nat
    BY <1>5 DEF EndPress, TextIInv
  <2>2. Changed(buffer, buffer')
    BY <1>1, <1>5, <2>1, CursorMoved DEF EndPress
  <2>3. QED
    BY <1>5, <2>2 DEF EndPress, TextIInv, Changed, Edited, Repainted
<1>6. CASE MouseMove
  <2> DEFINE s == Selection(buffer)
             x == IF buffer.cursor_end = s.start THEN s.end ELSE s.start
  <2>1. PICK index \in XYToIndex : buffer' = SetCursor(buffer, x, index)
    BY <1>6 DEF MouseMove
  <2>2. index \in Nat /\ x \in Nat
    BY <1>1, PositionsAreNat
  <2> HIDE DEF x
  <2>3. Changed(buffer, buffer')
    BY <1>1, <2>1, <2>2, CursorMoved
  <2>4. QED
    BY <1>6, <2>3 DEF MouseMove, TextIInv, Changed, Edited, Repainted
<1>7. CASE MouseRelease
  BY <1>1, <1>2, <1>7 DEF MouseRelease, TextIInv
<1>8. QED
  BY <1>3, <1>4, <1>5, <1>6, <1>7

LEMMA KeySteps ==
    ASSUME TextIInv, KeyPress
    PROVE  TextIInv' /\ Changed(buffer, buffer')
<1> DEFINE s == Selection(buffer)
           selected == s.start # s.end
           left == IF selected THEN s.start ELSE Backward(s.start)
           right == IF selected THEN s.end ELSE Forward(s.end)
<1>1. BufferOK(buffer) /\ Length \in Nat
  BY PositionsAreNat DEF TextIInv
<1>2. s.start \in Nat /\ s.end \in Nat /\ s.start <= s.end /\ s.end <= Length
  BY <1>1, PositionsAreNat
<1>3. left \in Nat /\ left <= s.end /\ right \in Nat /\ s.start <= right
  <2>1. Backward(s.start) \in 0 .. s.start
    BY <1>1, <1>2, PositionsAreNat
  <2>2. s.end \in 0..Length
    BY <1>1, <1>2
  <2>3. Forward(s.end) \in Nat /\ s.end <= Forward(s.end)
    BY <1>1, <2>2, PositionsAreNat
  <2>4. left \in 0 .. s.start
    BY <1>2, <2>1
  <2>5. right \in Nat /\ s.end <= right
    BY <1>2, <2>3
  <2> HIDE DEF left, right, s
  <2>6. QED
    BY <1>2, <2>4, <2>5
<1>4. \/ \E p \in Nat : buffer' = SetCursor(buffer, p, p)
      \/ buffer' = Replaced(buffer, left, s.end)
      \/ buffer' = Replaced(buffer, s.start, right)
      \/ \E c \in Characters : buffer' = InsertText(Replaced(buffer, s.start, s.end), s.start, c)
  <2>1. selected \/ s.start = s.end
    OBVIOUS
  <2>2. (IF selected THEN s.end ELSE Forward(s.start)) = right
    BY <2>1
  <2>3. \/ buffer' = SetCursor(buffer, left, left)
        \/ buffer' = SetCursor(buffer, IF selected THEN s.end ELSE Forward(s.start),
                               IF selected THEN s.end ELSE Forward(s.start))
        \/ buffer' = Replaced(buffer, left, s.end)
        \/ buffer' = Replaced(buffer, s.start, right)
        \/ \E c \in Characters : buffer' = InsertText(Replaced(buffer, s.start, s.end), s.start, c)
    BY DEF KeyPress, Replaced
  <2> HIDE DEF left, right, selected
  <2>4. QED
    BY <1>3, <2>2, <2>3
<1> HIDE DEF left, right, selected
<1>5. Changed(buffer, buffer')
  <2>1. CASE \E p \in Nat : buffer' = SetCursor(buffer, p, p)
    BY <1>1, <2>1, CursorMoved
  <2>2. CASE buffer' = Replaced(buffer, left, s.end)
    BY <1>1, <1>2, <1>3, <2>2, DeletedIsEdited DEF Changed
  <2>3. CASE buffer' = Replaced(buffer, s.start, right)
    BY <1>1, <1>2, <1>3, <2>3, DeletedIsEdited DEF Changed
  <2>4. CASE \E c \in Characters :
               buffer' = InsertText(Replaced(buffer, s.start, s.end), s.start, c)
    <3>1. PICK c \in Characters :
            buffer' = InsertText(Replaced(buffer, s.start, s.end), s.start, c)
      BY <2>4
    <3>2. c \in Seq(Bytes) /\ s.end <= Len(buffer.text)
      BY <1>2, TextAssumption DEF Length, Text
    <3> HIDE DEF s
    <3>3. QED
      BY <1>1, <1>2, <3>1, <3>2, PutFacts DEF Changed
  <2>5. QED
    BY <1>4, <2>1, <2>2, <2>3, <2>4
<1>6. QED
  BY <1>5 DEF KeyPress, TextIInv, Changed, Edited, Repainted

\* All of the text gives way to another.
LEMMA SetTextSteps ==
    ASSUME TextIInv, NEW text \in Texts, SetText(text)
    PROVE  BufferOK(buffer') /\ Changed(buffer, buffer')
<1>1. BufferOK(buffer) /\ Length \in Nat /\ text \in Seq(Bytes) /\ Length = Len(buffer.text)
  BY PositionsAreNat, TextAssumption DEF TextIInv, Length, Text
<1>2. (IF Length = 0 THEN buffer ELSE DeleteText(buffer, 0, Length)) = Replaced(buffer, 0, Length)
  <2>1. Length - 0 = Length
    BY <1>1
  <2>2. QED
    BY <1>1, <2>1 DEF Replaced
<1>3. buffer' = InsertText(Replaced(buffer, 0, Length), 0, text)
  BY <1>2 DEF SetText
<1>4. 0 \in Nat /\ 0 <= Length /\ Length <= Len(buffer.text)
  BY <1>1
<1>5. Edited(buffer, buffer')
  BY <1>1, <1>3, <1>4, PutFacts
<1>6. QED
  BY <1>5 DEF Changed, Edited

LEMMA FirstLook ==
    ASSUME NEW b, BufferOK(b)
    PROVE  GetAttributes(b, 0) \in Attributes
<1>1. /\ Len(b.text) \in Nat /\ b.default \in Attributes
      /\ Well(b.attributes, Len(b.text))
  BY LengthIs DEF BufferOK
<1>2. CASE Len(b.text) = 0
  BY <1>1, <1>2 DEF GetAttributes
<1>3. CASE Len(b.text) # 0
  <2>1. LookAt(b.attributes, 0) \in Attributes
    BY <1>1, <1>3, LookIs
  <2>2. QED
    BY <1>3, <2>1 DEF GetAttributes, LookAt
<1>4. QED
  BY <1>2, <1>3

LEMMA ReplaceSteps ==
    ASSUME TextIInv, ReplaceText
    PROVE  TextIInv' /\ Changed(buffer, buffer')
<1>1. BufferOK(buffer) /\ Length \in Nat /\ Length = Len(buffer.text) /\ Offsets \subseteq 0..Length
  BY PositionsAreNat DEF TextIInv, Length, Text
<1>2. PICK start \in Offsets, end \in Offsets, str \in Texts :
        LET removed == end > start /\ (str # <<>> \/ Version # 7)
            cut == IF removed THEN DeleteText(buffer, start, end - start) ELSE buffer
            put == InsertText(cut, start, str)
        IN  start <= end /\ buffer' = [put EXCEPT !.default = GetAttributes(put, 0)]
  BY DEF ReplaceText
<1> DEFINE removed == end > start /\ (str # <<>> \/ Version # 7)
           to == IF removed THEN end ELSE start
           put == InsertText(Replaced(buffer, start, to), start, str)
           d == GetAttributes(put, 0)
<1>3. start \in Nat /\ end \in Nat /\ start <= end /\ end <= Len(buffer.text) /\ str \in Seq(Bytes)
  BY <1>1, <1>2, TextAssumption
<1>4. to \in Nat /\ start <= to /\ to <= Len(buffer.text)
  BY <1>3
<1>5. (IF removed THEN DeleteText(buffer, start, end - start) ELSE buffer)
        = Replaced(buffer, start, to)
  <2>1. CASE removed
    <3>1. start # end
      BY <1>3, <2>1
    <3>2. QED
      BY <2>1, <3>1 DEF Replaced
  <2>2. CASE ~removed
    BY <2>2 DEF Replaced
  <2>3. QED
    BY <2>1, <2>2
<1>6. buffer' = [put EXCEPT !.default = d]
  BY <1>2, <1>5
<1> HIDE DEF to, removed
<1>7. Edited(buffer, put)
  BY <1>1, <1>3, <1>4, PutFacts
<1> HIDE DEF put
<1>8. BufferOK(put) /\ d \in Attributes
  BY <1>7, FirstLook DEF Edited
<1> HIDE DEF d
<1>9. /\ BufferOK(buffer') /\ buffer'.default = d
      /\ ShownIn(buffer') = ShownIn(put)
  BY <1>6, <1>8, DefaultFacts
<1>10. Edited(buffer, buffer')
  BY <1>7, <1>8, <1>9 DEF Edited, Edits
<1>11. QED
  BY <1>9, <1>10 DEF ReplaceText, TextIInv, Changed

LEMMA FormatSteps ==
    ASSUME TextIInv, SetTextFormat \/ SetNewTextFormat
    PROVE  TextIInv' /\ Changed(buffer, buffer')
<1>1. /\ BufferOK(buffer) /\ Length \in Nat /\ Length = Len(buffer.text) /\ Offsets \subseteq 0..Length
      /\ buffer.default \in Attributes
  BY PositionsAreNat, LengthIs DEF TextIInv, Length, Text
<1>2. CASE SetTextFormat
  <2>1. PICK start \in Offsets, end \in Offsets, format \in Formats :
          /\ start < end
          /\ buffer' = SetAttributes(buffer, start, end - start, format.attr, format.values_set)
    BY <1>2 DEF SetTextFormat
  <2> DEFINE n == end - start
             attr == format.attr
             mask == format.values_set
  <2>2. /\ start \in Nat /\ n \in Nat \ {0} /\ n \in Nat /\ start + n <= Len(buffer.text)
        /\ attr \in Attributes /\ mask \in SUBSET Kinds
    BY <1>1, <2>1, FormatsAre
  <2>3. buffer' = SetAttributes(buffer, start, n, attr, mask)
    BY <2>1
  <2> HIDE DEF n, attr, mask
  <2>4. /\ BufferOK(buffer') /\ buffer'.default = buffer.default
        /\ IsRestyled(ShownIn(buffer'), ShownIn(buffer), start, n, attr, mask)
    BY <1>1, <2>2, <2>3, SetAttributesFacts
  <2>5. Repainted(buffer, buffer')
    BY <2>2, <2>4 DEF Repainted
  <2>6. QED
    BY <1>2, <2>4, <2>5 DEF SetTextFormat, TextIInv, Changed
<1>3. CASE SetNewTextFormat
  <2>1. PICK format \in Formats :
          buffer' = [buffer EXCEPT !.default = Copied(@, format.attr, format.values_set)]
    BY <1>3 DEF SetNewTextFormat
  <2> DEFINE d == Copied(buffer.default, format.attr, format.values_set)
  <2>2. d \in Attributes
    BY <1>1, FormatsAre, CopiedIs
  <2>3. buffer' = [buffer EXCEPT !.default = d]
    BY <2>1
  <2> HIDE DEF d
  <2>4. BufferOK(buffer') /\ ShownIn(buffer') = ShownIn(buffer)
    BY <1>1, <2>2, <2>3, DefaultFacts
  <2>5. Edited(buffer, buffer')
    BY <1>1, <2>4, SameIsEdited
  <2>6. QED
    BY <1>3, <2>4, <2>5 DEF SetNewTextFormat, TextIInv, Changed
<1>4. QED
  BY <1>2, <1>3

LEMMA TextSteps ==
    ASSUME TextIInv, [TextNext]_textVars
    PROVE  TextIInv' /\ Changed(buffer, buffer')
<1>1. BufferOK(buffer) /\ scroll \in Nat /\ Text \in Seq(Bytes)
  BY BufferIs DEF TextIInv, BufferOK, Text
<1>2. Changed(buffer, buffer)
  BY <1>1, SameIsEdited DEF Changed
<1>3. CASE MousePress \/ FocusIn \/ EndPress \/ MouseMove \/ MouseRelease
  BY <1>3, MouseSteps
<1>4. CASE KeyPress
  BY <1>4, KeySteps
<1>5. CASE SetTextProperty
  <2>1. PICK text \in Texts : SetText(text) /\ scroll' = Clamped(scroll, text)
    BY <1>5 DEF SetTextProperty
  <2>2. scroll' \in Nat
    BY <1>1, <2>1, ClampedIsNat, TextAssumption
  <2>3. QED
    BY <1>5, <2>1, <2>2, SetTextSteps DEF SetTextProperty, TextIInv
<1>6. CASE VariableChanged
  <2>1. PICK text \in Texts : SetText(text)
    BY <1>6 DEF VariableChanged
  <2>2. QED
    BY <1>6, <2>1, SetTextSteps DEF VariableChanged, TextIInv
<1>7. CASE ReplaceText
  BY <1>7, ReplaceSteps
<1>8. CASE SetTextFormat \/ SetNewTextFormat
  BY <1>8, FormatSteps
<1>9. CASE SetScroll
  <2>1. PICK value \in 1 .. MaxText + 1 : scroll' = Clamped(value - 1, Text)
    BY <1>9 DEF SetScroll
  <2>2. value - 1 \in Nat
    BY TextAssumption
  <2>3. scroll' \in Nat
    BY <1>1, <2>1, <2>2, ClampedIsNat
  <2>4. QED
    BY <1>1, <1>2, <1>9, <2>3 DEF SetScroll, TextIInv
<1>10. CASE UNCHANGED textVars
  BY <1>1, <1>2, <1>10 DEF textVars, TextIInv
<1>11. QED
  BY <1>3, <1>4, <1>5, <1>6, <1>7, <1>8, <1>9, <1>10 DEF TextNext

LEMMA TextInvariance == TextSpec => []TextIInv
<1>1. TextInit => TextIInv
  BY TextInitOK
<1>2. TextIInv /\ [TextNext]_textVars => TextIInv'
  BY TextSteps
<1>3. QED
  BY <1>1, <1>2, PTL DEF TextSpec

\* The formats of a sound buffer are as CHECK_ATTRIBUTES asserts.
LEMMA AttributesHold ==
    ASSUME NEW b, BufferOK(b)
    PROVE  CheckAttributes(b)
<1> DEFINE fs == b.attributes
           N == Len(b.text)
<1>1. /\ N \in Nat /\ b.text \in Seq(Bytes) /\ fs \in Seq(FormatType) /\ Ordered(fs)
      /\ \A i \in DOMAIN fs : fs[i].start < N
      /\ N > 0 => \E i \in DOMAIN fs : fs[i].start = 0
  BY BufferIs, LengthIs DEF BufferOK, Well
<1> HIDE DEF fs, N
<1>2. Len(fs) \in Nat /\ DOMAIN fs = 1..Len(fs) /\ (fs = <<>> <=> Len(fs) = 0)
      /\ (b.text = <<>> <=> N = 0)
  BY <1>1 DEF N
<1>3. \A i \in 1..Len(fs) : fs[i].start \in Nat
  BY <1>1, <1>2, FormatIs
<1>4. fs = <<>> <=> b.text = <<>>
  <2>1. ASSUME N = 0, Len(fs) # 0 PROVE FALSE
    <3>1. 1 \in 1..Len(fs)
      BY <1>2, <2>1
    <3>2. fs[1].start < N
      BY <1>1, <1>2, <3>1
    <3>3. QED
      BY <1>3, <2>1, <3>1, <3>2
  <2>2. ASSUME N # 0 PROVE Len(fs) # 0
    <3>1. \E i \in 1..Len(fs) : TRUE
      BY <1>1, <1>2, <2>2
    <3>2. QED
      BY <1>2, <3>1
  <2>3. QED
    BY <1>2, <2>1, <2>2
<1>5. ASSUME fs # <<>> PROVE fs[1].start = 0
  <2>1. N > 0
    BY <1>1, <1>2, <1>4, <1>5
  <2>2. PICK i \in 1..Len(fs) : fs[i].start = 0
    BY <1>1, <1>2, <2>1
  <2>3. 1 \in 1..Len(fs)
    BY <1>2, <2>2
  <2>4. 1 < i => fs[1].start < fs[i].start
    BY <1>1, <1>2, <2>2, <2>3 DEF Ordered
  <2>5. QED
    BY <1>3, <2>2, <2>3, <2>4
<1>6. ASSUME NEW i \in 2..Len(fs)
      PROVE  fs[i].start > fs[i - 1].start /\ fs[i].start < N
  <2>1. i - 1 \in 1..Len(fs) /\ i \in 1..Len(fs) /\ i - 1 < i
    BY <1>2
  <2>2. fs[i - 1].start < fs[i].start /\ fs[i].start < N
    BY <1>1, <1>2, <2>1 DEF Ordered
  <2>3. fs[i - 1].start \in Nat /\ fs[i].start \in Nat
    BY <1>3, <2>1
  <2>4. QED
    BY <2>2, <2>3
<1>7. QED
  BY <1>4, <1>5, <1>6 DEF CheckAttributes, fs, N

\* The assertions of CHECK_ATTRIBUTES never fail, the cursor and the selection
\* never leave the text, and swfdec_text_buffer_get_unique reports the kinds of
\* attributes that all bytes of a part share, whatever keys, mouse and scripts do.
THEOREM BufferAlwaysHolds == TextSpec => []BufferHolds
<1>1. TextIInv => BufferHolds
  <2> SUFFICES ASSUME TextIInv PROVE BufferHolds
    OBVIOUS
  <2>1. BufferOK(buffer)
    BY DEF TextIInv
  <2>2. CheckAttributes(buffer)
    BY <2>1, AttributesHold
  <2>3. buffer.cursor_start <= Length /\ buffer.cursor_end <= Length
    BY <2>1 DEF BufferOK, Length, Text
  <2>4. ASSUME NEW start \in 0 .. Length - 1, NEW n \in 1 .. Length - start
        PROVE  GetUnique(buffer, start, n) = Agreeing(start, n)
    BY <2>1, UniqueFacts DEF Agreeing, Length, Text
  <2>5. QED
    BY <2>2, <2>3, <2>4 DEF BufferHolds
<1>2. QED
  BY <1>1, TextInvariance, PTL

-----------------------------------------------------------------------------
(* What a text field promises *)

LEMMA EditIsReplace ==
    ASSUME NEW s \in Seq(StyledByte), NEW p \in Nat, NEW n \in Nat, p + n <= Len(s),
           NEW bytes \in Seq(Bytes), NEW t,
           t = PutOf(CutOf(s, p, n), p, bytes, buffer.default),
           buffer.default \in Attributes, buffer'.default \in Attributes
    PROVE  Abstract!Replace(s, t, p, n)
<1> DEFINE u == CutOf(s, p, n)
           k == Len(t) - (Len(s) - n)
           new == [i \in 1..k |-> t[p + i].byte]
<1>1. u \in Seq(StyledByte) /\ IsCut(u, s, p, n)
  BY CutOfFacts
<1>2. t = PutOf(u, p, bytes, buffer.default)
  OBVIOUS
<1>3. u = Abstract!Cut(s, p, n)
  BY DEF CutOf, Abstract!Cut
<1>4. Len(s) \in Nat /\ Len(bytes) \in Nat /\ Len(u) = Len(s) - n
  BY <1>1 DEF IsCut
<1> HIDE DEF u
<1>5. p \in 0..Len(u)
  BY <1>4
<1>6. IsPutIn(t, u, p, bytes, buffer.default)
  BY <1>1, <1>2, <1>5, PutOfFacts
<1>7. k = Len(bytes)
  BY <1>4, <1>6 DEF IsPutIn
<1>8. ASSUME NEW i \in 1..Len(bytes)
      PROVE  t[p + i].byte = bytes[i] /\ bytes[i] \in Bytes
  <2>1. p + i \in 1 .. Len(u) + Len(bytes) /\ ~(p + i <= p) /\ p + i <= p + Len(bytes)
        /\ (p + i) - p = i
    BY <1>4, <1>5
  <2>2. t[p + i] = [byte |-> bytes[(p + i) - p], style |-> Look(u, p, buffer.default)]
    BY <1>6, <2>1 DEF IsPutIn
  <2>3. QED
    BY <2>1, <2>2
<1>9. new = bytes
  <2>1. bytes = [i \in 1..Len(bytes) |-> bytes[i]]
    OBVIOUS
  <2>2. new = [i \in 1..Len(bytes) |-> bytes[i]]
    BY <1>7, <1>8
  <2>3. QED
    BY <2>1, <2>2
<1>10. Abstract!Put(u, p, bytes) = PutOf(u, p, bytes, buffer.default)
  BY DEF Abstract!Put, PutOf, NewBytes, Look
<1>11. k >= 0 /\ buffer'.default \in Abstract!Styles
  BY <1>4, <1>7 DEF Abstract!Styles, Attributes
<1>12. \A i \in 1..k : t[p + i].byte \in Bytes
  BY <1>7, <1>8
<1>13. t = Abstract!Put(Abstract!Cut(s, p, n), p, new)
  <2> HIDE DEF new
  <2>1. QED
    BY <1>2, <1>3, <1>9, <1>10
<1>14. QED
  BY <1>11, <1>12, <1>13 DEF Abstract!Replace

LEMMA RepaintIsRestyle ==
    ASSUME NEW s \in Seq(StyledByte), NEW t, NEW p \in Nat, NEW n \in Nat, p + n <= Len(s),
           NEW attr \in Attributes, NEW mask \in SUBSET Kinds, IsRestyled(t, s, p, n, attr, mask),
           buffer'.default = buffer.default
    PROVE  Abstract!Restyle(s, t, p, n)
<1> DEFINE changed == p + 1 .. p + n
<1>1. /\ Len(t) = Len(s)
      /\ \A i \in 1..Len(s) :
           /\ t[i].byte = s[i].byte
           /\ t[i].style \in Abstract!Styles
           /\ i \notin changed => t[i].style = s[i].style
  BY DEF IsRestyled, Abstract!Styles, Attributes
<1>2. ASSUME NEW i \in changed
      PROVE  t[i].style = Copied(s[i].style, attr, mask) /\ s[i].style \in Attributes
  <2>1. i \in 1..Len(s)
    OBVIOUS
  <2>2. s[i] \in StyledByte
    BY <2>1
  <2>3. QED
    BY <2>1, <2>2 DEF IsRestyled, StyledByte
<1>3. ASSUME NEW k \in Kinds
      PROVE  \/ \A i \in changed : t[i].style[k] = s[i].style[k]
             \/ \A i, j \in changed : t[i].style[k] = t[j].style[k]
  <2>1. \A i \in changed : t[i].style[k] = IF k \in mask THEN attr[k] ELSE s[i].style[k]
    BY <1>2, CopiedIs
  <2> HIDE DEF changed
  <2>2. QED
    BY <2>1
<1>4. QED
  BY <1>1, <1>3 DEF Abstract!Restyle

\* Every step of a text field is a step of a text in which each byte has a style
\* of its own: formats that are moved, split, merged and removed with the text
\* give no byte the attributes of another (swfdec_text_buffer.c).
THEOREM FieldImplementsStyledText == TextSpec => ImplementsStyledText
<1>1. TextInit => Abstract!Init
  <2> SUFFICES ASSUME TextInit PROVE Abstract!Init
    OBVIOUS
  <2>1. BufferOK(buffer)
    BY TextInitOK DEF TextIInv
  <2>2. buffer.default \in Attributes
    BY <2>1, LengthIs
  <2>3. Len(buffer.text) = 0
    BY DEF TextInit, EmptyBuffer
  <2>4. Shown = <<>>
    BY <2>3 DEF Shown, Length, Text
  <2>5. QED
    BY <2>2, <2>4 DEF Abstract!Init, Abstract!Styles, Attributes
<1>2. TextIInv /\ [TextNext]_textVars => [Abstract!Next]_(Abstract!vars)
  <2> SUFFICES ASSUME TextIInv, [TextNext]_textVars PROVE Abstract!Next
    BY DEF Abstract!vars
  <2> DEFINE s == ShownIn(buffer)
             t == ShownIn(buffer')
  <2>1. Shown = s /\ Shown' = t
    BY DEF Shown, ShownIn, Length, Text
  <2>2. Changed(buffer, buffer') /\ BufferOK(buffer)
    BY TextSteps DEF TextIInv
  <2>3. s \in Seq(StyledByte) /\ Len(s) = Len(buffer.text) /\ Len(s) \in Nat
        /\ buffer.default \in Attributes
    BY <2>2, LengthIs
  <2> HIDE DEF s, t
  <2>4. \E p \in Nat, n \in Nat :
          p + n <= Len(s) /\ (Abstract!Replace(s, t, p, n) \/ Abstract!Restyle(s, t, p, n))
    <3>1. CASE Edited(buffer, buffer')
      <4>1. PICK p \in Nat, n \in Nat, bytes \in Seq(Bytes) :
              p + n <= Len(buffer.text) /\ t = PutOf(CutOf(s, p, n), p, bytes, buffer.default)
        BY <3>1 DEF Edited, Edits, s, t
      <4>2. buffer'.default \in Attributes
        BY <3>1 DEF Edited
      <4>3. Abstract!Replace(s, t, p, n)
        BY <2>3, <4>1, <4>2, EditIsReplace
      <4>4. QED
        BY <2>3, <4>1, <4>3
    <3>2. CASE Repainted(buffer, buffer')
      <4>1. PICK p \in Nat, n \in Nat, attr \in Attributes, mask \in SUBSET Kinds :
              p + n <= Len(buffer.text) /\ IsRestyled(t, s, p, n, attr, mask)
        BY <3>2 DEF Repainted, s, t
      <4>2. buffer'.default = buffer.default
        BY <3>2 DEF Repainted
      <4>3. Abstract!Restyle(s, t, p, n)
        BY <2>3, <4>1, <4>2, RepaintIsRestyle
      <4>4. QED
        BY <2>3, <4>1, <4>3
    <3>3. QED
      BY <2>2, <3>1, <3>2 DEF Changed
  <2>5. PICK p \in Nat, n \in Nat :
          p + n <= Len(s) /\ (Abstract!Replace(s, t, p, n) \/ Abstract!Restyle(s, t, p, n))
    BY <2>4
  <2>6. p \in 0..Len(s) /\ n \in 0 .. Len(s) - p
    BY <2>3, <2>5
  <2>7. Abstract!Change(s, t)
    BY <2>5, <2>6 DEF Abstract!Change
  <2>8. QED
    BY <2>1, <2>7 DEF Abstract!Next
<1>3. QED
  BY <1>1, <1>2, TextInvariance, PTL DEF TextSpec, ImplementsStyledText, Abstract!Spec

-----------------------------------------------------------------------------
(* Drawing: the tree of movies *)

\* Every movie but the stage is in a movie, and movies are ranked: none is in
\* itself, and whoever climbs arrives at the stage.
Ranks(tree, top, rank) ==
    /\ rank \in [DOMAIN tree -> 0 .. top]
    /\ \A m \in DOMAIN tree \ {Stage} : rank[m] < rank[tree[m].parent]

IsTree(tree) ==
    /\ Stage \in DOMAIN tree /\ Nothing \notin DOMAIN tree
    /\ tree[Stage].parent = Nothing
    /\ \A m \in DOMAIN tree \ {Stage} : tree[m].parent \in DOMAIN tree
    /\ \E top \in Nat : \E rank : Ranks(tree, top, rank)

\* What is true of the stage and passed on from parents to children is true of
\* all movies.
LEMMA TopDown ==
    ASSUME NEW tree, IsTree(tree), NEW R \in SUBSET DOMAIN tree, NEW S,
           \A m \in R \ {Stage} : tree[m].parent \in R,
           \A m \in R : m = Stage \/ tree[m].parent \in S => m \in S
    PROVE  R \subseteq S
<1>0. PICK top \in Nat : \E rank : Ranks(tree, top, rank)
  BY DEF IsTree
<1>1. PICK rank : Ranks(tree, top, rank)
  BY <1>0
<1> DEFINE K == {top - rank[m] : m \in R \ S}
<1>2. SUFFICES ASSUME R \ S # {} PROVE FALSE
  OBVIOUS
<1>3. \A m \in DOMAIN tree : rank[m] \in 0 .. top
  BY <1>1 DEF Ranks
<1>4. K \in SUBSET Nat /\ K # {}
  BY <1>2, <1>3
<1>5. PICK k \in K : \A i \in K : k <= i
  BY <1>4, Least
<1>6. PICK m \in R \ S : k = top - rank[m]
  OBVIOUS
<1>7. m # Stage /\ tree[m].parent \in R \ S
  OBVIOUS
<1>8. rank[m] < rank[tree[m].parent]
  BY <1>1, <1>7 DEF Ranks
<1>9. top - rank[tree[m].parent] \in K
  BY <1>7
<1>10. k <= top - rank[tree[m].parent]
  BY <1>5, <1>9
<1>11. rank[m] \in 0 .. top /\ rank[tree[m].parent] \in 0 .. top
  BY <1>3, <1>7
<1>12. QED
  BY <1>6, <1>8, <1>10, <1>11

LEMMA NotItsParent ==
    ASSUME NEW tree, IsTree(tree), NEW m \in DOMAIN tree, m # Stage
    PROVE  tree[m].parent # m
<1>0. PICK top \in Nat : \E rank : Ranks(tree, top, rank)
  BY DEF IsTree
<1>1. PICK rank : Ranks(tree, top, rank)
  BY <1>0
<1>2. rank[m] \in 0 .. top /\ rank[m] < rank[tree[m].parent]
  BY <1>1 DEF Ranks
<1>3. QED
  BY <1>2

\* The recursion of Above has a solution.
LEMMA AboveIs ==
    ASSUME NEW tree, IsTree(tree), NEW m \in DOMAIN tree
    PROVE  /\ Above(tree, m) \subseteq DOMAIN tree
           /\ m = Stage => Above(tree, m) = {Stage}
           /\ m # Stage => Above(tree, m) = {m} \cup Above(tree, tree[m].parent)
<1> DEFINE D == DOMAIN tree
           rec(f) == [x \in D |-> {x} \cup (IF tree[x].parent = Nothing THEN {}
                                            ELSE f[tree[x].parent])]
           above == CHOOSE f : f = rec(f)
           closed(K) == \A k \in K : tree[k].parent \in K \cup {Nothing}
           f0 == [x \in D |-> {y \in D : \A K \in SUBSET D : x \in K /\ closed(K) => y \in K}]
<1>1. \A x \in D : Above(tree, x) = above[x]
  BY DEF Above
<1>2. ASSUME NEW x \in D PROVE f0[x] = rec(f0)[x]
  <2>1. x \in f0[x]
    OBVIOUS
  <2>2. CASE tree[x].parent = Nothing
    <3>1. {x} \in SUBSET D /\ closed({x})
      BY <2>2
    <3>2. \A y \in f0[x] : y \in {x}
      BY <3>1
    <3>3. rec(f0)[x] = {x}
      BY <2>2
    <3>4. QED
      <4> HIDE DEF f0, rec
      <4>1. QED
        BY <2>1, <3>2, <3>3
  <2>3. CASE tree[x].parent # Nothing
    <3> DEFINE p == tree[x].parent
    <3>1. p \in D
      BY <2>3 DEF IsTree
    <3>2. f0[p] \subseteq D /\ p \in f0[p]
      BY <3>1
    <3>3. closed(f0[p])
      <4>1. SUFFICES ASSUME NEW k \in f0[p], tree[k].parent # Nothing
                     PROVE  tree[k].parent \in f0[p]
        OBVIOUS
      <4>2. k \in D /\ tree[k].parent \in D
        BY <3>1, <4>1 DEF IsTree
      <4>3. \A K \in SUBSET D : p \in K /\ closed(K) => tree[k].parent \in K
        BY <3>1, <4>1
      <4>4. QED
        BY <3>1, <4>2, <4>3
    <3>4. closed({x} \cup f0[p]) /\ {x} \cup f0[p] \in SUBSET D
      BY <3>2, <3>3
    <3>5. f0[x] \subseteq {x} \cup f0[p]
      <4> HIDE DEF closed
      <4>1. \A y \in f0[x] : y \in {x} \cup f0[p]
        <5> DEFINE K == {x} \cup f0[p]
        <5>1. K \in SUBSET D /\ x \in K /\ closed(K)
          BY <3>4
        <5> HIDE DEF K
        <5>2. \A y \in f0[x] : y \in K
          BY <5>1
        <5>3. QED
          BY <5>2 DEF K
      <4>2. QED
        BY <4>1
    <3>6. f0[p] \subseteq f0[x]
      <4>1. SUFFICES ASSUME NEW y \in f0[p], NEW K \in SUBSET D, x \in K, closed(K)
                     PROVE  y \in K
        BY <3>1
      <4>2. p \in K
        BY <2>3, <4>1
      <4>3. QED
        BY <3>1, <4>1, <4>2
    <3>7. rec(f0)[x] = {x} \cup f0[p]
      BY <2>3
    <3>8. QED
      <4> HIDE DEF f0, rec, p
      <4>1. QED
        BY <2>1, <3>5, <3>6, <3>7
  <2>4. QED
    BY <2>2, <2>3
<1>3. f0 = rec(f0)
  <2> DEFINE g == rec(f0)
  <2>1. f0 = [x \in D |-> f0[x]] /\ g = [x \in D |-> g[x]]
    OBVIOUS
  <2>2. \A x \in D : f0[x] = g[x]
    BY <1>2
  <2> HIDE DEF f0, g
  <2>3. f0 = g
    BY <2>1, <2>2
  <2>4. QED
    BY <2>3 DEF g
<1>4. above = rec(above)
  <2> HIDE DEF rec, f0
  <2>1. QED
    BY <1>3
<1> HIDE DEF above
<1>5. ASSUME NEW x \in D
      PROVE  above[x] = {x} \cup (IF tree[x].parent = Nothing THEN {} ELSE above[tree[x].parent])
  <2>1. rec(above)[x] = {x} \cup (IF tree[x].parent = Nothing THEN {} ELSE above[tree[x].parent])
    OBVIOUS
  <2> HIDE DEF rec
  <2>2. QED
    BY <1>4, <2>1
<1> HIDE DEF rec, f0
<1>6. above[Stage] = {Stage} /\ Stage \in D
  BY <1>5 DEF IsTree
<1>7. ASSUME NEW x \in D, x # Stage
      PROVE  tree[x].parent \in D /\ above[x] = {x} \cup above[tree[x].parent]
  BY <1>5, <1>7 DEF IsTree
<1>8. D \subseteq {x \in D : above[x] \subseteq D}
  <2> DEFINE S == {x \in D : above[x] \subseteq D}
  <2>1. \A x \in D \ {Stage} : tree[x].parent \in D
    BY <1>7
  <2>2. \A x \in D : x = Stage \/ tree[x].parent \in S => x \in S
    BY <1>6, <1>7
  <2> HIDE DEF S
  <2>3. D \subseteq S
    BY <2>1, <2>2, TopDown
  <2>4. QED
    BY <2>3 DEF S
<1>9. QED
  BY <1>1, <1>6, <1>7, <1>8

LEMMA AboveFacts ==
    ASSUME NEW tree, IsTree(tree), NEW m \in DOMAIN tree
    PROVE  /\ m \in Above(tree, m) /\ Stage \in Above(tree, m)
           /\ Above(tree, m) \subseteq DOMAIN tree
           /\ \A x \in Above(tree, m) : Above(tree, x) \subseteq Above(tree, m)
           /\ \A x \in Above(tree, m) \ {m} : m \notin Above(tree, x)
           /\ \A x, y \in Above(tree, m) : x \in Above(tree, y) \/ y \in Above(tree, x)
<1> DEFINE D == DOMAIN tree
           up(x) == Above(tree, x)
           S1 == {x \in D : Stage \in up(x)}
           S2 == {x \in D : \A y \in up(x) : up(y) \subseteq up(x)}
           S3 == {x \in D : \A y \in up(x) \ {x} : x \notin up(y)}
           S4 == {x \in D : \A y, z \in up(x) : y \in up(z) \/ z \in up(y)}
<1>1. \A x \in D \ {Stage} : tree[x].parent \in D /\ up(x) = {x} \cup up(tree[x].parent)
  BY AboveIs DEF IsTree
<1>2. up(Stage) = {Stage} /\ Stage \in D
  BY AboveIs DEF IsTree
<1>3. \A x \in D : x \in up(x) /\ up(x) \subseteq D
  BY <1>1, <1>2, AboveIs
<1>4. \A x \in D \ {Stage} : tree[x].parent # x
  BY NotItsParent
<1>5. \A x \in D \ {Stage} : tree[x].parent \in D
  BY <1>1
<1> HIDE DEF up
<1>6. D \subseteq S1
  <2>1. \A x \in D : x = Stage \/ tree[x].parent \in S1 => x \in S1
    BY <1>1, <1>2
  <2> HIDE DEF S1
  <2>2. QED
    BY <1>5, <2>1, TopDown
<1>7. D \subseteq S2
  <2>1. \A x \in D : x = Stage \/ tree[x].parent \in S2 => x \in S2
    BY <1>1, <1>2
  <2> HIDE DEF S2
  <2>2. QED
    BY <1>5, <2>1, TopDown
<1>8. D \subseteq S3
  <2>1. ASSUME NEW x \in D, x # Stage, tree[x].parent \in S3 PROVE x \in S3
    <3> DEFINE p == tree[x].parent
    <3>1. p \in D /\ up(x) = {x} \cup up(p) /\ p # x /\ p \in up(p)
      BY <1>1, <1>3, <1>4, <2>1
    <3>2. \A y \in up(p) \ {p} : p \notin up(y)
      BY <2>1
    <3>3. SUFFICES ASSUME NEW y \in up(x) \ {x}, x \in up(y) PROVE FALSE
      OBVIOUS
    <3>4. y \in up(p) /\ y \in D /\ up(y) \subseteq up(p)
      BY <1>3, <1>7, <3>1, <3>3
    <3>5. up(x) \subseteq up(y)
      BY <1>3, <1>7, <3>3, <3>4
    <3>6. x \in up(p) \ {p} /\ p \in up(x)
      BY <3>1, <3>3, <3>4
    <3>7. QED
      BY <3>2, <3>6
  <2>2. \A x \in D : x = Stage \/ tree[x].parent \in S3 => x \in S3
    BY <1>2, <2>1
  <2> HIDE DEF S3
  <2>3. QED
    BY <1>5, <2>2, TopDown
<1>9. D \subseteq S4
  <2>1. \A x \in D : x = Stage \/ tree[x].parent \in S4 => x \in S4
    BY <1>1, <1>2, <1>3
  <2> HIDE DEF S4
  <2>2. QED
    BY <1>5, <2>1, TopDown
<1>10. QED
  BY <1>3, <1>6, <1>7, <1>8, <1>9 DEF up

\* Two trees that agree on the parents of some movies and of all around those
\* agree on what is around them.
LEMMA AboveSame ==
    ASSUME NEW s, IsTree(s), NEW t, IsTree(t),
           NEW R \in SUBSET (DOMAIN s \cap DOMAIN t), Stage \in R,
           \A m \in R \ {Stage} : s[m].parent \in R /\ t[m].parent = s[m].parent
    PROVE  \A m \in R : Above(t, m) = Above(s, m) /\ Above(s, m) \subseteq R
<1> DEFINE S == {m \in R : Above(t, m) = Above(s, m) /\ Above(s, m) \subseteq R}
<1>1. \A m \in R \ {Stage} : s[m].parent \in R
  OBVIOUS
<1>2. Stage \in S
  <2>1. Above(s, Stage) = {Stage}
    BY AboveIs DEF IsTree
  <2>2. Above(t, Stage) = {Stage}
    BY AboveIs DEF IsTree
  <2>3. QED
    BY <2>1, <2>2
<1>3. ASSUME NEW m \in R \ {Stage}, s[m].parent \in S PROVE m \in S
  <2>1. Above(s, m) = {m} \cup Above(s, s[m].parent)
    BY AboveIs
  <2>2. Above(t, m) = {m} \cup Above(t, s[m].parent)
    BY AboveIs
  <2>3. QED
    BY <1>3, <2>1, <2>2
<1>4. \A m \in R : m = Stage \/ s[m].parent \in S => m \in S
  BY <1>2, <1>3
<1>5. R \in SUBSET DOMAIN s
  OBVIOUS
<1> HIDE DEF S
<1>6. R \subseteq S
  BY <1>1, <1>4, <1>5, TopDown
<1>7. QED
  BY <1>6 DEF S

\* What is left of a tree without some families: the rest of all around each
\* of its movies.
LEMMA FamilyFacts ==
    ASSUME NEW tree, IsTree(tree), NEW m \in DOMAIN tree
    PROVE  /\ m \in Family(tree, m) /\ Family(tree, m) \subseteq DOMAIN tree
           /\ Stage \in Family(tree, m) => m = Stage
           /\ \A c \in DOMAIN tree \ {Stage} :
                tree[c].parent \in Family(tree, m) => c \in Family(tree, m)
           /\ \A c \in DOMAIN tree \ Family(tree, m) : m \notin Above(tree, c)
<1>1. m \in Above(tree, m)
  BY AboveFacts
<1>2. Stage \in Family(tree, m) => m = Stage
  BY AboveIs DEF Family, IsTree
<1>3. \A c \in DOMAIN tree \ {Stage} : Above(tree, tree[c].parent) \subseteq Above(tree, c)
  BY AboveIs
<1>4. QED
  BY <1>1, <1>2, <1>3 DEF Family

-----------------------------------------------------------------------------
(* Drawing: trees with caches *)

MovieType ==
    [parent : Clips \cup {Stage, Nothing}, depth : Depths \cup {0}, offset : Nat,
     visible : BOOLEAN, drawn : SUBSET Int, draw_extents : SUBSET Int, extents : SUBSET Int,
     cache_state : {UpToDate, InvalidChildren, InvalidExtents}, invalidate_last : BOOLEAN]

TreeOK(tree) ==
    /\ DOMAIN tree \subseteq Clips \cup {Stage}
    /\ tree \in [DOMAIN tree -> MovieType]
    /\ IsTree(tree)
    /\ \A m \in DOMAIN tree : tree[m].drawn \subseteq tree[m].draw_extents

\* Around a movie that is out of date all are.
Nested(tree) ==
    \A m \in DOMAIN tree \ {Stage} :
      tree[m].cache_state # UpToDate => tree[tree[m].parent].cache_state # UpToDate

\* The extents of a movie cover what is in it unless it is known that they
\* have to be computed again; then what it covered has been reported.
Covers(tree, m) == Covered(tree, m) \subseteq tree[m].extents

CachesOK(tree) ==
    /\ Nested(tree)
    /\ \A m \in DOMAIN tree : tree[m].cache_state = InvalidExtents => tree[m].invalidate_last
    /\ \A m \in DOMAIN tree : tree[m].cache_state # InvalidExtents => Covers(tree, m)

\* What a movie looks like, but for where movies around it put it.
SameLooks(s, t, m) ==
    /\ t[m].parent = s[m].parent /\ t[m].depth = s[m].depth
    /\ t[m].offset = s[m].offset /\ t[m].visible = s[m].visible
    /\ t[m].drawn = s[m].drawn /\ t[m].draw_extents = s[m].draw_extents

LEMMA RectFacts ==
    ASSUME NEW points \in SUBSET Int
    PROVE  Rect(points) \in SUBSET Int /\ points \subseteq Rect(points)
<1>1. \A a \in points : a \in a .. a
  OBVIOUS
<1>2. \A a, b \in points : a .. b \in SUBSET Int
  OBVIOUS
<1>3. QED
  BY <1>1, <1>2 DEF Rect

LEMMA ShiftFacts ==
    ASSUME NEW points \in SUBSET Int, NEW d \in Int
    PROVE  Shift(points, d) \in SUBSET Int
BY DEF Shift

LEMMA ShiftGrows ==
    ASSUME NEW S, NEW T, S \subseteq T, NEW d
    PROVE  Shift(S, d) \subseteq Shift(T, d)
BY DEF Shift

\* A movie covers no more if its children cover no more.
LEMMA CoveredGrows ==
    ASSUME NEW s, NEW t, NEW m,
           t[m].draw_extents = s[m].draw_extents, t[m].offset = s[m].offset,
           \A c \in Children(t, m) : \/ t[c].extents = {}
                                     \/ c \in Children(s, m) /\ t[c].extents \subseteq s[c].extents
    PROVE  Covered(t, m) \subseteq Covered(s, m)
<1> DEFINE S == s[m].draw_extents \cup UNION {s[c].extents : c \in Children(s, m)}
           T == t[m].draw_extents \cup UNION {t[c].extents : c \in Children(t, m)}
<1>1. ASSUME NEW p \in T PROVE p \in S
  <2>1. CASE p \in t[m].draw_extents
    BY <2>1
  <2>2. CASE \E c \in Children(t, m) : p \in t[c].extents
    BY <2>2
  <2>3. QED
    BY <2>1, <2>2
<1>2. Covered(t, m) = Shift(T, s[m].offset) /\ Covered(s, m) = Shift(S, s[m].offset)
  BY DEF Covered
<1> HIDE DEF S, T
<1>3. QED
  BY <1>1, <1>2, ShiftGrows

\* swfdec_movie_queue_update changes the states only, and as far up as needed.
LEMMA QueueUpdateFacts ==
    ASSUME NEW tree, TreeOK(tree), NEW m \in DOMAIN tree,
           NEW state \in {InvalidChildren, InvalidExtents}
    PROVE  LET q == QueueUpdate(tree, m, state)
           IN  /\ DOMAIN q = DOMAIN tree /\ q \in [DOMAIN tree -> MovieType]
               /\ \A c \in DOMAIN tree :
                    /\ SameLooks(tree, q, c)
                    /\ q[c].extents = tree[c].extents
                    /\ q[c].invalidate_last = tree[c].invalidate_last
               /\ q[m].cache_state = state \/ q[m].cache_state = tree[m].cache_state
               /\ state = InvalidExtents => q[m].cache_state = InvalidExtents
               /\ tree[m].cache_state = InvalidExtents => q[m].cache_state = InvalidExtents
               /\ q[m].cache_state # UpToDate
               /\ \A c \in DOMAIN tree \ {m} :
                    q[c].cache_state = InvalidExtents <=> tree[c].cache_state = InvalidExtents
               /\ Nested(tree) => Nested(q)
<1> DEFINE q == QueueUpdate(tree, m, state)
           D == DOMAIN tree
           climbed == Climbed(tree, m)
           f(c) == CASE c = m -> [tree[c] EXCEPT !.cache_state = state]
                     [] c \in climbed -> [tree[c] EXCEPT !.cache_state = InvalidChildren]
                     [] OTHER -> tree[c]
<1>1. /\ UpToDate = 0 /\ InvalidChildren = 1 /\ InvalidExtents = 2
      /\ \A c \in D : tree[c] \in MovieType
      /\ IsTree(tree)
  BY DEF UpToDate, InvalidChildren, InvalidExtents, TreeOK
<1>2. tree[m].cache_state \in 0 .. 2 /\ state \in 1 .. 2
  BY <1>1 DEF MovieType
<1>3. CASE tree[m].cache_state >= state
  <2>1. q = tree
    BY <1>3 DEF QueueUpdate
  <2>2. tree \in [DOMAIN tree -> MovieType]
    BY DEF TreeOK
  <2>3. state = InvalidExtents => tree[m].cache_state = InvalidExtents
    BY <1>1, <1>2, <1>3
  <2>4. tree[m].cache_state # UpToDate
    BY <1>1, <1>2, <1>3
  <2> HIDE DEF q
  <2>5. QED
    BY <2>1, <2>2, <2>3, <2>4 DEF SameLooks, q
<1>4. CASE ~(tree[m].cache_state >= state)
  <2>1. q = [c \in D |-> f(c)]
    BY <1>4 DEF QueueUpdate
  <2>2. ASSUME NEW c \in D
        PROVE  /\ f(c) \in MovieType
               /\ f(c).parent = tree[c].parent /\ f(c).depth = tree[c].depth
               /\ f(c).offset = tree[c].offset /\ f(c).visible = tree[c].visible
               /\ f(c).drawn = tree[c].drawn /\ f(c).draw_extents = tree[c].draw_extents
               /\ f(c).extents = tree[c].extents
               /\ f(c).invalidate_last = tree[c].invalidate_last
               /\ f(c).cache_state = IF c = m THEN state
                                     ELSE IF c \in climbed THEN InvalidChildren
                                     ELSE tree[c].cache_state
    <3> DEFINE r == tree[c]
    <3>1. r \in MovieType /\ m \notin climbed
      BY <1>1 DEF Climbed
    <3> HIDE DEF r, climbed
    <3>2. CASE c = m
      <4>1. f(c) = [r EXCEPT !.cache_state = state]
        BY <3>1, <3>2 DEF r
      <4>2. QED
        BY <3>1, <3>2, <4>1 DEF MovieType, r
    <3>3. CASE c # m /\ c \in climbed
      <4>1. f(c) = [r EXCEPT !.cache_state = InvalidChildren]
        BY <3>3 DEF r
      <4>2. QED
        BY <3>1, <3>3, <4>1 DEF MovieType, r
    <3>4. CASE c # m /\ c \notin climbed
      <4>1. f(c) = r
        BY <3>4 DEF r
      <4>2. QED
        BY <3>1, <3>4, <4>1 DEF MovieType, r
    <3>5. QED
      BY <3>2, <3>3, <3>4
  <2> HIDE DEF f, q
  <2>3. /\ DOMAIN q = D /\ q \in [D -> MovieType]
        /\ \A c \in D : SameLooks(tree, q, c) /\ q[c].extents = tree[c].extents
                        /\ q[c].invalidate_last = tree[c].invalidate_last
        /\ \A c \in D : q[c].cache_state = IF c = m THEN state
                                           ELSE IF c \in climbed THEN InvalidChildren
                                           ELSE tree[c].cache_state
    BY <2>1, <2>2 DEF SameLooks
  <2>4. ASSUME Nested(tree) PROVE Nested(q)
    <3> DEFINE up(x) == Above(tree, x)
               old(x) == tree[x].cache_state
               new(x) == q[x].cache_state
    <3>1. \A x \in D : /\ new(x) = IF x = m THEN state
                                   ELSE IF x \in climbed THEN InvalidChildren ELSE old(x)
                       /\ q[x].parent = tree[x].parent
      BY <2>3 DEF SameLooks
    <3>2. \A x \in D : x \in climbed <=> /\ x \in up(m) /\ x # m
                                         /\ \A y \in up(m) : x \in up(y) /\ y # m => old(y) = UpToDate
      <4>1. up(m) \subseteq D
        BY <1>1, AboveFacts
      <4>2. QED
        BY <4>1 DEF Climbed, Way, Family
    <3>3. \A x \in D \ {Stage} : up(x) = {x} \cup up(tree[x].parent) /\ tree[x].parent \in D
      BY <1>1, AboveIs DEF IsTree
    <3>4. /\ \A x \in D : x \in up(x) /\ up(x) \subseteq D
          /\ \A x \in D : \A y \in up(x) \ {x} : x \notin up(y)
          /\ \A x, y \in up(m) : x \in up(y) \/ y \in up(x)
          /\ \A x \in up(m) : up(x) \subseteq up(m)
      BY <1>1, AboveFacts
    <3>5. \A x \in D \ {Stage} : old(x) # UpToDate => old(tree[x].parent) # UpToDate
      BY <2>4 DEF Nested
    <3> HIDE DEF climbed, up, old, new
    <3>6. ASSUME NEW c \in D \ {Stage}, new(c) # UpToDate, new(tree[c].parent) = UpToDate
          PROVE  FALSE
      <4> DEFINE p == tree[c].parent
      <4>1. p \in D /\ p \in up(c) /\ up(c) = {c} \cup up(p) /\ p \in up(p)
        BY <3>3, <3>4
      <4>2. p # m /\ p \notin climbed /\ old(p) = UpToDate
        <5>1. new(p) = UpToDate
          BY <3>6
        <5>2. state # UpToDate /\ InvalidChildren # UpToDate
          BY <1>1, <1>2
        <5>3. new(p) = IF p = m THEN state ELSE IF p \in climbed THEN InvalidChildren ELSE old(p)
          BY <3>1, <4>1
        <5>4. QED
          BY <5>1, <5>2, <5>3
      <4>3. old(c) = UpToDate
        BY <3>5, <4>2
      <4>4. c = m \/ c \in climbed
        BY <3>1, <3>6, <4>3
      <4>5. p \in up(m)
        BY <3>2, <3>4, <4>1, <4>4
      <4>6. PICK y \in up(m) : p \in up(y) /\ y # m /\ old(y) # UpToDate
        BY <3>2, <4>1, <4>2, <4>5
      <4> HIDE DEF p
      <4>7. y \in up(p) => y = p
        BY <3>4, <4>1, <4>6
      <4>8. y \notin up(p)
        BY <4>2, <4>6, <4>7
      <4>9. CASE c = m
        BY <4>1, <4>6, <4>8, <4>9
      <4>10. CASE c # m /\ c \in climbed
        <5>1. c \in up(m) /\ (c \in up(y) \/ y \in up(c))
          BY <3>2, <3>4, <4>6, <4>10
        <5>2. y \in up(c) => y = c
          BY <4>1, <4>8
        <5>3. c \notin up(y)
          BY <3>2, <4>6, <4>10
        <5>4. QED
          BY <4>3, <4>6, <5>1, <5>2, <5>3
      <4>11. QED
        BY <4>4, <4>9, <4>10
    <3>7. \A c \in D \ {Stage} : new(c) # UpToDate => new(tree[c].parent) # UpToDate
      BY <3>6
    <3>8. QED
      BY <2>3, <3>1, <3>7 DEF Nested, new
  <2>5. /\ state = InvalidExtents => q[m].cache_state = InvalidExtents
        /\ q[m].cache_state = state /\ q[m].cache_state # UpToDate
        /\ tree[m].cache_state # InvalidExtents
    BY <1>1, <1>2, <1>4, <2>3
  <2>6. ASSUME NEW c \in D \ {m}
        PROVE  q[c].cache_state = InvalidExtents <=> tree[c].cache_state = InvalidExtents
    <3>1. q[c].cache_state = IF c \in climbed THEN InvalidChildren ELSE tree[c].cache_state
      BY <2>3
    <3>2. c \in climbed => tree[c].cache_state = UpToDate
      <4>1. ASSUME c \in climbed PROVE c \in Way(tree, c, m) \ {m}
        BY <1>1, <4>1, AboveFacts DEF Climbed, Way, Family
      <4>2. QED
        BY <4>1 DEF Climbed
    <3> HIDE DEF q, climbed
    <3>3. QED
      BY <1>1, <3>1, <3>2
  <2>7. QED
    BY <2>3, <2>4, <2>5, <2>6 DEF q
<1>5. QED
  BY <1>3, <1>4

-----------------------------------------------------------------------------
(* Drawing: pictures *)

Reported(tree) == {m \in DOMAIN tree : tree[m].invalidate_last}

\* The movies that have not changed since the screen was drawn: neither they
\* nor any movie around them is pending.
Clean(tree, waiting) == {m \in DOMAIN tree : Above(tree, m) \cap waiting = {}}

CleanPicture(tree, waiting, p) ==
    {pair \in Picture(tree, p) : pair[1] \in Clean(tree, waiting) /\ pair[2] \in Clean(tree, waiting)}

LEMMA OriginSame ==
    ASSUME NEW s, NEW t, NEW m, Above(t, m) = Above(s, m),
           \A a \in Above(s, m) : t[a].offset = s[a].offset
    PROVE  Origin(t, m) = Origin(s, m)
<1>1. [a \in Above(t, m) |-> t[a].offset] = [a \in Above(s, m) |-> s[a].offset]
  OBVIOUS
<1>2. QED
  BY <1>1 DEF Origin

\* Some families G of a tree change or go, and what they covered is not at p.
ChangeElsewhere(s, P, t, Q, G, p) ==
    /\ G \subseteq DOMAIN s /\ p \in Points
    /\ \A c \in DOMAIN s \ {Stage} : s[c].parent \in G => c \in G
    /\ \A c \in DOMAIN s \ G : c \in DOMAIN t /\ SameLooks(s, t, c) /\ (c \in Q <=> c \in P)
    /\ \A c \in DOMAIN t : c \in Clean(t, Q) => c \in DOMAIN s \ G
    /\ \A c \in G \cap Clean(s, P) : p \notin Area(s, c)

\* Then what all others show there stays.
LEMMA PictureKept ==
    ASSUME NEW s, TreeOK(s), NEW t, TreeOK(t), NEW P, NEW Q, NEW G, NEW p,
           ChangeElsewhere(s, P, t, Q, G, p)
    PROVE  CleanPicture(t, Q, p) = CleanPicture(s, P, p)
<1> DEFINE R == DOMAIN s \ G
           C == Clean(s, P)
           E == Clean(t, Q)
<1>0. /\ G \subseteq DOMAIN s /\ p \in Points
      /\ \A c \in DOMAIN s \ {Stage} : s[c].parent \in G => c \in G
      /\ \A c \in DOMAIN s \ G : c \in DOMAIN t /\ SameLooks(s, t, c) /\ (c \in Q <=> c \in P)
      /\ \A c \in DOMAIN t : c \in Clean(t, Q) => c \in DOMAIN s \ G
      /\ \A c \in G \cap Clean(s, P) : p \notin Area(s, c)
  BY DEF ChangeElsewhere
<1>1. IsTree(s) /\ IsTree(t) /\ \A m \in DOMAIN s : s[m].drawn \subseteq s[m].draw_extents
  BY DEF TreeOK
<1>2. \A m \in R : Above(t, m) = Above(s, m) /\ Above(s, m) \subseteq R
  <2>1. CASE Stage \in G
    <3>1. \A m \in DOMAIN s : m = Stage \/ s[m].parent \in G => m \in G
      BY <1>0, <2>1
    <3>2. \A m \in DOMAIN s \ {Stage} : s[m].parent \in DOMAIN s
      BY <1>1 DEF IsTree
    <3>3. DOMAIN s \subseteq G
      BY <1>1, <3>1, <3>2, TopDown
    <3>4. QED
      BY <3>3
  <2>2. CASE Stage \notin G
    <3>1. Stage \in R
      BY <1>1, <2>2 DEF IsTree
    <3>2. \A m \in R \ {Stage} : s[m].parent \in R /\ t[m].parent = s[m].parent
      BY <1>0, <1>1 DEF IsTree, SameLooks
    <3>3. R \in SUBSET (DOMAIN s \cap DOMAIN t)
      BY <1>0
    <3> HIDE DEF R
    <3>4. QED
      BY <1>1, <3>1, <3>2, <3>3, AboveSame
  <2>3. QED
    BY <2>1, <2>2
<1>3. \A m \in R : SameLooks(s, t, m) /\ m \in DOMAIN t /\ m \in DOMAIN s
  BY <1>0
<1>4. E = C \cap R
  <2>1. \A m \in R : Above(s, m) \cap Q = Above(s, m) \cap P
    BY <1>0, <1>2
  <2>2. \A m \in R : m \in E <=> m \in C
    BY <1>2, <1>3, <2>1 DEF Clean
  <2>3. E \subseteq R
    BY <1>0 DEF Clean
  <2>4. QED
    BY <2>2, <2>3
<1>5. \A m \in R : Origin(t, m) = Origin(s, m)
  <2>1. ASSUME NEW m \in R PROVE Origin(t, m) = Origin(s, m)
    <3>1. Above(t, m) = Above(s, m) /\ \A a \in Above(s, m) : t[a].offset = s[a].offset
      BY <1>2, <1>3 DEF SameLooks
    <3>2. QED
      BY <3>1, OriginSame
  <2>2. QED
    BY <2>1
<1>6. \A m \in R : m \in Seen(t, p) <=> m \in Seen(s, p)
  BY <1>2, <1>3, <1>5 DEF Seen, SameLooks
<1>7. \A m \in G \cap C : m \notin Seen(s, p)
  <2>1. SUFFICES ASSUME NEW m \in G \cap C, m \in Seen(s, p) PROVE FALSE
    OBVIOUS
  <2>2. p \in Shift(s[m].drawn, Origin(s, m))
    BY <2>1 DEF Seen
  <2>3. s[m].drawn \subseteq s[m].draw_extents
    BY <1>0, <1>1
  <2>4. p \in Shift(s[m].draw_extents, Origin(s, m))
    BY <2>2, <2>3, ShiftGrows
  <2>5. p \in Area(s, m)
    BY <1>0, <2>4 DEF Area
  <2>6. QED
    BY <1>0, <2>5
<1>8. \A m, n \in R : Beneath(t, m, n) <=> Beneath(s, m, n)
  <2> HIDE DEF R
  <2>1. QED
    BY <1>2, <1>3 DEF Beneath, SameLooks
<1> HIDE DEF R, C, E
<1>9. Seen(t, p) \cap E = Seen(s, p) \cap C
  <2>1. C \subseteq DOMAIN s /\ \A m \in C : m \in R \/ m \in G
    BY DEF C, R, Clean
  <2>2. QED
    BY <1>4, <1>6, <1>7, <2>1
<1>10. Seen(s, p) \cap C \subseteq R
  BY <1>4, <1>9
<1>11. CleanPicture(t, Q, p) = {pair \in (Seen(t, p) \cap E) \X (Seen(t, p) \cap E) :
                                  Beneath(t, pair[1], pair[2])}
  BY DEF CleanPicture, Picture, E
<1>12. CleanPicture(s, P, p) = {pair \in (Seen(s, p) \cap C) \X (Seen(s, p) \cap C) :
                                  Beneath(s, pair[1], pair[2])}
  BY DEF CleanPicture, Picture, C
<1> DEFINE V == Seen(s, p) \cap C
<1>13. \A pair \in V \X V : Beneath(t, pair[1], pair[2]) <=> Beneath(s, pair[1], pair[2])
  BY <1>8, <1>10
<1> HIDE DEF V
<1>14. /\ CleanPicture(t, Q, p) = {pair \in V \X V : Beneath(t, pair[1], pair[2])}
       /\ CleanPicture(s, P, p) = {pair \in V \X V : Beneath(s, pair[1], pair[2])}
  BY <1>9, <1>11, <1>12 DEF V
<1>15. QED
  BY <1>13, <1>14

LEMMA FreshFacts ==
    ASSUME NEW tree, IsTree(tree), NEW m \in DOMAIN tree
    PROVE  /\ Fresh(tree, m) \subseteq Family(tree, m)
           /\ \A c \in Fresh(tree, m) : ~ tree[c].invalidate_last
           /\ m \in Fresh(tree, m) \/ tree[m].invalidate_last
           /\ Family(tree, m) \cap Clean(tree, Reported(tree)) \subseteq Fresh(tree, m)
<1>1. \A c \in Family(tree, m) : c \in Way(tree, m, c)
  BY AboveFacts DEF Way, Family
<1>2. m \in Family(tree, m) /\ \A x \in Way(tree, m, m) : x = m
  BY AboveFacts DEF Way, Family
<1>3. ASSUME NEW c \in Family(tree, m) \cap Clean(tree, Reported(tree)), NEW x \in Way(tree, m, c)
      PROVE  ~ tree[x].invalidate_last
  BY <1>3 DEF Clean, Reported, Way, Family
<1>4. QED
  BY <1>1, <1>2, <1>3 DEF Fresh

-----------------------------------------------------------------------------
(* Drawing: what scripts do *)

DrawingOK(tree, waiting, points, shown) ==
    /\ TreeOK(tree) /\ CachesOK(tree)
    /\ waiting = Reported(tree)
    /\ \A p \in Points \ points : shown[p] = CleanPicture(tree, waiting, p)

LEMMA TreeSame ==
    ASSUME NEW s, IsTree(s), NEW t, DOMAIN t = DOMAIN s,
           \A m \in DOMAIN s : t[m].parent = s[m].parent
    PROVE  /\ IsTree(t)
           /\ \A m \in DOMAIN s : Above(t, m) = Above(s, m)
           /\ \A m \in DOMAIN s : Children(t, m) = Children(s, m)
<1>1. PICK top \in Nat : \E rank : Ranks(s, top, rank)
  BY DEF IsTree
<1>2. PICK rank : Ranks(s, top, rank)
  BY <1>1
<1>3. Ranks(t, top, rank)
  BY <1>2 DEF Ranks, IsTree
<1>4. IsTree(t)
  BY <1>3 DEF IsTree
<1>5. \A m \in DOMAIN s : Above(t, m) = Above(s, m)
  <2> DEFINE R == DOMAIN s
  <2>1. R \in SUBSET (DOMAIN s \cap DOMAIN t) /\ Stage \in R
    BY DEF IsTree
  <2>2. \A m \in R \ {Stage} : s[m].parent \in R /\ t[m].parent = s[m].parent
    BY DEF IsTree
  <2>3. QED
    BY <1>4, <2>1, <2>2, AboveSame
<1>6. QED
  BY <1>4, <1>5 DEF Children

\* A tree in which some movies were changed, and these and all in them marked.
\* Those whose extents may be wrong are invalid.
ChangedIn(s, ms, fresh, t) ==
    /\ ms \subseteq DOMAIN s /\ fresh = UNION {Fresh(s, m) : m \in ms}
    /\ t \in [DOMAIN s -> MovieType] /\ Nested(t)
    /\ \A c \in DOMAIN s :
         /\ t[c].parent = s[c].parent /\ t[c].extents = s[c].extents
         /\ t[c].invalidate_last <=> (s[c].invalidate_last \/ c \in fresh)
         /\ t[c].drawn \subseteq t[c].draw_extents
    /\ \A c \in DOMAIN s \ ms :
         /\ SameLooks(s, t, c)
         /\ t[c].cache_state = InvalidExtents <=> s[c].cache_state = InvalidExtents
    /\ \A c \in ms : \/ t[c].cache_state = InvalidExtents
                     \/ /\ s[c].cache_state # InvalidExtents
                        /\ t[c].offset = s[c].offset /\ t[c].draw_extents = s[c].draw_extents

\* Scripts change some movies: what these and all in them covered is reported,
\* if it is not already, and those whose extents may be wrong are queued.
LEMMA ChangeKeeps ==
    ASSUME NEW s, NEW P, NEW I, NEW shown, DrawingOK(s, P, I, shown),
           NEW ms, NEW fresh, NEW t, ChangedIn(s, ms, fresh, t)
    PROVE  DrawingOK(t, P \cup fresh, I \cup UNION {Area(s, c) : c \in fresh}, shown)
<1> DEFINE Q == P \cup fresh
           J == I \cup UNION {Area(s, c) : c \in fresh}
           D == DOMAIN s
           G == UNION {Family(s, m) : m \in ms}
<1>0. /\ ms \subseteq DOMAIN s /\ fresh = UNION {Fresh(s, m) : m \in ms}
      /\ t \in [DOMAIN s -> MovieType] /\ Nested(t)
      /\ \A c \in DOMAIN s :
           /\ t[c].parent = s[c].parent /\ t[c].extents = s[c].extents
           /\ t[c].invalidate_last <=> (s[c].invalidate_last \/ c \in fresh)
           /\ t[c].drawn \subseteq t[c].draw_extents
      /\ \A c \in DOMAIN s \ ms :
           /\ SameLooks(s, t, c)
           /\ t[c].cache_state = InvalidExtents <=> s[c].cache_state = InvalidExtents
      /\ \A c \in ms : \/ t[c].cache_state = InvalidExtents
                       \/ /\ s[c].cache_state # InvalidExtents
                          /\ t[c].offset = s[c].offset /\ t[c].draw_extents = s[c].draw_extents
  BY DEF ChangedIn
<1> USE <1>0
<1>1. TreeOK(s) /\ CachesOK(s) /\ P = Reported(s) /\ IsTree(s) /\ DOMAIN t = D
  BY DEF DrawingOK, TreeOK
<1>2. IsTree(t) /\ \A m \in D : Above(t, m) = Above(s, m) /\ Children(t, m) = Children(s, m)
  BY <1>1, TreeSame
<1>3. TreeOK(t)
  BY <1>1, <1>2 DEF TreeOK
<1>4. \A m \in ms : m \in Q
  <2>1. \A m \in ms : m \in Fresh(s, m) \/ s[m].invalidate_last
    BY <1>1, FreshFacts
  <2>2. QED
    BY <1>1, <2>1 DEF Reported
<1>5. fresh \subseteq G /\ G \subseteq D
  <2>1. \A m \in ms : Fresh(s, m) \subseteq Family(s, m) /\ Family(s, m) \subseteq D
    BY <1>1, FreshFacts, FamilyFacts
  <2>2. QED
    BY <2>1
<1>6. Q = Reported(t)
  BY <1>1, <1>5 DEF Reported
<1>7. CachesOK(t)
  <2>1. ASSUME NEW m \in D, t[m].cache_state = InvalidExtents PROVE t[m].invalidate_last
    <3>1. CASE m \in ms
      BY <1>4, <1>6, <3>1 DEF Reported
    <3>2. CASE m \notin ms
      BY <1>1, <2>1, <3>2 DEF CachesOK
    <3>3. QED
      BY <3>1, <3>2
  <2>2. ASSUME NEW m \in D, t[m].cache_state # InvalidExtents PROVE Covers(t, m)
    <3>1. /\ s[m].cache_state # InvalidExtents
          /\ t[m].offset = s[m].offset /\ t[m].draw_extents = s[m].draw_extents
      BY <2>2 DEF SameLooks
    <3>2. Covered(s, m) \subseteq s[m].extents
      BY <1>1, <3>1 DEF CachesOK, Covers
    <3>3. \A c \in Children(t, m) : c \in Children(s, m) /\ t[c].extents = s[c].extents
      BY <1>2 DEF Children
    <3>4. Covered(t, m) \subseteq Covered(s, m)
      BY <3>1, <3>3, CoveredGrows
    <3>5. QED
      BY <3>2, <3>4 DEF Covers
  <2>3. QED
    BY <1>1, <2>1, <2>2 DEF CachesOK
<1>8. ASSUME NEW p \in Points \ J PROVE shown[p] = CleanPicture(t, Q, p)
  <2>1. shown[p] = CleanPicture(s, P, p)
    BY DEF DrawingOK
  <2>2. \A c \in D \ {Stage} : s[c].parent \in G => c \in G
    <3>1. \A m \in ms : \A c \in D \ {Stage} : s[c].parent \in Family(s, m) => c \in Family(s, m)
      BY <1>1, FamilyFacts
    <3>2. QED
      BY <3>1
  <2>3. \A c \in D \ G : c \in DOMAIN t /\ SameLooks(s, t, c) /\ (c \in Q <=> c \in P)
    <3>1. ms \subseteq G
      BY <1>1, FamilyFacts
    <3>2. QED
      BY <1>1, <1>5, <3>1
  <2>4. ASSUME NEW c \in DOMAIN t, c \in Clean(t, Q) PROVE c \in D \ G
    <3>1. SUFFICES ASSUME NEW m \in ms, c \in Family(s, m) PROVE FALSE
      BY <1>1
    <3>2. m \in Above(t, c)
      BY <1>1, <1>2, <3>1 DEF Family
    <3>3. QED
      BY <1>4, <2>4, <3>2 DEF Clean
  <2>5. ASSUME NEW c \in G \cap Clean(s, P) PROVE p \notin Area(s, c)
    <3>1. PICK m \in ms : c \in Family(s, m)
      OBVIOUS
    <3>2. c \in Fresh(s, m)
      BY <1>1, <3>1, FreshFacts
    <3>3. c \in fresh
      BY <3>2
    <3>4. QED
      BY <3>3
  <2>6. G \in SUBSET DOMAIN s /\ p \in Points
    BY <1>5
  <2> HIDE DEF G, Q, J
  <2>7. CleanPicture(t, Q, p) = CleanPicture(s, P, p)
    <3>1. ChangeElsewhere(s, P, t, Q, G, p)
      BY <2>2, <2>3, <2>4, <2>5, <2>6 DEF ChangeElsewhere
    <3>2. QED
      BY <1>1, <1>3, <3>1, PictureKept
  <2>8. QED
    BY <2>1, <2>7
<1>9. QED
  BY <1>3, <1>6, <1>7, <1>8 DEF DrawingOK

Leaving(s, gone) == [c \in DOMAIN s \ UNION {Family(s, m) : m \in gone} |-> s[c]]

Vacated(s, gone) == UNION {UNION {Area(s, c) : c \in Fresh(s, m)} : m \in gone}

\* Movies go with all that is in them.
LEMMA RemoveKeeps ==
    ASSUME NEW s, NEW P, NEW I, NEW shown, DrawingOK(s, P, I, shown),
           NEW gone \in SUBSET (DOMAIN s \ {Stage}), NEW t,
           t = Leaving(s, gone)
    PROVE  DrawingOK(t, P \cap DOMAIN t, I \cup Vacated(s, gone), shown)
<1> DEFINE D == DOMAIN s
           G == UNION {Family(s, m) : m \in gone}
           Q == P \cap DOMAIN t
           J == I \cup Vacated(s, gone)
<1>1. TreeOK(s) /\ CachesOK(s) /\ P = Reported(s) /\ IsTree(s)
  BY DEF DrawingOK, TreeOK
<1>2. DOMAIN t = D \ G /\ \A c \in D \ G : t[c] = s[c]
  BY DEF Leaving
<1>3. G \subseteq D /\ Stage \in D \ G /\ \A c \in D \ {Stage} : s[c].parent \in G => c \in G
  <2>1. \A m \in gone : /\ Family(s, m) \subseteq D /\ Stage \notin Family(s, m)
                        /\ \A c \in D \ {Stage} : s[c].parent \in Family(s, m) => c \in Family(s, m)
    BY <1>1, FamilyFacts
  <2>2. Stage \in D
    BY <1>1 DEF IsTree
  <2>3. QED
    BY <2>1, <2>2
<1> HIDE DEF G
<1>4. IsTree(t)
  <2>1. PICK top \in Nat : \E rank : Ranks(s, top, rank)
    BY <1>1 DEF IsTree
  <2>2. PICK rank : Ranks(s, top, rank)
    BY <2>1
  <2> DEFINE left == [c \in D \ G |-> rank[c]]
  <2>3. \A m \in (D \ G) \ {Stage} : t[m].parent \in D \ G /\ t[m].parent = s[m].parent
    BY <1>1, <1>2, <1>3 DEF IsTree
  <2>4. left \in [D \ G -> 0 .. top]
    BY <2>2 DEF Ranks
  <2>5. \A m \in (D \ G) \ {Stage} : left[m] < left[t[m].parent]
    BY <2>2, <2>3 DEF Ranks
  <2> HIDE DEF left
  <2>6. Ranks(t, top, left)
    BY <1>2, <2>4, <2>5 DEF Ranks
  <2>7. QED
    BY <1>1, <1>2, <1>3, <2>3, <2>6 DEF IsTree
<1>5. TreeOK(t)
  <2>1. \A c \in D \ G : s[c] \in MovieType
    BY <1>1 DEF TreeOK
  <2>2. t = [c \in D \ G |-> s[c]]
    BY DEF Leaving, G
  <2>3. t \in [D \ G -> MovieType]
    BY <2>1, <2>2
  <2>4. QED
    BY <1>1, <1>2, <1>4, <2>3 DEF TreeOK
<1>6. Q = Reported(t)
  BY <1>1, <1>2 DEF Reported
<1>7. CachesOK(t)
  <2>1. \A m \in (D \ G) \ {Stage} : t[m].parent \in D \ G /\ t[m].parent = s[m].parent
    BY <1>1, <1>2, <1>3 DEF IsTree
  <2>2. Nested(t)
    BY <1>1, <1>2, <2>1 DEF CachesOK, Nested
  <2>3. ASSUME NEW m \in D \ G, t[m].cache_state # InvalidExtents PROVE Covers(t, m)
    <3>1. t[m] = s[m] /\ s[m].cache_state # InvalidExtents /\ m \in D
      BY <1>2, <2>3
    <3>2. Covered(s, m) \subseteq s[m].extents
      BY <1>1, <3>1 DEF CachesOK, Covers
    <3>3. \A c \in Children(t, m) : c \in Children(s, m) /\ t[c].extents \subseteq s[c].extents
      BY <1>2 DEF Children
    <3>4. Covered(t, m) \subseteq Covered(s, m)
      BY <3>1, <3>3, CoveredGrows
    <3>5. QED
      BY <3>1, <3>2, <3>4 DEF Covers
  <2>4. \A m \in D \ G : t[m].cache_state = InvalidExtents => t[m].invalidate_last
    BY <1>1, <1>2 DEF CachesOK
  <2>5. QED
    BY <1>2, <2>2, <2>3, <2>4 DEF CachesOK
<1>8. ASSUME NEW p \in Points \ J PROVE shown[p] = CleanPicture(t, Q, p)
  <2>1. shown[p] = CleanPicture(s, P, p)
    BY DEF DrawingOK
  <2>2. \A c \in D \ G : c \in DOMAIN t /\ SameLooks(s, t, c) /\ (c \in Q <=> c \in P)
    BY <1>2 DEF SameLooks
  <2>3. \A c \in DOMAIN t : c \in Clean(t, Q) => c \in D \ G
    BY <1>2
  <2>4. ASSUME NEW c \in G \cap Clean(s, P) PROVE p \notin Area(s, c)
    <3>1. PICK m \in gone : c \in Family(s, m)
      BY DEF G
    <3>2. c \in Fresh(s, m)
      BY <1>1, <3>1, FreshFacts
    <3>3. QED
      BY <3>2 DEF Vacated
  <2>5. p \in Points
    OBVIOUS
  <2> HIDE DEF Q, J
  <2>6. ChangeElsewhere(s, P, t, Q, G, p)
    BY <1>3, <2>2, <2>3, <2>4, <2>5 DEF ChangeElsewhere
  <2>7. QED
    BY <1>1, <1>5, <2>1, <2>6, PictureKept
<1>9. QED
  BY <1>5, <1>6, <1>7, <1>8 DEF DrawingOK

\* A new movie is pending, and all around it is queued.
LEMMA AddKeeps ==
    ASSUME NEW s, NEW P, NEW I, NEW shown, DrawingOK(s, P, I, shown),
           NEW parent \in DOMAIN s, NEW m \in Clips \ DOMAIN s, NEW depth \in Depths,
           NEW q, q = QueueUpdate(s, parent, InvalidChildren),
           NEW t, t = [c \in DOMAIN q \cup {m} |-> IF c = m THEN NewMovie(parent, depth) ELSE q[c]]
    PROVE  DrawingOK(t, P \cup {m}, I, shown)
<1> DEFINE D == DOMAIN s
<1>1. TreeOK(s) /\ CachesOK(s) /\ P = Reported(s) /\ IsTree(s)
  BY DEF DrawingOK, TreeOK
<1>2. /\ DOMAIN q = D /\ q \in [D -> MovieType]
      /\ \A c \in D : SameLooks(s, q, c) /\ q[c].extents = s[c].extents
                      /\ q[c].invalidate_last = s[c].invalidate_last
      /\ q[parent].cache_state # UpToDate
      /\ \A c \in D : q[c].cache_state = InvalidExtents => s[c].cache_state = InvalidExtents
      /\ \A c \in D : s[c].cache_state = InvalidExtents => q[c].cache_state = InvalidExtents
      /\ Nested(q)
  <2>1. InvalidChildren # InvalidExtents
    BY DEF InvalidChildren, InvalidExtents
  <2>2. Nested(s)
    BY <1>1 DEF CachesOK
  <2>3. QED
    BY <1>1, <2>1, <2>2, QueueUpdateFacts
<1>3. DOMAIN t = D \cup {m} /\ t[m] = NewMovie(parent, depth) /\ \A c \in D : t[c] = q[c]
  BY <1>2
<1>4. NewMovie(parent, depth) \in MovieType
  <2>1. parent \in Clips \cup {Stage} /\ FALSE \in BOOLEAN /\ 0 \in Nat
    BY <1>1 DEF TreeOK
  <2>2. QED
    BY <2>1 DEF NewMovie, MovieType
<1>5. /\ t[m].parent = parent /\ t[m].offset = 0 /\ t[m].drawn = {} /\ t[m].draw_extents = {}
      /\ t[m].extents = {} /\ t[m].cache_state = InvalidExtents /\ t[m].invalidate_last = TRUE
  BY <1>3 DEF NewMovie
<1>6. m # Stage /\ Nothing # m /\ m \notin D /\ Stage \in D /\ Nothing \notin D
  BY <1>1, DrawingAssumption DEF IsTree
<1>7. \A c \in D : t[c].parent = s[c].parent
  BY <1>2, <1>3 DEF SameLooks
<1>8. IsTree(t)
  <2>1. PICK top \in Nat : \E rank : Ranks(s, top, rank)
    BY <1>1 DEF IsTree
  <2>2. PICK rank : Ranks(s, top, rank)
    BY <2>1
  <2> DEFINE more == [c \in D \cup {m} |-> IF c = m THEN 0 ELSE rank[c] + 1]
  <2>3. \A c \in D : rank[c] \in 0 .. top
    BY <2>2 DEF Ranks
  <2>4. more \in [D \cup {m} -> 0 .. top + 1]
    BY <2>3
  <2>5. \A c \in D : more[c] = rank[c] + 1
    BY <1>6
  <2>6. more[m] = 0
    OBVIOUS
  <2> HIDE DEF more
  <2>7. ASSUME NEW c \in (D \cup {m}) \ {Stage} PROVE more[c] < more[t[c].parent]
    <3>1. CASE c = m
      BY <1>5, <2>3, <2>5, <2>6, <3>1
    <3>2. CASE c # m
      <4>1. c \in D \ {Stage} /\ s[c].parent \in D /\ t[c].parent = s[c].parent
        BY <1>1, <1>7, <2>7, <3>2 DEF IsTree
      <4>2. rank[c] < rank[s[c].parent]
        BY <2>2, <4>1 DEF Ranks
      <4>3. rank[c] \in 0 .. top /\ rank[s[c].parent] \in 0 .. top
        BY <2>3, <4>1
      <4>4. more[c] = rank[c] + 1 /\ more[t[c].parent] = rank[s[c].parent] + 1
        BY <2>5, <4>1
      <4>5. QED
        BY <4>2, <4>3, <4>4
    <3>3. QED
      BY <3>1, <3>2
  <2>8. Ranks(t, top + 1, more) /\ top + 1 \in Nat
    BY <1>3, <2>4, <2>7 DEF Ranks
  <2>9. \A c \in DOMAIN t \ {Stage} : t[c].parent \in DOMAIN t
    <3>1. \A c \in D \ {Stage} : t[c].parent \in D
      BY <1>1, <1>7 DEF IsTree
    <3>2. t[m].parent \in D /\ \A c \in DOMAIN t \ {Stage} : c = m \/ c \in D \ {Stage}
      BY <1>3, <1>5
    <3>3. QED
      BY <1>3, <3>1, <3>2
  <2>10. t[Stage].parent = Nothing
    BY <1>1, <1>6, <1>7 DEF IsTree
  <2>11. QED
    BY <1>3, <1>6, <2>8, <2>9, <2>10 DEF IsTree
<1>9. TreeOK(t)
  <2>1. \A c \in D \cup {m} : t[c] \in MovieType
    BY <1>2, <1>3, <1>4
  <2>2. t \in [D \cup {m} -> MovieType]
    BY <1>3, <2>1
  <2>3. \A c \in D \cup {m} : t[c].drawn \subseteq t[c].draw_extents
    BY <1>1, <1>2, <1>3, <1>5 DEF TreeOK, SameLooks
  <2>4. D \cup {m} \subseteq Clips \cup {Stage}
    BY <1>1 DEF TreeOK
  <2>5. QED
    BY <1>3, <1>8, <2>2, <2>3, <2>4 DEF TreeOK
<1>10. P \cup {m} = Reported(t)
  BY <1>1, <1>2, <1>3, <1>5 DEF Reported
<1>11. CachesOK(t)
  <2>1. Nested(t)
    <3>1. \A c \in D \ {Stage} : q[c].parent = s[c].parent /\ s[c].parent \in D
      BY <1>1, <1>2 DEF IsTree, SameLooks
    <3>2. ASSUME NEW c \in D \ {Stage}, t[c].cache_state # UpToDate
          PROVE  t[t[c].parent].cache_state # UpToDate
      BY <1>2, <1>3, <3>1, <3>2 DEF Nested
    <3>3. t[t[m].parent].cache_state # UpToDate
      BY <1>2, <1>3, <1>5
    <3>4. \A c \in DOMAIN t \ {Stage} : c = m \/ c \in D \ {Stage}
      BY <1>3
    <3>5. QED
      BY <3>2, <3>3, <3>4 DEF Nested
  <2>2. ASSUME NEW c \in D, t[c].cache_state # InvalidExtents PROVE Covers(t, c)
    <3>1. s[c].cache_state # InvalidExtents
      BY <1>2, <1>3, <2>2
    <3>2. Covered(s, c) \subseteq s[c].extents
      BY <1>1, <3>1 DEF CachesOK, Covers
    <3>3. /\ t[c].draw_extents = s[c].draw_extents /\ t[c].offset = s[c].offset
          /\ t[c].extents = s[c].extents
      BY <1>2, <1>3 DEF SameLooks
    <3>4. ASSUME NEW x \in Children(t, c)
          PROVE  t[x].extents = {} \/ (x \in Children(s, c) /\ t[x].extents \subseteq s[x].extents)
      <4>1. CASE x = m
        BY <1>5, <4>1
      <4>2. CASE x # m
        BY <1>2, <1>3, <1>7, <4>2 DEF Children
      <4>3. QED
        BY <4>1, <4>2
    <3>5. Covered(t, c) \subseteq Covered(s, c)
      BY <3>3, <3>4, CoveredGrows
    <3>6. QED
      BY <3>2, <3>3, <3>5 DEF Covers
  <2>3. \A c \in D : t[c].cache_state = InvalidExtents => t[c].invalidate_last
    BY <1>1, <1>2, <1>3 DEF CachesOK
  <2>4. QED
    BY <1>3, <1>5, <2>1, <2>2, <2>3 DEF CachesOK
<1>12. ASSUME NEW p \in Points \ I PROVE shown[p] = CleanPicture(t, P \cup {m}, p)
  <2>1. shown[p] = CleanPicture(s, P, p)
    BY DEF DrawingOK
  <2>2. \A c \in D \ {} : c \in DOMAIN t /\ SameLooks(s, t, c) /\ (c \in P \cup {m} <=> c \in P)
    BY <1>2, <1>3, <1>6 DEF SameLooks
  <2>3. \A c \in DOMAIN t : c \in Clean(t, P \cup {m}) => c \in D \ {}
    <3>1. m \in Above(t, m)
      BY <1>3, <1>8, AboveFacts
    <3>2. m \notin Clean(t, P \cup {m})
      BY <3>1 DEF Clean
    <3>3. QED
      BY <1>3, <3>2
  <2>4. ChangeElsewhere(s, P, t, P \cup {m}, {}, p)
    BY <2>2, <2>3 DEF ChangeElsewhere
  <2>5. QED
    BY <1>1, <1>9, <2>1, <2>4, PictureKept
<1>13. QED
  BY <1>9, <1>10, <1>11, <1>12 DEF DrawingOK

-----------------------------------------------------------------------------
(* Drawing: updates *)

\* What passes from all children to a movie is true of all movies.
LEMMA BottomUp ==
    ASSUME NEW tree, IsTree(tree), NEW S,
           \A m \in DOMAIN tree : Children(tree, m) \subseteq S => m \in S
    PROVE  DOMAIN tree \subseteq S
<1>1. PICK top \in Nat : \E rank : Ranks(tree, top, rank)
  BY DEF IsTree
<1>2. PICK rank : Ranks(tree, top, rank)
  BY <1>1
<1> DEFINE K == {rank[m] : m \in DOMAIN tree \ S}
<1>3. SUFFICES ASSUME DOMAIN tree \ S # {} PROVE FALSE
  OBVIOUS
<1>4. \A m \in DOMAIN tree : rank[m] \in 0 .. top
  BY <1>2 DEF Ranks
<1>5. K \in SUBSET Nat /\ K # {}
  BY <1>3, <1>4
<1>6. PICK k \in K : \A i \in K : k <= i
  BY <1>5, Least
<1>7. PICK m \in DOMAIN tree \ S : k = rank[m]
  OBVIOUS
<1>8. PICK c \in Children(tree, m) : c \notin S
  BY <1>7
<1>9. c \in DOMAIN tree \ S /\ tree[c].parent = m /\ c # Stage
  BY <1>7, <1>8 DEF Children, IsTree
<1>10. rank[c] < rank[m]
  BY <1>2, <1>9 DEF Ranks
<1>11. rank[c] \in K /\ rank[c] \in 0 .. top /\ rank[m] \in 0 .. top
  BY <1>4, <1>7, <1>9
<1>12. k <= rank[c]
  BY <1>6, <1>11
<1>13. QED
  BY <1>7, <1>10, <1>11, <1>12

\* One step of swfdec_movie_update_extents, given what it found for the movies
\* inside.
InvalidIn(tree, m) == Children(tree, m) \cap Outdated(tree)

Again(tree, f, m) ==
    \/ tree[m].cache_state = InvalidExtents
    \/ \E c \in InvalidIn(tree, m) : f[c].again /\ f[c].extents # {}

Inside(tree, f, m) ==
    (UNION {tree[c].extents : c \in Children(tree, m) \ InvalidIn(tree, m)})
      \cup (UNION {f[c].extents : c \in InvalidIn(tree, m)})

Body(tree, f, m) ==
    [again |-> Again(tree, f, m),
     extents |-> IF Again(tree, f, m)
                 THEN Shift(Rect(tree[m].draw_extents \cup Inside(tree, f, m)), tree[m].offset)
                 ELSE tree[m].extents]

LEMMA BodySame ==
    ASSUME NEW tree, NEW m, NEW f, NEW g, \A c \in InvalidIn(tree, m) : f[c] = g[c]
    PROVE  Body(tree, f, m) = Body(tree, g, m)
<1>1. Again(tree, f, m) <=> Again(tree, g, m)
  BY DEF Again
<1>2. Inside(tree, f, m) = Inside(tree, g, m)
  <2>1. {f[c].extents : c \in InvalidIn(tree, m)} = {g[c].extents : c \in InvalidIn(tree, m)}
    OBVIOUS
  <2>2. QED
    BY <2>1 DEF Inside
<1>3. Again(tree, f, m) = Again(tree, g, m)
  BY <1>1 DEF Again
<1>4. QED
  BY <1>2, <1>3 DEF Body

\* The recursion of Computed has a solution.
LEMMA ComputedIs ==
    ASSUME NEW tree, IsTree(tree), NEW m \in Outdated(tree)
    PROVE  Computed(tree)[m] = Body(tree, Computed(tree), m)
<1> DEFINE O == Outdated(tree)
           rec(f) == [x \in O |-> Body(tree, f, x)]
           computed == CHOOSE f : f = rec(f)
<1>1. Computed(tree) = computed
  BY DEF Computed, Body, Again, Inside, InvalidIn
<1>2. PICK top \in Nat : \E rank : Ranks(tree, top, rank)
  BY DEF IsTree
<1>3. PICK rank : Ranks(tree, top, rank)
  BY <1>2
<1> DEFINE Solves(f, n) == /\ f = [x \in O |-> f[x]]
                           /\ \A x \in O : rank[x] < n => f[x] = Body(tree, f, x)
           H == {n \in 0 .. top + 1 : \E f : Solves(f, n)}
<1>4. \A x \in O : x \in DOMAIN tree /\ rank[x] \in 0 .. top
  BY <1>3 DEF Ranks, Outdated
<1>5. \A x \in O : \A c \in InvalidIn(tree, x) : c \in O /\ rank[c] < rank[x]
  <2>1. SUFFICES ASSUME NEW x \in O, NEW c \in InvalidIn(tree, x) PROVE c \in O /\ rank[c] < rank[x]
    OBVIOUS
  <2>2. c \in O /\ c \in DOMAIN tree /\ tree[c].parent = x
    BY DEF InvalidIn, Children
  <2>3. c # Stage
    BY <1>4, <2>2 DEF IsTree
  <2>4. QED
    BY <1>3, <2>2, <2>3 DEF Ranks
<1> HIDE DEF O
<1>6. 0 \in H
  <2> DEFINE f0 == [x \in O |-> 0]
  <2>1. f0 = [x \in O |-> f0[x]]
    OBVIOUS
  <2>2. \A x \in O : ~(rank[x] < 0)
    BY <1>4
  <2>3. Solves(f0, 0)
    BY <2>1, <2>2
  <2> HIDE DEF Solves
  <2>4. QED
    BY <2>3
<1>7. ASSUME NEW n \in 1 .. top + 1, n - 1 \in H PROVE n \in H
  <2>1. PICK f : Solves(f, n - 1)
    BY <1>7
  <2> DEFINE g == rec(f)
  <2>2. g = [x \in O |-> g[x]] /\ \A x \in O : g[x] = Body(tree, f, x)
    OBVIOUS
  <2> HIDE DEF g
  <2>3. ASSUME NEW x \in O, rank[x] < n PROVE g[x] = Body(tree, g, x)
    <3>1. ASSUME NEW c \in InvalidIn(tree, x) PROVE f[c] = g[c]
      <4>1. c \in O /\ rank[c] < rank[x] /\ rank[c] \in 0 .. top /\ rank[x] \in 0 .. top
        BY <1>4, <1>5, <3>1
      <4>2. rank[c] < n - 1
        BY <2>3, <4>1
      <4>3. f[c] = Body(tree, f, c)
        BY <2>1, <4>1, <4>2
      <4>4. QED
        BY <2>2, <4>1, <4>3
    <3>2. Body(tree, f, x) = Body(tree, g, x)
      BY <3>1, BodySame
    <3>3. QED
      BY <2>2, <3>2
  <2>4. Solves(g, n)
    BY <2>2, <2>3
  <2> HIDE DEF Solves
  <2>5. QED
    BY <2>4
<1>8. \A n \in 0 .. top + 1 : n \in H
  <2>1. H \in SUBSET (0 .. top + 1) /\ top + 1 \in Nat
    OBVIOUS
  <2>2. \A n \in 1 .. top + 1 : n - 1 \in H => n \in H
    BY <1>7
  <2> HIDE DEF H
  <2>3. QED
    BY <1>6, <2>1, <2>2, Upwards
<1>9. PICK f : Solves(f, top + 1)
  BY <1>8
<1>10. f = rec(f)
  <2>1. \A x \in O : f[x] = Body(tree, f, x)
    BY <1>4, <1>9
  <2> DEFINE g == rec(f)
  <2>2. g = [x \in O |-> g[x]] /\ \A x \in O : g[x] = Body(tree, f, x)
    OBVIOUS
  <2>3. f = [x \in O |-> f[x]]
    BY <1>9
  <2> HIDE DEF g
  <2>4. f = g
    BY <2>1, <2>2, <2>3
  <2>5. QED
    BY <2>4 DEF g
<1>11. computed = rec(computed)
  <2> HIDE DEF rec
  <2>1. QED
    BY <1>10
<1> HIDE DEF computed
<1>12. computed[m] = Body(tree, computed, m)
  <2>1. rec(computed)[m] = Body(tree, computed, m)
    BY DEF O
  <2> HIDE DEF rec
  <2>2. QED
    BY <1>11, <2>1
<1>13. QED
  BY <1>1, <1>12

LEMMA ComputedTyped ==
    ASSUME NEW tree, TreeOK(tree), NEW m \in Outdated(tree)
    PROVE  /\ Computed(tree)[m].extents \in SUBSET Int
           /\ Inside(tree, Computed(tree), m) \in SUBSET Int
<1> DEFINE f == Computed(tree)
           S == {x \in DOMAIN tree : x \in Outdated(tree) => f[x].extents \in SUBSET Int}
<1>1. IsTree(tree)
  BY DEF TreeOK
<1>2. \A x \in DOMAIN tree : /\ tree[x].extents \in SUBSET Int /\ tree[x].draw_extents \in SUBSET Int
                             /\ tree[x].offset \in Int
  BY DEF TreeOK, MovieType
<1>3. ASSUME NEW x \in DOMAIN tree, Children(tree, x) \subseteq S
      PROVE  Inside(tree, f, x) \in SUBSET Int
  <2>1. \A c \in InvalidIn(tree, x) : f[c].extents \in SUBSET Int
    BY <1>3 DEF InvalidIn
  <2>2. \A c \in Children(tree, x) : tree[c].extents \in SUBSET Int
    BY <1>2 DEF Children
  <2> HIDE DEF f, S
  <2>3. QED
    BY <2>1, <2>2 DEF Inside
<1>4. ASSUME NEW x \in DOMAIN tree, Children(tree, x) \subseteq S PROVE x \in S
  <2>1. CASE x \notin Outdated(tree)
    BY <2>1
  <2>2. CASE x \in Outdated(tree)
    <3> DEFINE covered == tree[x].draw_extents \cup Inside(tree, f, x)
    <3>1. f[x] = Body(tree, f, x)
      BY <1>1, <2>2, ComputedIs
    <3>2. covered \in SUBSET Int
      BY <1>2, <1>3, <1>4
    <3> HIDE DEF covered
    <3>3. Shift(Rect(covered), tree[x].offset) \in SUBSET Int
      BY <1>2, <3>2, RectFacts, ShiftFacts
    <3> HIDE DEF f
    <3>4. f[x].extents = IF Again(tree, f, x) THEN Shift(Rect(covered), tree[x].offset)
                         ELSE tree[x].extents
      BY <3>1 DEF Body, covered
    <3>5. f[x].extents \in SUBSET Int
      BY <1>2, <3>3, <3>4
    <3>6. QED
      BY <3>5
  <2>3. QED
    BY <2>1, <2>2
<1> HIDE DEF S, f
<1>5. DOMAIN tree \subseteq S
  BY <1>1, <1>4, BottomUp
<1>6. m \in DOMAIN tree /\ Children(tree, m) \subseteq S
  BY <1>5 DEF Outdated, Children
<1>7. QED
  BY <1>3, <1>5, <1>6 DEF S, f

\* A tree after an update looks as before, and no cache is worse.
Refreshed(s, t) ==
    /\ DOMAIN t = DOMAIN s /\ TreeOK(t) /\ CachesOK(t)
    /\ \A c \in DOMAIN s : SameLooks(s, t, c) /\ t[c].invalidate_last = s[c].invalidate_last

LEMMA OutdatedAround ==
    ASSUME NEW s, IsTree(s), Nested(s), NEW m \in Outdated(s)
    PROVE  Above(s, m) \subseteq Outdated(s)
<1> DEFINE S == {x \in DOMAIN s : x \in Outdated(s) => Above(s, x) \subseteq Outdated(s)}
           R == DOMAIN s
<1>1. \A x \in R \ {Stage} : s[x].parent \in R
  BY DEF IsTree
<1>2. ASSUME NEW x \in R, x = Stage \/ s[x].parent \in S PROVE x \in S
  <2>1. SUFFICES ASSUME x \in Outdated(s) PROVE Above(s, x) \subseteq Outdated(s)
    OBVIOUS
  <2>2. CASE x = Stage
    <3>1. Above(s, x) = {x}
      BY <2>2, AboveIs
    <3>2. QED
      BY <2>1, <3>1
  <2>3. CASE x # Stage
    <3>1. s[x].parent \in R /\ Above(s, x) = {x} \cup Above(s, s[x].parent)
      BY <1>1, <2>3, AboveIs
    <3>2. s[x].parent \in Outdated(s)
      BY <2>1, <2>3, <3>1 DEF Nested, Outdated
    <3>3. Above(s, s[x].parent) \subseteq Outdated(s)
      BY <1>2, <2>3, <3>2
    <3>4. QED
      BY <2>1, <3>1, <3>3
  <2>4. QED
    BY <2>2, <2>3
<1>3. \A x \in R : x = Stage \/ s[x].parent \in S => x \in S
  BY <1>2
<1> HIDE DEF S
<1>4. R \subseteq S
  BY <1>1, <1>3, TopDown
<1>5. m \in S
  BY <1>4 DEF Outdated
<1>6. QED
  BY <1>5 DEF S

\* In a sound tree the topmost invalid movie is the stage, and an update
\* reaches all that is out of date.
LEMMA TopmostIs ==
    ASSUME NEW s, IsTree(s), Nested(s), NEW m \in Outdated(s)
    PROVE  /\ Topmost(s, m) = Stage /\ Stage \in Outdated(s)
           /\ Visited(s, Stage) = Outdated(s)
<1>1. m \in DOMAIN s /\ Nothing \notin DOMAIN s /\ s[Stage].parent = Nothing /\ Stage \in DOMAIN s
  BY DEF Outdated, IsTree
<1>2. Above(s, m) \subseteq Outdated(s) /\ Stage \in Above(s, m) /\ Above(s, m) \subseteq DOMAIN s
  BY <1>1, OutdatedAround, AboveFacts
<1> DEFINE tops(x) == Way(s, x, m) \subseteq Outdated(s) /\ s[x].parent \notin Outdated(s)
<1>3. tops(Stage)
  BY <1>1, <1>2 DEF Way, Outdated
<1>4. ASSUME NEW x \in Above(s, m), tops(x) PROVE x = Stage
  <2>1. SUFFICES ASSUME x # Stage PROVE FALSE
    OBVIOUS
  <2>2. s[x].parent \in DOMAIN s /\ s[x].cache_state # UpToDate
    BY <1>2, <2>1 DEF IsTree, Outdated
  <2>3. s[x].parent \in Outdated(s)
    BY <1>2, <2>1, <2>2 DEF Nested, Outdated
  <2>4. QED
    BY <1>4, <2>3
<1>5. Topmost(s, m) = Stage
  <2>1. Topmost(s, m) = CHOOSE x \in Above(s, m) : tops(x)
    BY DEF Topmost
  <2> HIDE DEF tops
  <2>2. QED
    BY <1>2, <1>3, <1>4, <2>1
<1>6. Visited(s, Stage) = Outdated(s)
  <2>1. ASSUME NEW c \in Visited(s, Stage) PROVE c \in Outdated(s)
    <3>1. c \in DOMAIN s /\ Stage \in Above(s, c) /\ Way(s, Stage, c) \subseteq Outdated(s)
      BY DEF Visited, Family
    <3>2. c \in Way(s, Stage, c)
      BY <3>1, AboveFacts DEF Way, Family
    <3>3. QED
      BY <3>1, <3>2
  <2>2. ASSUME NEW c \in Outdated(s) PROVE c \in Visited(s, Stage)
    <3>1. c \in DOMAIN s
      BY DEF Outdated
    <3>2. Stage \in Above(s, c) /\ Above(s, c) \subseteq Outdated(s)
      BY <3>1, AboveFacts, OutdatedAround
    <3>3. QED
      BY <3>1, <3>2 DEF Visited, Family, Way
  <2>3. QED
    BY <2>1, <2>2
<1>7. QED
  BY <1>2, <1>5, <1>6

LEMMA UpdatedIs ==
    ASSUME NEW s, TreeOK(s), Nested(s), NEW m \in Outdated(s)
    PROVE  LET t == Updated(s, m)
               f == Computed(s)
           IN  /\ t = Updated(s, Stage) /\ Stage \in Outdated(s)
               /\ DOMAIN t = DOMAIN s /\ t \in [DOMAIN s -> MovieType]
               /\ \A c \in DOMAIN s :
                    /\ SameLooks(s, t, c) /\ t[c].invalidate_last = s[c].invalidate_last
                    /\ t[c].cache_state = UpToDate
                    /\ t[c].extents = IF c \in Outdated(s) THEN f[c].extents ELSE s[c].extents
<1> DEFINE t == Updated(s, m)
           f == Computed(s)
           D == DOMAIN s
           O == Outdated(s)
           step(c) == CASE c \in O -> [s[c] EXCEPT !.cache_state = UpToDate, !.extents = f[c].extents]
                        [] OTHER -> s[c]
<1>1. IsTree(s) /\ \A c \in D : s[c] \in MovieType /\ c # Nothing
  BY DEF TreeOK, IsTree
<1>2. s[Stage].parent = Nothing /\ Nothing \notin D
  BY <1>1 DEF IsTree
<1>3. Stage \in O /\ Topmost(s, Stage) = Stage /\ Visited(s, Stage) = O /\ Topmost(s, m) = Stage
  BY <1>1, TopmostIs
<1>4. ASSUME NEW x \in O, Topmost(s, x) = Stage
      PROVE  Updated(s, x) = [c \in D |-> step(c)]
  <2> DEFINE found == f[Stage].again /\ f[Stage].extents # {}
             raw(c) == CASE c \in O ->
                              [s[c] EXCEPT !.cache_state = UpToDate, !.extents = f[c].extents]
                         [] c = Nothing /\ found -> [s[c] EXCEPT !.cache_state = InvalidExtents]
                         [] OTHER -> s[c]
  <2>1. Updated(s, x) = [c \in D |-> raw(c)]
    BY <1>2, <1>3, <1>4 DEF Updated
  <2>2. \A c \in D : raw(c) = step(c)
    <3> HIDE DEF O, f
    <3>1. ASSUME NEW c \in D PROVE raw(c) = step(c)
      <4>1. c # Nothing
        BY <1>1
      <4>2. QED
        BY <4>1
    <3>2. QED
      BY <3>1
  <2> HIDE DEF raw, step
  <2>3. QED
    BY <2>1, <2>2
<1>5. t = [c \in D |-> step(c)] /\ t = Updated(s, Stage)
  <2> HIDE DEF step, O
  <2>1. QED
    BY <1>3, <1>4 DEF O
<1>6. ASSUME NEW c \in D
      PROVE  /\ step(c) \in MovieType
             /\ step(c).parent = s[c].parent /\ step(c).depth = s[c].depth
             /\ step(c).offset = s[c].offset /\ step(c).visible = s[c].visible
             /\ step(c).drawn = s[c].drawn /\ step(c).draw_extents = s[c].draw_extents
             /\ step(c).invalidate_last = s[c].invalidate_last
             /\ step(c).cache_state = UpToDate
             /\ step(c).extents = IF c \in O THEN f[c].extents ELSE s[c].extents
  <2> DEFINE r == s[c]
             e == f[c].extents
  <2>1. r \in MovieType
    BY <1>1
  <2>2. CASE c \in O
    <3>1. e \in SUBSET Int
      BY <2>2, ComputedTyped
    <3>2. step(c) = [r EXCEPT !.cache_state = UpToDate, !.extents = e]
      <4> HIDE DEF O
      <4>1. QED
        BY <2>2
    <3> HIDE DEF r, e, step
    <3>3. QED
      BY <2>1, <2>2, <3>1, <3>2 DEF MovieType, r, e
  <2>3. CASE c \notin O
    <3>1. step(c) = r
      <4> HIDE DEF O
      <4>1. QED
        BY <2>3
    <3>2. s[c].cache_state = UpToDate
      BY <2>3 DEF Outdated
    <3> HIDE DEF r, e, step, O
    <3>3. QED
      BY <2>1, <2>3, <3>1, <3>2 DEF MovieType, r, e
  <2>4. QED
    BY <2>2, <2>3
<1> HIDE DEF step, t, O
<1>7. /\ DOMAIN t = D /\ t \in [D -> MovieType]
      /\ \A c \in D : t[c] = step(c)
  BY <1>5, <1>6
<1>8. QED
  BY <1>3, <1>5, <1>6, <1>7 DEF SameLooks, t, O

LEMMA UpdatedFacts ==
    ASSUME NEW s, TreeOK(s), CachesOK(s), NEW m
    PROVE  /\ Refreshed(s, Updated(s, m))
           /\ m \notin Outdated(s) => Updated(s, m) = s
           /\ m \in Outdated(s) => /\ Outdated(Updated(s, m)) = {}
                                   /\ Updated(s, m) = Updated(s, Stage)
<1>1. CASE m \notin Outdated(s)
  <2>1. Updated(s, m) = s
    BY <1>1 DEF Updated
  <2>2. Refreshed(s, s)
    BY DEF Refreshed, SameLooks
  <2>3. QED
    BY <1>1, <2>1, <2>2
<1>2. CASE m \in Outdated(s)
  <2> DEFINE t == Updated(s, m)
             f == Computed(s)
             D == DOMAIN s
             O == Outdated(s)
  <2>1. IsTree(s) /\ Nested(s)
    BY DEF TreeOK, CachesOK
  <2>2. /\ t = Updated(s, Stage) /\ DOMAIN t = D /\ t \in [D -> MovieType]
        /\ \A c \in D :
             /\ SameLooks(s, t, c) /\ t[c].invalidate_last = s[c].invalidate_last
             /\ t[c].cache_state = UpToDate
             /\ t[c].extents = IF c \in O THEN f[c].extents ELSE s[c].extents
    BY <1>2, <2>1, UpdatedIs
  <2> HIDE DEF t
  <2>3. \A c \in D : t[c].parent = s[c].parent
    BY <2>2 DEF SameLooks
  <2>4. IsTree(t) /\ \A c \in D : Children(t, c) = Children(s, c)
    BY <2>1, <2>2, <2>3, TreeSame
  <2>5. TreeOK(t)
    <3>1. \A c \in D : t[c].drawn \subseteq t[c].draw_extents
      BY <2>2 DEF TreeOK, SameLooks
    <3>2. QED
      BY <2>2, <2>4, <3>1 DEF TreeOK
  <2>6. UpToDate # InvalidExtents
    BY DEF UpToDate, InvalidExtents
  <2>7. ASSUME NEW x \in D PROVE Covers(t, x)
    <3>1. t[x].draw_extents = s[x].draw_extents /\ t[x].offset = s[x].offset
      BY <2>2 DEF SameLooks
    <3>2. \A c \in Children(t, x) : c \in Children(s, x) /\ c \in D
      BY <2>4 DEF Children
    <3>3. CASE x \notin O
      <4>1. Covered(s, x) \subseteq s[x].extents
        BY <2>6, <3>3 DEF CachesOK, Covers, Outdated
      <4>2. \A c \in Children(t, x) : c \notin O
        BY <2>1, <2>4, <3>2, <3>3 DEF Nested, Children, Outdated, IsTree
      <4>3. \A c \in Children(t, x) : t[c].extents = s[c].extents
        BY <2>2, <3>2, <4>2
      <4>4. Covered(t, x) \subseteq Covered(s, x)
        BY <3>1, <3>2, <4>3, CoveredGrows
      <4>5. t[x].extents = s[x].extents
        BY <2>2, <3>3
      <4>6. QED
        BY <4>1, <4>4, <4>5 DEF Covers
    <3>4. CASE x \in O
      <4>1. f[x] = Body(s, f, x) /\ t[x].extents = f[x].extents
        BY <2>1, <2>2, <3>4, ComputedIs
      <4>2. CASE Again(s, f, x)
        <5> DEFINE area == s[x].draw_extents \cup Inside(s, f, x)
        <5>1. t[x].extents = Shift(Rect(area), s[x].offset)
          BY <4>1, <4>2 DEF Body
        <5>2. s[x].draw_extents \in SUBSET Int
          BY DEF TreeOK, MovieType
        <5>3. area \in SUBSET Int
          BY <3>4, <5>2, ComputedTyped
        <5>4. s[x].draw_extents \cup UNION {t[c].extents : c \in Children(t, x)} \subseteq area
          <6>1. ASSUME NEW c \in Children(t, x) PROVE t[c].extents \subseteq Inside(s, f, x)
            <7>1. CASE c \in O
              <8>1. c \in InvalidIn(s, x) /\ t[c].extents = f[c].extents
                BY <2>2, <3>2, <7>1 DEF InvalidIn
              <8> HIDE DEF f
              <8>2. QED
                BY <8>1 DEF Inside
            <7>2. CASE c \notin O
              <8>1. c \in Children(s, x) \ InvalidIn(s, x) /\ t[c].extents = s[c].extents
                BY <2>2, <3>2, <7>2 DEF InvalidIn
              <8> HIDE DEF f
              <8>2. QED
                BY <8>1 DEF Inside
            <7>3. QED
              BY <7>1, <7>2
          <6>2. QED
            BY <6>1
        <5> HIDE DEF area
        <5>5. area \subseteq Rect(area)
          BY <5>3, RectFacts
        <5> DEFINE inner == s[x].draw_extents \cup UNION {t[c].extents : c \in Children(t, x)}
        <5>6. inner \subseteq Rect(area) /\ Covered(t, x) = Shift(inner, s[x].offset)
          BY <3>1, <5>4, <5>5 DEF Covered
        <5> HIDE DEF inner
        <5>7. Shift(inner, s[x].offset) \subseteq Shift(Rect(area), s[x].offset)
          BY <5>6, ShiftGrows
        <5>8. QED
          BY <5>1, <5>6, <5>7 DEF Covers
      <4>3. CASE ~ Again(s, f, x)
        <5>1. s[x].cache_state # InvalidExtents /\ t[x].extents = s[x].extents
          BY <4>1, <4>3 DEF Body, Again
        <5>2. Covered(s, x) \subseteq s[x].extents
          BY <5>1 DEF CachesOK, Covers
        <5>3. ASSUME NEW c \in Children(t, x)
              PROVE  t[c].extents = {} \/ (c \in Children(s, x) /\ t[c].extents \subseteq s[c].extents)
          <6>1. CASE c \notin O
            BY <2>2, <3>2, <6>1
          <6>2. CASE c \in O
            <7>1. c \in InvalidIn(s, x) /\ t[c].extents = f[c].extents
              BY <2>2, <3>2, <6>2 DEF InvalidIn
            <7>2. f[c].extents = {} \/ ~ f[c].again
              BY <4>3, <7>1 DEF Again
            <7>3. f[c] = Body(s, f, c)
              BY <2>1, <6>2, ComputedIs
            <7> HIDE DEF f
            <7>4. ~ f[c].again => f[c].extents = s[c].extents
              BY <7>3 DEF Body
            <7>5. QED
              BY <3>2, <7>1, <7>2, <7>4
          <6>3. QED
            BY <6>1, <6>2
        <5>4. Covered(t, x) \subseteq Covered(s, x)
          BY <3>1, <5>3, CoveredGrows
        <5>5. QED
          BY <5>1, <5>2, <5>4 DEF Covers
      <4>4. QED
        BY <4>2, <4>3
    <3>5. QED
      BY <3>3, <3>4
  <2>8. CachesOK(t)
    <3>1. Nested(t)
      BY <2>2, <2>4 DEF Nested, IsTree
    <3>2. QED
      BY <2>2, <2>6, <2>7, <3>1 DEF CachesOK
  <2>9. Outdated(t) = {}
    BY <2>2 DEF Outdated
  <2>10. QED
    BY <1>2, <2>2, <2>5, <2>8, <2>9 DEF Refreshed, t
<1>3. QED
  BY <1>1, <1>2

\* An update does not show, and nothing is reported.
LEMMA RefreshKeeps ==
    ASSUME NEW s, NEW P, NEW I, NEW shown, DrawingOK(s, P, I, shown),
           NEW t, Refreshed(s, t)
    PROVE  /\ DrawingOK(t, P, I, shown)
           /\ \A W : \A p \in Points : CleanPicture(t, W, p) = CleanPicture(s, W, p)
<1>1. TreeOK(s) /\ TreeOK(t) /\ CachesOK(t) /\ P = Reported(s) /\ DOMAIN t = DOMAIN s
  BY DEF DrawingOK, Refreshed
<1>2. Reported(t) = Reported(s)
  BY <1>1 DEF Refreshed, Reported
<1>3. ASSUME NEW p \in Points, NEW W PROVE CleanPicture(t, W, p) = CleanPicture(s, W, p)
  <2>1. ChangeElsewhere(s, W, t, W, {}, p)
    BY <1>1 DEF ChangeElsewhere, Refreshed
  <2>2. QED
    BY <1>1, <2>1, PictureKept
<1>4. \A p \in Points \ I : shown[p] = CleanPicture(t, P, p)
  BY <1>3 DEF DrawingOK
<1>5. DrawingOK(t, P, I, shown)
  BY <1>1, <1>2, <1>4 DEF DrawingOK
<1>6. QED
  BY <1>3, <1>5

\* One update brings everything up to date; it is enough if one of the pending
\* movies is not.
LEMMA UpdatedAllIs ==
    ASSUME NEW s, TreeOK(s), CachesOK(s), NEW ms, IsFiniteSet(ms)
    PROVE  UpdatedAll(s, ms) = IF ms \cap Outdated(s) = {} THEN s ELSE Updated(s, Stage)
<1> DEFINE O == Outdated(s)
           F(r) == IF r \cap O = {} THEN s ELSE Updated(s, Stage)
           some(r) == CHOOSE m \in r : TRUE
           rec(f) == [r \in SUBSET ms |->
                        IF r = {} THEN s ELSE Updated(f[r \ {some(r)}], some(r))]
           updated == CHOOSE f : f = rec(f)
           f0 == [r \in SUBSET ms |-> F(r)]
<1>1. UpdatedAll(s, ms) = updated[ms]
  BY DEF UpdatedAll
<1>2. ASSUME NEW r \in SUBSET ms, r # {}
      PROVE  some(r) \in r /\ Updated(F(r \ {some(r)}), some(r)) = F(r)
  <2> DEFINE m == some(r)
  <2>1. m \in r
    BY <1>2
  <2> HIDE DEF m
  <2>2. Updated(F(r \ {m}), m) = F(r)
    <3>1. CASE (r \ {m}) \cap O = {}
      <4>1. F(r \ {m}) = s
        BY <3>1
      <4>2. CASE m \in O
        <5>1. F(r) = Updated(s, Stage)
          BY <2>1, <4>2
        <5>2. Updated(s, m) = Updated(s, Stage)
          BY <4>2, UpdatedFacts
        <5> HIDE DEF F
        <5>3. QED
          BY <4>1, <5>1, <5>2
      <4>3. CASE m \notin O
        <5>1. r \cap O = {}
          BY <3>1, <4>3
        <5>2. F(r) = s
          BY <5>1
        <5>3. Updated(s, m) = s
          BY <4>3, UpdatedFacts
        <5> HIDE DEF F
        <5>4. QED
          BY <4>1, <5>2, <5>3
      <4>4. QED
        BY <4>2, <4>3
    <3>2. CASE (r \ {m}) \cap O # {}
      <4> DEFINE t == Updated(s, Stage)
      <4>1. PICK w \in O : TRUE
        BY <3>2
      <4>2. r \cap O # {}
        BY <3>2
      <4>3. F(r \ {m}) = t /\ F(r) = t
        BY <3>2, <4>2
      <4>4. Refreshed(s, t) /\ Outdated(t) = {}
        BY <4>1, UpdatedFacts
      <4> HIDE DEF t, F
      <4>5. Updated(t, m) = t
        BY <4>4, UpdatedFacts DEF Refreshed
      <4>6. QED
        BY <4>3, <4>5
    <3>3. QED
      BY <3>1, <3>2
  <2>3. QED
    BY <2>1, <2>2 DEF m
<1>3. F({}) = s
  OBVIOUS
<1> HIDE DEF F, some
<1>4. f0 = rec(f0)
  <2> DEFINE g == rec(f0)
  <2>1. \A r \in SUBSET ms : f0[r] = F(r)
    OBVIOUS
  <2>2. ASSUME NEW r \in SUBSET ms PROVE g[r] = F(r)
    <3>1. CASE r = {}
      BY <1>3, <3>1
    <3>2. CASE r # {}
      <4>1. g[r] = Updated(f0[r \ {some(r)}], some(r))
        BY <3>2
      <4>2. f0[r \ {some(r)}] = F(r \ {some(r)})
        BY <2>1
      <4> HIDE DEF g, f0
      <4>3. QED
        BY <1>2, <3>2, <4>1, <4>2
    <3>3. QED
      BY <3>1, <3>2
  <2>3. f0 = [r \in SUBSET ms |-> F(r)] /\ g = [r \in SUBSET ms |-> g[r]]
    OBVIOUS
  <2> HIDE DEF g, f0
  <2>4. f0 = g
    BY <2>2, <2>3
  <2>5. QED
    BY <2>4 DEF g
<1>5. updated = rec(updated)
  <2> HIDE DEF rec, f0
  <2>1. QED
    BY <1>4
<1> HIDE DEF updated, f0
<1>6. ASSUME NEW r \in SUBSET ms
      PROVE  updated[r] = IF r = {} THEN s ELSE Updated(updated[r \ {some(r)}], some(r))
  <2>1. rec(updated)[r] = IF r = {} THEN s ELSE Updated(updated[r \ {some(r)}], some(r))
    OBVIOUS
  <2> HIDE DEF rec
  <2>2. QED
    BY <1>5, <2>1
<1> HIDE DEF rec
<1> DEFINE K == {Cardinality(r) : r \in {x \in SUBSET ms : updated[x] # F(x)}}
<1>7. \A r \in SUBSET ms : IsFiniteSet(r) /\ Cardinality(r) \in Nat
  BY FS_Subset, FS_CardinalityType
<1>8. K = {}
  <2>1. SUFFICES ASSUME K # {} PROVE FALSE
    OBVIOUS
  <2>2. K \in SUBSET Nat
    BY <1>7
  <2>3. PICK k \in K : \A i \in K : k <= i
    BY <2>1, <2>2, Least
  <2>4. PICK r \in SUBSET ms : updated[r] # F(r) /\ k = Cardinality(r)
    OBVIOUS
  <2>5. r # {}
    BY <1>3, <1>6, <2>4
  <2> DEFINE m == some(r)
             rest == r \ {m}
  <2>6. m \in r /\ Updated(F(rest), m) = F(r)
    BY <1>2, <2>5
  <2>7. updated[r] = Updated(updated[rest], m)
    BY <1>6, <2>5
  <2> HIDE DEF m
  <2>8. rest \in SUBSET ms /\ updated[rest] # F(rest)
    BY <2>4, <2>6, <2>7
  <2>9. Cardinality(rest) = Cardinality(r) - 1
    BY <1>7, <2>6, FS_RemoveElement
  <2>10. Cardinality(rest) \in K
    BY <2>8
  <2>11. k <= Cardinality(rest) /\ Cardinality(r) \in Nat
    BY <1>7, <2>3, <2>10
  <2>12. QED
    BY <2>4, <2>9, <2>11
<1>9. updated[ms] = F(ms)
  <2>1. ms \in SUBSET ms
    OBVIOUS
  <2>2. QED
    BY <1>8, <2>1
<1>10. QED
  BY <1>1, <1>9 DEF F

\* With nobody pending everybody is clean.
LEMMA AllClean ==
    ASSUME NEW tree, NEW p
    PROVE  CleanPicture(tree, {}, p) = Picture(tree, p)
<1>1. Clean(tree, {}) = DOMAIN tree
  BY DEF Clean
<1>2. \A pair \in Picture(tree, p) : pair[1] \in DOMAIN tree /\ pair[2] \in DOMAIN tree
  BY DEF Picture, Seen
<1>3. QED
  BY <1>1, <1>2 DEF CleanPicture

\* The parts of the end of an event.
Told(s, t, P) == [m \in DOMAIN s |-> [t[m] EXCEPT !.invalidate_last = @ /\ m \notin P]]

ToDraw(t, P, I) == I \cup UNION {Area(t, m) : m \in UNION {Family(t, m) : m \in P}}

DrawnAgain(t, points, shown) ==
    [p \in Points |-> IF p \in points THEN Picture(t, p) ELSE shown[p]]

\* The end of an event: all is up to date, and all that is pending is drawn
\* again where it is now.
LEMMA UnlockKeeps ==
    ASSUME NEW s, NEW P, NEW I, NEW shown, DrawingOK(s, P, I, shown),
           NEW t, t = UpdatedAll(s, P), NEW u, u = Told(s, t, P),
           NEW points, points = ToDraw(t, P, I), NEW new, new = DrawnAgain(t, points, shown)
    PROVE  DrawingOK(u, {}, {}, new)
<1> DEFINE D == DOMAIN s
<1>1. TreeOK(s) /\ CachesOK(s) /\ P = Reported(s) /\ IsTree(s)
  BY DEF DrawingOK, TreeOK
<1>2. IsFiniteSet(P)
  <2>1. P \subseteq Clips \cup {Stage}
    BY <1>1 DEF Reported, TreeOK
  <2>2. IsFiniteSet(Clips \cup {Stage})
    BY DrawingAssumption, FS_AddElement
  <2>3. QED
    BY <2>1, <2>2, FS_Subset
<1>3. t = IF P \cap Outdated(s) = {} THEN s ELSE Updated(s, Stage)
  BY <1>1, <1>2, UpdatedAllIs
<1>4. UpToDate # InvalidExtents
  BY DEF UpToDate, InvalidExtents
<1>5. Refreshed(s, t) /\ \A m \in D : t[m].cache_state # InvalidExtents
  <2>1. CASE P \cap Outdated(s) = {}
    <3>1. t = s
      BY <1>3, <2>1
    <3>2. Refreshed(s, s)
      BY <1>1 DEF Refreshed, SameLooks
    <3>3. ASSUME NEW m \in D, s[m].cache_state = InvalidExtents PROVE FALSE
      <4>1. m \in P
        BY <1>1, <3>3 DEF CachesOK, Reported
      <4>2. m \in Outdated(s)
        BY <1>4, <3>3 DEF Outdated
      <4>3. QED
        BY <2>1, <4>1, <4>2
    <3>4. QED
      BY <3>1, <3>2, <3>3
  <2>2. CASE P \cap Outdated(s) # {}
    <3>1. PICK m \in Outdated(s) : TRUE
      BY <2>2
    <3>2. t = Updated(s, m)
      BY <1>1, <1>3, <2>2, <3>1, UpdatedFacts
    <3>3. Refreshed(s, t) /\ Outdated(t) = {}
      BY <1>1, <3>1, <3>2, UpdatedFacts
    <3>4. \A c \in D : t[c].cache_state = UpToDate
      BY <3>3 DEF Refreshed, Outdated
    <3>5. QED
      BY <1>4, <3>3, <3>4
  <2>3. QED
    BY <2>1, <2>2
<1>6. /\ DOMAIN t = D /\ TreeOK(t) /\ CachesOK(t) /\ IsTree(t)
      /\ \A c \in D : SameLooks(s, t, c) /\ t[c].invalidate_last = s[c].invalidate_last
  BY <1>5 DEF Refreshed, TreeOK
<1>7. ASSUME NEW c \in D
      PROVE  /\ u[c] \in MovieType /\ SameLooks(t, u, c)
             /\ u[c].extents = t[c].extents /\ u[c].cache_state = t[c].cache_state
             /\ u[c].invalidate_last = FALSE
  <2> DEFINE r == t[c]
             flag == r.invalidate_last /\ c \notin P
  <2>1. r \in MovieType
    BY <1>6 DEF TreeOK
  <2>2. u[c] = [r EXCEPT !.invalidate_last = flag]
    BY DEF Told
  <2>3. flag = FALSE
    BY <1>1, <1>6 DEF Reported
  <2> HIDE DEF r, flag
  <2>4. QED
    BY <2>1, <2>2, <2>3 DEF MovieType, SameLooks, r
<1>8. DOMAIN u = D
  BY DEF Told
<1>9. IsTree(u) /\ \A c \in D : Children(u, c) = Children(t, c)
  <2>1. \A c \in D : u[c].parent = t[c].parent
    BY <1>7 DEF SameLooks
  <2> HIDE DEF D
  <2>2. QED
    BY <1>6, <1>8, <2>1, TreeSame
<1>10. TreeOK(u)
  <2>1. u \in [D -> MovieType]
    BY <1>7 DEF Told
  <2>2. \A c \in D : u[c].drawn \subseteq u[c].draw_extents
    BY <1>6, <1>7 DEF TreeOK, SameLooks
  <2>3. QED
    BY <1>6, <1>8, <1>9, <2>1, <2>2 DEF TreeOK
<1>11. CachesOK(u)
  <2>1. Nested(u)
    <3>1. \A c \in D \ {Stage} : u[c].parent = t[c].parent /\ t[c].parent \in D
      BY <1>6, <1>7 DEF SameLooks, IsTree
    <3>2. \A c \in D : u[c].cache_state = t[c].cache_state
      BY <1>7
    <3>3. Nested(t)
      BY <1>6 DEF CachesOK
    <3> HIDE DEF D
    <3>4. QED
      BY <1>6, <1>8, <3>1, <3>2, <3>3 DEF Nested
  <2>2. ASSUME NEW c \in D PROVE Covers(u, c) /\ u[c].cache_state # InvalidExtents
    <3>1. u[c].cache_state # InvalidExtents
      BY <1>5, <1>7
    <3>2. Covered(t, c) \subseteq t[c].extents
      BY <1>5, <1>6 DEF CachesOK, Covers
    <3>3. /\ u[c].draw_extents = t[c].draw_extents /\ u[c].offset = t[c].offset
          /\ u[c].extents = t[c].extents
      BY <1>7 DEF SameLooks
    <3>4. \A x \in Children(u, c) : x \in Children(t, c) /\ u[x].extents \subseteq t[x].extents
      BY <1>6, <1>7, <1>9 DEF Children
    <3>5. Covered(u, c) \subseteq Covered(t, c)
      BY <3>3, <3>4, CoveredGrows
    <3>6. QED
      BY <3>1, <3>2, <3>3, <3>5 DEF Covers
  <2>3. QED
    BY <1>8, <2>1, <2>2 DEF CachesOK
<1>12. Reported(u) = {}
  BY <1>7, <1>8 DEF Reported
<1>13. ASSUME NEW p \in Points PROVE CleanPicture(u, {}, p) = Picture(t, p)
  <2>1. ChangeElsewhere(t, {}, u, {}, {}, p)
    BY <1>6, <1>7, <1>8 DEF ChangeElsewhere
  <2>2. CleanPicture(u, {}, p) = CleanPicture(t, {}, p)
    BY <1>6, <1>10, <2>1, PictureKept
  <2>3. QED
    BY <2>2, AllClean
<1>14. ASSUME NEW p \in Points PROVE new[p] = CleanPicture(u, {}, p)
  <2>1. CASE p \in points
    BY <1>13, <2>1 DEF DrawnAgain
  <2>2. CASE p \notin points
    <3>1. new[p] = shown[p] /\ p \notin I
      BY <2>2 DEF DrawnAgain, ToDraw
    <3>2. shown[p] = CleanPicture(s, P, p)
      BY <3>1 DEF DrawingOK
    <3>3. CleanPicture(s, P, p) = CleanPicture(t, P, p)
      BY <1>5, RefreshKeeps
    <3>4. ASSUME NEW m \in Seen(t, p) PROVE m \in Clean(t, P)
      <4>1. m \in D /\ p \in Shift(t[m].drawn, Origin(t, m))
        BY <1>6 DEF Seen
      <4>2. t[m].drawn \subseteq t[m].draw_extents
        BY <1>6, <4>1 DEF TreeOK
      <4>3. p \in Shift(t[m].draw_extents, Origin(t, m))
        BY <4>1, <4>2, ShiftGrows
      <4>4. p \in Area(t, m)
        BY <4>3 DEF Area
      <4>5. SUFFICES ASSUME NEW x \in Above(t, m), x \in P PROVE FALSE
        BY <1>6, <4>1 DEF Clean
      <4>6. m \in Family(t, x)
        BY <1>6, <4>1, <4>5 DEF Family
      <4>7. QED
        BY <2>2, <4>4, <4>5, <4>6 DEF ToDraw
    <3>5. CleanPicture(t, P, p) = Picture(t, p)
      <4>1. \A pair \in Picture(t, p) : pair[1] \in Seen(t, p) /\ pair[2] \in Seen(t, p)
        BY DEF Picture
      <4>2. QED
        BY <3>4, <4>1 DEF CleanPicture
    <3>6. QED
      BY <1>13, <3>1, <3>2, <3>3, <3>5
  <2>3. QED
    BY <2>1, <2>2
<1>15. QED
  BY <1>10, <1>11, <1>12, <1>14 DEF DrawingOK

-----------------------------------------------------------------------------
(* Drawing: every step *)

DrawingIInv == DrawingOK(movies, pending, invalid, screen)

LEMMA FirstFrameFacts ==
    ASSUME NEW clips \in SUBSET Clips, NEW nesting \in [clips -> clips \cup {Stage}],
           NEW depths \in [clips -> Depths], FirstFrame(nesting, depths)
    PROVE  TreeOK(movies) /\ CachesOK(movies) /\ pending = Reported(movies)
<1> DEFINE D == clips \cup {Stage}
           base(m) == IF m = Stage THEN NewMovie(Nothing, 0) ELSE NewMovie(nesting[m], depths[m])
           shape == Rect(FirstShape)
           f(m) == [base(m) EXCEPT !.drawn = FirstShape, !.draw_extents = shape]
<1>1. DOMAIN nesting = clips
  OBVIOUS
<1>2. movies = [m \in D |-> f(m)] /\ pending = D
  BY <1>1 DEF FirstFrame
<1>3. \E order \in [clips -> 1 .. Cardinality(clips)] :
        \A m \in clips : nesting[m] \in clips => order[nesting[m]] < order[m]
  BY <1>1 DEF FirstFrame
<1>4. shape \in SUBSET Int /\ FirstShape \in SUBSET Int /\ FirstShape \subseteq shape
  <2>1. FirstShape \in SUBSET Int
    BY DrawingAssumption
  <2>2. QED
    BY <2>1, RectFacts
<1>5. Stage \notin clips /\ Nothing \notin D
  BY DrawingAssumption
<1>6. ASSUME NEW m \in D
      PROVE  /\ base(m) \in MovieType
             /\ base(m).parent = (IF m = Stage THEN Nothing ELSE nesting[m])
             /\ base(m).cache_state = InvalidExtents /\ base(m).invalidate_last = TRUE
  <2>1. CASE m = Stage
    <3>1. base(m) = NewMovie(Nothing, 0)
      BY <2>1
    <3> HIDE DEF base
    <3>2. QED
      BY <2>1, <3>1 DEF NewMovie, MovieType
  <2>2. CASE m # Stage
    <3>1. base(m) = NewMovie(nesting[m], depths[m])
      BY <2>2
    <3>2. m \in clips /\ nesting[m] \in Clips \cup {Stage} /\ depths[m] \in Depths
      BY <2>2
    <3> HIDE DEF base
    <3>3. QED
      BY <2>2, <3>1, <3>2 DEF NewMovie, MovieType
  <2>3. QED
    BY <2>1, <2>2
<1>7. ASSUME NEW m \in D
      PROVE  /\ f(m) \in MovieType
             /\ f(m).parent = (IF m = Stage THEN Nothing ELSE nesting[m])
             /\ f(m).cache_state = InvalidExtents /\ f(m).invalidate_last = TRUE
             /\ f(m).drawn = FirstShape /\ f(m).draw_extents = shape
  <2> DEFINE r == base(m)
  <2>1. r \in MovieType /\ r.parent = (IF m = Stage THEN Nothing ELSE nesting[m])
        /\ r.cache_state = InvalidExtents /\ r.invalidate_last = TRUE
    BY <1>6
  <2>2. f(m) = [r EXCEPT !.drawn = FirstShape, !.draw_extents = shape]
    OBVIOUS
  <2> HIDE DEF r, f, shape, base
  <2>3. QED
    BY <1>4, <2>1, <2>2 DEF MovieType
<1> HIDE DEF f, shape, base
<1>8. DOMAIN movies = D /\ \A m \in D : movies[m] = f(m)
  BY <1>2
<1>9. \A m \in D : movies[m].parent = IF m = Stage THEN Nothing ELSE nesting[m]
  BY <1>7, <1>8
<1>10. IsTree(movies)
  <2> DEFINE N == Cardinality(clips)
  <2>1. N \in Nat
    BY DrawingAssumption, FS_Subset, FS_CardinalityType
  <2>2. PICK order \in [clips -> 1 .. N] :
          \A m \in clips : nesting[m] \in clips => order[nesting[m]] < order[m]
    BY <1>3
  <2> HIDE DEF N
  <2> DEFINE rank == [m \in D |-> IF m = Stage THEN N ELSE N - order[m]]
  <2>3. \A m \in clips : order[m] \in 1 .. N
    BY <2>2
  <2>4. rank[Stage] = N /\ \A m \in clips : rank[m] = N - order[m]
    BY <1>5
  <2>5. rank \in [D -> 0 .. N]
    BY <2>1, <2>3
  <2> HIDE DEF rank
  <2>6. ASSUME NEW m \in D \ {Stage} PROVE rank[m] < rank[movies[m].parent]
    <3>1. m \in clips /\ movies[m].parent = nesting[m] /\ nesting[m] \in D
      BY <1>9
    <3>2. CASE nesting[m] = Stage
      BY <2>1, <2>3, <2>4, <3>1, <3>2
    <3>3. CASE nesting[m] \in clips
      <4>1. order[nesting[m]] < order[m] /\ order[m] \in 1 .. N /\ order[nesting[m]] \in 1 .. N
        BY <2>2, <2>3, <3>1, <3>3
      <4>2. rank[m] = N - order[m] /\ rank[nesting[m]] = N - order[nesting[m]]
        BY <2>4, <3>1, <3>3
      <4>3. QED
        BY <2>1, <3>1, <4>1, <4>2
    <3>4. QED
      BY <3>1, <3>2, <3>3
  <2>7. Ranks(movies, N, rank)
    BY <1>8, <2>5, <2>6 DEF Ranks
  <2>8. \A m \in D \ {Stage} : movies[m].parent \in D
    BY <1>9
  <2>9. movies[Stage].parent = Nothing /\ Stage \in D
    BY <1>9
  <2>10. QED
    BY <1>5, <1>8, <2>1, <2>7, <2>8, <2>9 DEF IsTree
<1>11. TreeOK(movies)
  <2>1. movies \in [D -> MovieType]
    BY <1>2, <1>7
  <2>2. \A m \in D : movies[m].drawn \subseteq movies[m].draw_extents
    BY <1>4, <1>7, <1>8
  <2>3. D \subseteq Clips \cup {Stage}
    OBVIOUS
  <2>4. QED
    BY <1>8, <1>10, <2>1, <2>2, <2>3 DEF TreeOK
<1>12. \A m \in D : movies[m].cache_state = InvalidExtents /\ movies[m].invalidate_last = TRUE
  BY <1>7, <1>8
<1>13. CachesOK(movies)
  <2>1. UpToDate # InvalidExtents
    BY DEF UpToDate, InvalidExtents
  <2>2. \A m \in D \ {Stage} : movies[m].parent \in D
    BY <1>9
  <2>3. Nested(movies)
    BY <1>8, <1>12, <2>1, <2>2 DEF Nested
  <2>4. QED
    BY <1>8, <1>12, <2>3 DEF CachesOK
<1>14. QED
  BY <1>2, <1>8, <1>11, <1>12, <1>13 DEF Reported

LEMMA DrawingInitOK == DrawingInit => DrawingIInv
<1>1. SUFFICES ASSUME DrawingInit PROVE DrawingIInv
  OBVIOUS
<1>2. PICK clips \in SUBSET Clips :
        \E nesting \in [clips -> clips \cup {Stage}], depths \in [clips -> Depths] :
          FirstFrame(nesting, depths)
  BY <1>1 DEF DrawingInit
<1>3. PICK nesting \in [clips -> clips \cup {Stage}], depths \in [clips -> Depths] :
        FirstFrame(nesting, depths)
  BY <1>2
<1>4. TreeOK(movies) /\ CachesOK(movies) /\ pending = Reported(movies)
  BY <1>3, FirstFrameFacts
<1>5. invalid = Points
  BY <1>1 DEF DrawingInit
<1>6. QED
  BY <1>4, <1>5 DEF DrawingIInv, DrawingOK

LEMMA MarkedFacts ==
    ASSUME NEW s, TreeOK(s), NEW m
    PROVE  LET t == Marked(s, m)
           IN  /\ DOMAIN t = DOMAIN s /\ t \in [DOMAIN s -> MovieType]
               /\ \A c \in DOMAIN s :
                    /\ SameLooks(s, t, c) /\ t[c].extents = s[c].extents
                    /\ t[c].cache_state = s[c].cache_state
                    /\ t[c].invalidate_last <=> (s[c].invalidate_last \/ c \in Fresh(s, m))
<1> DEFINE t == Marked(s, m)
           fresh == Fresh(s, m)
<1>1. t = [c \in DOMAIN s |-> [s[c] EXCEPT !.invalidate_last = @ \/ c \in fresh]]
  BY DEF Marked
<1> HIDE DEF fresh
<1>2. ASSUME NEW c \in DOMAIN s
      PROVE  /\ t[c] \in MovieType
             /\ SameLooks(s, t, c) /\ t[c].extents = s[c].extents
             /\ t[c].cache_state = s[c].cache_state
             /\ t[c].invalidate_last <=> (s[c].invalidate_last \/ c \in fresh)
  <2> DEFINE r == s[c]
             flag == r.invalidate_last \/ c \in fresh
  <2>1. r \in MovieType
    BY DEF TreeOK
  <2>2. t[c] = [r EXCEPT !.invalidate_last = flag]
    BY <1>1
  <2>3. flag \in BOOLEAN
    OBVIOUS
  <2> HIDE DEF r, t
  <2>4. t[c].invalidate_last = flag /\ t[c] \in MovieType
    <3> HIDE DEF flag
    <3>1. QED
      BY <2>1, <2>2, <2>3 DEF MovieType
  <2>5. SameLooks(s, t, c) /\ t[c].extents = s[c].extents /\ t[c].cache_state = s[c].cache_state
    <3> HIDE DEF flag
    <3>1. QED
      BY <2>1, <2>2 DEF MovieType, SameLooks, r
  <2>6. QED
    BY <2>4, <2>5 DEF r
<1>3. DOMAIN t = DOMAIN s /\ t \in [DOMAIN s -> MovieType]
  <2>1. DOMAIN t = DOMAIN s
    BY <1>1
  <2>2. \A c \in DOMAIN s : t[c] \in MovieType
    BY <1>2
  <2> DEFINE e(c) == [s[c] EXCEPT !.invalidate_last = @ \/ c \in fresh]
  <2>3. t = [c \in DOMAIN s |-> e(c)]
    BY <1>1
  <2> HIDE DEF e, t
  <2>4. QED
    BY <2>1, <2>2, <2>3
<1>4. QED
  BY <1>2, <1>3 DEF fresh

\* One movie is altered, but neither its place in the tree nor any cache.
Altered(s, m, b) ==
    /\ b \in [DOMAIN s -> MovieType]
    /\ \A c \in DOMAIN s :
         /\ b[c].parent = s[c].parent /\ b[c].extents = s[c].extents
         /\ b[c].cache_state = s[c].cache_state
         /\ b[c].invalidate_last <=> (s[c].invalidate_last \/ c \in Fresh(s, m))
         /\ b[c].drawn \subseteq b[c].draw_extents
    /\ \A c \in DOMAIN s \ {m} : SameLooks(s, b, c)

\* Its extents are queued unless they are as before.
LEMMA AlteredKeeps ==
    ASSUME NEW s, NEW P, NEW I, NEW shown, DrawingOK(s, P, I, shown),
           NEW m \in DOMAIN s, NEW b, Altered(s, m, b),
           NEW t, \/ t = QueueUpdate(b, m, InvalidExtents)
                  \/ t = b /\ b[m].offset = s[m].offset /\ b[m].draw_extents = s[m].draw_extents
    PROVE  DrawingOK(t, P \cup Fresh(s, m), I \cup UNION {Area(s, c) : c \in Fresh(s, m)}, shown)
<1> DEFINE D == DOMAIN s
           fresh == Fresh(s, m)
<1>1. /\ b \in [D -> MovieType] /\ DOMAIN b = D
      /\ \A c \in D : /\ b[c].parent = s[c].parent /\ b[c].extents = s[c].extents
                      /\ b[c].cache_state = s[c].cache_state
                      /\ b[c].invalidate_last <=> (s[c].invalidate_last \/ c \in fresh)
                      /\ b[c].drawn \subseteq b[c].draw_extents
      /\ \A c \in D \ {m} : SameLooks(s, b, c)
  BY DEF Altered
<1>2. TreeOK(s) /\ Nested(s) /\ IsTree(s)
  BY DEF DrawingOK, TreeOK, CachesOK
<1> HIDE DEF fresh
<1>3. IsTree(b)
  BY <1>1, <1>2, TreeSame
<1>4. TreeOK(b)
  BY <1>1, <1>2, <1>3 DEF TreeOK
<1>5. Nested(b)
  <2>1. \A c \in D \ {Stage} : s[c].parent \in D
    BY <1>2 DEF IsTree
  <2>2. QED
    BY <1>1, <1>2, <2>1 DEF Nested
<1>6. /\ t \in [D -> MovieType] /\ Nested(t)
      /\ \A c \in D : /\ t[c].parent = s[c].parent /\ t[c].extents = s[c].extents
                      /\ t[c].invalidate_last <=> (s[c].invalidate_last \/ c \in fresh)
                      /\ t[c].drawn \subseteq t[c].draw_extents
      /\ \A c \in D \ {m} : /\ SameLooks(s, t, c)
                            /\ t[c].cache_state = InvalidExtents <=> s[c].cache_state = InvalidExtents
      /\ \/ t[m].cache_state = InvalidExtents
         \/ /\ s[m].cache_state # InvalidExtents
            /\ t[m].offset = s[m].offset /\ t[m].draw_extents = s[m].draw_extents
  <2>1. CASE t = QueueUpdate(b, m, InvalidExtents)
    <3>1. /\ t \in [D -> MovieType] /\ t[m].cache_state = InvalidExtents
          /\ \A c \in D : /\ SameLooks(b, t, c) /\ t[c].extents = b[c].extents
                          /\ t[c].invalidate_last = b[c].invalidate_last
          /\ \A c \in D \ {m} :
               t[c].cache_state = InvalidExtents <=> b[c].cache_state = InvalidExtents
          /\ Nested(t)
      BY <1>1, <1>4, <1>5, <2>1, QueueUpdateFacts
    <3>2. ASSUME NEW c \in D
          PROVE  /\ t[c].parent = s[c].parent /\ t[c].extents = s[c].extents
                 /\ t[c].invalidate_last <=> (s[c].invalidate_last \/ c \in fresh)
                 /\ t[c].drawn \subseteq t[c].draw_extents
      BY <1>1, <3>1 DEF SameLooks
    <3>3. ASSUME NEW c \in D \ {m}
          PROVE  /\ SameLooks(s, t, c)
                 /\ t[c].cache_state = InvalidExtents <=> s[c].cache_state = InvalidExtents
      BY <1>1, <3>1 DEF SameLooks
    <3>4. QED
      BY <3>1, <3>2, <3>3
  <2>2. CASE t = b /\ b[m].offset = s[m].offset /\ b[m].draw_extents = s[m].draw_extents
    BY <1>1, <1>5, <2>2
  <2>3. QED
    BY <2>1, <2>2
<1>7. fresh = UNION {Fresh(s, x) : x \in {m}}
  BY DEF fresh
<1> DEFINE ms == {m}
<1>8. ms \in SUBSET D /\ fresh = UNION {Fresh(s, x) : x \in ms}
  BY <1>7
<1>9. /\ \A c \in D \ ms : /\ SameLooks(s, t, c)
                           /\ t[c].cache_state = InvalidExtents <=> s[c].cache_state = InvalidExtents
      /\ \A c \in ms : \/ t[c].cache_state = InvalidExtents
                       \/ /\ s[c].cache_state # InvalidExtents
                          /\ t[c].offset = s[c].offset /\ t[c].draw_extents = s[c].draw_extents
  BY <1>6
<1> HIDE DEF ms
<1>10. ChangedIn(s, ms, fresh, t)
  BY <1>6, <1>8, <1>9 DEF ChangedIn
<1>11. DrawingOK(t, P \cup fresh, I \cup UNION {Area(s, c) : c \in fresh}, shown)
  BY <1>10, ChangeKeeps
<1>12. QED
  BY <1>11 DEF fresh

LEMMA AlteredIs ==
    ASSUME NEW s, TreeOK(s), NEW m \in DOMAIN s,
           NEW r \in MovieType, r.parent = s[m].parent, r.extents = s[m].extents,
           r.cache_state = s[m].cache_state, r.drawn \subseteq r.draw_extents,
           r.invalidate_last = Marked(s, m)[m].invalidate_last
    PROVE  /\ Altered(s, m, [Marked(s, m) EXCEPT ![m] = r])
           /\ [Marked(s, m) EXCEPT ![m] = r][m] = r
<1> DEFINE base == Marked(s, m)
           b == [base EXCEPT ![m] = r]
<1>1. /\ DOMAIN base = DOMAIN s /\ base \in [DOMAIN s -> MovieType]
      /\ \A c \in DOMAIN s :
           /\ SameLooks(s, base, c) /\ base[c].extents = s[c].extents
           /\ base[c].cache_state = s[c].cache_state
           /\ base[c].invalidate_last <=> (s[c].invalidate_last \/ c \in Fresh(s, m))
  BY MarkedFacts
<1>2. r.invalidate_last = base[m].invalidate_last
  OBVIOUS
<1> HIDE DEF base
<1>3. /\ b \in [DOMAIN s -> MovieType] /\ \A c \in DOMAIN s \ {m} : b[c] = base[c]
      /\ b[m] = r
  BY <1>1
<1> HIDE DEF b
<1>4. ASSUME NEW c \in DOMAIN s
      PROVE  /\ b[c].parent = s[c].parent /\ b[c].extents = s[c].extents
             /\ b[c].cache_state = s[c].cache_state
             /\ b[c].invalidate_last <=> (s[c].invalidate_last \/ c \in Fresh(s, m))
             /\ b[c].drawn \subseteq b[c].draw_extents
  <2>1. CASE c = m
    BY <1>1, <1>2, <1>3, <2>1
  <2>2. CASE c # m
    <3>1. b[c] = base[c]
      BY <1>3, <2>2
    <3>2. base[c].drawn \subseteq base[c].draw_extents
      BY <1>1 DEF SameLooks, TreeOK
    <3>3. QED
      BY <1>1, <3>1, <3>2 DEF SameLooks
  <2>3. QED
    BY <2>1, <2>2
<1>5. \A c \in DOMAIN s \ {m} : SameLooks(s, b, c)
  BY <1>1, <1>3 DEF SameLooks
<1>6. Altered(s, m, b)
  BY <1>3, <1>4, <1>5 DEF Altered
<1>7. QED
  BY <1>3, <1>6 DEF b, base

\* The record of a marked movie.
LEMMA MarkedIs ==
    ASSUME NEW s, TreeOK(s), NEW m \in DOMAIN s
    PROVE  LET r == Marked(s, m)[m]
           IN  /\ r \in MovieType /\ r.parent = s[m].parent /\ r.extents = s[m].extents
               /\ r.cache_state = s[m].cache_state /\ r.offset = s[m].offset
               /\ r.drawn = s[m].drawn /\ r.draw_extents = s[m].draw_extents
               /\ r.drawn \subseteq r.draw_extents /\ r.visible = s[m].visible
<1>1. s[m].drawn \subseteq s[m].draw_extents
  BY DEF TreeOK
<1>2. QED
  BY <1>1, MarkedFacts DEF SameLooks

LEMMA MoveStep ==
    ASSUME DrawingIInv, NEW m \in Living, NEW offset \in Places, Move(m, offset)
    PROVE  DrawingIInv'
<1> DEFINE s == movies
           a == Marked(s, m)[m]
           r == [a EXCEPT !.offset = offset]
           b == [Marked(s, m) EXCEPT ![m] = r]
<1>1. DrawingOK(s, pending, invalid, screen) /\ TreeOK(s) /\ m \in DOMAIN s
  BY DEF DrawingIInv, DrawingOK, Living
<1>2. /\ movies' = QueueUpdate(b, m, InvalidExtents) /\ pending' = pending \cup Fresh(s, m)
      /\ invalid' = invalid \cup UNION {Area(s, c) : c \in Fresh(s, m)} /\ screen' = screen
  BY DEF Move, InvalidateLast
<1>3. /\ a \in MovieType /\ a.parent = s[m].parent /\ a.extents = s[m].extents
      /\ a.cache_state = s[m].cache_state /\ a.drawn \subseteq a.draw_extents
  BY <1>1, MarkedIs
<1>4. offset \in Nat
  BY DrawingAssumption
<1> HIDE DEF a
<1>5. /\ r \in MovieType /\ r.parent = s[m].parent /\ r.extents = s[m].extents
      /\ r.cache_state = s[m].cache_state /\ r.drawn \subseteq r.draw_extents
      /\ r.invalidate_last = a.invalidate_last
  BY <1>3, <1>4 DEF MovieType
<1> HIDE DEF r
<1>6. Altered(s, m, b)
  BY <1>1, <1>5, AlteredIs DEF a
<1> HIDE DEF b
<1>7. DrawingOK(movies', pending', invalid', screen')
  BY <1>1, <1>2, <1>6, AlteredKeeps
<1>8. QED
  BY <1>7 DEF DrawingIInv

LEMMA DrawStep ==
    ASSUME DrawingIInv, NEW m \in Living, NEW shape \in Shapes, Draw(m, shape)
    PROVE  DrawingIInv'
<1> DEFINE s == movies
           a == Marked(s, m)[m]
           grown == Rect(s[m].draw_extents \cup shape)
           drawn == a.drawn \cup shape
           r == [a EXCEPT !.drawn = drawn, !.draw_extents = grown]
           b == [Marked(s, m) EXCEPT ![m] = r]
<1>1. DrawingOK(s, pending, invalid, screen) /\ TreeOK(s) /\ m \in DOMAIN s
  BY DEF DrawingIInv, DrawingOK, Living
<1>2. /\ movies' = IF grown = s[m].draw_extents THEN b ELSE QueueUpdate(b, m, InvalidExtents)
      /\ pending' = pending \cup Fresh(s, m)
      /\ invalid' = invalid \cup UNION {Area(s, c) : c \in Fresh(s, m)} /\ screen' = screen
  <2> DEFINE x == [Marked(s, m) EXCEPT ![m].drawn = @ \cup shape, ![m].draw_extents = grown]
  <2>1. movies' = IF grown = s[m].draw_extents THEN x ELSE QueueUpdate(x, m, InvalidExtents)
    BY DEF Draw
  <2>2. /\ pending' = pending \cup Fresh(s, m) /\ screen' = screen
        /\ invalid' = invalid \cup UNION {Area(s, c) : c \in Fresh(s, m)}
    BY DEF Draw, InvalidateLast
  <2>3. x = b
    <3> HIDE DEF grown
    <3>1. QED
      OBVIOUS
  <2> HIDE DEF x, b, grown
  <2>4. QED
    BY <2>1, <2>2, <2>3
<1>3. /\ a \in MovieType /\ a.parent = s[m].parent /\ a.extents = s[m].extents
      /\ a.cache_state = s[m].cache_state /\ a.offset = s[m].offset
      /\ a.drawn \subseteq s[m].draw_extents
  BY <1>1, MarkedIs
<1>4. drawn \in SUBSET Int /\ grown \in SUBSET Int /\ drawn \subseteq grown
  <2> DEFINE points == s[m].draw_extents \cup shape
  <2>1. s[m].draw_extents \in SUBSET Int
    BY <1>1 DEF TreeOK, MovieType
  <2>2. shape \in SUBSET Int
    BY DrawingAssumption
  <2>3. points \in SUBSET Int
    BY <2>1, <2>2
  <2>4. drawn \subseteq points
    BY <1>3
  <2> HIDE DEF points
  <2>5. Rect(points) \in SUBSET Int /\ points \subseteq Rect(points)
    BY <2>3, RectFacts
  <2>6. grown = Rect(points)
    BY DEF points
  <2> HIDE DEF grown, drawn
  <2>7. drawn \subseteq grown
    BY <2>4, <2>5, <2>6
  <2>8. QED
    BY <2>1, <2>3, <2>4, <2>5, <2>6, <2>7
<1> HIDE DEF a, drawn, grown
<1>5. /\ r \in MovieType /\ r.parent = s[m].parent /\ r.extents = s[m].extents
      /\ r.cache_state = s[m].cache_state /\ r.drawn \subseteq r.draw_extents
      /\ r.invalidate_last = a.invalidate_last
      /\ r.offset = s[m].offset /\ r.draw_extents = grown
  BY <1>3, <1>4 DEF MovieType
<1> HIDE DEF r
<1>6. Altered(s, m, b) /\ b[m] = r
  BY <1>1, <1>5, AlteredIs DEF a
<1> HIDE DEF b
<1>7. DrawingOK(movies', pending', invalid', screen')
  <2>1. CASE grown = s[m].draw_extents
    <3>1. b[m].offset = s[m].offset /\ b[m].draw_extents = s[m].draw_extents
      BY <1>5, <1>6, <2>1
    <3>2. movies' = b
      BY <1>2, <2>1
    <3>3. QED
      BY <1>1, <1>2, <1>6, <3>1, <3>2, AlteredKeeps
  <2>2. CASE grown # s[m].draw_extents
    <3>1. movies' = QueueUpdate(b, m, InvalidExtents)
      BY <1>2, <2>2
    <3>2. QED
      BY <1>1, <1>2, <1>6, <3>1, AlteredKeeps
  <2>3. QED
    BY <2>1, <2>2
<1>8. QED
  BY <1>7 DEF DrawingIInv

LEMMA ClearStep ==
    ASSUME DrawingIInv, NEW m \in Living, Clear(m)
    PROVE  DrawingIInv'
<1> DEFINE s == movies
           a == Marked(s, m)[m]
           r == [a EXCEPT !.drawn = {}, !.draw_extents = {}]
           b == [Marked(s, m) EXCEPT ![m] = r]
<1>1. DrawingOK(s, pending, invalid, screen) /\ TreeOK(s) /\ m \in DOMAIN s
  BY DEF DrawingIInv, DrawingOK, Living
<1>2. /\ movies' = QueueUpdate(b, m, InvalidExtents) /\ pending' = pending \cup Fresh(s, m)
      /\ invalid' = invalid \cup UNION {Area(s, c) : c \in Fresh(s, m)} /\ screen' = screen
  BY DEF Clear, InvalidateLast
<1>3. /\ a \in MovieType /\ a.parent = s[m].parent /\ a.extents = s[m].extents
      /\ a.cache_state = s[m].cache_state
  BY <1>1, MarkedIs
<1> HIDE DEF a
<1>4. /\ r \in MovieType /\ r.parent = s[m].parent /\ r.extents = s[m].extents
      /\ r.cache_state = s[m].cache_state /\ r.drawn \subseteq r.draw_extents
      /\ r.invalidate_last = a.invalidate_last
  BY <1>3 DEF MovieType
<1> HIDE DEF r
<1>5. Altered(s, m, b)
  BY <1>1, <1>4, AlteredIs DEF a
<1> HIDE DEF b
<1>6. DrawingOK(movies', pending', invalid', screen')
  BY <1>1, <1>2, <1>5, AlteredKeeps
<1>7. QED
  BY <1>6 DEF DrawingIInv

LEMMA SetVisibleStep ==
    ASSUME DrawingIInv, NEW m \in Living, SetVisible(m)
    PROVE  DrawingIInv'
<1> DEFINE s == movies
           a == Marked(s, m)[m]
           shows == ~ a.visible
           r == [a EXCEPT !.visible = shows]
           b == [Marked(s, m) EXCEPT ![m] = r]
<1>1. DrawingOK(s, pending, invalid, screen) /\ TreeOK(s) /\ m \in DOMAIN s
  BY DEF DrawingIInv, DrawingOK, Living
<1>2. /\ movies' = b /\ pending' = pending \cup Fresh(s, m)
      /\ invalid' = invalid \cup UNION {Area(s, c) : c \in Fresh(s, m)} /\ screen' = screen
  BY DEF SetVisible, InvalidateLast
<1>3. /\ a \in MovieType /\ a.parent = s[m].parent /\ a.extents = s[m].extents
      /\ a.cache_state = s[m].cache_state /\ a.drawn \subseteq a.draw_extents
      /\ a.offset = s[m].offset /\ a.draw_extents = s[m].draw_extents
  BY <1>1, MarkedIs
<1> HIDE DEF a
<1>4. shows \in BOOLEAN
  OBVIOUS
<1> HIDE DEF shows
<1>5. /\ r \in MovieType /\ r.parent = s[m].parent /\ r.extents = s[m].extents
      /\ r.cache_state = s[m].cache_state /\ r.drawn \subseteq r.draw_extents
      /\ r.invalidate_last = a.invalidate_last
      /\ r.offset = s[m].offset /\ r.draw_extents = s[m].draw_extents
  BY <1>3, <1>4 DEF MovieType
<1> HIDE DEF r
<1>6. Altered(s, m, b) /\ b[m] = r
  BY <1>1, <1>5, AlteredIs DEF a
<1>7. b[m].offset = s[m].offset /\ b[m].draw_extents = s[m].draw_extents
  BY <1>5, <1>6
<1> HIDE DEF b
<1>8. DrawingOK(movies', pending', invalid', screen')
  BY <1>1, <1>2, <1>6, <1>7, AlteredKeeps
<1>9. QED
  BY <1>8 DEF DrawingIInv

\* What is in one sibling is not in another.
LEMMA SiblingsFacts ==
    ASSUME NEW s, IsTree(s), NEW m \in DOMAIN s, NEW n \in DOMAIN s, m # n,
           s[m].parent = s[n].parent
    PROVE  Family(s, m) \cap Family(s, n) = {}
<1>1. m # Stage /\ n # Stage
  BY DEF IsTree
<1> DEFINE p == s[m].parent
<1>2. /\ p \in DOMAIN s /\ Above(s, m) = {m} \cup Above(s, p)
      /\ Above(s, n) = {n} \cup Above(s, p)
  BY <1>1, AboveIs DEF IsTree
<1>3. p # m /\ p # n
  BY <1>1, NotItsParent
<1>4. p \in Above(s, p)
  BY <1>2, AboveFacts
<1>5. m \notin Above(s, p) /\ n \notin Above(s, p)
  <2>1. \A x \in Above(s, m) \ {m} : m \notin Above(s, x)
    BY AboveFacts
  <2>2. \A x \in Above(s, n) \ {n} : n \notin Above(s, x)
    BY AboveFacts
  <2>3. QED
    BY <1>2, <1>3, <1>4, <2>1, <2>2
<1>6. SUFFICES ASSUME NEW x \in DOMAIN s, m \in Above(s, x), n \in Above(s, x) PROVE FALSE
  BY DEF Family
<1>7. m \in Above(s, n) \/ n \in Above(s, m)
  BY <1>6, AboveFacts
<1>8. QED
  BY <1>2, <1>5, <1>7

LEMMA SwapDepthsStep ==
    ASSUME DrawingIInv, NEW m \in Living, NEW n \in Living, SwapDepths(m, n)
    PROVE  DrawingIInv'
<1> DEFINE s == movies
           D == DOMAIN s
           ms == {m, n}
           fresh == Fresh(s, m) \cup Fresh(s, n)
           one == Marked(s, m)
           two == Marked(one, n)
           t == movies'
<1>1. /\ DrawingOK(s, pending, invalid, screen) /\ TreeOK(s) /\ IsTree(s) /\ CachesOK(s)
      /\ m \in D /\ n \in D
  BY DEF DrawingIInv, DrawingOK, Living, TreeOK
<1>2. /\ m # n /\ s[m].parent = s[n].parent
      /\ pending' = pending \cup fresh /\ screen' = screen
      /\ invalid' = invalid \cup UNION {Area(s, c) : c \in fresh}
      /\ t = [two EXCEPT ![m].depth = s[n].depth, ![n].depth = s[m].depth]
  BY DEF SwapDepths
<1>3. /\ DOMAIN one = D /\ one \in [D -> MovieType]
      /\ \A c \in D : /\ SameLooks(s, one, c) /\ one[c].extents = s[c].extents
                      /\ one[c].cache_state = s[c].cache_state
                      /\ one[c].invalidate_last <=> (s[c].invalidate_last \/ c \in Fresh(s, m))
  BY <1>1, MarkedFacts
<1> HIDE DEF one
<1>4. /\ \A c \in D : one[c].parent = s[c].parent
      /\ IsTree(one) /\ \A c \in D : Above(one, c) = Above(s, c)
  <2>1. \A c \in D : one[c].parent = s[c].parent
    BY <1>3 DEF SameLooks
  <2>2. QED
    BY <1>1, <1>3, <2>1, TreeSame
<1>5. TreeOK(one)
  <2>1. \A c \in D : one[c].drawn \subseteq one[c].draw_extents
    BY <1>1, <1>3 DEF TreeOK, SameLooks
  <2>2. QED
    BY <1>1, <1>3, <1>4, <2>1 DEF TreeOK
<1>6. Fresh(one, n) = Fresh(s, n)
  <2>1. Family(one, n) = Family(s, n)
    BY <1>3, <1>4 DEF Family
  <2>2. \A c \in Family(s, n) : Way(one, n, c) = Way(s, n, c)
    BY <1>1, <1>4, <2>1 DEF Way, Family
  <2>3. \A x \in Family(s, n) : one[x].invalidate_last <=> s[x].invalidate_last
    <3>1. Family(s, m) \cap Family(s, n) = {}
      BY <1>1, <1>2, SiblingsFacts
    <3>2. Fresh(s, m) \subseteq Family(s, m)
      BY DEF Fresh
    <3>3. QED
      BY <1>3, <3>1, <3>2 DEF Family
  <2>4. \A c \in Family(s, n) : Way(s, n, c) \subseteq Family(s, n)
    BY DEF Way
  <2>5. QED
    BY <2>1, <2>2, <2>3, <2>4 DEF Fresh
<1>7. /\ DOMAIN two = D /\ two \in [D -> MovieType]
      /\ \A c \in D : /\ SameLooks(one, two, c) /\ two[c].extents = one[c].extents
                      /\ two[c].cache_state = one[c].cache_state
                      /\ two[c].invalidate_last <=> (one[c].invalidate_last \/ c \in Fresh(s, n))
  BY <1>3, <1>5, <1>6, MarkedFacts
<1> HIDE DEF two
<1>8. /\ SameLooks(s, two, m) /\ SameLooks(s, two, n)
      /\ \A c \in D : SameLooks(s, two, c)
      /\ \A c \in D : two[c].extents = s[c].extents /\ two[c].cache_state = s[c].cache_state
      /\ \A c \in D : two[c].invalidate_last <=> (s[c].invalidate_last \/ c \in fresh)
  BY <1>1, <1>3, <1>7 DEF SameLooks
<1> DEFINE dm == s[n].depth
           dn == s[m].depth
<1>9. dm \in Depths \cup {0} /\ dn \in Depths \cup {0}
  BY <1>1 DEF TreeOK, MovieType
<1> HIDE DEF dm, dn
<1>10. /\ DOMAIN t = D /\ \A c \in D \ ms : t[c] = two[c]
       /\ t[m] = [two[m] EXCEPT !.depth = dm] /\ t[n] = [two[n] EXCEPT !.depth = dn]
  BY <1>1, <1>2, <1>7 DEF dm, dn
<1> HIDE DEF t
<1>11. ASSUME NEW c \in ms
       PROVE  /\ t[c] \in MovieType /\ t[c].parent = two[c].parent /\ t[c].extents = two[c].extents
              /\ t[c].cache_state = two[c].cache_state
              /\ t[c].invalidate_last = two[c].invalidate_last
              /\ t[c].drawn = two[c].drawn /\ t[c].draw_extents = two[c].draw_extents
              /\ t[c].offset = two[c].offset
  <2>1. two[c] \in MovieType
    BY <1>1, <1>7
  <2>2. PICK d \in Depths \cup {0} : t[c] = [two[c] EXCEPT !.depth = d]
    BY <1>9, <1>10
  <2> DEFINE r == two[c]
  <2>3. r \in MovieType /\ t[c] = [r EXCEPT !.depth = d]
    BY <2>1, <2>2
  <2> HIDE DEF r
  <2>4. QED
    BY <2>2, <2>3 DEF MovieType, r
<1>12. ASSUME NEW c \in D
       PROVE  /\ t[c] \in MovieType /\ t[c].parent = s[c].parent /\ t[c].extents = s[c].extents
              /\ t[c].cache_state = s[c].cache_state
              /\ t[c].invalidate_last <=> (s[c].invalidate_last \/ c \in fresh)
              /\ t[c].drawn = s[c].drawn /\ t[c].draw_extents = s[c].draw_extents
              /\ t[c].offset = s[c].offset
  <2>1. CASE c \in ms
    BY <1>8, <1>11, <2>1 DEF SameLooks
  <2>2. CASE c \notin ms
    <3>1. t[c] = two[c]
      BY <1>10, <2>2
    <3> HIDE DEF fresh, ms
    <3>2. QED
      BY <1>7, <1>8, <3>1 DEF SameLooks
  <2>3. QED
    BY <2>1, <2>2
<1>13. ChangedIn(s, ms, fresh, t)
  <2>1. fresh = UNION {Fresh(s, x) : x \in ms}
    OBVIOUS
  <2> HIDE DEF fresh
  <2>2. t \in [D -> MovieType]
    <3>1. t = [c \in D |-> t[c]]
      BY <1>1, <1>2, <1>7 DEF t
    <3>2. QED
      BY <1>12, <3>1
  <2>3. Nested(t)
    <3>1. \A c \in D \ {Stage} : s[c].parent \in D
      BY <1>1 DEF IsTree
    <3>2. Nested(s)
      BY <1>1 DEF CachesOK
    <3>3. QED
      BY <1>10, <1>12, <3>1, <3>2 DEF Nested
  <2>4. \A c \in D : t[c].drawn \subseteq t[c].draw_extents
    BY <1>1, <1>12 DEF TreeOK
  <2>5. \A c \in D \ ms : SameLooks(s, t, c)
    BY <1>8, <1>10 DEF SameLooks
  <2>6. ms \subseteq D
    BY <1>1
  <2> HIDE DEF ms
  <2>7. QED
    BY <1>12, <2>1, <2>2, <2>3, <2>4, <2>5, <2>6 DEF ChangedIn
<1>14. DrawingOK(t, pending', invalid', screen')
  <2> HIDE DEF fresh, ms
  <2>1. QED
    BY <1>1, <1>2, <1>13, ChangeKeeps
<1>15. QED
  BY <1>14 DEF DrawingIInv, t

LEMMA WithoutFacts ==
    ASSUME DrawingIInv, NEW gone \in SUBSET (Living \ {Stage}), NEW t, t = Without(gone)
    PROVE  DrawingOK(t, pending \cap DOMAIN t, invalid \cup AreasOf(gone), screen)
<1>1. DrawingOK(movies, pending, invalid, screen) /\ Living = DOMAIN movies
  BY DEF DrawingIInv, Living
<1>2. t = Leaving(movies, gone) /\ gone \in SUBSET (DOMAIN movies \ {Stage})
  BY <1>1 DEF Without, Leaving
<1>3. AreasOf(gone) = Vacated(movies, gone)
  BY DEF AreasOf, Vacated
<1>4. QED
  BY <1>1, <1>2, <1>3, RemoveKeeps

LEMMA RemoveMovieStep ==
    ASSUME DrawingIInv, NEW m \in Living, RemoveMovie(m)
    PROVE  DrawingIInv'
<1> DEFINE gone == {m}
           t == Without(gone)
<1>1. /\ gone \in SUBSET (Living \ {Stage}) /\ movies' = t /\ screen' = screen
      /\ pending' = pending \cap DOMAIN t /\ invalid' = invalid \cup AreasOf(gone)
  BY DEF RemoveMovie
<1> HIDE DEF t, gone
<1>2. DrawingOK(t, pending \cap DOMAIN t, invalid \cup AreasOf(gone), screen)
  BY <1>1, WithoutFacts DEF t
<1>3. QED
  BY <1>1, <1>2 DEF DrawingIInv

LEMMA CreateStep ==
    ASSUME DrawingIInv, NEW parent \in Living, NEW m \in Clips, NEW depth \in Depths,
           Create(m, parent, depth)
    PROVE  DrawingIInv'
<1> DEFINE replaced == {c \in Children(movies, parent) : movies[c].depth = depth}
           s == Without(replaced)
           q == QueueUpdate(s, parent, InvalidChildren)
           t == [c \in DOMAIN q \cup {m} |-> IF c = m THEN NewMovie(parent, depth) ELSE q[c]]
           P == pending \cap DOMAIN s
           I == invalid \cup AreasOf(replaced)
<1>1. /\ DrawingOK(movies, pending, invalid, screen) /\ TreeOK(movies) /\ IsTree(movies)
      /\ Living = DOMAIN movies
  BY DEF DrawingIInv, DrawingOK, Living, TreeOK
<1>2. /\ m \notin Living /\ movies' = t /\ screen' = screen
      /\ pending' = (pending \cap DOMAIN q) \cup {m} /\ invalid' = I
  BY DEF Create
<1>3. replaced \in SUBSET (Living \ {Stage})
  <2>1. Stage \notin Children(movies, parent)
    BY <1>1 DEF Children, IsTree
  <2>2. QED
    BY <1>1, <2>1 DEF Children
<1>4. DOMAIN s = Living \ UNION {Family(movies, c) : c \in replaced}
  BY DEF Without
<1>5. parent \in DOMAIN s /\ m \notin DOMAIN s
  <2>1. SUFFICES ASSUME NEW c \in replaced, parent \in Family(movies, c) PROVE FALSE
    BY <1>2, <1>4
  <2>2. c \in DOMAIN movies /\ c # Stage /\ movies[c].parent = parent /\ c \in Above(movies, parent)
    BY <1>1, <1>3, <2>1 DEF Children, Family
  <2>3. c # parent
    BY <1>1, <2>2, NotItsParent
  <2>4. parent \in Above(movies, c)
    BY <1>1, <2>2, AboveIs, AboveFacts
  <2>5. \A x \in Above(movies, c) \ {c} : c \notin Above(movies, x)
    BY <1>1, <2>2, AboveFacts
  <2>6. QED
    BY <2>2, <2>3, <2>4, <2>5
<1> HIDE DEF replaced, s
<1>6. DrawingOK(s, P, I, screen)
  BY <1>3, WithoutFacts DEF s
<1> HIDE DEF I, q
<1>7. DOMAIN q = DOMAIN s
  <2>1. TreeOK(s)
    BY <1>6 DEF DrawingOK
  <2>2. QED
    BY <1>5, <2>1, QueueUpdateFacts DEF q
<1> HIDE DEF t
<1>8. DrawingOK(t, P \cup {m}, I, screen)
  <2>1. m \in Clips \ DOMAIN s
    BY <1>5
  <2> HIDE DEF P
  <2>2. QED
    BY <1>5, <1>6, <2>1, AddKeeps DEF t, q
<1>9. QED
  BY <1>2, <1>7, <1>8 DEF DrawingIInv

LEMMA MeasureStep ==
    ASSUME DrawingIInv, NEW m \in Living, Measure(m)
    PROVE  DrawingIInv'
<1> DEFINE t == Updated(movies, m)
<1>1. /\ DrawingOK(movies, pending, invalid, screen) /\ TreeOK(movies) /\ CachesOK(movies)
      /\ movies' = t /\ pending' = pending /\ invalid' = invalid /\ screen' = screen
  BY DEF DrawingIInv, DrawingOK, Measure
<1> HIDE DEF t
<1>2. Refreshed(movies, t)
  BY <1>1, UpdatedFacts DEF t
<1>3. DrawingOK(t, pending, invalid, screen)
  BY <1>1, <1>2, RefreshKeeps
<1>4. QED
  BY <1>1, <1>3 DEF DrawingIInv

LEMMA UnlockStep ==
    ASSUME DrawingIInv, Unlock
    PROVE  DrawingIInv'
<1> DEFINE t == UpdatedAll(movies, pending)
           u == Told(movies, t, pending)
           points == ToDraw(t, pending, invalid)
           new == DrawnAgain(t, points, screen)
<1>1. DrawingOK(movies, pending, invalid, screen) /\ Living = DOMAIN movies
  BY DEF DrawingIInv, Living
<1>2. movies' = u /\ pending' = {} /\ invalid' = {} /\ screen' = new
  BY <1>1 DEF Unlock, Told, ToDraw, DrawnAgain
<1> HIDE DEF t, u, points, new
<1>3. DrawingOK(u, {}, {}, new)
  BY <1>1, UnlockKeeps DEF t, u, points, new
<1>4. QED
  BY <1>2, <1>3 DEF DrawingIInv

LEMMA DrawingNextOK == DrawingIInv /\ [DrawingNext]_drawingVars => DrawingIInv'
<1> SUFFICES ASSUME DrawingIInv, [DrawingNext]_drawingVars PROVE DrawingIInv'
  OBVIOUS
<1>1. CASE UNCHANGED drawingVars
  BY <1>1 DEF drawingVars, DrawingIInv
<1>2. ASSUME NEW m \in Living, RemoveMovie(m) PROVE DrawingIInv'
  BY <1>2, RemoveMovieStep
<1>3. ASSUME NEW m \in Living, Clear(m) PROVE DrawingIInv'
  BY <1>3, ClearStep
<1>4. ASSUME NEW m \in Living, SetVisible(m) PROVE DrawingIInv'
  BY <1>4, SetVisibleStep
<1>5. ASSUME NEW m \in Living, NEW offset \in Places, Move(m, offset) PROVE DrawingIInv'
  BY <1>5, MoveStep
<1>6. ASSUME NEW m \in Living, NEW shape \in Shapes, Draw(m, shape) PROVE DrawingIInv'
  BY <1>6, DrawStep
<1>7. ASSUME NEW m \in Living, NEW n \in Living, SwapDepths(m, n) PROVE DrawingIInv'
  BY <1>7, SwapDepthsStep
<1>8. ASSUME NEW m \in Living, NEW c \in Clips, NEW depth \in Depths, Create(c, m, depth)
      PROVE  DrawingIInv'
  BY <1>8, CreateStep
<1>9. ASSUME NEW m \in Living, Measure(m) PROVE DrawingIInv'
  BY <1>9, MeasureStep
<1>10. CASE Unlock
  BY <1>10, UnlockStep
<1>11. CASE Change
  <2>1. PICK m \in Living :
          \/ RemoveMovie(m)
          \/ Clear(m)
          \/ SetVisible(m)
          \/ \E offset \in Places : Move(m, offset)
          \/ \E shape \in Shapes : Draw(m, shape)
          \/ \E n \in Living : SwapDepths(m, n)
          \/ \E c \in Clips, depth \in Depths : Create(c, m, depth)
    BY <1>11 DEF Change
  <2>2. QED
    BY <1>2, <1>3, <1>4, <1>5, <1>6, <1>7, <1>8, <2>1
<1>12. QED
  BY <1>1, <1>9, <1>10, <1>11 DEF DrawingNext

LEMMA DrawingInvariance == DrawingSpec => []DrawingIInv
<1>1. QED
  BY DrawingInitOK, DrawingNextOK, PTL DEF DrawingSpec

\* Whatever movies scripts create, move, draw, hide, swap and remove, and
\* whenever something measures them: the three states of the cache agree along
\* the tree, extents that are in force cover what is in a movie, and the list
\* of pending movies is that of the flags.
THEOREM CachesAlwaysAgree == DrawingSpec => []CachesAgree
<1>1. ASSUME DrawingIInv PROVE CachesAgree
  <2>1. TreeOK(movies) /\ IsTree(movies) /\ CachesOK(movies) /\ pending = Reported(movies)
    BY <1>1 DEF DrawingIInv, DrawingOK, TreeOK
  <2>2. UpToDate # InvalidExtents
    BY DEF UpToDate, InvalidExtents
  <2>3. ASSUME NEW m \in Living
        PROVE  /\ movies[m].parent # Nothing /\ movies[m].cache_state # UpToDate =>
                    movies[movies[m].parent].cache_state # UpToDate
               /\ movies[m].cache_state = InvalidExtents => movies[m].invalidate_last
               /\ movies[m].cache_state = UpToDate => Covered(movies, m) \subseteq movies[m].extents
    BY <2>1, <2>2 DEF Living, CachesOK, Nested, Covers, IsTree
  <2>4. QED
    BY <2>1, <2>3 DEF CachesAgree, Reported, Living
<1>2. QED
  BY <1>1, DrawingInvariance, PTL

\* After every event the screen shows at every point what the movies there
\* look like: no change goes unreported, and no place that a movie left.
THEOREM NeverArtifacts == DrawingSpec => []NoArtifacts
<1>1. ASSUME DrawingIInv PROVE NoArtifacts
  <2>1. ASSUME pending = {}, invalid = {}, NEW p \in Points
        PROVE  screen[p] = Picture(movies, p)
    <3>1. screen[p] = CleanPicture(movies, {}, p)
      BY <1>1, <2>1 DEF DrawingIInv, DrawingOK
    <3>2. QED
      BY <3>1, AllClean
  <2>2. QED
    BY <2>1 DEF NoArtifacts
<1>2. QED
  BY <1>1, DrawingInvariance, PTL
=============================================================================
