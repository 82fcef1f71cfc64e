----------------------------- MODULE BufferQueue -----------------------------
(***************************************************************************)
(* SwfdecBufferQueue (swfdec_buffer.c): bytes that arrive in buffers of    *)
(* any size and are taken out in pieces of other sizes.  A queue is a list *)
(* of buffers with two counters, depth and offset, that are kept beside    *)
(* it.  A buffer is a sequence of bytes.                                   *)
(***************************************************************************)
EXTENDS Naturals, SequencesExt

EmptyQueue == [buffers |-> <<>>, depth |-> 0, offset |-> 0]

\* The bytes of the first k buffers, for each k.
Joined(buffers) ==
    LET first[k \in 0..Len(buffers)] ==
            IF k = 0 THEN <<>> ELSE first[k - 1] \o buffers[k]
    IN  first

\* The bytes in the queue.
Contents(q) == Joined(q.buffers)[Len(q.buffers)]

\* swfdec_buffer_queue_push: an empty buffer is dropped.
PushBuffer(q, buffer) ==
    IF buffer = <<>> THEN q
    ELSE [q EXCEPT !.buffers = Append(@, buffer), !.depth = @ + Len(buffer)]

WrongFlush(q, n) ==
    LET End(k) == Len(Joined(q.buffers)[k])
        whole == CHOOSE k \in 0..Len(q.buffers) :
                   /\ End(k) <= n
                   /\ k < Len(q.buffers) => End(k + 1) > n
        left == SubSeq(q.buffers, whole + 1, Len(q.buffers))
    IN [buffers |-> left, depth |-> q.depth - n, offset |-> q.offset + n]

\* swfdec_buffer_queue_flush: whole buffers are removed and the next is split.
Flush(q, n) ==
    LET End(k) == Len(Joined(q.buffers)[k])
        whole == CHOOSE k \in 0..Len(q.buffers) :
                   /\ End(k) <= n
                   /\ k < Len(q.buffers) => End(k + 1) > n
        left == SubSeq(q.buffers, whole + 1, Len(q.buffers))
        cut == n - End(whole)
    IN [buffers |-> IF cut = 0 THEN left
                    ELSE <<SubSeq(Head(left), cut + 1, Len(Head(left)))>> \o Tail(left),
        depth |-> q.depth - n,
        offset |-> q.offset + n]

\* What swfdec_buffer_queue_pull returns; Flush is what it leaves.
Peek(q, n) == SubSeq(Contents(q), 1, n)

\* swfdec_buffer_queue_peek_buffer
PeekBuffer(q) == Head(q.buffers)

\* The counters and the list agree, and no buffer is empty: the loops over the
\* buffers rely on both.
WellFormed(q) == /\ q.depth = Len(Contents(q))
                 /\ \A i \in 1..Len(q.buffers) : q.buffers[i] # <<>>
=============================================================================
