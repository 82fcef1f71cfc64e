----------------------------- MODULE StyledText -----------------------------
(***************************************************************************)
(* What a text field shows: bytes, each in a style of its own, and the     *)
(* style of what is put behind all of them.  How SwfdecTextBuffer keeps    *)
(* the styles is not visible here.                                         *)
(***************************************************************************)
EXTENDS Integers, Sequences

CONSTANTS
    Bytes,          \* what a text consists of
    Kinds, AttributeValues   \* a style has a value of each kind

Styles == [Kinds -> AttributeValues]

VARIABLES
    shown,          \* the text, a sequence of [byte, style]
    style           \* of bytes that are put behind all others

vars == <<shown, style>>

Init == shown = <<>> /\ style \in Styles

\* The text s without the n bytes behind position p.
Cut(s, p, n) == SubSeq(s, 1, p) \o SubSeq(s, p + n + 1, Len(s))

\* New bytes look like the one they are put in front of.
Put(s, p, bytes) ==
    LET look == IF p < Len(s) THEN s[p + 1].style ELSE style
    IN SubSeq(s, 1, p)
         \o [i \in 1..Len(bytes) |-> [byte |-> bytes[i], style |-> look]]
         \o SubSeq(s, p + 1, Len(s))

\* Some bytes, or none, give way to others, or none.
Replace(s, t, p, n) ==
    LET k == Len(t) - (Len(s) - n)
    IN  /\ k >= 0
        /\ \A i \in 1..k : t[p + i].byte \in Bytes
        /\ t = Put(Cut(s, p, n), p, [i \in 1..k |-> t[p + i].byte])
        /\ style' \in Styles

\* Some bytes get the same value of each of some kinds.
Restyle(s, t, p, n) ==
    LET changed == p + 1 .. p + n
    IN  /\ Len(t) = Len(s)
        /\ \A i \in 1..Len(s) :
             /\ t[i].byte = s[i].byte
             /\ t[i].style \in Styles
             /\ i \notin changed => t[i].style = s[i].style
        /\ \A k \in Kinds :
             \/ \A i \in changed : t[i].style[k] = s[i].style[k]
             \/ \A i, j \in changed : t[i].style[k] = t[j].style[k]
        /\ UNCHANGED style

\* A part of the text s changes to make the text t.
Change(s, t) == \E p \in 0..Len(s) : \E n \in 0 .. Len(s) - p :
                  Replace(s, t, p, n) \/ Restyle(s, t, p, n)

Next == Change(shown, shown')

Spec == Init /\ [][Next]_vars
=============================================================================
