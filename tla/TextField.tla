------------------------------ MODULE TextField ------------------------------
(***************************************************************************)
(* A text field that can be edited (swfdec_text_field_movie.c and _as.c):  *)
(* the mouse and keys that move the cursor in its buffer, and the scripts  *)
(* that change the text, its formats and how far it is scrolled.           *)
(*                                                                         *)
(* Positions in the buffer are counted in bytes, those of scripts in       *)
(* characters, and those of the mouse in bytes from the start of the row   *)
(* that is scrolled to the top.  A press of the mouse computes the         *)
(* position, passes the focus, which runs scripts, and then puts the       *)
(* cursor there.                                                           *)
(***************************************************************************)
EXTENDS TextBuffer

CONSTANTS
    Texts,          \* texts that scripts set and insert
    Characters,     \* characters that are typed
    Formats,        \* what TextFormats hold: [attr, values_set]
    VisibleRows,    \* how many rows the field shows
    Version,        \* of Flash
    MaxText         \* bound: scripts and keys make no text longer than this

\* A text consists of bytes: a character of one byte, a newline, or one of
\* two bytes, the second of which continues it.
Narrow == "narrow"
Newline == "newline"
Lead == "lead"
Continuation == "continuation"
Wide == <<Lead, Continuation>>
Bytes == {Narrow, Newline, Lead, Continuation}

ASSUME TextAssumption ==
    /\ Texts \subseteq Seq(Bytes) /\ Characters \subseteq Seq(Bytes)
    /\ Formats \subseteq [attr : Attributes, values_set : SUBSET Kinds]
    /\ VisibleRows \in Nat /\ MaxText \in Nat

Up == -1
Down == -2

VARIABLES
    buffer,         \* the text, its formats and the cursor
    scroll,         \* the row on top, from 0
    mouse           \* Up, Down (mouse_pressed), or the index of a press that
                    \* still passes the focus

textVars == <<buffer, scroll, mouse>>

Text == buffer.text
Length == Len(Text)

TextInit ==
    /\ \E f \in Formats : buffer = EmptyBuffer(f.attr)
    /\ scroll = 0
    /\ mouse = Up

-----------------------------------------------------------------------------
(* Characters, rows *)

\* Whether a character starts, or the text ends, at index p.  A continuation
\* that continues nothing is one of its own to whoever draws the text.
OnCharacter(text, p) ==
    p = 0 \/ p = Len(text) \/ text[p + 1] # Continuation \/ text[p] # Lead

WellFormed(text) ==
    \A i \in DOMAIN text :
      /\ text[i] = Lead => i < Len(text) /\ text[i + 1] = Continuation
      /\ text[i] = Continuation => i > 1 /\ text[i - 1] = Lead

\* The indices at which characters begin, and the end: what g_utf8_strlen and
\* g_utf8_offset_to_pointer count.
Offsets == {p \in 0..Length : OnCharacter(Text, p)}

\* The row that index p is in, and swfdec_text_layout_get_n_rows.
Row(text, p) == Cardinality({i \in 1..p : text[i] = Newline})
NRows(text) == Row(text, Len(text)) + 1

\* The row that may be on top at most, so that all visible rows are used.
ScrollMax(text) == Max({0, NRows(text) - VisibleRows})

\* g_utf8_prev_char and g_utf8_next_char, as BACKWARD and FORWARD use them.
Backward(p) == Max({0} \cup {q \in 0 .. p - 1 : Text[q + 1] # Continuation})
Forward(p) == IF p = Length THEN p ELSE IF Text[p + 1] = Lead THEN p + 2 ELSE p + 1

\* Going back over bytes none of which begins a character leaves the text.
CanGoBack(p) == p = 0 \/ \E q \in 0 .. p - 1 : Text[q + 1] # Continuation

-----------------------------------------------------------------------------
(* The mouse and the keyboard *)

Position(p, trailing) == [index |-> p, trailing |-> trailing]

\* swfdec_text_layout_query_position: a character, its first or its second
\* half, the start of a row, or the end of the text.  A row that is not there
\* fails its check and leaves both numbers as they were on the stack.
QueryPosition ==
    IF scroll >= NRows(Text) THEN {Position(p, 0) : p \in 0 .. Length + 1}
    ELSE LET below == {p \in 0..Length : Row(Text, p) >= scroll}
         IN {Position(Length, 0)}
              \cup {Position(p, t) : p \in {q \in below \cap (Offsets \ {Length}) : Text[q + 1] # Newline},
                                  t \in {0, 1}}
              \cup {Position(p, 0) : p \in {q \in below : q = 0 \/ Text[q] = Newline}}

\* swfdec_text_field_movie_xy_to_index
XYToIndex == {q.index + q.trailing : q \in QueryPosition}

MousePress ==
    /\ mouse = Up
    /\ mouse' \in XYToIndex
    /\ UNCHANGED <<buffer, scroll>>

\* swfdec_text_field_movie_focus_in, when the press or a script passes it the focus
FocusIn ==
    /\ buffer' = SetCursor(buffer, 0, Length)
    /\ UNCHANGED <<scroll, mouse>>

\* The rest of swfdec_text_field_movie_mouse_press
EndPress ==
    /\ mouse \notin {Up, Down}
    /\ buffer' = SetCursor(buffer, mouse, mouse)
    /\ mouse' = Down
    /\ UNCHANGED scroll

MouseMove ==
    /\ mouse = Down
    /\ \E index \in XYToIndex :
         LET s == Selection(buffer)
         IN buffer' = SetCursor(buffer, IF buffer.cursor_end = s.start THEN s.end ELSE s.start,
                                index)
    /\ UNCHANGED <<scroll, mouse>>

MouseRelease ==
    /\ mouse = Down
    /\ mouse' = Up
    /\ UNCHANGED <<buffer, scroll>>

\* swfdec_text_field_movie_key_press
KeyPress ==
    LET s == Selection(buffer)
        selected == s.start # s.end
        Replaced(start, end) == IF start = end THEN buffer ELSE DeleteText(buffer, start, end - start)
        To(p) == SetCursor(buffer, p, p)
    IN /\ mouse \in {Up, Down}
       /\ CanGoBack(s.start)
       /\ \/ buffer' = To(IF selected THEN s.start ELSE Backward(s.start))     \* left
          \/ buffer' = To(IF selected THEN s.end ELSE Forward(s.start))        \* right
          \/ buffer' = Replaced(IF selected THEN s.start ELSE Backward(s.start), s.end)
          \/ buffer' = Replaced(s.start, IF selected THEN s.end ELSE Forward(s.end))
          \/ \E c \in Characters :
               /\ Length - (s.end - s.start) + Len(c) <= MaxText
               /\ buffer' = InsertText(Replaced(s.start, s.end), s.start, c)
       /\ UNCHANGED <<scroll, mouse>>

-----------------------------------------------------------------------------
(* Scripts *)

\* What swfdec_text_field_movie_update_layout does to the row on top.
Clamped(row, text) == Min({row, ScrollMax(text)})

\* swfdec_text_field_movie_set_text, for text that is not HTML
SetText(text) ==
    buffer' = InsertText(IF Length = 0 THEN buffer ELSE DeleteText(buffer, 0, Length), 0, text)

\* The property text is set.
SetTextProperty == \E text \in Texts :
    /\ SetText(text)
    /\ scroll' = Clamped(scroll, text)
    /\ UNCHANGED mouse

\* The variable that the field shows is set.
VariableChanged == \E text \in Texts :
    /\ SetText(text)
    /\ UNCHANGED <<scroll, mouse>>

ReplaceText == \E start, end \in Offsets, str \in Texts :
    LET removed == end > start /\ (str # <<>> \/ Version # 7)
        cut == IF removed THEN DeleteText(buffer, start, end - start) ELSE buffer
        put == InsertText(cut, start, str)
    IN /\ start <= end
       /\ WellFormed(Text)
       /\ Len(put.text) <= MaxText
       /\ buffer' = [put EXCEPT !.default = GetAttributes(put, 0)]
       /\ UNCHANGED <<scroll, mouse>>

SetTextFormat == \E start, end \in Offsets, format \in Formats :
    /\ start < end
    /\ WellFormed(Text)
    /\ buffer' = SetAttributes(buffer, start, end - start, format.attr, format.values_set)
    /\ UNCHANGED <<scroll, mouse>>

SetNewTextFormat == \E format \in Formats :
    /\ buffer' = [buffer EXCEPT !.default = Copied(@, format.attr, format.values_set)]
    /\ UNCHANGED <<scroll, mouse>>

SetScroll == \E value \in 1 .. MaxText + 1 :
    /\ value # scroll + 1
    /\ scroll' = Clamped(value - 1, Text)
    /\ UNCHANGED <<buffer, mouse>>

TextNext ==
    \/ MousePress
    \/ FocusIn
    \/ EndPress
    \/ MouseMove
    \/ MouseRelease
    \/ KeyPress
    \/ SetTextProperty
    \/ VariableChanged
    \/ ReplaceText
    \/ SetTextFormat
    \/ SetNewTextFormat
    \/ SetScroll

TextSpec == TextInit /\ [][TextNext]_textVars

-----------------------------------------------------------------------------
(* Properties *)

\* The text with the attributes of every byte, as the layout asks for them.
Shown == [i \in 1..Length |-> [byte |-> Text[i], style |-> GetAttributes(buffer, i - 1)]]

\* Every change of the text, by keys, mouse and scripts, changes what is
\* shown as it would if every byte had attributes of its own: formats that
\* are moved, split, merged and removed with the text give no byte the
\* attributes of another (swfdec_text_buffer.c).
Abstract == INSTANCE StyledText WITH shown <- Shown, style <- buffer.default
ImplementsStyledText == Abstract!Spec

\* What getTextFormat reports of a part of the text: the kinds of attributes
\* that all its bytes agree about.
Agreeing(start, n) ==
    {k \in Kinds : \A p \in start .. start + n - 1 :
       GetAttributes(buffer, p)[k] = GetAttributes(buffer, start)[k]}

\* The assertions of CHECK_ATTRIBUTES hold, the cursor and the selection are
\* in the text whatever was deleted, and getTextFormat reports what all
\* the bytes that it was asked about have in common.
BufferHolds ==
    /\ CheckAttributes(buffer)
    /\ buffer.cursor_start <= Length /\ buffer.cursor_end <= Length
    /\ \A start \in 0 .. Length - 1 : \A n \in 1 .. Length - start :
         GetUnique(buffer, start, n) = Agreeing(start, n)
=============================================================================
