----------------------------- MODULE TextBuffer -----------------------------
(***************************************************************************)
(* SwfdecTextBuffer (swfdec_text_buffer.c) as operators: the text of a     *)
(* text field, the attributes of its bytes and the cursor.  Attributes are *)
(* kept once for a run of bytes: a format applies from its start to the    *)
(* start of the next one.  Positions are counted in bytes from 0.  The     *)
(* kinds of attributes are those that swfdec_text_attributes_diff tells    *)
(* apart: all but the tab stops (README, section 4).                       *)
(***************************************************************************)
EXTENDS Integers, SequencesExt

CONSTANTS Kinds, AttributeValues     \* attributes have a value of each kind

Attributes == [Kinds -> AttributeValues]

EmptyBuffer(attr) == [text |-> <<>>, attributes |-> <<>>, default |-> attr,
                      cursor_start |-> 0, cursor_end |-> 0]

\* swfdec_text_attributes_copy
Copied(attr, other, mask) == [k \in Kinds |-> IF k \in mask THEN other[k] ELSE attr[k]]

\* swfdec_text_buffer_get_iter_for_pos: the format that is relevant for pos.
IterForPos(formats, pos) ==
    CHOOSE i \in DOMAIN formats :
      /\ formats[i].start <= pos
      /\ i < Len(formats) => formats[i + 1].start > pos

\* swfdec_text_buffer_get_attributes
GetAttributes(b, pos) ==
    IF pos = Len(b.text) THEN b.default
    ELSE b.attributes[IterForPos(b.attributes, pos)].attr

\* The formats that are left when only those at some places are kept.
Picked(formats, places) ==
    [j \in 1..Cardinality(places) |->
       formats[CHOOSE i \in places : Cardinality({p \in places : p <= i}) = j]]

\* swfdec_text_buffer_remove_duplicates, from format first to the one before end.
\* A format that goes equals the one that stays in front of it, so that each can
\* be compared with the one before it.
RemoveDuplicates(formats, first, end) ==
    Picked(formats, {i \in DOMAIN formats :
                       i \in first + 1 .. end - 1 => formats[i].attr # formats[i - 1].attr})

\* Faulty variants are named Wrong..., as in the other modules.
WrongInserted(formats, pos, n, len, default) ==
    IF pos = len
    THEN RemoveDuplicates(Append(formats, [start |-> pos, attr |-> default]),
                          IF formats = <<>> THEN 1 ELSE Len(formats), Len(formats) + 2)
    ELSE [i \in DOMAIN formats |->
            [formats[i] EXCEPT !.start = IF @ >= pos /\ pos > 0 THEN @ + n ELSE @]]

\* The formats when n bytes are inserted.
Inserted(formats, pos, n, len, default) ==
    IF pos = len
    THEN RemoveDuplicates(Append(formats, [start |-> pos, attr |-> default]),
                          IF formats = <<>> THEN 1 ELSE Len(formats), Len(formats) + 2)
    ELSE [i \in DOMAIN formats |->
            [formats[i] EXCEPT !.start = IF @ > pos THEN @ + n ELSE @]]

\* swfdec_text_buffer_insert_text
InsertText(b, pos, text) ==
    LET n == Len(text)
        Moved(cursor) == IF cursor >= pos THEN cursor + n ELSE cursor
    IN IF n = 0 \/ pos > Len(b.text) THEN b
       ELSE [b EXCEPT !.text = SubSeq(@, 1, pos) \o text \o SubSeq(@, pos + 1, Len(@)),
                      !.attributes = Inserted(@, pos, n, Len(b.text), b.default),
                      !.cursor_start = Moved(@),
                      !.cursor_end = Moved(@)]

WrongDeleted(formats, pos, n, len) ==
    LET end == pos + n
        inside == {i \in DOMAIN formats : formats[i].start \in pos..end}
        moved == [i \in DOMAIN formats |->
                    [formats[i] EXCEPT !.start = IF i \in inside THEN pos
                                                 ELSE IF @ > end THEN @ - n ELSE @]]
    IN Picked(moved, {i \in DOMAIN formats : i \in inside => i + 1 \notin inside})

\* The formats when n bytes are deleted: of those that start among them, or
\* right behind them, the last one stays, unless nothing is left behind it.
Deleted(formats, pos, n, len) ==
    LET end == pos + n
        inside == {i \in DOMAIN formats : formats[i].start \in pos..end}
        moved == [i \in DOMAIN formats |->
                    [formats[i] EXCEPT !.start = IF i \in inside THEN pos
                                                 ELSE IF @ > end THEN @ - n ELSE @]]
    IN Picked(moved, {i \in DOMAIN formats :
                        i \in inside => i + 1 \notin inside /\ end # len})

\* swfdec_text_buffer_delete_text
DeleteText(b, pos, n) ==
    LET end == pos + n
        Moved(cursor) == IF cursor > end THEN cursor - n
                         ELSE IF cursor > pos THEN pos ELSE cursor
    IN IF n <= 0 \/ end > Len(b.text) THEN b
       ELSE [b EXCEPT !.text = SubSeq(@, 1, pos) \o SubSeq(@, end + 1, Len(@)),
                      !.attributes = Deleted(@, pos, n, Len(b.text)),
                      !.cursor_start = Moved(@),
                      !.cursor_end = Moved(@)]

\* Makes sure that a format starts at pos, with swfdec_text_buffer_copy_format.
Split(formats, pos) ==
    LET i == IterForPos(formats, pos)
    IN IF formats[i].start < pos
       THEN InsertAt(formats, i + 1, [start |-> pos, attr |-> formats[i].attr])
       ELSE formats

\* swfdec_text_buffer_set_attributes, for n > 0 bytes
SetAttributes(b, start, n, attr, mask) ==
    LET end == start + n
        first == Split(b.attributes, start)
        both == IF end = Len(b.text) THEN first ELSE Split(first, end)
        changed == [i \in DOMAIN both |->
                      IF both[i].start \in start .. end - 1
                      THEN [both[i] EXCEPT !.attr = Copied(@, attr, mask)] ELSE both[i]]
        from == IterForPos(both, start)
        to == IF end = Len(b.text) THEN Len(both) + 1 ELSE IterForPos(both, end) + 1
    IN [b EXCEPT !.attributes =
          RemoveDuplicates(changed, IF from = 1 THEN 1 ELSE from - 1, to)]

\* swfdec_text_buffer_get_unique: which kinds have one value in n bytes.
GetUnique(b, start, n) ==
    IF start = Len(b.text) THEN Kinds
    ELSE LET i == IterForPos(b.attributes, start)
             others == {j \in i + 1 .. Len(b.attributes) : b.attributes[j].start < start + n}
         IN {k \in Kinds : \A j \in others : b.attributes[j].attr[k] = b.attributes[i].attr[k]}

\* swfdec_text_buffer_set_cursor
SetCursor(b, start, end) ==
    IF start > Len(b.text) \/ end > Len(b.text) THEN b
    ELSE [b EXCEPT !.cursor_start = start, !.cursor_end = end]

\* swfdec_text_buffer_get_selection
Selection(b) == IF b.cursor_start <= b.cursor_end
                THEN [start |-> b.cursor_start, end |-> b.cursor_end]
                ELSE [start |-> b.cursor_end, end |-> b.cursor_start]

\* CHECK_ATTRIBUTES: what every change of the buffer asserts in its end.
CheckAttributes(b) ==
    /\ b.attributes = <<>> <=> b.text = <<>>
    /\ b.attributes # <<>> => b.attributes[1].start = 0
    /\ \A i \in 2..Len(b.attributes) :
         /\ b.attributes[i].start > b.attributes[i - 1].start
         /\ b.attributes[i].start < Len(b.text)
=============================================================================
