---------------------------- MODULE MCStructures ----------------------------
(***************************************************************************)
(* The parts that call nobody back in the middle of an operation: a ring   *)
(* buffer, the cache of pictures, an editable text field and the drawing   *)
(* of movies.  They share no state; every behaviour is one of one of them, *)
(* while the others are as they were made.                                 *)
(***************************************************************************)
EXTENDS RingBuffer, Cache, TextField, Drawing

CONSTANTS a, b

\* Ring buffers of two or three slots that may be grown up to six.
MCValues == {a, b}
MCInitialSizes == {2, 3}

\* Formats set one of two kinds of attributes. Texts have characters of two
\* bytes, and newlines of one; what is typed is a newline.
MCKinds == {"font", "color"}
MCAttributeValues == {0, 1}
MCTexts == {<<>>, Wide}
MCCharacters == {<<Newline>>}
MCFormats == {[attr |-> [k \in MCKinds |-> v], values_set |-> {"font"}] : v \in MCAttributeValues}

VARIABLE part

allVars == <<vars, cacheVars, textVars, drawingVars, part>>

Parts == {"ring buffer", "cache", "text field", "drawing"}

StructuresInit ==
    /\ part \in Parts
    /\ Init /\ (part # "ring buffer" => size = 2)
    /\ CacheInit
    /\ TextInit /\ (part # "text field" => buffer.default = [k \in MCKinds |-> 0])
    /\ DrawingInit /\ (part # "drawing" => Living = {Stage})

RingBufferNext == /\ part = "ring buffer" /\ Next
                  /\ UNCHANGED <<cacheVars, textVars, drawingVars, part>>
PicturesNext == /\ part = "cache" /\ CacheNext
                /\ UNCHANGED <<vars, textVars, drawingVars, part>>
FieldNext == /\ part = "text field" /\ TextNext
             /\ UNCHANGED <<vars, cacheVars, drawingVars, part>>
StageNext == /\ part = "drawing" /\ DrawingNext
             /\ UNCHANGED <<vars, cacheVars, textVars, part>>

StructuresNext == RingBufferNext \/ PicturesNext \/ FieldNext \/ StageNext

StructuresSpec == StructuresInit /\ [][StructuresNext]_allVars
=============================================================================
