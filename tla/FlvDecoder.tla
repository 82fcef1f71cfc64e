----------------------------- MODULE FlvDecoder -----------------------------
(***************************************************************************)
(* What a Flash video file holds, as it is found by time                   *)
(* (swfdec_flv_decoder.c).  Tags come in the order of the file and are kept *)
(* in an array for each kind; they are found by searching these arrays,    *)
(* which nothing but the insertion keeps in order.                         *)
(*                                                                         *)
(* A tag arrives as a whole: parsing one that is cut leaves everything as  *)
(* it is.  Arrays are sequences, so indices are greater by one than those  *)
(* in the code.                                                            *)
(***************************************************************************)
EXTENDS Naturals, Sequences, SequencesExt, FiniteSetsExt

CONSTANTS
    TagTimes,   \* the timestamps of tags
    UintSize,   \* timestamps are computed modulo this, 2^32 in the code
    MaxTags     \* bound: how many tags a file has

\* Timestamps of tags have 24 bits, so that two of them can be added.
ASSUME FlvAssumption == /\ UintSize \in Nat /\ MaxTags \in Nat
                        /\ TagTimes \subseteq 0..(UintSize - 1)
                        /\ \A a, b \in TagTimes : a + b < UintSize

VARIABLES
    flv,    \* SwfdecFlvDecoder
    came    \* history: the tags of each kind, as they came

flvVars == <<flv, came>>

TagKinds == {"audio", "video", "data"}

\* Which kinds were announced, and of which there are arrays.
FlvInit == /\ flv = [state |-> "header", announced |-> {}, arrays |-> {},
                     tags |-> [k \in TagKinds |-> <<>>]]
           /\ came = [k \in TagKinds |-> <<>>]

Plus(a, b) == (a + b) % UintSize
Minus(a, b) == (a + UintSize - b) % UintSize

----------------------------------------------------------------------------
\* A tag of the very time that is looked for is passed over.
WrongHalf(tags, time, range) ==
    LET cur == (range.min + range.max) \div 2
    IN  IF range.max - range.min <= 1 THEN range
        ELSE IF tags[cur + 1].time >= time THEN [range EXCEPT !.max = cur]
        ELSE [range EXCEPT !.min = cur]

\* One round of the bisection, between indices of the array; after the last
\* one nothing changes any more.
Half(tags, time, range) ==
    LET cur == (range.min + range.max) \div 2
    IN  IF range.max - range.min <= 1 THEN range
        ELSE IF tags[cur + 1].time > time THEN [range EXCEPT !.max = cur]
        ELSE [range EXCEPT !.min = cur]

\* swfdec_flv_decoder_find_video, _find_audio and _find_data
Find(tags, time) ==
    LET range[n \in 0..Len(tags)] == IF n = 0 THEN [min |-> 0, max |-> Len(tags)]
                                     ELSE Half(tags, time, range[n - 1])
    IN  range[Len(tags)].min + 1

\* A tag that is not later than the last is inserted in front of what is found.
Insert(tags, tag) ==
    IF tags = <<>> \/ Last(tags).time < tag.time THEN Append(tags, tag)
    ELSE InsertAt(tags, Find(tags, tag.time), tag)

\* swfdec_flv_decoder_parse_header: anything else is an error, and stays one.
ParseHeader(announced) ==
    /\ flv.state = "header"
    /\ flv' = [flv EXCEPT !.state = "tag", !.announced = announced, !.arrays = announced]
    /\ UNCHANGED came

\* swfdec_flv_decoder_parse_tag: the first tag of a kind that the header did
\* not announce makes the array and is dropped, unless it is data.
ParseTag(kind, tag) ==
    /\ flv.state = "tag"
    /\ flv' = [flv EXCEPT !.arrays = @ \cup {kind},
                          !.tags[kind] = IF kind \in flv.arrays \cup {"data"}
                                         THEN Insert(@, tag) ELSE @]
    /\ came' = [came EXCEPT ![kind] = Append(@, tag)]

\* swfdec_flv_decoder_eof
EndOfFile == /\ flv.state # "eof"
             /\ flv' = [flv EXCEPT !.state = "eof"]
             /\ UNCHANGED came

----------------------------------------------------------------------------
\* swfdec_flv_decoder_get_video and, without key frames, _get_audio: the tag to
\* show at a time, its own time and that of the next one, counted from the
\* first tag.  Nothing comes next at time 0.
GetVideo(tags, time, keyframe) ==
    LET offset == tags[1].time
        found == Find(tags, Plus(time, offset))
        id == IF ~keyframe THEN found
              ELSE Max({i \in 1..found : i = 1 \/ tags[i].key})
    IN  [id |-> id,
         time |-> Minus(tags[id].time, offset),
         next |-> IF id = Len(tags) THEN 0 ELSE Minus(tags[id + 1].time, offset)]

\* swfdec_flv_decoder_get_data: the times of data are those of the file.
GetData(tags, time) ==
    LET later == {i \in Find(tags, time)..Len(tags) : tags[i].time >= time}
    IN  IF later = {} THEN 0 ELSE Min(later)

----------------------------------------------------------------------------
Arrived == Len(came["audio"]) + Len(came["video"]) + Len(came["data"])

FlvNext ==
    \/ \E announced \in SUBSET {"audio", "video"} : ParseHeader(announced)
    \/ /\ Arrived < MaxTags
       /\ \E kind \in TagKinds, time \in TagTimes, key \in BOOLEAN :
            /\ key => kind = "video"
            /\ ParseTag(kind, [time |-> time, key |-> key, number |-> Arrived + 1])
    \/ EndOfFile

FlvSpec == FlvInit /\ [][FlvNext]_flvVars

\* Every tag is kept, wherever it is put, but for those that announce their
\* kind.  If they come in the order of their times they are found: a video shows
\* the last image that is due, knows when the next one is, seeks to the last key
\* frame and meets all data from a time on.  In any order, the next image is
\* later than the time that was asked for, so that playback does not go round
\* in circles.
TagsAreFound ==
    \A kind \in TagKinds :
        LET tags == flv.tags[kind]
            kept == IF kind \in flv.announced \cup {"data"} \/ came[kind] = <<>>
                    THEN came[kind] ELSE Tail(came[kind])
            first == tags[1].time
            due(time) == {i \in DOMAIN tags : tags[i].time <= first + time}
        IN  kind \in flv.arrays =>
              /\ Len(tags) = Len(kept) /\ ToSet(tags) = ToSet(kept)
              /\ tags # <<>> => \A time \in TagTimes :
                   LET next == GetVideo(tags, time, FALSE).next
                   IN  next # 0 => next > time
              /\ (tags # <<>> /\ \A i \in 2..Len(kept) : kept[i - 1].time < kept[i].time) =>
                   /\ tags = kept
                   /\ \A time \in TagTimes :
                        /\ GetVideo(tags, time, FALSE).id = Max(due(time))
                        /\ Max(due(time)) < Len(tags) =>
                             GetVideo(tags, time, FALSE).next =
                               Min({tags[i].time : i \in DOMAIN tags \ due(time)}) - first
                        /\ GetVideo(tags, time, TRUE).id =
                             Max({1} \cup {i \in due(time) : tags[i].key})
                        /\ LET from == {i \in DOMAIN tags : tags[i].time >= time}
                           IN  GetData(tags, time) = IF from = {} THEN 0 ELSE Min(from)
=============================================================================
