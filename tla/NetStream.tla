----------------------------- MODULE NetStream -----------------------------
(***************************************************************************)
(* Playback of a video that is still being loaded (swfdec_net_stream.c):   *)
(* one timeout per video image, buffering, and the scripts that the stream *)
(* calls in the middle of all this to report its status.  Such a script    *)
(* may pause, seek, close or replace the very stream that called it.       *)
(*                                                                         *)
(* stack holds what is still to be done, innermost first: "script" stands  *)
(* for a script that runs, every other entry for the rest of a function    *)
(* that called one.  The file (swfdec_flv_decoder.c, see FlvDecoder) is    *)
(* reduced to the kinds of data it has and the number of its images; these *)
(* are one msec apart, the first at 0.  An image is decoded from the one   *)
(* before it, unless it is a key frame.                                    *)
(***************************************************************************)
EXTENDS Timeouts

CONSTANTS
    BufferTime,     \* buffer_time at first, in msecs
    BufferTimes,    \* what scripts set buffer_time to
    KeyFrames,      \* the key frames of a video
    FramePeriod,    \* the msecs between two iterations of the player
    MaxFrames,      \* bound: how many images a video has
    MaxTime,        \* bound: no timeout runs after this time
    MaxDepth        \* bound: no script is called from a stack this deep

ASSUME BufferAssumption == BufferTime \in Nat /\ BufferTimes \subseteq Nat
ASSUME KeyAssumption == KeyFrames \subseteq Nat /\ 0 \in KeyFrames
ASSUME PeriodAssumption == FramePeriod \in Nat \ {0}
ASSUME BoundAssumption == MaxFrames \in Nat /\ MaxTime \in Nat /\ MaxDepth \in Nat

VARIABLES
    ns,             \* the SwfdecNetStream and the player's clock
    stack           \* what is to be done, innermost first

vars == <<ns, stack>>

\* The stream's timeout is armed while its callback is not NULL; "iterate"
\* stands for all other timeouts of the player.  history is what the images of
\* this video that the decoder was given amount to.
Init == /\ ns = [loader   |-> "none",       \* what came of the last loader
                 flv      |-> FALSE,        \* flvdecoder: whether there is one
                 tracks   |-> {},           \* the arrays it has allocated
                 frames   |-> 0,            \* the length of the video array
                 heard    |-> FALSE,        \* whether the audio array has data
                 eof      |-> FALSE,
                 decoder  |-> FALSE,        \* whether there is one for images
                 decoder_time |-> 0,
                 history  |-> "nothing",
                 buffer_time |-> BufferTime,
                 playing  |-> FALSE,
                 buffering |-> FALSE,
                 current  |-> 0,            \* current_time
                 next     |-> 0,            \* next_time
                 audio    |-> FALSE,
                 armed    |-> FALSE,
                 stamp    |-> [video |-> 0, iterate |-> FramePeriod],
                 timeouts |-> <<"iterate">>,
                 time     |-> 0,
                 target   |-> 0]
        /\ stack = <<>>

\* The header may announce video or audio, or the data brings it later.
HasVideo(s) == "video" \in s.tracks
LastFrame(s) == Max({0, s.frames - 1})

\* Whoever runs last returns to swfdec_player_do_advance.
Return(s, rest) == /\ ns' = IF rest = <<>> THEN [s EXCEPT !.time = s.target] ELSE s
                   /\ stack' = rest

At(label) == stack # <<>> /\ Head(stack) = label
Rest == Tail(stack)

-----------------------------------------------------------------------------
(* swfdec_net_stream_update_playing *)

ShouldPlay(s) == s.playing /\ ~s.buffering /\ s.flv /\ s.next > s.current

StartPlaying(s) ==
    LET stamp == [s.stamp EXCEPT !.video = s.time + (s.next - s.current)]
    IN  [s EXCEPT !.armed = TRUE,
                  !.stamp = stamp,
                  !.timeouts = AddTimeout(@, stamp, s.time, "video"),
                  !.audio = @ \/ "audio" \in s.tracks]

StopPlaying(s) == [s EXCEPT !.armed = FALSE,
                            !.audio = FALSE,
                            !.timeouts = RemoveTimeout(@, "video")]

UpdatePlaying(s) == CASE ShouldPlay(s) /\ ~s.armed -> StartPlaying(s)
                      [] ~ShouldPlay(s) /\ s.armed -> StopPlaying(s)
                      [] OTHER -> s

-----------------------------------------------------------------------------
(* swfdec_net_stream_video_goto *)

\* swfdec_flv_decoder_get_video: the image at time msecs and the next one, 0
\* if there is no next one.
Shown(s, msecs) == Min({msecs, LastFrame(s)})
NextFrame(s, msecs) ==
    LET shown == Shown(s, msecs)
    IN  IF shown + 1 < s.frames THEN shown + 1 ELSE 0
KeyFrame(s, msecs) == Max({k \in KeyFrames : k <= Shown(s, msecs)})

\* The images from first to last are given to the decoder.
Decoded(s, first, last) ==
    [s EXCEPT !.decoder = TRUE,
              !.decoder_time = last,
              !.history = IF \/ (first..last) \cap KeyFrames # {}
                             \/ s.history = "complete" /\ first = s.decoder_time + 1
                          THEN "complete" ELSE "incomplete"]

\* The key frame is decoded, and taken for the image before it.
WrongDecode(s) ==
    LET at == IF s.decoder /\ s.decoder_time >= s.current
              THEN KeyFrame(s, s.current) ELSE s.decoder_time
        next == NextFrame(s, at)
        skip == next # s.current /\ KeyFrame(s, s.current) > at
        first == IF ~s.decoder \/ skip THEN KeyFrame(s, s.current) ELSE next
        last == IF skip /\ first = s.current THEN Max({first, NextFrame(s, first)})
                ELSE Max({first, s.current})
    IN  IF s.frames = 0 THEN s ELSE Decoded(s, first, last)

\* The video decoder is brought to the current image.  When that was decoded
\* before, the code looks for its key frame, and goes on with the image behind.
Decode(s) ==
    LET at == IF s.decoder /\ s.decoder_time >= s.current
              THEN KeyFrame(s, s.current) ELSE s.decoder_time
        next == NextFrame(s, at)
        skip == next # s.current /\ KeyFrame(s, s.current) > at
        first == IF ~s.decoder \/ skip THEN KeyFrame(s, s.current) ELSE next
    IN  IF s.frames = 0 THEN s ELSE Decoded(s, first, Max({first, s.current}))

Show(s, msecs) ==
    IF HasVideo(s)
    THEN Decode([s EXCEPT !.current = Shown(s, msecs), !.next = NextFrame(s, msecs)])
    ELSE s

\* Without a next image the stream tells a script that it ended or has to wait
\* for more data.  Events that lie between the images are sent in "events".
Goto(s, msecs, rest) ==
    LET at == Show(s, msecs)
        ended == at.next <= at.current
        status == IF ended THEN <<"script", "status">> ELSE <<>>
        events == IF msecs = s.next THEN <<"events">> ELSE <<>>
    IN  IF ~s.flv
        THEN Return(s, rest)
        ELSE Return([at EXCEPT !.buffering = @ \/ (ended /\ ~s.eof)],
                    status \o events \o rest)

\* "status": the script that was told so returned; "update": another one did.
AfterStatus == /\ At("status") \/ At("update")
               /\ Return(UpdatePlaying(ns), Rest)

\* The next of the events is passed to a script.
SendEvent == /\ At("events")
             /\ ns.flv
             /\ Len(stack) < MaxDepth
             /\ Return(ns, <<"script">> \o stack)

NoMoreEvents == /\ At("events")
                /\ Return(ns, Rest)

-----------------------------------------------------------------------------
(* The player's clock *)

\* The clock while the first timeout runs: the timeout has left the list.
Popped(t) == [ns EXCEPT !.timeouts = Tail(@),
                        !.time = ns.stamp[t],
                        !.target = Max({ns.target, ns.stamp[t]})]

Due(t) == /\ stack = <<>>
          /\ ns.timeouts # <<>>
          /\ t = Head(ns.timeouts)
          /\ ns.stamp[t] <= MaxTime

\* Time passes before the next timeout is due.
Wait == /\ stack = <<>>
        /\ ns.timeouts # <<>>
        /\ ns.time + 1 < ns.stamp[Head(ns.timeouts)]
        /\ ns' = [ns EXCEPT !.time = @ + 1, !.target = ns.time + 1]
        /\ UNCHANGED stack

\* The player iterates and runs frame scripts.
FireIterate ==
    LET stamp == [ns.stamp EXCEPT !.iterate = @ + FramePeriod]
        s == Popped("iterate")
    IN  /\ Due("iterate")
        /\ ns' = [s EXCEPT !.stamp = stamp,
                           !.timeouts = AddTimeout(@, stamp, s.time, "iterate")]
        /\ stack' = <<"script">>

\* swfdec_net_stream_timeout.  (When it is not armed the player calls NULL.)
FireVideo == /\ Due("video")
             /\ ns.armed
             /\ Goto(Popped("video"), ns.next, <<"timeout">>)

WrongTimeoutAgain == /\ At("timeout")
                     /\ Return(ns, Rest)

\* The rest of it: the timeout is added again if the stream still plays.  Its
\* timestamp is only looked at after the scripts ran, so it does not matter
\* whether one of them changed it.
TimeoutAgain ==
    LET stamp == [ns.stamp EXCEPT !.video = @ + (ns.next - ns.current)]
    IN  /\ At("timeout")
        /\ Return(IF ns.armed
                  THEN [ns EXCEPT !.stamp = stamp,
                                  !.timeouts = AddTimeout(@, stamp, ns.time, "video")]
                  ELSE ns, Rest)

-----------------------------------------------------------------------------
(* Scripts *)

\* pause(), in both ways.
Pause(playing) == /\ At("script")
                  /\ Return(UpdatePlaying([ns EXCEPT !.playing = playing]), stack)

WrongSetLoader(loader) ==
    /\ At("script")
    /\ Return([ns EXCEPT !.loader = loader, !.flv = FALSE, !.tracks = {}, !.frames = 0,
                         !.heard = FALSE, !.eof = FALSE, !.history = "nothing",
                         !.buffering = TRUE, !.playing = TRUE], stack)

\* play() with a URL that needs no policy file, and close(): the old loader has
\* no target anymore, so swfdec_stream_process will not tell of its end.  The
\* video decoder stays.
SetLoader(loader) ==
    LET s == [ns EXCEPT !.loader = loader,
                        !.flv = FALSE,
                        !.tracks = {},
                        !.frames = 0,
                        !.heard = FALSE,
                        !.eof = FALSE,
                        !.history = "nothing",
                        !.buffering = TRUE,
                        !.playing = TRUE]
    IN  /\ At("script")
        /\ Return(UpdatePlaying(s), RemoveFirst(stack, "end"))

\* setBufferTime()
SetBufferTime(msecs) == /\ At("script")
                        /\ Return([ns EXCEPT !.buffer_time = msecs], stack)

\* seek(), to the key frame before what is asked for.
Seek(msecs) == /\ At("script")
               /\ Len(stack) < MaxDepth
               /\ HasVideo(ns)
               /\ msecs <= LastFrame(ns)
               /\ Goto(ns, KeyFrame(ns, msecs), <<"seek">> \o stack)

\* The rest of it: the sound starts again where the video is now.
AfterSeek == /\ At("seek")
             /\ Return(ns, Rest)

EndScript == /\ At("script")
             /\ Return(ns, Rest)

-----------------------------------------------------------------------------
(* Data arrives: swfdec_stream_process calls the stream as its target *)

\* The loader has new data, and perhaps it was the last.  The first time there
\* is no decoder, and a script is told that playback starts.
Load(last) ==
    LET parse == <<"parse">> \o (IF last THEN <<"end">> ELSE <<>>)
    IN  /\ stack = <<>>
        /\ ns.loader = "open"
        /\ Return([ns EXCEPT !.flv = TRUE],
                  (IF ns.flv THEN <<>> ELSE <<"script">>) \o parse)

\* swfdec_net_stream_stream_target_parse: what the data may turn out to be.  The
\* first image and the first sound make the stream ask to be called again, also
\* if this is the end; other images make it check whether it has buffered enough.
Parsed(tracks, frames, heard) ==
    /\ ns.tracks \subseteq tracks
    /\ frames > 0 => "video" \in tracks
    /\ heard => "audio" \in tracks
    /\ Return([ns EXCEPT !.tracks = tracks, !.frames = frames, !.heard = heard],
              CASE \/ ns.frames = 0 /\ frames > 0
                   \/ ns.heard # heard   -> RemoveFirst(Rest, "end")
                [] frames = ns.frames    -> Rest
                [] OTHER                 -> <<"recheck">> \o Rest)

Parse == /\ At("parse")
         /\ \/ ~ns.flv /\ Return(ns, Rest)
            \/ /\ ns.flv
               /\ \E tracks \in SUBSET {"video", "audio"},
                     frames \in ns.frames..MaxFrames,
                     heard \in {ns.heard, TRUE} : Parsed(tracks, frames, heard)

\* swfdec_net_stream_stream_target_recheck.
Recheck ==
    /\ At("recheck")
    /\ IF ns.buffering /\ HasVideo(ns) /\ ns.current + ns.buffer_time <= LastFrame(ns)
       THEN Goto(ns, ns.current, <<"full">> \o Rest)
       ELSE Return(UpdatePlaying(ns), Rest)

\* The rest of it: buffering is over, which a script is told.
BufferFull == /\ At("full")
              /\ Return([ns EXCEPT !.buffering = FALSE], <<"script", "update">> \o Rest)

\* swfdec_net_stream_stream_target_close: a script is told that no data will
\* come anymore, unless the data before made the stream call again.
CloseTarget == /\ At("end")
               /\ Return([ns EXCEPT !.loader = "closed", !.eof = TRUE],
                         <<"script", "flushed">> \o Rest)

\* That script returned: the image is shown once more.
Flushed == /\ At("flushed")
           /\ IF ~ns.flv THEN Return(ns, Rest)
                                 ELSE Goto(ns, ns.current, <<"closed">> \o Rest)

\* There is nothing left to wait for.
Closed ==
    /\ At("closed")
    /\ Return([ns EXCEPT !.buffering = FALSE],
              IF HasVideo(ns) /\ ns.current + ns.buffer_time <= LastFrame(ns)
              THEN <<"script", "recheck">> \o Rest
              ELSE <<"recheck">> \o Rest)

\* swfdec_net_stream_stream_target_error.
Fail == /\ stack = <<>>
        /\ ns.loader = "open"
        /\ Return([ns EXCEPT !.loader = "failed"],
                  IF ~ns.flv THEN <<"script">> ELSE <<>>)

-----------------------------------------------------------------------------

Clock == Wait \/ FireIterate \/ FireVideo \/ TimeoutAgain

Script == \/ \E playing \in BOOLEAN : Pause(playing)
          \/ \E loader \in {"none", "open"} : SetLoader(loader)
          \/ \E msecs \in BufferTimes : SetBufferTime(msecs)
          \/ \E msecs \in 0..MaxFrames : Seek(msecs)
          \/ EndScript

Video == AfterStatus \/ SendEvent \/ NoMoreEvents \/ AfterSeek

Target == \/ \E last \in BOOLEAN : Load(last)
          \/ Parse \/ Recheck \/ BufferFull \/ CloseTarget \/ Flushed \/ Closed \/ Fail

Next == Clock \/ Script \/ Video \/ Target

Spec == Init /\ [][Next]_vars

-----------------------------------------------------------------------------
(* Properties *)

Labels == {"script", "status", "update", "events", "timeout", "seek", "parse", "end",
           "recheck", "full", "flushed", "closed"}

NetStreams == [loader       : {"none", "open", "closed", "failed"},
               flv          : BOOLEAN,
               tracks       : SUBSET {"video", "audio"},
               frames       : 0..MaxFrames,
               heard        : BOOLEAN,
               eof          : BOOLEAN,
               decoder      : BOOLEAN,
               decoder_time : Nat,
               history      : {"nothing", "complete", "incomplete"},
               buffer_time  : Nat,
               playing      : BOOLEAN,
               buffering    : BOOLEAN,
               current      : Nat,
               next         : Nat,
               audio        : BOOLEAN,
               armed        : BOOLEAN,
               stamp        : [{"video", "iterate"} -> Nat],
               timeouts     : Seq({"video", "iterate"}),
               time         : Nat,
               target       : Nat]

\* The state of the stream.
TypeOK == ns \in NetStreams /\ stack \in Seq(Labels)

\* Playback never stalls: an armed timeout is in the player's list, except in
\* its own callback, and when that adds it again there is a next image, so that
\* the unsigned difference of next_time and current_time is one.  Sound is
\* only there while the timeout is armed: starting it never finds old sound
\* (the assertion in update_playing), and a stream that stops or is replaced
\* takes its sound along.
ArmedIsListed ==
    /\ TypeOK
    /\ ns.audio => ns.armed
    /\ ns.armed /\ ~Contains(stack, "timeout") => Contains(ns.timeouts, "video")
    /\ At("timeout") /\ ns.armed => ns.next > ns.current

\* While no function of the stream runs the timeout is only armed if the stream
\* plays, no script can leave a paused, buffering or closed stream running; and
\* a stream never waits for data of a loader that is at its end.
RunningPlays ==
    stack = <<>> =>
        /\ ns.armed => ShouldPlay(ns)
        /\ ns.buffering => ns.loader # "closed"

\* Images that are shown one after the other, or skipped by a seek forward, are
\* decoded from what they build on: the decoder stands at the image that is
\* shown, and misses none since a key frame.
ImagesAreComplete ==
    [][/\ ns'.decoder
       /\ \/ ~ns.decoder
          \/ ns'.current > ns.decoder_time /\ ns.history = "complete"
       => ns'.history = "complete" /\ ns'.decoder_time = ns'.current]_vars

\* The comment in video_goto says that the buffer it has found is the "next
\* buffer to decode": a key frame, or the one behind the last that was decoded.
NextToDecode == ns.history # "incomplete"

\* The comment in update_playing says that the timeout of a stream that stops
\* is removed from the list "to be sure".
StoppedIsUnlisted == ~ns.armed => ~Contains(ns.timeouts, "video")

-----------------------------------------------------------------------------
(* The inductive invariant: what makes the properties above true *)

\* The timeout is the first thing that happens, and the last to return; what it
\* adds itself again for is not in the past.
TimeoutReturnsLast ==
    /\ \A i \in DOMAIN stack : stack[i] = "timeout" => i = Len(stack)
    /\ Contains(stack, "timeout") => ns.stamp.video >= ns.time

\* A timeout that has to be stopped will be when the script that is told so
\* returns.
StopsAfterStatus == ns.armed /\ ~ShouldPlay(ns) => Contains(stack, "status")

\* The end of the loader that the stream has is told once, and stops buffering.
EndIsOfLoader ==
    /\ Contains(stack, "end") => ns.loader = "open" /\ ns.flv
    /\ \A i, j \in DOMAIN stack : stack[i] = "end" /\ stack[j] = "end" => i = j
    /\ ns.loader = "closed" => ns.eof /\ ns.flv
    /\ ns.loader = "closed" /\ ns.buffering =>
         Contains(stack, "flushed") \/ Contains(stack, "closed")

\* The image that is shown was decoded.
ShownIsDecoded == ns.history = "complete" => ns.decoder /\ ns.current <= ns.decoder_time

IInv == /\ ArmedIsListed
        /\ RunningPlays
        /\ TimeoutReturnsLast
        /\ StopsAfterStatus
        /\ EndIsOfLoader
        /\ ShownIsDecoded
=============================================================================
