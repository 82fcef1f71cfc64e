------------------------------- MODULE Resource -------------------------------
(***************************************************************************)
(* A SwfdecResource (swfdec_resource.c): what loadMovie() and              *)
(* MovieClipLoader.loadClip() load, as the target of a stream (Stream).    *)
(*                                                                         *)
(* The resource belongs to a movie that it finds by its path.  Scripts run *)
(* whenever the listeners of a MovieClipLoader are told something, and may *)
(* remove that movie, unload it or put another one in its place while the  *)
(* data still arrives.                                                     *)
(*                                                                         *)
(* Every action is one of Stream, with what the resource does in it.       *)
(***************************************************************************)
EXTENDS Stream

VARIABLES
    resource,   \* SwfdecResource
    slot,       \* what is found at the path of the movie it is loaded into
    left,       \* how many buffers parse has not read yet
    signal,     \* history: what the listeners were told last
    aborted     \* swfdec_as_context_abort

resourceVars == <<resource, slot, left, signal, aborted>>
allVars == <<vars, resourceVars>>

\* "own" is the movie that was created for the resource, "copy" one with the
\* same resource that an unload put in its place, "other" one that has nothing
\* to do with the resource.
Slots == {"none", "other", "own", "copy"}

\* The first movie of the player is loaded without a request and has no
\* sandbox until its first frame arrived.
ResourceInit ==
    /\ Init
    /\ kind = "loader"
    /\ \E target \in {"root", "clip", "level"}, listened \in BOOLEAN :
          /\ target = "root" => ~listened
          /\ resource = [target      |-> target,
                         state       |-> "new",
                         request     |-> IF target = "root" THEN "allowed" ELSE "pending",
                         sandbox     |-> IF target = "root" THEN "none" ELSE "caller",
                         decoder     |-> "none",
                         sprite      |-> FALSE,    \* of the movie in the slot
                         opening     |-> FALSE,    \* in open, past the early return
                         parsing     |-> FALSE,    \* in the loop of parse
                         clip_loader |-> listened]
    /\ slot = IF resource.target = "root" THEN "own" ELSE "other"
    /\ left = 0
    /\ signal = "none"
    /\ aborted = FALSE

\* swfdec_resource_emit_signal: nobody listens, or there is no movie.
Emit(name) ==
    signal' = IF resource.clip_loader /\ slot # "none" THEN name ELSE signal

-----------------------------------------------------------------------------
(* The request, at the end of a frame *)

WrongLoad ==
    /\ resource.request = "pending"
    /\ resource.target = "level" \/ slot # "none"
    /\ SetTarget
    /\ slot' = "own"
    /\ resource' = [resource EXCEPT !.request = "allowed"]
    /\ UNCHANGED <<left, signal, aborted>>

\* swfdec_resource_create_movie and swfdec_resource_set_loader.  A clip that is
\* gone is not loaded into, a level is made.
Load ==
    /\ resource.request = "pending"
    /\ resource.target = "level" \/ slot # "none"
    /\ SetTarget
    /\ slot' = "own"
    /\ resource' = [resource EXCEPT !.request = "allowed", !.state = "requested"]
    /\ UNCHANGED <<left, signal, aborted>>

NotFound ==
    /\ pc = "idle"
    /\ resource.request = "pending"
    /\ resource.target = "clip" /\ slot = "none"
    /\ resource' = [resource EXCEPT !.request = "denied"]
    /\ UNCHANGED <<vars, slot, left, signal, aborted>>

\* swfdec_resource_do_load without the permission: only for movies it is told.
Denied ==
    /\ pc = "idle"
    /\ resource.request = "pending"
    /\ resource' = [resource EXCEPT !.request = "denied"]
    /\ IF resource.target = "clip" THEN Emit("onLoadError") ELSE UNCHANGED signal
    /\ UNCHANGED <<vars, slot, left, aborted>>

\* swfdec_resource_new
LoadRoot ==
    /\ resource.target = "root"
    /\ SetTarget
    /\ resource' = [resource EXCEPT !.state = "requested"]
    /\ UNCHANGED <<slot, left, signal, aborted>>

-----------------------------------------------------------------------------
(* The callbacks of the stream *)

\* swfdec_resource_stream_target_open, up to the script, when the loop of
\* swfdec_stream_process begins; or the loop calls parse or ends.
Step ==
    /\ Loop
    /\ IF pc' = "open"
       THEN /\ resource' = [resource EXCEPT !.opening = slot # "none"]
            /\ Emit("onLoadStart")
       ELSE UNCHANGED <<resource, signal>>
    /\ left' = stream.data
    /\ UNCHANGED <<slot, aborted>>

\* The state changes when the script has returned, unless open returned early.
Open ==
    /\ Opened
    /\ resource' = [resource EXCEPT
                      !.state = IF resource.opening THEN "opened" ELSE @,
                      !.opening = FALSE]
    /\ UNCHANGED <<slot, left, signal, aborted>>

Parsing == pc \in {"parse", "last parse"} /\ stream.target = "set"

\* The first bytes tell what it is.
Detect ==
    /\ Parsing
    /\ ~resource.parsing
    /\ left > 0
    /\ \E decoder \in IF resource.decoder = "none" THEN {"swf", "image", "unknown"}
                      ELSE {resource.decoder} :
          resource' = [resource EXCEPT !.decoder = decoder, !.parsing = TRUE]
    /\ UNCHANGED <<vars, slot, left, signal, aborted>>

\* swfdec_stream_set_target (loader, NULL)
LetGo == /\ ScriptRuns /\ pc # "open"
         /\ stream.target = "set"
         /\ stream' = Drop(stream)
         /\ UNCHANGED <<kind, backend, pushed, pc, told>>

\* swfdec_resource_stream_target_image.  The first frame makes the movie show
\* what was loaded and gives the resource its sandbox, or it is not allowed to.
Image ==
    IF slot \notin {"own", "copy"} \/ resource.sprite
    THEN UNCHANGED <<vars, resource>>
    ELSE \/ /\ resource' = [resource EXCEPT !.sprite = TRUE, !.sandbox = "own"]
            /\ UNCHANGED vars
         \/ LetGo /\ UNCHANGED resource

\* One round of the loop of swfdec_resource_stream_target_parse, which goes on
\* when the loader is gone.
Round ==
    /\ pc \in {"parse", "last parse"}
    /\ resource.parsing
    /\ left > 0
    /\ left' \in 0..left - 1
    /\ \/ Parsing /\ resource.decoder = "swf" /\ Image
       \/ UNCHANGED <<vars, resource>>
    /\ Emit("onLoadProgress")
    /\ UNCHANGED <<slot, aborted>>

\* A round that ends in a parse error lets go of the loader.
ParseError ==
    /\ Parsing
    /\ resource.parsing
    /\ resource.decoder = "swf"
    /\ left > 0
    /\ left' \in 0..left - 1
    /\ LetGo
    /\ resource' = [resource EXCEPT !.parsing = FALSE]
    /\ UNCHANGED <<slot, signal, aborted>>

\* swfdec_resource_stream_target_parse returns: it has read everything, or has
\* met the end of the file, or too little to detect what it is.  The stream may
\* go on to close, which begins with a last report.
Return ==
    /\ IF resource.parsing
       THEN left = 0 \/ (resource.decoder = "swf" /\ left < stream.data)
       ELSE left = 0 \/ resource.decoder = "none" \/ stream.target = "dropped"
    /\ Parsed
    /\ stream'.data = left
    /\ stream'.queued = stream.queued
    /\ pc = "parse" /\ stream.target = "set" => pc' = "close"
    /\ resource' = [resource EXCEPT !.parsing = FALSE]
    /\ IF pc' = "close" THEN Emit("onLoadProgress") ELSE UNCHANGED signal
    /\ UNCHANGED <<slot, left, aborted>>

\* swfdec_resource_abort_if_not_initialized
AbortIfNotInitialized == aborted' = (resource.sandbox = "none")

\* swfdec_resource_stream_target_close, behind the first script
Close ==
    /\ pc = "close"
    /\ Ended
    /\ stream' = stream
    /\ Emit("onLoadComplete")
    /\ resource' = [resource EXCEPT !.state = "complete"]
    /\ AbortIfNotInitialized
    /\ UNCHANGED <<slot, left>>

WrongFail ==
    /\ Process
    /\ left' = stream.data
    /\ UNCHANGED <<resource, slot, signal, aborted>>

\* swfdec_resource_stream_target_error, when swfdec_stream_process begins
Fail ==
    /\ Process
    /\ IF pc' = "error" THEN Emit("onLoadError") ELSE UNCHANGED signal
    /\ left' = stream.data
    /\ UNCHANGED <<resource, slot, aborted>>

Failed ==
    /\ pc = "error"
    /\ Ended
    /\ stream' = stream
    /\ AbortIfNotInitialized
    /\ UNCHANGED <<resource, slot, left, signal>>

-----------------------------------------------------------------------------

WrongOnLoadInit ==
    /\ pc = "idle"
    /\ slot \in {"own", "copy"}
    /\ resource.state \in {"opened", "complete"}
    /\ IF slot = "own" THEN Emit("onLoadInit") ELSE UNCHANGED signal
    /\ resource' = [resource EXCEPT !.state = "done", !.clip_loader = FALSE]
    /\ UNCHANGED <<vars, slot, left, aborted>>

\* swfdec_resource_emit_on_load_init, at the end of every frame.
OnLoadInit ==
    /\ pc = "idle"
    /\ slot \in {"own", "copy"}
    /\ resource.state = "complete"
    /\ IF slot = "own" THEN Emit("onLoadInit") ELSE UNCHANGED signal
    /\ resource' = [resource EXCEPT !.state = "done", !.clip_loader = FALSE]
    /\ UNCHANGED <<vars, slot, left, aborted>>

\* Scripts, in the callbacks only once those have called any.
InScript ==
    \/ pc = "idle"
    \/ /\ ScriptRuns
       /\ resource.clip_loader /\ slot # "none"
       /\ pc \in {"parse", "last parse"} => left < stream.data

\* The movie is destroyed; it was unloaded or removed, replaced by a load of
\* something else; or another one gets its name.
Moves == ({"none", "other"} \ {slot}) \cup (IF slot = "own" THEN {"copy"} ELSE {})

ChangeSlot ==
    /\ InScript
    /\ resource.target # "root"
    /\ slot' \in Moves
    /\ resource' = [resource EXCEPT !.sprite = @ /\ slot' # "copy"]
    /\ UNCHANGED <<vars, left, signal, aborted>>

\* swfdec_resource_dispose: nothing refers to the resource any more.
Dispose ==
    /\ pc = "idle"
    /\ slot \notin {"own", "copy"}
    /\ LetGo
    /\ UNCHANGED resourceVars

ResourceNext ==
    /\ ~aborted
    /\ \/ Load \/ NotFound \/ Denied \/ LoadRoot
       \/ Step \/ Open \/ Detect \/ Round \/ ParseError \/ Return \/ Close
       \/ Fail \/ Failed
       \/ OnLoadInit \/ ChangeSlot \/ Dispose
       \/ Backend /\ UNCHANGED resourceVars

\* The stream's fairness, the frames of the player and the loop of parse.
ResourceSpec ==
    /\ ResourceInit /\ [][ResourceNext]_allVars
    /\ WF_allVars(Step \/ Open \/ Detect \/ Round \/ Return \/ Close \/ Fail \/ Failed)
    /\ WF_allVars(OnLoadInit)

-----------------------------------------------------------------------------
(* Properties *)

Resources == [target      : {"root", "clip", "level"},
              state       : {"new", "requested", "opened", "complete", "done"},
              request     : {"pending", "allowed", "denied"},
              sandbox     : {"none", "caller", "own"},
              decoder     : {"none", "swf", "image", "unknown"},
              sprite      : BOOLEAN,
              opening     : BOOLEAN,
              parsing     : BOOLEAN,
              clip_loader : BOOLEAN]

Signals == {"none", "onLoadStart", "onLoadProgress", "onLoadComplete",
            "onLoadInit", "onLoadError"}

\* The state of the resource.
ResourceOK ==
    /\ resource \in Resources
    /\ slot \in Slots
    /\ left \in 0..MaxBuffers
    /\ signal \in Signals
    /\ aborted \in BOOLEAN

\* The states of the resource go with what the stream has told it, although
\* scripts run in between and a callback may return early: the error handler
\* never sees a state it asserts is impossible, and nothing but the end of the
\* file completes the resource.
StateFollowsStream ==
    /\ ResourceOK
    /\ pc = "error" => resource.state \in {"requested", "opened"}
    /\ resource.state \in {"complete", "done"} <=> told = "close" /\ pc # "close"
    /\ stream.target = "none" <=> resource.state = "new"

\* What was loaded runs with rights: a movie that shows it has a sandbox, and
\* only the first movie can end without one, which aborts the player.
ShownHasSandbox ==
    /\ resource.sprite => resource.sandbox = "own"
    /\ resource.sandbox = "none" => resource.target = "root"
    /\ aborted => resource.sandbox = "none"

\* What the listeners are told after what, although each of them may put
\* something else in the place of the movie: the end comes once, whatever was
\* missed before it, and onLoadInit only after the movie was complete.
SignalsInOrder ==
    [][signal' # signal =>
         <<signal, signal'>> \in
            {<<"none", "onLoadStart">>, <<"none", "onLoadProgress">>,
             <<"none", "onLoadError">>,
             <<"onLoadStart", "onLoadProgress">>, <<"onLoadStart", "onLoadError">>,
             <<"onLoadProgress", "onLoadComplete">>, <<"onLoadProgress", "onLoadError">>,
             <<"onLoadComplete", "onLoadInit">>}]_allVars

\* Listeners of a load that has ended are told how it did, unless the movie
\* was replaced or the resource let go of its stream.
EndIsReported ==
    resource.clip_loader /\ stream.target = "set" /\ stream.state \in {"closed", "error"}
      ~> \/ signal \in {"onLoadInit", "onLoadError"}
         \/ slot # "own"
         \/ stream.target = "dropped"

-----------------------------------------------------------------------------
(* The inductive invariant: what makes the properties above true *)

\* Only a request that was allowed gets a stream, that of a loader.  The first
\* movie needs none.
RequestComesFirst ==
    /\ kind = "loader"
    /\ resource.target = "root" => resource.request = "allowed"
    /\ stream.target # "none" => resource.request = "allowed"

\* What the listeners can have been told by then.  Those that are there when the
\* stream closes are told of progress first, and those that wait for onLoadInit
\* of the movie that was created for the resource were there all the time.
SignalsFollow ==
    /\ told = "nothing" =>
         \/ signal = "none"
         \/ signal = "onLoadError" /\ resource.request = "denied"
    /\ told = "open" => signal \in {"none", "onLoadStart"}
    /\ told = "parse" => signal \in {"none", "onLoadStart", "onLoadProgress"}
    /\ pc = "close" /\ resource.clip_loader /\ slot # "none" => signal = "onLoadProgress"
    /\ resource.state = "complete" /\ resource.clip_loader /\ slot = "own" =>
         signal = "onLoadComplete"

\* With the invariant of the stream.
ResourceInv == /\ IInv
               /\ StateFollowsStream
               /\ ShownHasSandbox
               /\ RequestComesFirst
               /\ SignalsFollow
=============================================================================
