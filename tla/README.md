# Swfdec in TLA+

TLA+ models, model-checking configurations and machine-checked proofs for the
player core of Swfdec, a library that plays Flash movies. All paths below are
relative to `src/`; a file name without a directory is in `src/swfdec/`.

Swfdec is single-threaded, and hard for another reason: it is reentrant. A
timeout, an external action, a new buffer of data, the mouse or a frame runs
ActionScript, and a script can call back into nearly everything: remove the movie
it belongs to, clear the interval that runs it, replace the stream that reported
to it, pass on the focus while the focus moves, jump to another frame while the
frame is being built. The models are about that: the lists that are walked while
they change, the flags that have to agree with lists kept elsewhere, the pointers
that have to be forgotten, and the order in which things are told.

Contents: 1 inventory, 2 modules, 3 runs, 4 what the code does otherwise than
it says, 5 proofs, 6 bounds and fairness, 7 what is not modelled, 8 plan.

## 1. Inventory

### The parts that carry the program's logic

| Part | Source | State | Operations | What is hard |
|---|---|---|---|---|
| Player clock | `swfdec_player.c` (timeouts, external actions, advancing) | `time`, the sorted list `timeouts`, the ring buffer `external_actions`, two timeouts of its own (`iterate_timeout`, `external_timeout`), `initialized`, `rate` | `swfdec_player_advance`, `_add_timeout`, `_remove_timeout`, `_add_external_action`, `_remove_all_external_actions`, `_perform_external_actions`, `_initialize`, `_start_ticking`, `_lock`/`_unlock` | every callback may add and remove timeouts and actions; ticks are rounded to msecs; the external timeout is throttled |
| Intervals | `swfdec_interval.c` | `priv->intervals`, a timeout in each | `setInterval`, `setTimeout`, `clearInterval`, the trigger | an interval cleared by its own function |
| Ring buffer | `swfdec_ringbuffer.c` | array, `head`, `tail`, `n_elements` | push, pop, peek, `set_size` | growing a wrapped buffer |
| Movies and actors | `swfdec_movie.c`, `swfdec_actor.c`, `swfdec_sprite_movie.c`, parts of `swfdec_player.c` | the display tree (`list`, `parent`, `depth`), movie `state`, `priv->actors`, `priv->roots`, four action queues | create, place, goto, swap depths, remove, destroy, queue and run actions, iterate, dispose | loops over lists that scripts change; removal in two steps because of unload handlers |
| Mouse and focus | `swfdec_player.c`, `swfdec_actor.c`, `swfdec_button_movie.c`, `swfdec_selection.c` | `mouse_button`, `mouse_below`, `mouse_grab`, `focus`, `focus_previous`, the state of every button | mouse moves, presses, releases; `swfdec_player_grab_focus`; removal of an actor | scripts run between the parts of one event and remove the actors it is about |
| Interpreter | `swfdec_as_context.c`, `swfdec_as_frame.c`, `swfdec_as_interpret.c`, `swfdec_as_script_function.c` | frames, their blocks and scope chains, the exception, `state` | run, call, return, throw, catch, abort; Try, With, jumps | blocks that replace each other; frames on the C stack; code that leaves blocks in every way |
| NetStream | `swfdec_net_stream.c`, `swfdec_flv_decoder.c` | loader, decoder, `playing`, `buffering`, `current_time`, `next_time`, a timeout, audio | play, pause, seek, close; open, parse, recheck, close, error as a stream target; the timeout | status scripts in the middle of each of them |
| Streams | `swfdec_stream.c`, `swfdec_stream_target.c`, `swfdec_socket.c`, `swfdec_loader.c` | `state`, `processed_state`, `queued`, `target`, the queue of data | reports of the backend, `set_target`, the process action | the backend is ahead of the target; targets let go in their callbacks |
| Resources | `swfdec_resource.c`, `swfdec_movie_clip_loader.c` | `state`, sandbox, decoder, the movie it belongs to | request, permission, the five target callbacks, `onLoadInit` | listeners replace the movie that is being loaded |
| XML sockets | `swfdec_xml_socket.c`, `swfdec_buffer.c` | the unfinished message, the send queue, `open` | connect, send, close, the target callbacks | partial writes; messages cut anywhere; scripts that close in between |
| Policy files and access | `swfdec_policy_file.c`, `swfdec_access.c`, `swfdec_load_object.c`, `swfdec_function_list.c` | the policy files that load, the requests that wait at each | load, allow, answer requests | answers in any order |
| Objects and garbage collector | `swfdec_as_object.c`, `swfdec_as_gcable.c`, `swfdec_as_context.c` | for each object its variables with their flags, getters and setters, its prototype, its watches; the lists of what is allocated | set, delete and hide variables; watch, unwatch; mark and sweep | a watch runs in the middle of setting a variable and changes what is being set; what is marked has to be all that can be reached |
| Caches | `swfdec_cache.c`, `swfdec_cached.c`, `swfdec_renderer.c` | queue of items by use, sum of sizes, for each object a list of weak links to its items | add, use, unuse, shrink, look up | items are freed by one structure and found by the other |
| Text fields | `swfdec_text_buffer.c`, `swfdec_text_field_movie.c`, `_as.c`, `swfdec_text_layout.c` | the text, formats for runs of its bytes, cursor and selection, the row on top | insert, delete, format, mouse, keys, focus, scripts | bytes, characters and rows are counted side by side; scripts run between a press and the cursor's move |
| Redrawing | `swfdec_movie.c`, `swfdec_movie_asprops.c`, `swfdec_movie_as_drawing.c`, parts of `swfdec_player.c` | for each movie extents, `cache_state`, `invalidate_last`; `invalid_pending`, `invalidations` | invalidate, queue an update, update, unlock | three states of validity kept in step over the tree; old places are reported before a change, new ones after |

The remaining parts (SWF tags and other decoders, codecs, rendering proper,
layout of text, the ActionScript library, the GTK front end, Vivified, tools) are
parsers, arithmetic on data, or callers of the parts above. `PROJECT.json` lists
them with the reason why they are left out.

### How they interact

- **The application** (the GTK front end, for instance) calls
  `swfdec_player_advance` and the input handlers, and owns the backends of
  streams, which report at any time when no call into the player is running.
- **A backend** reports to its stream; the stream *queues an external action*
  in the player. Nothing a backend does runs a script by itself.
- **The player** runs external actions from the external timeout or at the start
  of an iteration, whichever comes first. Each runs a target's callback or
  changes the player (size, focus); scripts that this queued run right after.
- **The frame timer** iterates: external actions first, then every actor's start
  of frame, then all queued actions in the order of their importance, then
  the end of frame for every actor, which destroys removed movies. The requests for
  resources that scripts made are executed when the player is unlocked.
- **Timeouts** are shared: player, intervals and NetStreams each put
  `SwfdecTimeout` structs into the one list and tell from the struct's `callback`
  whether theirs is pending. That convention is kept in five places.
- **Targets** of streams (resources, NetStreams, load objects, policy files, XML
  sockets) are told of every state of their stream and run scripts in it.
- **The interpreter** is called for every script, and by scripts for functions;
  each of its activations runs one frame. It is aborted when it runs too long, and the
  player with it.
- **Scripts** call into movies (tree and queues), intervals (timeouts), streams
  and NetStreams (targets, timeouts), resources, and the focus.

### What makes each part correct

- Clock: the list of timeouts is sorted and holds exactly those with a callback;
  time does not go backward across advances, no timeout is a msec late; a pass
  over the external actions ends, pops only what is there, and runs nothing
  that was queued during the pass; no external action is forgotten.
- Ring buffer: it is a first-in first-out queue, growing included.
- Movies: every queued action has an actor; children come before parents among
  the actors, so that no loop loses its place; unload handlers run once and are
  not lost; `load` comes after `initialize` and `construct`; a removed movie
  is destroyed in the end.
- Mouse and focus: pointers are forgotten with their actors; a button looks as the
  mouse is; events come in the order scripts rely on; who has the focus was told so.
- Interpreter: no frame survives the function whose local variable it is; the blocks of
  a frame lie in each other, and none that guards its code is missing; no exception gets lost; every script ends.
- Objects: what scripts can reach is not freed, and all else is; a watch that runs or is
  listed is not freed, and not kept longer; `__proto__` and the prototype agree.
- NetStream: the timeout is listed while the stream plays and only then; sound
  goes with it; a new video is played, not the state of the old one; a stream does
  not wait for data that cannot come.
- Stream: the target is told everything, once, in order, and nothing after the
  end; it can read the last buffer before it is told of the end.
- Resource: its states go with the stream's; what is shown has rights; listeners are
  told in order, and how it ended.
- XML socket: bytes are neither lost nor reordered, messages do not depend on how they were
  cut, data comes before the end.
- Policy files: each request is answered once, in order, after all files it may
  depend on.
- Cache: what is counted, what is in the queue, what is alive and what can be found agree,
  and never exceed the maximum.
- Text fields: the text looks as if every byte had a format of its own; the cursor stays in
  the text.
- Redrawing: after every event the screen shows what the movies look like; extents cover what is in
  a movie, unless it is marked.

## 2. Modules

| Module | Models | Properties are about |
|---|---|---|
| `BoundedFifo` | what a ring buffer promises | |
| `RingBuffer` | `swfdec_ringbuffer.c` | refinement of `BoundedFifo` |
| `Timeouts` | the list of timeouts as operators; used by the next | |
| `PlayerScheduler` | the clock, external actions and intervals | lists and flags agree, nothing is late or forgotten |
| `Movies` | movies, actors, queues, iterations | tree, actors and queues agree |
| `Input` | mouse, buttons and focus | pointers, looks and events agree |
| `Script` | the interpreter's loop, frames, blocks, exceptions | frames, blocks and code agree |
| `Objects` | objects of scripts, watches, the garbage collector | what is freed and when, prototypes |
| `NetStream` | playback of a loading video | timer, sound, buffering, what is decoded |
| `FlvDecoder` | the tags of a video file, found by time | nothing lost, what is found |
| `Stream` | a stream between backend and target | nothing lost, nothing twice, order |
| `Resource` | a resource on top of `Stream` | states, rights, signals |
| `BufferQueue` | `SwfdecBufferQueue` as operators; used by the next | |
| `XmlSocket` | an XML socket on top of `Stream` | bytes, messages, events |
| `AccessRequests` | what policy files promise to those who ask for access | |
| `PolicyFiles` | load objects, the access matrix, the chain of policy files | refinement of `AccessRequests`, every load ends |
| `Cache` | the cache of pictures and the renderer's links to them | sum, order, links and items agree |
| `StyledText` | text in which every byte has a style | |
| `TextBuffer` | `swfdec_text_buffer.c` as operators; used by the next | |
| `TextField` | an editable text field | refinement of `StyledText`, cursor |
| `Drawing` | cached extents of movies, and what of the stage is drawn again | caches agree, no artifacts |
| `...Proofs` | | the proofs, see section 5 |
| `MC...` | constants of the small instances | |

`Wrong...` operators are faulty variants of the operator that follows them, such
as an author might have written. No specification uses them. Each stands for
one property that tells the variant from the code; they show that the property
says something, and `PROJECT.json` pairs them.

### RingBuffer

`data`, `size`, `head`, `tail` and `n_elements` are the struct's fields. `Push`,
`Pop`, `SetSize` are the functions. `Push` takes the value, because every caller
writes it through the returned pointer at once. The two cases of the `memmove` in
`swfdec_ring_buffer_set_size` are told apart by `Wrapped`. `BoundedFifo` is the
abstract queue; the refinement maps its queue to what `peek_nth` returns.

### Timeouts and PlayerScheduler

A timeout is an identity, and its time a function `timestamp` of identities, as the list
holds pointers: overwriting the timestamp of a listed timeout does not move it.
`armed` is the set of timeouts whose `callback` is not NULL, which is a separate
variable from the list, as in the code.

One `swfdec_player_advance` is three kinds of steps: an action `Fire...` (or
`AdvanceQuietly`) does what `swfdec_player_do_advance` does up to the first
call of a callback, `Proceed` is what the player does between callbacks and
`Finish` sets `time` to the target. `phase` names what is on the stack:
`external` is the loop of `swfdec_player_perform_external_actions`, `action` one
external action, `script` all other scripts. In the last two any action of
`Callback` may happen any number of times: that is what scripts and C code
called from callbacks do to the clock. `AddExternal` is enabled in `idle` as
well, for streams' backends and the application.

`time` and `target` are in ticks; `Goal` rounds with the code's arithmetic
(`SWFDEC_TICKS_TO_MSECS` and back). `fresh` and `lastTrigger` are history
variables. Overflow of the 64 bit clock (after 5 000 years at 112 896 000 ticks a
second) is left out.

### Movies

`stage` is a record of everything a script can change: state, parent and list of
every movie, the roots, the actors, the four queues, who has an unload handler,
who sits at a depth of the timeline. Functions that call each other
(`swfdec_movie_remove`, `_destroy`, `swfdec_sprite_movie_goto`) are operators from
a stage to a stage or to a set of stages, so each action is a whole call. `RemoveMovie` makes the visits of
`swfdec_movie_do_remove` one after the other (`NextVisit` goes down to the first movie that has nothing left to
remove below it); `Destroy` takes all movies at once that `swfdec_movie_destroy` reaches (`Subtrees`), as nothing runs in between.
Depth is modelled by the order in the lists and by the set `timeline`, as the code
distinguishes only order and whether a depth is in the timeline's range.
`walk` is the loop variable of the two loops over the actors in
`swfdec_player_iterate`; between two rounds of them nothing else runs, and within
one the model computes the position the code's saved pointer has.

A frame is one tag (place, remove) or nothing, forward or backward; scripts in
`DoAction` tags are represented by the enter handlers, which run at the same
importance. A call of a script that is not an action of an actor (interval,
external action, key) is `CallScript`.

### Input

`mouse` and `focus` are the five fields of `SwfdecPlayerPrivate`, `life` what
`SwfdecMovieState` says about each actor, `shown` the state of each button. One
`swfdec_player_handle_mouse` is `HandleMouse`, `Moved`, then `Press` or `Release`, then
`Unlock`: between them the listeners of `Mouse` and the queued actions run, as `pc` says.
`calls` are the activations of `swfdec_player_grab_focus`: the steps `Killed` and
`Grabbed` end the two calls of scripts in it, and a nested `SetFocus` is a new
activation. Scripts (`RemoveActor`, `Create`, `SetFocus`) run whenever `pc` is not `idle`.
What lies below the mouse is any movie that is not destroyed: geometry decides about it in the
code. `told` and `heard` are history variables, and so is `late`, the actors that a step
took although they were removed (section 4).

### Script

Code is any that decodes (`Decoded`: the clauses of a Try lie behind it and behind each other, as sizes are unsigned): it may jump
to any action or out of the script, and its blocks may overlap. Jumps into the middle of an action are left out, as are scripts that
read different actions from the same bytes. A script is a sequence of sets of actions: what an `If` finds on the stack, what a native
function does and what data decides is a choice from the set. Seven kinds of actions are
told apart, those that touch frames, blocks or exceptions. `calls` are the activations
of `swfdec_as_context_run`; `at` tells where one is, and `frame` is its local
variable of that name, 0 once the frame has returned. A block's function is its
`kind`; the operators `EndTry`, `EndCatch`, `EndFinally`, `PopWith` are those functions, from a
frame and the exception to both. `PushBlock` turns a block away that does not lie in the innermost one; `rejected` remembers
which were, which the code does not, and no action depends on it. `scope` counts the objects that the frame has put on its scope chain; a
block knows the place of its own, and a catch or with block that ends and finds another one there fails its assertion (`AssertionFails`).
A With may find its object although it was put there by another one, so that it may go on as well. `Leave` takes a frame off the context and `Free` ends its
blocks afterwards, one at a time, as `swfdec_as_context_return` does. `check` is
`check_block`. Exceptions are numbered so that two can be told apart; the number of one
that is gone is used again.

### Objects

`heap` is what is allocated. An object is made together with its function, so that it can be used
as either; object and function are freed on their own, as they are in the code, and `functions` is therefore
a set beside `objects`. `SetVariable` does what `swfdec_as_object_set_variable_and_flags` does up to the call of
a watch, `WatchReturns` the rest; `pending` is the stack of the calls in between. The version is 8,
and a variable that only later versions see has the flag `later`. `known` are the objects that
scripts can have in their own variables until the event is over, and `EndEvent` is
the garbage collection then, if there is one: `Marked` is what `swfdec_as_object_mark` reaches,
`Reachable` what scripts can get, and `GarbageGoes` compares the two. `overruled` is a history variable,
the objects whose `__proto__` a watch has set to another value than the prototype.
Left out are objects with code of their own in these functions (arrays, movies, `super`), strings as values,
interfaces, and getters of `__proto__`.

### NetStream

`ns` is the struct together with the part of the player that matters. The `stack`
holds continuations: where a function of the code calls a script in its middle,
the rest of that function is a label on the stack (`timeout`, `events`, `seek`,
`recheck`, `full`, `flushed`, `closed`), and `script` on top is the script, which
may call pause, play, close, seek. `Stream`'s promise appears as the guards of
`Load` and `Fail`: data comes from an open loader, the end once. The file is
reduced to which kinds of data it has and how many images, one msec apart, some of which
are key frames: the others are decoded on top of the image before. `decoder` and
`decoder_time` are the video decoder, which outlives the video. `history` is a history
variable, what it was given of this video: nothing yet, all images since a key frame
(`complete`), or not all. `Decode` is the middle of `swfdec_net_stream_video_goto`, with
its search for the image to start from as it is (section 4).

### FlvDecoder

A video file has three arrays of tags, each found by bisection. `Insert` uses the same
bisection for tags that do not come later than the last. `Half` is one round of the loop, and `Find`
the function of rounds. Timestamps are read from 24 bits and kept in 32, so that the sum of two
does not wrap around (`FlvAssumption`), while a difference may if tags are out of order. `came` is a history variable, all tags
as they came. `NetStream` does not use the module: it has a file whose images are in order, which
`TagsAreFound` shows to be found as `Shown`, `NextFrame` and `KeyFrame` say.

### Stream, Resource and XmlSocket

`stream` is `SwfdecStreamPrivate` with the number of process actions queued for
it. `backend` is what the backend has reported. `pc` is where
`swfdec_stream_process` is; every target callback is a step of its own, during
which the actions of `Target` may happen. `kind` distinguishes targets that may
let go in any callback (those of loaders) from the XML socket that lets go when it
ends and whose scripts may send. The function `swfdec_stream_ensure_closed` calls the
backend, which may or may not report that it closed before it returns:
`Closings` has both.

`Resource` and `XmlSocket` extend `Stream`: each of their actions is the conjunction of one of
its actions and what the target does in it, so they are behaviours of `Stream` with a
target that is known, and `Stream`'s properties hold for them.

- `Resource`: `slot` is what is found at the path of the movie: the movie
  that was created for the resource, a copy that an unload left in its place, another movie,
  or none. `Detect` and `Round` are the loop of `swfdec_resource_stream_target_parse`, each
  round with a call of the listeners. `signal` is a history variable.
- `XmlSocket`: `arrived` is the stream's queue of buffers. `Take` is one round of the
  loop that cuts messages; `Writes` is the loop that sends, with every way the
  backend may take part of a buffer or fail. Bytes are numbers; one ends a message, one
  is not UTF-8, and strings that scripts send can be told apart. `received`, `delivered`
  and `wire` are history variables. `Reading` is what `MessagesAreIntact` compares with: it
  goes over the bytes one by one and knows nothing of buffers.

### PolicyFiles

A URL is reduced to its host, and a policy file to whether it allows the player's page to
load from the file's own host. `resource_requests` and `run` are the function list and the copy
of it that `swfdec_function_list_execute_and_clear` works on. `FinishedLoading` ends a file
at any position of `loading_policy_files`, and the requests that waited at it move to the
next older file, or are answered one by one (`AnswerRequest`), where each answer may run a
script. `AccessRequests` knows no chain: each client waits for a set of files, those that
load when it asks, and is answered when none of them is left; the refinement
mapping derives that set from the chain.

### Cache

`queue`, `cache_size` and `lookup` are the fields of the renderer's cache and its table;
`pictures` are the objects that are alive. Everything that is cached goes through the same
two functions: a picture that is found is used, one that is not is made and added
(`UsePicture`, `AddPicture`). Images and embedded videos keep one picture for each color
transform or frame, a NetStream only the last (`replace`). A picture that is larger than the
cache is in nobody's hands but the caller's, and its link is empty afterwards.

### StyledText, TextBuffer and TextField

`buffer` is the struct: text, the sequence of formats, each with the position it starts at, the
default, the cursor. A text is a sequence of bytes, of which a newline and the two of a wide
character are told apart. `Row` counts newlines, so every paragraph is one row. `mouse` is `mouse_pressed`,
or the index that `swfdec_text_field_movie_mouse_press` has computed while the focus is passed and
scripts run. Each change of the text is a whole call: `SetText`, `ReplaceText`,
`SetTextFormat`, a key. `StyledText` has no formats but a style for every
byte; the mapping gives each byte what `swfdec_text_buffer_get_attributes` returns for it. The field is
selectable, editable, no password and plain text. Keys in front of which no character begins are left out,
as `g_utf8_prev_char` leaves the text then.

### Drawing

`movies` are the living movies with the fields of `SwfdecMovie` that matter here; `pending` is the
list `invalid_pending` as a set (its order only decides which of several equal updates comes first),
`invalid` the area in `invalidations`. The stage has one dimension: a rectangle is an interval of
points, a matrix moves it along, and a drawing is the set of points it covers, so that what is drawn
and the rectangle around it differ. `screen` is the application, which keeps what it drew last at each
point and draws exactly what the `invalidate` signal reports: `Picture` is what rendering finds at a
point, which movies draw there and which of two is beneath the other: a movie's own drawing is below its children, which
go by depth. What the code does by going through the tree is said by who is `Above` whom: `QueueUpdate` climbs through movies
that are up to date (`Climbed`), an update visits those between which all are out of date (`Visited`), and only the
extents are a recursion (`Computed`), from the leaves on. `Unlock` is the end of every event;
between two of them scripts change movies in any order (`Change`) and ask for extents
(`Measure`). Movies are removed without unload handlers; `Movies` has those.

## 3. Runs

States and times are of a run with two workers.

| Run | Instance | States | Shows |
|---|---|---|---|
| `structures` | one of: a ring buffer with two values, initial sizes 2 and 3, up to 6; a cache of size 3 for an image and a stream, sizes 0 to 4; a text of up to three bytes, two kinds of attributes with two values, two visible rows; a stage of two points with up to two clips, three changes | 231 505 (150 s) | the ring buffer implements the queue, the cache agrees, the text field implements styled text, the screen shows the movies |
| `player` | one external object, two intervals, a frame of 3 ticks with 2 ticks per msec, 6 ticks | 1 032 721 (1 min) | timeouts, intervals, external actions, throttling, the inductive invariant |
| `movies` | the root and two movies that are placed anywhere, two queued actions when a script goes on | 726 762 (2 min) | tree, actors, queues |
| `lives` | one of: two nested running movies; a resource (the first movie, a clip or a level, with and without listeners, 3 buffers) | 66 165 (40 s) | a removed movie is destroyed; states, rights, signals, and that the end is reported |
| `movies_dispose` | the root and one movie | violation | section 4 |
| `stage` | one of: a video of 4 images with 2 key frames, buffers of one or two msecs, 4 msecs, four nested continuations; a video file of 4 tags at 3 times; a button, which may be a menu, and a text field, two nested focus changes | 5 427 724 (2 min) | timer, sound, buffering, decoding; tags; pointers, looks, events, focus |
| `script` | one of: a loop that begins with try/catch/finally and has another try behind it, nested ones inside of with and a with behind, a recursive function with jumps into its try and out of the script, depth 3; three objects, two watches, prototypes two deep, four changes | 360 554 (2 min) | frames, blocks, exceptions, and that scripts end; what is freed, watches, prototypes |
| `script_jump` | two try statements in a row | violation | section 4 |
| `net_stream_timer` | a video of 3 images | violation | section 4 |
| `net_stream_decode` | the same | violation | section 4 |
| `xml_socket` | 3 buffers out of six kinds, 3 sends | 1 089 526 (30 s) | bytes, messages, events, and the inductive invariant |
| `policy_files` | 3 loads, 4 hosts, 1 `loadPolicyFile()` | 254 451 (45 s) | the refinement of `AccessRequests`, and that every load ends |

Type invariants are conjuncts of `IInv` (`player`), of `SocketInv` (`xml_socket`) or of the first
invariant of a run; that of `PolicyFiles` is part of its `IInv`, which is proved. The properties:

- **structures**: `ImplementsFifo` (`BoundedFifo!Spec` under the mapping), `CacheAgrees`,
  `ImplementsStyledText`, `BufferHolds` (what the code asserts of the formats; cursor and selection; what
  `getTextFormat` reports), `CachesAgree` (the three states of validity of parents and children, and
  extents that cover what is in a movie), `NoArtifacts` (what changed is drawn again). The four parts
  share nothing: a behaviour is one of one of them.
- **player**: `IInv` (sorted timeouts, callbacks that agree with the list, intervals that
  can be cleared, external actions that are not forgotten, passes within the queue:
  section 5 names the parts), `NeverLate`, `NewTimeoutIsLast` (no timer overtakes one
  that was set before for the same time), `NoActionInItsOwnPass`, `Throttled`, `PassEnds`.
- **movies**: `ActionsHaveActors` (unload handlers are queued once, and `load` comes after `initialize` and
  `construct`), `ChildrenComeFirst` (and what is running is displayed),
  `LoopsStandOnActors`, `RemovalQueuesUnload`;
  **lives**: `RemovedGetsDestroyed`; `ResourceInv` (`StateFollowsStream`, with the states that the code
  asserts to be impossible, and `ShownHasSandbox`), `SignalsInOrder` (of signals that differ; progress is told many times), `EndIsReported`. Movies and resource share
  nothing.
- **stage**: `ArmedIsListed` (and sound needs the timer), `RunningPlays` (and a stream does not
  wait for data that cannot come), `ImagesAreComplete` (a video that goes on, or skips images, is decoded
  from a key frame on without a gap, up to the image that is shown); `TagsAreFound` (no tag gets lost; in a file in
  order the bisection finds the last image that is due, the next one, and the key frame);
  `HeldAreDisplayed` (the player points to actors that are displayed, but for those
  it took late), `ButtonsLookRight` (no button is stuck), `MouseEventsInOrder`, `FocusWasTold`. Video, file and
  input share nothing.
- **script**: `BlocksFollowCode`. Of any code: every frame of the context belongs to an activation on
  the C stack, in order; the blocks of a frame lie in each other and their objects are on the scope chain in the same order,
  so that the assertions of the functions that end blocks hold (but in a frame in which the object of a block that was turned
  away is left); an action that another one leads to, or returns to, has all blocks of the frame around it. The first action
  behind a jump is not looked at that way: it runs with the blocks of the place that the jump came from.
  Of structured code (`Structured`: blocks are entered by their Try and With only): whether behind a jump or not, each
  block that guards the next action is in effect or was turned away by `swfdec_as_frame_push_block`.
  `ExceptionsAreKept` (with the same exception for a finally clause that is turned away), `RunEnds` (unless an assertion fails);
  `GarbageGoes` (nothing that can be reached is freed, the rest is; what the code marks and what scripts
  reach are two definitions, and the second half says that a collection frees all that is not marked),
  `WatchesAreCounted` (a watch lives as long as it is listed or runs), `ChainFollowsVariable`
  (`__proto__` is the prototype that lookups follow). Frames and objects share nothing.
- **xml_socket**: `SocketInv` (with `IInv` of `Stream`: section 5), `BytesInOrder` (and what waits is not forgotten),
  `MessagesAreIntact` (and all are told before the close), `EventsInOrder`.
- **policy_files**: `ImplementsRequirement` (each request is answered once, in the order
  of asking, after all files that were loading then, by what the files allow that have
  arrived), `EveryLoadEnds`.

Deadlock is checked in `structures`. The others say `CHECK_DEADLOCK FALSE`: the
bounds end the clock's and the video's time, the number of loads and buffers; an aborted
player or context runs nothing again, a disposed player does nothing, a stream at its end
stays there.

## 4. Where the code does otherwise than it says

Four runs end in a counterexample; each is a finding in `PROJECT.json` with the lines.

1. **Disposing** (`movies_dispose`, `DisposeLeavesNoActors`). A goto backward takes
   a movie with an unload handler off its parent's list and removes it. It stays an
   actor until the next iteration, found by nobody but the list of actors. Disposing
   the player before that fails the assertion at the end of
   `swfdec_player_dispose`.
2. **NetStream's timeout** (`net_stream_timer`, `StoppedIsUnlisted`).
   `swfdec_net_stream_timeout` saves the timestamp after it called scripts
   instead of before, so that it adds a timeout that a script has added already.
   The timeout is then listed twice; stopping takes one away. `ArmedIsListed` and `RunningPlays`
   hold in spite of it.
3. **The key frame** (`net_stream_decode`, `NextToDecode`). A video that goes to a time that it
   has decoded already (it seeks back, buffers again at the current image, its loader ends) looks for the
   key frame to start from, and then overwrites what it found with the image behind (`swfdec_net_stream.c:171-201`).
   The images up to the next key frame are decoded on top of another one. `ImagesAreComplete` says what holds
   nevertheless: going forward.
4. **Blocks behind jumps** (`script_jump`, `BlocksAreEntered`). Right after a jump the code does not look whether it
   has left its block (`check_block`, `swfdec_as_context.c:1035`). A Try there, behind the block, fails the assertions of
   `swfdec_as_frame_push_block` (`swfdec_as_frame.c:231-232`), as its block is not inside of the stale one: it is not entered,
   its catch clause catches nothing, and its data leaks. `vivified/code/vivi_code_try.c:101-111` ends the body of a try statement in a
   jump to the end of the statement, so two in a row are such a case. A With there leaves its object on the
   scope chain, in front of the one that the next catch or with block to end asserts to find. `BlocksFollowCode` and
   `ExceptionsAreKept` say what holds nevertheless.

Other behaviour that looked odd, and is in the models as it is unless said otherwise:

Clock and movies

- The documentation of `swfdec_player_set_focus` promises an update the next time the player is
  advanced (`swfdec_player.c:3642-3662`). It is an external action, and those wait for the
  throttled external timeout or an iteration; an advance that ends before that does not run it.
- A running clip that a script created inside of a removed movie is destroyed with
  it without its unload handler being queued (`RemovalQueuesUnload` excludes it).
- A removed child that waits for its unload handler does not keep its parent: removing that, if it has no handler,
  destroys both, and the handler is not run (`swfdec_movie.c:358-363`). `RemovalQueuesUnload` is about the step that removes a movie.
- A removed root movie with an unload handler is never destroyed by an
  iteration: `swfdec_actor_iterate_end` keeps whatever has no parent
  (`RemovedGetsDestroyed` excludes it).

Mouse and focus

- A removed actor that waits for its unload handler is still found below the mouse, so that the
  player's pointers may come to point to it and outlive it (the set `late`).
- `swfdec_player_grab_focus` goes on with its actor although onKillFocus may have removed
  it, and a nested `setFocus()` leaves an actor that was told it has the focus and is never
  told that it lost it (`test/trace/selection-focus-events.as` shows the order). Of the
  actor that has the focus in the end, `FocusWasTold` holds nevertheless.
- A player that loses the focus while nothing is focused, and gets it again, gives it to an
  older `focus_previous`.

Interpreter

- An exception that nobody catches stays in the context after the outermost script
  has ended, and every later script is left at once.
- A `return` inside of try or catch skips the finally clause; a jump out of a finally clause
  that keeps an exception throws it at the target.
- The value that a variable had before it got a getter is not marked
  (`swfdec_as_object.c:207-218`). It is read again when the variable is hidden and then set: the watch of
  the variable gets it as the old value, and a constant keeps it. `GarbageGoes` excludes this one value.
- `isPrototypeOf` follows prototypes without a limit and does not end if they go round in a
  circle (`swfdec_as_object.c:1613`); the lookups of variables abort the context then. Enumerating the variables of an object
  with exactly 256 prototypes goes on with one that is not there (`swfdec_as_object.c:1187`). Neither function is in
  the model.
- When the memory runs out while a frame is set up, the frame is gone and
  `swfdec_as_context_run` then ends its caller's.
- A jump to itself does not change the program counter and is passed over.

NetStream and streams

- A status script that replaces the loader in the middle of `..._target_close` or
  `..._target_parse` leaves the rest of that function without a decoder
  (`swfdec_net_stream.c:399-402`); the decoder's functions return from a failed check.
- `play()` keeps `current_time` and `next_time` of the video before.
- A `play()` that is denied forgets the sandbox (`swfdec_net_stream.c:555`) although the video
  before goes on, and its next status is reported without one.
- Of data tags with the same time only the last in the array is found, and a tag that comes out of order is
  inserted in front of the one it belongs behind (`swfdec_flv_decoder.c:268`). The first tag of a kind that the header did not
  announce makes the array and is dropped, unless it is data.
- `seek()` adds the time of the first image (`swfdec_net_stream.c:671`) although `swfdec_flv_decoder_get_video`
  adds it again, and data is found by the times of the file, but images by those since the first: a video that
  does not begin at 0 seeks too far, and gets its events late. The videos of `NetStream` begin at 0.
- A loader that fails in the middle of a video leaves the stream buffering
  (`RunningPlays` speaks of loaders that reached their end).
- The documentation of `swfdec_stream_error` says that "a stream that is in the error state
  will not process any more data" (`swfdec_stream.c:328-329`), but `swfdec_stream_process`
  looks for errors only before its loop. A script that sends when its socket is connected
  may bring the error about inside of the loop, which then parses, closes, and does not end: the
  model of the loop has no step then, and `EndIsTold` is about loaders.
- `XMLSocket.close()` leaves the target set: no `onClose` is called, and the
  stream is collected with its socket. A socket that gets writable after its stream
  closed is asked to send on the closed stream.

Text fields and caches

- A click on the second half of a character puts the cursor behind it, and
  `swfdec_text_field_movie_xy_to_index` adds the number of *characters* passed
  (`swfdec_text_layout.c:1016`) to an index in *bytes* (`swfdec_text_buffer.h:47`): in front of
  a character of several bytes the cursor gets into its middle (`BufferHolds`
  therefore does not say that it is in front of one). A key then splits the character.
- `swfdec_text_attributes_diff` compares tab stops with a length of
  `sizeof (guint) & n_tab_stops` (`swfdec_text_attributes.c:151`) in the place of the
  product: two formats with one tab stop each, or two, or three, are always equal, so that the buffer merges
  them. The kinds of attributes of the model are the others.
- The row on top is not adapted when a key, `replaceText` or a variable changes the text
  (`swfdec_text_field_movie.h:70` has "scroll must be smaller than this value"), and a click then
  reads an index that was never set; a position out of the text is dropped by the check in `_set_cursor`.
- In a password field the mouse counts the characters that stand for those of the text.
- A text field that stops being selectable while the mouse is down keeps `mouse_pressed`.
- The property `cache-size` of a player is about a cache of the player's own, to which nothing is
  ever added (`swfdec_player.c:2430`); the renderer's has a fixed size. Its table is keyed by
  addresses and keeps those of objects that are gone; and a NetStream's picture is matched by
  its time alone, so that a new video may begin with a picture of the old one.
- `swfdec_movie_get_movie_at` (`swfdec_movie.c:591`) and `hitTest` (`swfdec_sprite_movie_as.c:619`) bring
  a movie up to date only if its own extents are invalid, not if those of a child are, and then
  read extents that may be too small, although `swfdec_movie_update` "needs to be called before
  accessing the relevant values" (`swfdec_movie.c:293`).
- Extents may be too large: a movie whose contents become empty returns early from
  `swfdec_movie_update_extents` and leaves those of its parent as they are, as does one that is destroyed; so
  `_width` of the parent is stale. `CachesAgree` therefore asks that extents cover, not that they equal.
- `invalidate_next` is set and cleared and never read: the new contents of every pending movie are
  invalidated.

Resources and policy files

- A parse error and a movie that is not allowed to run drop the target without
  onLoadError, and so do a level whose load is denied and a clip that cannot be found.
- A clip that is unloaded while its resource still loads is filled again by the
  rest of the data. A resource whose movie is gone when the stream opens stays `requested`, so a
  later error is reported as "URLNotFound". The state becomes `complete` even if there is
  nobody to tell `onLoadComplete`.
- A policy file that is parsed dereferences the first root movie
  (`swfdec_policy_file.c:66`), and `loadPolicyFile()` with an invalid URL passes NULL on. Both are
  left out: hosts in `PolicyFiles` are valid, and the first movie is there when scripts run.

## 5. Proofs

`tlapm` checks every theorem and lemma; nothing is assumed but the named
assumptions on constants, which TLC evaluates in the runs.

**StructuresProofs**, the ring buffer. The inductive invariant is the type invariant, `IndicesAgree`
and `NoJunk`. The step that matters is `SetSize`: the contents before and after are
compared slot by slot, in the case that the buffer is wrapped and in the case that
it is not. `Refinement` states that every behaviour implements
`BoundedFifo!Spec`; a step of `Push` appends, `Pop` takes the head, `SetSize`
changes the capacity alone.

**StructuresProofs**, the cache. For any images, streams, variants and sizes, any maximum, and any number of
items. `CacheIInv` is said of values, not of variables, so that the lemmas can speak of what a step makes:

| Part | Why it is needed |
|---|---|
| `Cached` | the queue holds what is not freed, once each, and `cache_size` is the sum of their sizes. That the sum is exact is what makes shrinking leave room: `ShrunkFacts` gives a sum that is not above the room asked for, and nothing left over is above it either |
| `Linked` | the lists of different objects share no item and together link to what is not freed, each item `Once`. A picture is therefore freed in one list only, and what a stream forgets is the whole of its list. That pictures of an image have different variants needs the search to have failed (`FoundFacts`): a picture is only made if there is none |

Between them is the arithmetic of sums: the sum of a list is that of the part that goes and the part that stays
(`TotalOfParts`), and does not depend on what is added to or freed from the others (`TotalsAgree`). `SumOfSizes` and
`Only` are recursive functions, about which the prover knows nothing: that such a function exists is `StepsExist`, and what
it returns is shown by the induction `Upwards`, for a set of numbers in the place of a predicate, from the library's
well-foundedness of `<`.

**StructuresProofs**, the tags of a video file. `Between` is the invariant of the bisection: what is in front of
the range is not later than the time looked for, and what is behind it is later; every round makes the range
shorter, so that as many rounds as there are tags leave one (`FindFacts`). It needs no order, and this gives the half
of `TagsAreFound` that holds in any order: the next image is later than the time asked for. `FlvIInv` says that an array
holds what came `Late`, and exactly that list if times increase: a tag that is not the latest then never came, and
insertion, which would put it out of place, is not reached (`InsertIsStored`). In order, what is found is the last that is
due (`ShowsDue`), and what is searched from there meets all data (`MeetsData`).

**StructuresProofs**, text fields. For texts of any length, any formats and any kinds of attributes with any values
(`TextAssumption` gives the constants their types). What a list of formats means is a function of positions: `LookAt` is what the
search finds, and a format `Governs` a position if it is the last that starts no later; in a list that is `Well` (in order, from 0 on, inside
of the text) there is one, and the search finds it (`GovernorExists`, `GovernorFound`).

| Lemma | What it says |
|---|---|
| `PickedFacts`, `PickedIs` | keeping the formats at some places keeps their order, and who governed a position and stays, governs it still |
| `DuplicatesGo` | removing a format that equals the one before it changes no byte's attributes |
| `InsertedFacts` | starts that move with the text keep every byte's attributes; new bytes get those of the byte behind them, or the default |
| `DeletedFacts` | of the formats that start among deleted bytes, or right behind them, the last one governs what is behind: it has to stay |
| `SplitFacts`, `PaintedFacts`, `RestyledFacts` | a split changes nothing, and makes the formats of a part those that start in it |

`TextIInv` says that the formats are `Well` and the cursor is in the text (`BufferOK`); numbers that mouse and scripts leave may lie anywhere, as the
checks in `_set_cursor` drop them. `BufferAlwaysHolds` follows from it, with `UniqueFacts` about `getTextFormat`. Each action then is one
`Edited` (a part of what is shown gives way to other bytes) or one `Repainted` step of the buffer, and `FieldImplementsStyledText` takes these
to `Replace` and `Restyle` of `StyledText`.

**PlayerSchedulerProofs.** Lemmas about the list of `Timeouts` come first, for any set of timeouts: inserting keeps
a sorted list sorted (and needs it to be sorted), adds exactly one occurrence, and
goes behind equal timestamps; removing keeps order and takes one occurrence away;
changing the timestamp of a timeout that is not listed keeps the order. `IInv` is the conjunction of the state properties and of
what they need:

| Part | Why it is needed |
|---|---|
| `TimeoutsSorted`, `ArmedIffPending` | each other: only a timeout that is not listed gets a new timestamp, and that a timeout is not listed is known from its callback |
| `StampsNearTarget` | a timeout is never a msec behind the *end* of the advance; an advance that fires the first one leaves all others behind it, but at most by the rounding |
| `TimeNearTarget`, `IdleOnTarget` | they turn the former into `NeverLate` when the player is idle, and show that timers set by a callback are near the target, too |
| `FreshBehindPass` | external actions queued by an action lie behind those the pass handles; gives `NoActionInItsOwnPass` |
| `TriggerPast` | the external timeout's timestamp is not before its last trigger, though an iteration may have taken over in between; gives `Throttled` |
| `ExternalPending`, `PassWithinQueue`, `IntervalsPending` | are inductive with the rest |

From `Invariance` (`Spec => []IInv`) follow `TypeCorrect`, `AlwaysSorted`,
`AlwaysPending`, `IntervalsClearable`, `NoActionForgotten`, `NeverPopsEmpty` and
`AlwaysOnTime`; and, for steps, `AdvancesForward`, `PassesAreSnapshots`,
`AlwaysThrottled` and `NoTimerOvertakes` (what is inserted lands behind its equals, `AddTimeoutIsLast`, and
stays there when an iteration then drops the external timeout, `RemoveTimeoutKeepsLast`). They hold for all sets of intervals and objects, all periods
and frame rates, and all resolutions of the clock. `MaxTime` and `MaxExternal` are
arbitrary natural numbers there.

**ResourceProofs.** The first part is about the stream, whatever its target is. `IInv` of `Stream` adds to the type invariant and the properties:

| Part | Why it is needed |
|---|---|
| `QueuedIsPending`, `ActionsForTarget` | each other: an action is queued for a target only, so that setting a target late queues the one that is missing and dropping it leaves none |
| `ToldIsProcessed` | ties what the target heard (a history variable) to `processed_state`; the loop tests only the latter |
| `ErrorIsLast` | no action is left when the error was told, therefore `swfdec_stream_process` is not entered again; and only a socket can fail while the loop runs |
| `ClosedIsDone` | an error cannot follow an end that was told: the backend of a stream that closed reports no more |
| `ToldTarget` | a target that was told something cannot be set a second time |
| `Place` | which callback the loop waits for, and that the last buffer was offered when it goes on to close |

From `Invariance` follow `TypeCorrect`, `QueuedFlagIsRight`, `NoAssertionFails`,
`LastBufferIsParsed` and, as an action property, `ToldInOrder`, for both kinds of
stream and any number of buffers.

`ResourceIsTarget`, the second part of **ResourceProofs**, says that every behaviour of a resource is one of `Stream`,
so that the stream's invariant can be taken over; `ResourceInv` adds to it `StateFollowsStream`,
`ShownHasSandbox` and:

| Part | Why it is needed |
|---|---|
| `RequestComesFirst` | a stream is there only after its request was allowed, so a denied resource hears nothing else |
| `SignalsFollow` | what the listeners may have been told by each callback of the stream; with the state of the resource it gives `SignalsInOrder` |

The third part is about XML sockets, for any bytes, any chunks that the backend may push and any number of calls of
`send`. `SocketIsTarget` takes the stream's invariant over, and `SocketInv` adds to it `BytesInOrder`,
`MessagesAreIntact` and:

| Part | Why it is needed |
|---|---|
| `ListedIsTarget` | the socket is in the list as long as it is the target, so a stream that is open and writable has somebody to send; and nothing waits before it is open |
| `EventIsTold` | `open` of the socket and the last event of the script go with what the stream told; with `ToldInOrder` it gives `EventsInOrder`, and that everything was read when the end is told |

The lemmas about buffer queues are what both directions rest on. `Joined` is the function of what the first buffers
hold; `JoinShift` shifts it by a buffer that is put in front, and from that follows that `PushBuffer` appends to the contents
and `Flush` takes a prefix away, whatever buffers it cuts (`FlushFacts`), with `depth` and `offset` in step.
Sending: wire and queue together are what was sent (`Going`), which a string that is queued makes longer and a write
moves from one to the other (`WritesFacts`). Receiving: `Sound` says that there is a part in front of the unread bytes whose
`Reading` gives the messages and the beginning of the next. What is read of a string does not depend on what comes
behind (`ReadingStays`), bytes without an end only make the rest longer (`PlainReading`), and the first end in the buffer, found
by its minimum (`EndFacts`), completes the message (`EndReading`): a round of the loop is one of these (`TakeSound`).
`Unconcerned` steps of the stream, and closing from a script, change nothing of it.

**PolicyFilesProofs.** For any number of loads, files and hosts. `IInv` says that the loads
that wait are exactly those in the lists of files and the list being answered, each once
(`WaitingIsKept`), and that along the chain, older files first, they are in the order of asking
(`WaitingInOrder`): moving the requests of a file behind those of the next older one keeps that
order, in front of them it would not. `RequestedOnce` makes a load ask once, `FilesLoadOnce`
keeps a file from ending twice, `OneLoop` says that a file does not end while requests
are executed. `Refinement` (`Spec => ImplementsRequirement`) takes every step to one of
`AccessRequests`: a file that ends at any position is the file that all
who need it stop waiting for, as those who need it are those at it or at newer files, and
the loop answers exactly those that need nothing any more, the longest waiting first.

**InputProofs.** For any number of clips, buttons and text fields, and of focus changes inside of
each other. `Down` is whether the button was down when the actors were told last: while the
listeners of `Mouse` run it lags behind `mouse_button`, and everything is said in its terms.

| Part | Why it is needed |
|---|---|
| `GrabFollows` | unless the button is down the mouse is grabbed by what is below it: a press can then take the grab's place for granted |
| `LooksFollow` | `ButtonsLookRight` in the middle of an event, too |
| `EventsFollow` | `Expected`: which events an actor can have heard last, given where the mouse is and was pressed; every event sent is one that may follow those (`MouseEventsInOrder`) |
| `FocusIsPassed` | who has the focus and was told that it loses it is inside of a call that has not gone on; when no call is left, `FocusWasTold` |

**NetStreamProofs.** For any length of the video, any key frames and buffer times, and any number of
scripts inside of each other. The invariant is stated of a pair, a state and what is left to be done
(`Good`), so that one lemma covers each helper (`PushedIsGood`, `TakenIsGood`, `UpdatedIsGood`,
`GotoIsGood`) and an action only has to return from a good pair.

| Part | Why it is needed |
|---|---|
| `TimeoutReturnsLast` | the timeout calls scripts but is never called by one, so that when its rest runs nothing else can still stop the stream, and what it adds itself for is not in the past |
| `StopsAfterStatus` | a stream that came to its end or has to wait is still armed while a script is told; `update_playing` that follows stops it. Where no status is left to be told, armed means playing, which gives `RunningPlays` and, in the timeout, a next image behind the current one |
| `EndIsOfLoader` | an end that is still to be told belongs to the loader of the stream (`SetLoader` takes it along), so that buffering at the end is always followed by what ends it |
| `ShownIsDecoded` | the decoder is not behind the image that is shown, so that only a step that shows a later one has to be looked at for `ImagesAreComplete` |

`DecodesAllImages` is an action property; its lemma `ShowFacts` follows `swfdec_net_stream_video_goto`
through the choice of the first image to decode.

**ObjectsProofs.** For any finite set of objects, any names, limits and number of changes.
`ObjectsInv` is inductive:

| Part | Why it is needed |
|---|---|
| `Typed` | free objects and watches look like new ones, so that making one again needs no cleaning |
| `Sound` | what a variable without a getter, a prototype, a watch and a function lead to is allocated. It is what makes `Reachable` (what scripts can get) and `Marked` (what the code marks) the same: a freed value is only where the code does not mark and scripts do not look |
| `Counted` | the count of a watch is the number of its places in objects and in running calls, said of sets that steps change by one element; `WatchesAreCounted` counts them |
| `Waiting` | the object and the watch of a call that runs are allocated and stay so: they are what scripts know until the event is over, and an event is not over while calls run |
| `Chained` | `__proto__` and the prototype agree but for objects whose call for `__proto__` runs or was overruled |

A collection is the least set that contains the global object and is closed under an edge relation (`ClosureFacts`):
the model computes it in as many rounds as there are nodes, and the proof counts nodes (a round adds one, or nothing
changes any more). That the recursive functions of the model (rounds, and the chain of prototypes) exist at all is
shown by a least counterexample, as the library's rule for it takes an operator.

**ObjectsProofs**, the second part: the interpreter. For any code whose actions decode, any depth of calls and any
number of frames. `CodeAssumption`, in `Script`, says no more of the code than that the clauses of a Try and the block of a With lie behind it, in order,
as sizes are unsigned, and that an address holds one Try or With at most; where code jumps to and how its blocks lie, the loader
does not check and the proof does not assume. What is said of `Structured` code is said
of each script for itself, with any others around it. `ScriptInv` is inductive:

| Part | Why it is needed |
|---|---|
| `BlocksOK` | a block of a frame is one that an action of the code has, with the region that this action gives it, and it lies in those below it: `swfdec_as_frame_push_block` sees to that. In structured code the blocks that guard its own action are below it or were turned away, so when it ends, or is replaced by the next clause, nothing is missing |
| `Chain` | the scope chain has the objects of the with and catch blocks, in order, so that taking the first away takes the one of the block that ends; with others in between only if one was left over |
| `Covered` | while no exception is in flight, the frame of structured code has all blocks that guard its place, or they were turned away. It may have more: a jump leaves them behind for one action, and they are left before the next |
| `Owned`, `Awaits`, `Stage` | the frames of the context are those of the activations, in order, and only the last activation runs: a frame that returns is not that of another activation |
| `Returning`, `TopOK` | behind a call that returns, or a frame that starts, the code is again where the blocks say |
| `CrashOK` | an assertion about the scope chain fails only in a frame in which an object was left over |

`ExceptionsAreKept` is an action property, shown for each action from `ScriptInv`: who clears the exception has kept it in
a finally clause or given it to a catch clause, or the block of the finally clause was turned away.

**MoviesProofs.** For any finite set of movies and any number of queued actions (that the set is finite is
`FiniteAssumption`: a player creates finitely many movies). `MoviesInv` is inductive; its part about the stage, `Good`, is
kept by every operator on stages, so that an action of a script or of the timeline, which may
create, move, remove and destroy in one call, is a chain of lemmas.

| Part | Why it is needed |
|---|---|
| `ActorsLive`, `ParentsLast` | the list of actors is the movies that live, and a movie is behind all that is below it: destroying a subtree leaves what follows the loop's actor |
| `ListedOnce`, `RootsOnce` | who is in a list lives, has the parent whose list it is and is there once; so a subtree of a movie that lives is made of movies that live, and nobody is left in a list when it is destroyed |
| `RunningListed` | a running movie is reached from its parent. In the middle of a jump backwards the movies taken out of the list are not: `loose` is the set of these, and the lemmas about removing and placing hold for any such set |
| `QueuesLive` | who has an action lives, and an action is in the queue of its importance: this makes a load handler wait for the others |
| `QueuedOnce` | an unload handler is queued when a movie stops running, which happens once; an enter handler once for an iteration |
| `WalkStands`, `AheadWaits` | the loop stands on an actor, and whoever is at or behind it was there at the start and did not enter yet; new movies go in front of it |
| `EntersBorn`, `QueuesDone` | only those there at the start enter, and between iterations nothing is queued, so that a new iteration starts without enter handlers |
| `LoadIsLast` | what is said of the running action: nothing is queued for a movie that exists before its load handler runs, but unload and enter |

What the calls do to other movies is said by three relations, each of which is closed under doing one thing after the other: `Removes` (states,
lists, order of actors and queues when movies go), `Evolves` (who may get actions queued) and `Passes` (what
a loop meets after the movie it stands on). `RemoveMovie` needs one visit for each movie at most: every visit leaves one
running movie less, so that the movie itself is reached within as many visits as there are movies. A list loses members in
`Without`, whose order is the order of the list before (`WithoutOrder`).

`HandlersAreQueued` is about a step as a whole, and follows movies upwards: `InView` is a movie all of whose `Chain` up to
a root runs. `RemoveMovie` walks down from the movie it removes. Among the movies in view below that, one that was not visited yet
stays in the list of its parent, which was not visited either (`Coherent`), and of those that were, nobody with a handler
was destroyed: had one been met, only marking is left to do, and until then no handler can be lost (`Told`). So
whatever stops running was told, as nothing in view can be left over when the movie at the top has stopped.
Then handlers of one movie outlive the removal of another: a movie is above at most one of the children of a
movie (`OneOfSiblings`), and only what is below a destroyed movie loses its actions. `Tells` is the outcome, for
removals in any number; `Leaves` says that what creates movies and queues actions takes nobody out of view.

**StructuresProofs**, the last part: the drawing. For any finite set of movies, nested in any way, any shapes, places,
width of the stage and number of changes. `DrawingIInv` is inductive. It is `DrawingOK` of the tree, the pending movies, the invalid points
and the screen, so that every step is shown for trees, and not for variables with primes:

| Part | Why it is needed |
|---|---|
| `TreeOK` | every movie but the stage has a parent that lives, and movies are ranked below their parents: who climbs arrives at the stage, so that `Above` and `Computed`, which are recursive functions, exist and are what they say (`AboveIs`, `ComputedIs`). What is drawn in a movie lies in its `draw_extents` |
| `CachesOK` | as `CachesAgree`, but the extents of a movie cover what is in it unless they are known to be invalid, and those marked `InvalidChildren` too: an update computes extents again only if they are invalid or those of a child were (`UpdatedFacts`). By `Nested` an update always starts at the stage (`TopmostIs`) |
| `waiting = Reported(tree)` | the pending movies are those with the flag |
| `CleanPicture` | at a point that is not invalid the screen shows what is there of the movies that are not pending and not in a pending one. A movie leaves this picture when its old place is reported, and comes back when its new one is, so `NoArtifacts` follows when nothing is pending |

`PictureKept` is what all changes share: some families of movies change, and no clean one of them covers the point, so
that the clean picture stays. A change does not go into a movie that was reported already (`Fresh`), as nobody in it is
clean (`FreshFacts`). `UnlockKeeps` is the end of an event: an update changes caches only, so that the clean picture stays
(`RefreshKeeps`), the pending movies come back at points that `Unlock` draws again, and then all movies are clean
(`AllClean`).

**Only model-checked**: `PassEnds`, `RemovedGetsDestroyed`, `EveryLoadEnds`, `EndIsReported` and
`RunEnds`, as liveness under fairness is out of the prover's reach (and so is `ENABLED`). Every invariant, action property
and refinement that a passing run checks is proved. The library's induction rules take an operator, which the provers cannot
instantiate; where a model has a recursion, it is a function on a finite or well-founded domain, whose existence is
proved by a least counterexample.

## 6. Bounds and fairness

- `RingBuffer`: `MaxSize` 6 lets a buffer of 3 double, and one of 2 grow twice, in
  every rotation, wrapped and not.
- `Cache`: two pictures of an image and one of a stream compete for room, with pictures that need
  no room, all of it, and more than there is.
- `TextField`: three bytes are enough for a format that starts, ends and lies in the middle, for a
  wide character with a newline on either side, and for rows that scroll away.
- `Drawing`: two clips are inside of each other or side by side, in one depth or swapped; three changes are
  enough to move, change and remove across parents, with extents asked for in between and events that end.
- `PlayerScheduler`: 2 ticks per msec and a frame of 3 ticks make frames fall
  between msecs (really there are 112 896 ticks in a msec, and a frame
  is rarely a whole number of msecs), so timeouts are late by a fraction. `Throttle`
  is 4 ticks, longer than a frame, so that iterations take over from throttled
  timeouts. `MaxTime` 6 covers two frames and a full throttle. `MaxExternal` 2: one
  action that runs and one that it queues. Actions of several objects differ only when those
  of one are removed, which the proof covers.
- `Movies`: the root and two movies are enough for a movie inside of a removed
  one, siblings that swap, and a movie that is created in the middle of a loop.
  `MaxQueue` 2 bounds the queue only while a script goes on adding; placing a movie
  adds three actions at once. Movies are never created twice, as objects are not.
- `Input`: two actors are enough to cross from one to the other and to pass the focus back and
  forth, and they may be created again when the player has forgotten them. `MaxCalls` 2 bounds only
  `setFocus()` in scripts of a focus change; a press or a key on top of it makes three.
- `Script`: depth 3 in the place of 256, so that aborts for depth happen with finally
  clauses at every level. The code has blocks of every kind inside of each other, all ways
  to leave each, blocks of no length, jumps from a block onto the next Try or With, back onto the same Try,
  into a Try and in front of the script. `MaxBlocks` 2 bounds the blocks and left-over objects with which a script
  jumps back: each round of a loop may leave another.
- `Objects`: the global object, a function and one object that scripts make can refer to each other in
  circles and be each other's watch; the changes are made to variables of the last two. Two prototypes are
  followed in the place of 256 and no watch runs inside of itself (`WatchLimit` 1) in the place of 64 of them, so both limits are met.
- `NetStream`: four images with a buffer of one or two msecs give streams that start,
  run dry, and end; iterations every 2 msecs meet its timeouts at the same time; two key frames, each with
  an image behind, give seeks inside of a group of images and from one to the next.
  `MaxDepth` 4 bounds how many scripts are nested by seeks and events.
- `FlvDecoder`: four tags can be in order, equal, and out of order on either side of the middle; `UintSize` 5
  is the least that can hold the sum of two of their times.
- `Stream`, `Resource`, `XmlSocket`: three buffers: one to be left unread, one read, one pushed
  together with the end. `XmlSocket` has buffers with the end of a message at the beginning,
  in the middle and twice; three sends, of which the second is empty, while the socket takes
  any part.
- `PolicyFiles`: three loads and one more file make chains of four; two hosts need a policy file,
  one is allowed and one denied by the access matrix.

Fairness:

- `PlayerScheduler`: weak fairness of what the player does by itself while it is in
  a callback. It is one thread that runs to the end, and a script that does not
  return is aborted (`swfdec_player_set_maximum_runtime`; the run `script` shows that it
  is). Nothing is assumed of the application: it may stop advancing the player.
- `Script`: weak fairness of the interpreter's own steps, as it is one thread, and of `TimeOut`, as
  time passes and `max_runtime` is not zero (its default is not).
- `Stream`: weak fairness of the process action and of callbacks' returns. An action
  queued for a stream is run as `ExternalPending` and `PassEnds` promise, provided
  the application advances the player. No fairness for the backend. `Resource` has the same for its
  steps, and weak fairness of `OnLoadInit`, which every iteration does.
- `PolicyFiles`: weak fairness of the end of frames and of the loops, and of the end of each
  loading file and load: the application drives the player, and its loaders report an end.
- `Movies`: weak fairness of `Progress` for the same reason; strong fairness of
  `StartIteration`, as scripts of other timeouts disable and enable it again and the
  application advances the player forever (or disposes of it).
- `NetStream`, `Input`, `XmlSocket`, `RingBuffer`, `Cache`, `TextField` and `Drawing` state safety only.

## 7. What is not modelled

- Dragging, the order of the tab key and the focus rectangle. In `Input`, geometry is a choice of what
  lies below the mouse.
- Of drawing: the second dimension, scaling and rotation, masks, clip depths, filters, blending,
  images and shapes, and what cairo computes.
- Text fields as actors but for the focus, and of their texts HTML, style sheets, word wrap, passwords
  and horizontal scrolling; variables are set, but their listeners are not modelled. Compatible replacement of a placed movie keeps the
  movie, its handlers are not replaced. `loadMovie` of a movie that does not run any more (the code does not ask; what
  it does then, a new movie beside one that is removed, other scripts do, too).
- The holes that the action queues get when an actor's actions are removed: they
  are skipped when popped, and the model drops them at once.
- What most of the interpreter's actions compute, the segments of its value stack, the frames of
  native functions and the debugger, jumps into the middle of an action. The memory runs out at actions that do nothing else
  and at calls.
- Sandboxes but for a resource's own: the sandbox that a broadcast leaves in use when a script
  deletes an object (`swfdec_player.c:1142`) is not state of a model.
- How policy files are parsed and which hosts they name beside their own; the sandbox of a
  NetStream. (Its matrix answers every request at once; a `play()` that is denied is a pause in
  `NetStream`.)
- The format of tags in a video file and sound; videos that do not begin at 0 (but in `FlvDecoder`).
- Exported symbols and progress of a resource; sizes and types of loaders.
- Roots of the garbage collector but for the global object: an event is over when it runs, so no script's
  variables are roots, and movies and the player's own objects stay like it.
- Changes of the maximal size of a cache: no cache that is used is ever told to.
- Everything listed as `not_modelled` in `PROJECT.json`: parsers of binary formats, codecs,
  drawing, layout of text, the library of pure functions, the front end and the tools. They make up
  most of the repository's lines, and compute on data in a sequential way that a model would repeat
  rather than abstract.

Assumptions about backends: none reports after it reported the end or an error, or
after it was told to close (but possibly while it is), and none reports from inside of
a call into the player, but for a send that fails. The GTK backends keep to that.

## 8. Plan

Done: the clock, movies, input, the interpreter's control, objects and their collection, videos and their files, streams with two of their
targets, load objects and policy files, text fields, the cache of pictures, cached extents and redrawing; proofs for the parts in section 5.

Worth doing next, in this order:

1. Audio: the streams that mix, and their time stamps.
2. Dragging in `Movies`, masks and clip depths in `Drawing`.
3. The player composed of clock and movies: that iterations happen when the clock
   says so is the fairness `Movies` assumes now.
