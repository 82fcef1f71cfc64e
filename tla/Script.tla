-------------------------------- MODULE Script --------------------------------
(***************************************************************************)
(* The loop of the ActionScript interpreter (swfdec_as_context.c), with    *)
(* the blocks that guard parts of the code (swfdec_as_frame.c) and the     *)
(* actions that use them, Try, Throw and With (swfdec_as_interpret.c).     *)
(*                                                                         *)
(* A frame knows the blocks it is in only from a list that follows the     *)
(* program counter, and finds out that it has left one when it looks the   *)
(* next time.  A Try replaces its block by the one of its catch clause and *)
(* that by the one of its finally clause, from inside of the function that *)
(* ends the block.  A block that does not lie in the current one is turned *)
(* away, which happens to code whose jumps leave a block in front of a Try *)
(* or With.  Every frame lives on the C stack of the function that called  *)
(* swfdec_as_context_run for it, and must be gone when that ends.          *)
(***************************************************************************)
EXTENDS Naturals, Sequences, SequencesExt, FiniteSetsExt

CONSTANTS
    Scripts,        \* the scripts and functions
    Code,           \* their actions: at every address, those that may be there
    MaxDepth,       \* the depth of calls that aborts (256 in the code)
    MaxBlocks       \* bound: the blocks and objects with which a script jumps back

\* Actions: an address holds a set of them, as what an If, a call of a native
\* function or the data decide is left open.  0 is any address in front of the
\* script.
Plain == [op |-> "plain"]
Throw == [op |-> "throw"]
Return == [op |-> "return"]
Jump(to) == [op |-> "jump", to |-> to]
Call(s) == [op |-> "call", script |-> s]
With(end) == [op |-> "with", end |-> end]

\* 0 is a clause that is not there.
Try(body, catch, finally, end) ==
    [op |-> "try", body |-> body, catch |-> catch, finally |-> finally, end |-> end]

CatchEnd(try) == IF try.finally = 0 THEN try.end ELSE try.finally

Exit(s) == Len(Code[s]) + 1

\* What decoding says of the action a: sizes are unsigned, so its clauses lie
\* behind it and behind each other.
Decoded(at, a) ==
    /\ a.op \in {"try", "with"} => a.end \in Nat /\ a.end > at
    /\ a.op = "try" => /\ a.body \in at + 1..a.end
                       /\ a.catch # 0 => a.catch \in a.body..CatchEnd(a)
                       /\ a.finally # 0 => a.finally \in a.body..a.end
    /\ a.op = "jump" => a.to \in Nat

\* Nothing else is known of code when it is loaded: not where it jumps to and
\* not how its blocks lie, in each other or in the script.
ASSUME CodeAssumption ==
    /\ MaxDepth \in Nat /\ MaxBlocks \in Nat
    /\ \A s \in Scripts :
         /\ Code[s] \in Seq(SUBSET UNION Range(Code[s]))
         /\ \A at \in DOMAIN Code[s] : \A a \in Code[s][at] :
              /\ Decoded(at, a)
              /\ \A b \in Code[s][at] : a.op = b.op /\ a.op \in {"try", "with"} => a = b

-----------------------------------------------------------------------------
(* What the actions Try and With guard                                     *)

\* The kinds of blocks that the action a has, and what they guard.  A Try
\* without any clause is none, and a finally clause is guarded only if it runs
\* because of an exception.
HasBlock(kind, a) ==
    CASE kind = "try" -> a.op = "try" /\ (a.catch # 0 \/ a.finally # 0)
      [] kind = "catch" -> a.op = "try" /\ a.catch # 0
      [] kind = "finally" -> a.op = "try" /\ a.finally # 0
      [] kind = "with" -> a.op = "with"

From(kind, at, a) ==
    CASE kind = "catch" -> a.catch
      [] kind = "finally" -> a.finally
      [] kind \in {"try", "with"} -> at + 1

To(kind, a) ==
    CASE kind = "try" -> a.body
      [] kind = "catch" -> CatchEnd(a)
      [] kind \in {"finally", "with"} -> a.end

Covers(kind, at, a, pc) == HasBlock(kind, a) /\ From(kind, at, a) <= pc /\ pc < To(kind, a)

Kinds == {"try", "catch", "finally", "with"}

\* The blocks that guard the address pc however it is reached.
Guards(s, pc) ==
    {g \in (Kinds \ {"finally"}) \X DOMAIN Code[s] :
        \E a \in Code[s][g[2]] : Covers(g[1], g[2], a, pc)}

\* Where the code goes on behind the action a.
Follows(at, a) ==
    CASE a.op = "jump" -> {IF a.to = at THEN at + 1 ELSE a.to}
      [] a.op = "with" -> {at + 1, a.end}
      [] a.op \in {"plain", "call", "try"} -> {at + 1}
      [] OTHER -> {}

\* The action a leads into a block only if it has it, or from one of its
\* clauses to the next.
Guarded(s, at, a) ==
    /\ \A to \in Follows(at, a) \ {at + 1} : Guards(s, to) \subseteq Guards(s, at)
    /\ at + 1 \in Follows(at, a) =>
         \A g \in Guards(s, at + 1) \ Guards(s, at) :
             g[2] = at /\ g[1] \in {"try", "with"} /\ HasBlock(g[1], a)
    /\ a.op = "try" =>
         /\ a.catch # 0 => Guards(s, a.catch) \subseteq Guards(s, at) \cup {<<"catch", at>>}
         /\ a.finally # 0 => Guards(s, a.finally) \subseteq Guards(s, at)

\* Code of a language with structured statements, which may leave blocks by
\* jumps to anywhere.  Flash lets code jump into blocks, too.
Structured ==
    {s \in Scripts : \A at \in DOMAIN Code[s] : \A a \in Code[s][at] : Guarded(s, at, a)}

-----------------------------------------------------------------------------
VARIABLES
    state,          \* the context runs scripts or has aborted, or all has crashed
    exception,      \* the exception in flight, 0 if there is none
    frames,         \* the frames of the context, the outermost first
    calls,          \* the activations of swfdec_as_context_run
    late            \* whether the scripts have run for longer than allowed

vars == <<state, exception, frames, calls, late>>

Init ==
    /\ state = "running"
    /\ exception = 0
    /\ frames = <<>>
    /\ calls = <<>>
    /\ late = FALSE

\* A frame, with the number of objects that it has put on its scope chain, and
\* with whether its blocks must lie in the script, which they must not before
\* the first time that none is left.  "rejected" are the blocks that were
\* turned away, of which the code keeps no record.
NewFrame(s) ==
    [script |-> s, pc |-> 1, blocks |-> <<>>, bounded |-> FALSE, scope |-> 0, rejected |-> {}]

\* An activation: the index of its frame, 0 when that has returned, where it
\* is, whether it looks for the end of blocks, and the frame that it frees.
Activation(i) == [frame |-> i, at |-> "start", check |-> TRUE, dying |-> NewFrame("none")]

top == Last(calls)
frame == Last(frames)

\* What the activation on top of the stack goes on with.
Becomes(call) == calls' = Append(Front(calls), call)
FrameBecomes(f) == frames' = Append(Front(frames), f)

\* The exceptions that may still be handled.
Held(f) == {f.blocks[i].held : i \in DOMAIN f.blocks} \ {0}
Live == ({exception} \ {0}) \cup UNION {Held(frames[i]) : i \in DOMAIN frames}

NewException == CHOOSE e \in 1..Cardinality(Live) + 1 : e \notin Live

-----------------------------------------------------------------------------
(* Blocks *)

\* block_start and block_end of a frame say that it is in its innermost block.
Inside(f) ==
    f.blocks # <<>> => Last(f.blocks).start <= f.pc /\ f.pc < Last(f.blocks).end

\* Whether a block from start to end lies in it.
Encloses(f, start, end) ==
    IF f.blocks = <<>> THEN f.bounded => end <= Exit(f.script)
    ELSE Last(f.blocks).start <= start /\ end <= Last(f.blocks).end

\* swfdec_as_frame_push_block: a block that does not is not entered.
PushBlock(f, b) ==
    IF Encloses(f, b.start, b.end)
    THEN [f EXCEPT !.blocks = Append(@, b)]
    ELSE [f EXCEPT !.rejected = @ \cup {<<b.kind, b.at>>}]

\* "depth" is the place on the scope chain, counted from its end, of the object
\* that is its first when the block is entered.
Block(kind, at, start, end, try, depth, held) ==
    [kind |-> kind, at |-> at, start |-> start, end |-> end, try |-> try,
     depth |-> depth, held |-> held]

\* What the end of a block leaves of the frame and of the exception.
After(f, x) == [frame |-> f, exception |-> x]

\* swfdec_action_try_end_catch, whose block is gone from the frame f already.
EndCatch(f, b, x) ==
    LET g == [f EXCEPT !.scope = IF b.kind = "catch" THEN @ - 1 ELSE @]
    IN IF b.try.finally # 0 /\ x # 0
       THEN After([PushBlock(g, Block("finally", b.at, b.try.finally, b.try.end, b.try, g.scope, x))
                       EXCEPT !.pc = b.try.finally], 0)
       ELSE After(g, x)

\* swfdec_action_try_end_try
EndTry(f, b, x) ==
    IF b.try.catch = 0 THEN EndCatch(f, b, x)
    ELSE IF x = 0 THEN After(f, 0)
    ELSE After([PushBlock([f EXCEPT !.scope = @ + 1],
                          Block("catch", b.at, b.try.catch, CatchEnd(b.try), b.try, f.scope + 1, 0))
                    EXCEPT !.pc = b.try.catch], 0)

WrongEndFinally(f, b, x, alive) == After(f, x)

\* swfdec_action_try_end_finally throws what the block kept, but not out of a
\* frame that has returned.
EndFinally(f, b, x, alive) == After(f, IF x = 0 /\ alive THEN b.held ELSE x)

\* swfdec_action_pop_with
PopWith(f, x) == After([f EXCEPT !.scope = @ - 1], x)

\* The frame without its innermost block.
Popped(f) == [f EXCEPT !.blocks = Front(@), !.bounded = @ \/ Len(f.blocks) = 1]

\* swfdec_as_frame_pop_block
PopBlock(f, x, alive) ==
    LET b == Last(f.blocks)
        g == Popped(f)
    IN CASE b.kind = "try" -> EndTry(g, b, x)
         [] b.kind = "catch" -> EndCatch(g, b, x)
         [] b.kind = "finally" -> EndFinally(g, b, x, alive)
         [] b.kind = "with" -> PopWith(g, x)

\* The functions that take the object of the innermost block off the scope
\* chain assert that it is the first one there.  That of a catch clause is new,
\* but a With may find its object there although another one put it there.
Misses(f) == Last(f.blocks).kind \in {"catch", "with"} /\ Last(f.blocks).depth # f.scope
MayPop(f) == Misses(f) => Last(f.blocks).kind = "with"

-----------------------------------------------------------------------------
(* swfdec_as_context_return: the frame on top goes, then its blocks end *)

Leave ==
    /\ frames' = Front(frames)
    /\ calls' = [k \in DOMAIN calls |->
                    LET c == IF calls[k].frame = Len(frames)
                             THEN [calls[k] EXCEPT !.frame = 0] ELSE calls[k]
                    IN IF k = Len(calls)
                       THEN [c EXCEPT !.at = "free", !.dying = frame] ELSE c]

Active == calls # <<>> /\ state # "crashed"

\* swfdec_as_frame_free, a block at a time.
Free ==
    /\ Active /\ top.at = "free"
    /\ IF top.dying.blocks # <<>>
       THEN MayPop(top.dying) /\
            LET a == PopBlock(top.dying, exception, FALSE)
            IN /\ Becomes([top EXCEPT !.dying = a.frame])
               /\ exception' = a.exception
       ELSE calls' = Front(calls) /\ UNCHANGED exception
    /\ UNCHANGED <<state, frames, late>>

-----------------------------------------------------------------------------
(* Calls *)

\* A script or function is called: swfdec_as_frame_init and _preload, in which
\* the memory may run out.  The frame is gone then, and swfdec_as_context_run
\* finds the one of the caller.
Enter(s, waiting) ==
    \/ /\ frames' = Append(frames, NewFrame(s))
       /\ calls' = Append(waiting, Activation(Len(frames) + 1))
       /\ UNCHANGED state
    \/ /\ state' = "aborted"
       /\ calls' = IF frames = <<>> THEN waiting ELSE Append(waiting, Activation(Len(frames)))
       /\ UNCHANGED frames

\* The player runs a script, and its clock starts.
Run(s) ==
    /\ calls = <<>> /\ state = "running"
    /\ late' = FALSE
    /\ Enter(s, <<>>)
    /\ UNCHANGED exception

\* What swfdec_as_context_run looks at before its loop.
Start ==
    /\ Active /\ top.at = "start"
    /\ IF state = "aborted" \/ late \/ Len(frames) > MaxDepth
       THEN state' = "aborted" /\ Leave
       ELSE Becomes([top EXCEPT !.at = "loop"]) /\ UNCHANGED <<state, frames>>
    /\ UNCHANGED <<exception, late>>

\* The call that an action made has ended, and so may have the frame.
Resume ==
    /\ Active /\ top.at = "call"
    /\ IF top.frame # 0
       THEN /\ Becomes([top EXCEPT !.at = "loop", !.check = TRUE])
            /\ FrameBecomes([frame EXCEPT !.pc = @ + 1])
       ELSE calls' = Front(calls) /\ UNCHANGED frames
    /\ UNCHANGED <<state, exception, late>>

-----------------------------------------------------------------------------
(* The loop of swfdec_as_context_run *)

InLoop == Active /\ top.at = "loop"

\* The context has aborted.
Error ==
    /\ InLoop /\ state = "aborted"
    /\ Leave
    /\ UNCHANGED <<state, exception, late>>

\* swfdec_as_frame_handle_exception ends blocks until one of them has taken
\* the exception, or the frame.
HandleException ==
    /\ InLoop /\ state = "running" /\ exception # 0
    /\ IF frame.blocks # <<>>
       THEN MayPop(frame) /\
            LET a == PopBlock(frame, exception, TRUE)
            IN FrameBecomes(a.frame) /\ exception' = a.exception /\ UNCHANGED calls
       ELSE Leave /\ UNCHANGED exception
    /\ UNCHANGED <<state, late>>

Running == InLoop /\ state = "running" /\ exception = 0

Finish ==
    /\ Running /\ frame.pc = Exit(frame.script)
    /\ Leave
    /\ UNCHANGED <<state, exception, late>>

\* The code has jumped, or put a clause, out of the script.
OutOfRange ==
    /\ Running /\ frame.pc \notin 1..Exit(frame.script)
    /\ Leave
    /\ UNCHANGED <<state, exception, late>>

\* The program counter is at an action.
Decoding == Running /\ frame.pc \in DOMAIN Code[frame.script]

WrongLeaves ==
    /\ top.check /\ frame.blocks # <<>>
    /\ frame.pc < Last(frame.blocks).start \/ frame.pc > Last(frame.blocks).end

\* Whether the code is seen to have left its block: not right after a jump.
Leaves == top.check /\ ~Inside(frame)

ExitBlock ==
    /\ Decoding /\ Leaves /\ MayPop(frame)
    /\ LET a == PopBlock(frame, 0, TRUE)
       IN FrameBecomes(a.frame) /\ exception' = a.exception
    /\ UNCHANGED <<state, calls, late>>

\* A block that ends does not find its object.
AssertionFails ==
    /\ \/ Active /\ top.at = "free" /\ top.dying.blocks # <<>> /\ Misses(top.dying)
       \/ InLoop /\ state = "running" /\ exception # 0 /\ frame.blocks # <<>> /\ Misses(frame)
       \/ Decoding /\ Leaves /\ Misses(frame)
    /\ state' = "crashed"
    /\ UNCHANGED <<exception, frames, calls, late>>

\* The next action is a.
At(a) == Decoding /\ ~Leaves /\ a \in Code[frame.script][frame.pc]

\* What an action does that leaves the program counter alone.
Next1(f) ==
    /\ FrameBecomes([f EXCEPT !.pc = @ + 1])
    /\ Becomes([top EXCEPT !.check = TRUE])
    /\ UNCHANGED late

DoPlain ==
    /\ At(Plain)
    /\ Next1(frame)
    /\ state' \in {"running", "aborted"}
    /\ UNCHANGED exception

DoThrow ==
    /\ At(Throw)
    /\ exception' = NewException
    /\ Next1(frame)
    /\ UNCHANGED state

DoReturn ==
    /\ At(Return)
    /\ Leave
    /\ UNCHANGED <<state, exception, late>>

DoCall(s) ==
    /\ At(Call(s))
    /\ Enter(s, Append(Front(calls), [top EXCEPT !.at = "call"]))
    /\ UNCHANGED <<exception, late>>

WrongTooLate(to) == late /\ to = frame.pc

\* A jump back looks whether the script may run on.
TooLate(to) == late /\ to < frame.pc

\* A jump to itself does not change the program counter, and is passed.
DoJump(a) ==
    /\ a.op = "jump" /\ At(a)
    /\ IF a.to = frame.pc THEN Next1(frame) /\ UNCHANGED state
       ELSE IF TooLate(a.to) THEN state' = "aborted" /\ Leave /\ UNCHANGED late
       ELSE /\ a.to < frame.pc => Len(frame.blocks) + frame.scope <= MaxBlocks
            /\ FrameBecomes([frame EXCEPT !.pc = a.to])
            /\ Becomes([top EXCEPT !.check = FALSE])
            /\ UNCHANGED <<state, late>>
    /\ UNCHANGED exception

\* A Try without any clause is none.
DoTry(a) ==
    /\ a.op = "try" /\ At(a)
    /\ Next1(IF a.catch = 0 /\ a.finally = 0 THEN frame
             ELSE PushBlock(frame, Block("try", frame.pc, frame.pc + 1, a.body, a, frame.scope, 0)))
    /\ UNCHANGED <<state, exception>>

\* Without an object it jumps behind its block.
DoWith(a) ==
    /\ a.op = "with" /\ At(a)
    /\ \/ Next1(PushBlock([frame EXCEPT !.scope = @ + 1],
                          Block("with", frame.pc, frame.pc + 1, a.end, a, frame.scope + 1, 0)))
       \/ /\ FrameBecomes([frame EXCEPT !.pc = a.end])
          /\ Becomes([top EXCEPT !.check = FALSE])
          /\ UNCHANGED late
    /\ UNCHANGED <<state, exception>>

\* The action at the program counter.
Execute ==
    \/ DoPlain
    \/ DoThrow
    \/ DoReturn
    \/ \E s \in Scripts : DoCall(s)
    \/ \E a \in Code[frame.script][frame.pc] : DoJump(a) \/ DoTry(a) \/ DoWith(a)

Step ==
    \/ Start \/ Resume \/ Free
    \/ Error \/ HandleException \/ Finish \/ OutOfRange \/ ExitBlock \/ AssertionFails
    \/ Decoding /\ Execute

\* The time that scripts may run is over.
TimeOut ==
    /\ Active /\ ~late
    /\ late' = TRUE
    /\ UNCHANGED <<state, exception, frames, calls>>

Next == (\E s \in Scripts : Run(s)) \/ Step \/ TimeOut

\* One thread runs the interpreter, and time passes.
Spec == Init /\ [][Next]_vars /\ WF_vars(Step) /\ WF_vars(TimeOut)

-----------------------------------------------------------------------------
(* Properties *)

TypeOK ==
    /\ state \in {"running", "aborted", "crashed"}
    /\ exception \in Nat /\ late \in BOOLEAN
    /\ \A f \in Range(frames) :
         /\ f.script \in Scripts /\ f.pc \in Nat /\ f.scope \in Nat
         /\ \A b \in Range(f.blocks) : b.kind \in Kinds /\ b.held \in Nat
    /\ \A c \in Range(calls) :
         /\ c.frame \in 0..Len(frames) /\ c.check \in BOOLEAN
         /\ c.at \in {"start", "loop", "call", "free"}

\* An object was put on the scope chain for a block that was turned away.
LeftOver(f) == \E r \in f.rejected : r[1] \in {"catch", "with"}

\* The blocks below the i-th leave so many objects on the scope chain.
DepthBelow(f, i) == IF i = 1 THEN 0 ELSE f.blocks[i - 1].depth

\* The object of a block is on the scope chain behind those of the blocks that
\* it is in, and nothing else is there unless something was left over.
ScopesFollow(f) ==
    /\ \A i \in DOMAIN f.blocks :
         LET with == DepthBelow(f, i) + (IF f.blocks[i].kind \in {"catch", "with"} THEN 1 ELSE 0)
         IN /\ with <= f.blocks[i].depth
            /\ ~LeftOver(f) => f.blocks[i].depth = with
    /\ DepthBelow(f, Len(f.blocks) + 1) <= f.scope
    /\ ~LeftOver(f) => f.scope = DepthBelow(f, Len(f.blocks) + 1)

\* The blocks of the frame f.
Entered(f) == {<<b.kind, b.at>> : b \in Range(f.blocks)}

\* The blocks of a frame lie inside of each other and their objects are on the
\* scope chain in the same order, as the functions that end them assert: only a
\* frame that keeps the object of a block that was turned away can break the
\* assertion.  Where an action follows another one or is returned to, all
\* blocks in effect have it in them; the first action behind a jump is executed
\* with those of the place that the jump came from.  If code gets into blocks
\* by their Try and With only, each block that guards the next action, behind a
\* jump or not, is in effect or was turned away.  A frame is a local variable
\* of the function that runs it: as long as the context lists it, an activation
\* of swfdec_as_context_run is there for it, and at most MaxDepth of them
\* execute code.
BlocksFollowCode ==
    /\ TypeOK
    /\ \A i \in DOMAIN frames : \E c \in Range(calls) : c.frame = i
    /\ \A i \in DOMAIN calls, j \in DOMAIN calls :
         i < j /\ calls[j].frame # 0 => calls[i].frame <= calls[j].frame
    /\ InLoop => top.frame = Len(frames) /\ Len(frames) \in 1..MaxDepth
    /\ \A f \in Range(frames) \cup {c.dying : c \in Range(calls)} :
         /\ ScopesFollow(f)
         /\ \A i \in DOMAIN f.blocks, j \in DOMAIN f.blocks :
              i < j => /\ f.blocks[i].start <= f.blocks[j].start
                       /\ f.blocks[j].end <= f.blocks[i].end
    /\ state = "crashed" =>
         \E f \in Range(frames) \cup {c.dying : c \in Range(calls)} : LeftOver(f)
    /\ Decoding /\ top.check /\ ~Leaves =>
         \A b \in Range(frame.blocks) : frame.pc \in b.start..b.end - 1
    /\ Decoding /\ frame.script \in Structured =>
         Guards(frame.script, frame.pc) \subseteq Entered(frame) \cup frame.rejected

\* swfdec_as_frame_push_block is called with blocks only that lie in the one
\* around them, as it asserts.
BlocksAreEntered == \A f \in Range(frames) : f.rejected = {}

\* The exception e has just entered a catch clause.
Caught(e) ==
    /\ e = exception /\ exception' = 0
    /\ frame.blocks # <<>> /\ Last(frame.blocks).kind = "try"
    /\ Last(frame.blocks).try.catch # 0
    /\ Last(frames').pc = Last(frame.blocks).try.catch

\* The block that should keep the exception e while a finally clause runs is
\* turned away, as the clause is not in the block around it.
TurnedAway(e) ==
    /\ e = exception
    /\ frame.blocks # <<>> /\ Last(frame.blocks).kind \in {"try", "catch"}
    /\ LET try == Last(frame.blocks).try
       IN try.finally # 0 /\ ~Encloses(Popped(frame), try.finally, try.end)

\* An exception is in flight or kept by a finally clause until a catch clause
\* takes it, or until the finally clause that kept it returns or throws another
\* one; it is lost otherwise only where the block of the finally clause is
\* turned away.  And none is thrown out of a frame that has returned.
ExceptionsAreKept ==
    [][/\ \A e \in Live \ Live' :
            \/ state' = "aborted"
            \/ Caught(e)
            \/ e \in Held(frame) /\ (exception # 0 \/ Len(frames') < Len(frames))
            \/ TurnedAway(e)
       /\ exception = 0 /\ exception' # 0 => Running /\ frames' # <<>> /\ Len(frames') = Len(frames)
      ]_vars

\* A script that runs comes to its end, whatever it loops over and calls, if it
\* does not fail an assertion on the way.
RunEnds == calls # <<>> ~> calls = <<>> \/ state = "crashed"
=============================================================================
