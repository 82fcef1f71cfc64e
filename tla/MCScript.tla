------------------------------- MODULE MCScript -------------------------------
(***************************************************************************)
(* Scripts as the compiler of the repository emits them, in which the body *)
(* of a Try ends in a jump over the catch clause: onto the next Try or With *)
(* when that comes directly behind, or back onto the same Try when it is   *)
(* the first in a loop.                                                    *)
(*                                                                         *)
(* The objects of scripts are a part of their own: a behaviour is one of   *)
(* the frames or one of the objects.                                       *)
(***************************************************************************)
EXTENDS Script, Objects

CONSTANTS theGlobal, aFunction, anObject

MCScripts == {"loop", "nested", "function"}

\* A loop that begins with a Try with both clauses, any of which may leave the
\* loop, go on with it, return or throw; behind it is another Try.
Loop ==
    << {Try(5, 5, 7, 9)},                                              \*  1
       {Plain, Throw, Return, Jump(1), Jump(9), Call("function")},     \*  2
       {Plain, Throw},                                                 \*  3
       {Jump(7)},                                                      \*  4
       {Plain, Throw, Jump(1)},                                        \*  5 catch
       {Plain, Return, Jump(9)},                                       \*  6
       {Plain},                                                        \*  7 finally
       {Plain, Throw, Return, Jump(1)},                                \*  8
       {Try(11, 11, 0, 12)},                                           \*  9
       {Throw, Jump(12)},                                              \* 10
       {Plain},                                                        \* 11 catch
       {Plain, Jump(1)} >>                                             \* 12

\* A Try inside of a Try inside of a With; the inner one has no catch clause,
\* and a With is behind the outer one.
Nested ==
    << {With(12)},                                                     \*  1
       {Try(8, 8, 0, 10)},                                             \*  2
       {Try(5, 0, 5, 7)},                                              \*  3
       {Plain, Throw, Jump(10), Jump(12), Call("function")},           \*  4
       {Plain},                                                        \*  5 finally
       {Plain, Throw, Jump(12)},                                       \*  6
       {Jump(10)},                                                     \*  7
       {With(10), Throw},                                              \*  8 catch
       {Plain, Throw, Jump(12)},                                       \*  9
       {With(12)},                                                     \* 10
       {Plain, Throw},                                                 \* 11
       {Plain, Return} >>                                              \* 12

\* A function that calls itself, and has a finally clause; at its end a jump
\* into the Try, one to itself, blocks of no length and a jump out of it.
Function ==
    << {Try(4, 0, 4, 6)},                                              \*  1
       {Plain, Throw, Call("function")},                               \*  2
       {Plain, Return},                                                \*  3
       {Plain},                                                        \*  4 finally
       {Plain, Throw, Return, Call("function")},                       \*  5
       {Plain, Jump(2), Jump(6)},                                      \*  6
       {Try(8, 0, 0, 8), With(8)},                                     \*  7
       {Plain, Throw, Jump(0)} >>                                      \*  8

MCCode ==
    [s \in MCScripts |-> CASE s = "loop" -> Loop
                           [] s = "nested" -> Nested
                           [] s = "function" -> Function]

\* A function that scripts make, and the global object.
MCUses == {<<aFunction, "x">>, <<anObject, "x">>, <<aFunction, "__proto__">>}

VARIABLE part

allVars == <<vars, objectVars, part>>

AllInit == part \in {"frames", "objects"} /\ Init /\ ObjectsInit

FramesNext == part = "frames" /\ Next /\ UNCHANGED <<objectVars, part>>
HeapNext == part = "objects" /\ ObjectsNext /\ UNCHANGED <<vars, part>>

AllNext == FramesNext \/ HeapNext

FramesStep == part = "frames" /\ Step /\ UNCHANGED <<objectVars, part>>
FramesTimeOut == part = "frames" /\ TimeOut /\ UNCHANGED <<objectVars, part>>

\* The fairness is that of Spec.
AllSpec ==
    /\ AllInit /\ [][AllNext]_allVars
    /\ WF_allVars(FramesStep) /\ WF_allVars(FramesTimeOut)
=============================================================================
