----------------------------- MODULE MCScriptJump -----------------------------
(***************************************************************************)
(* Two statements one after the other, try { ... } catch (e) { ... } each, *)
(* as vivi_code_try_compile compiles them: the body of the first ends in a *)
(* jump to the end of the statement, which is where the second one begins. *)
(***************************************************************************)
EXTENDS Script

MCScripts == {"statements"}

Statements ==
    << {Try(4, 4, 0, 5)},       \* 1 try
       {Plain, Throw},          \* 2
       {Jump(5)},               \* 3
       {Plain, Throw},          \* 4 catch
       {Try(8, 8, 0, 9)},       \* 5 try
       {Plain, Throw},          \* 6
       {Jump(9)},               \* 7
       {Plain, Throw} >>        \* 8 catch

MCCode == [s \in MCScripts |-> Statements]
=============================================================================
