------------------------------- MODULE MCStage -------------------------------
(***************************************************************************)
(* What users see and do: a video that is played, the file that holds one, *)
(* and the mouse and the focus.  They share nothing: every behaviour is    *)
(* one of one of them.                                                     *)
(***************************************************************************)
EXTENDS NetStream, FlvDecoder, Input

VARIABLE part

allVars == <<vars, flvVars, inputVars, part>>

AllInit ==
    /\ part \in {"video", "file", "input"}
    /\ Init /\ FlvInit
    /\ InputInit /\ (part # "input" => menus = {})

VideoNext == part = "video" /\ Next /\ UNCHANGED <<flvVars, inputVars, part>>
FileNext == part = "file" /\ FlvNext /\ UNCHANGED <<vars, inputVars, part>>
MouseNext == part = "input" /\ InputNext /\ UNCHANGED <<vars, flvVars, part>>

AllSpec == AllInit /\ [][VideoNext \/ FileNext \/ MouseNext]_allVars
=============================================================================
