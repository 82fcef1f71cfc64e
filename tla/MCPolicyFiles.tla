---------------------------- MODULE MCPolicyFiles ----------------------------
(***************************************************************************)
(* Two hosts need a policy file, the access matrix allows a third one and  *)
(* denies a fourth one.                                                    *)
(***************************************************************************)
EXTENDS PolicyFiles

CONSTANTS here, there, elsewhere, nowhere

MCHosts == {here, there, elsewhere, nowhere}

MCPermission ==
    [h \in MCHosts |-> CASE h = here -> "yes"
                         [] h = nowhere -> "no"
                         [] OTHER -> "policy"]
=============================================================================
