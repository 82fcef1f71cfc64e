------------------------- MODULE MCPlayerScheduler -------------------------
(* A small player for TLC: external actions are queued for the player, two *)
(* intervals may be set.  A frame is not a whole number of msecs, so       *)
(* timeouts are late by a fraction of one.                                 *)
EXTENDS PlayerScheduler

CONSTANTS player, i1, i2

MCObjects == {player}
MCIntervals == {i1, i2}
MCPeriods == {1}
MCFramePeriods == {3}
MCMsecs == {0, 1, 2}
=============================================================================
