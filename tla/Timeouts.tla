----------------------------- MODULE Timeouts -----------------------------
(***************************************************************************)
(* The player's list of timeouts (swfdec_player.c, "Timeouts").  The list  *)
(* holds pointers, so a timeout is an identity here and its timestamp is   *)
(* looked up in the function stamp: changing the timestamp of a timeout    *)
(* that is in the list does not move it.                                   *)
(***************************************************************************)
EXTENDS Integers, SequencesExt

\* What swfdec_player_get_next_event_time returns without any timeout
\* (G_MAXUINT64 in the code, turned into -1 for the application).
Never == -1

NextEventTime(list, stamp, now) ==
    IF list = <<>> THEN Never ELSE Max({0, stamp[Head(list)] - now})

\* Operators named Wrong... are faulty variants of the one that follows them:
\* each is what one of the properties of the player rules out.
WrongInsertEarly(list, stamp, t) ==
    LET later == {i \in DOMAIN list : stamp[list[i]] >= stamp[t]}
    IN  IF later = {} THEN Len(list) + 1 ELSE Min(later)

\* Where a new timeout goes: before the first one that is due later, so that
\* of two timeouts with the same timestamp the new one is last.
InsertPosition(list, stamp, t) ==
    LET later == {i \in DOMAIN list : stamp[list[i]] > stamp[t]}
    IN  IF later = {} THEN Len(list) + 1 ELSE Min(later)

\* swfdec_player_add_timeout: a timeout that lies in the past is refused.
AddTimeout(list, stamp, now, t) ==
    IF stamp[t] >= now THEN InsertAt(list, InsertPosition(list, stamp, t), t)
                        ELSE list

\* swfdec_player_remove_timeout: drops the first link that holds t, if any.
RemoveTimeout(list, t) == RemoveFirst(list, t)

-----------------------------------------------------------------------------

\* The comment on the list says "list of events, sorted by timestamp".
Sorted(list, stamp) ==
    \A i, j \in DOMAIN list : i < j => stamp[list[i]] <= stamp[list[j]]

\* No timeout is in the list twice.
Distinct(list) == \A i, j \in DOMAIN list : list[i] = list[j] => i = j
=============================================================================
