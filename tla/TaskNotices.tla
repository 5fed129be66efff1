----------------------------- MODULE TaskNotices -----------------------------
(***************************************************************************)
(* What a bot promises of the background tasks it tracks, with no provider, *)
(* poll, lock or restart in sight: a tracked task stays tracked until its   *)
(* result was told or the user or the bot withdrew it, and both are final.  *)
(***************************************************************************)
CONSTANT Tasks

VARIABLE phase

Phases == {"new", "tracked", "told", "closed", "withdrawn"}

NoticesInit == phase = [l \in Tasks |-> "new"]

Moves(l, from, to) == phase[l] \in from /\ phase' = [phase EXCEPT ![l] = to]

Track(l)    == Moves(l, {"new"}, "tracked")
Tell(l)     == Moves(l, {"tracked"}, "told")
Close(l)    == Moves(l, {"told"}, "closed")
Withdraw(l) == Moves(l, {"tracked", "told"}, "withdrawn")

NoticesNext == \E l \in Tasks : Track(l) \/ Tell(l) \/ Close(l) \/ Withdraw(l)

Notices == NoticesInit /\ [][NoticesNext]_phase
===============================================================================
