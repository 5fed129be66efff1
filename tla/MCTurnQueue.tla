----------------------------- MODULE MCTurnQueue -----------------------------
(* Instances of TurnQueue for TLC.                                          *)
EXTENDS TurnQueue, TLC

CONSTANTS a, b, c, dm, room

JobsAB == {a, b}
JobsABC == {a, b, c}
None == {}
OnlyB == {b}
OnlyC == {c}
OnlyA == {a}
OneChat == {dm}
TwoChats == {dm, room}
SameChat == [j \in Jobs |-> dm]
TwoRooms == [j \in Jobs |-> IF j = b THEN room ELSE dm]
Interchangeable == Permutations(JobsABC)
===============================================================================
