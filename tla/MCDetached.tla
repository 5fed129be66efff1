------------------------------ MODULE MCDetached ------------------------------
(* Instances of DetachedTasks for TLC.                                      *)
EXTENDS DetachedTasks, TLC

\* Launches are interchangeable until they begin.
AnyOrder == Permutations(Launches)
===============================================================================
