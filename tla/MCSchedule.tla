------------------------------ MODULE MCSchedule ------------------------------
(* Instances of ScheduleAdmission for TLC.                                  *)
EXTENDS ScheduleAdmission

CONSTANTS p, q

\* p is due twice, so that a time can be missed; q at the same time as p once.
PThenBoth == [s \in Schedules |-> IF s = p THEN {1, 2} ELSE {2}]
===============================================================================
