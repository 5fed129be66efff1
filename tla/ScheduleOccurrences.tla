------------------------- MODULE ScheduleOccurrences -------------------------
(***************************************************************************)
(* What the scheduler promises about a recurring prompt, with no clock      *)
(* tick, file, lock or restart in sight: each time it is due becomes at     *)
(* most one job, later times never make way for earlier ones, and a job     *)
(* that was finished or stopped does not come back.                         *)
(***************************************************************************)
EXTENDS Naturals

CONSTANTS Schedules, Times

VARIABLES
  served,   \* the latest time of each schedule that became a job, 0 if none
  jobs      \* the jobs that wait or run: pairs of a schedule and a time

OccurrencesInit == served = [s \in Schedules |-> 0] /\ jobs = {}

Occur(s, t) ==
  /\ t > served[s]
  /\ served' = [served EXCEPT ![s] = t]
  /\ jobs' = jobs \cup {<<s, t>>}

\* One job ends, or /stop ends them all.
End == jobs' \subseteq jobs /\ jobs' # jobs /\ UNCHANGED served

OccurrencesNext == End \/ \E s \in Schedules, t \in Times : Occur(s, t)

Occurrences == OccurrencesInit /\ [][OccurrencesNext]_<<served, jobs>>
===============================================================================
