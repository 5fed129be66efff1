---------------------------- MODULE AgentProofs ----------------------------
(***************************************************************************)
(* The invariants of an agent's turn (AgentTurn), of the memory its        *)
(* workspace keeps (SessionMemory) and of the flexible agent's job         *)
(* (FlexibleJob), and what follows from them: for every number of          *)
(* messages, judge rounds, recoveries and stops, of sessions, jobs, facts  *)
(* and crashes, of tasks, helpers, tiers, limits and interruptions.        *)
(***************************************************************************)
EXTENDS AgentTurn, SessionMemory, FlexibleJob, SequenceTheorems, FiniteSetTheorems,
        WellFoundedInduction, TLAPS
-------------------------------------------------------------------------------
(* The turn.                                                                *)

\* Every step keeps the types.
LEMMA TypeStep ==
  ASSUME TurnAssumption, TurnInv, [Next]_vars
  PROVE  TypeOK'
<1> USE TurnAssumption DEF TurnAssumption, TurnInv, TypeOK, CallInv, Steps, Outcomes, Drafts
<1>1. CASE UNCHANGED vars
  BY <1>1 DEF vars, inject, process, doctor, counts, stopping, written
<1>2. CASE \E m \in Messages : Inject(m)
  BY <1>2 DEF Inject, vars, inject, process, doctor, counts, stopping, written
<1>3. CASE \E m \in Messages : WatcherTakes(m)
  BY <1>3 DEF WatcherTakes, vars, inject, process, doctor, counts, stopping, written
<1>4. CASE \E m \in Messages : JudgeInterrupted(m)
  BY <1>4 DEF JudgeInterrupted, At, vars, inject, process, doctor, counts, stopping, written
<1>5. CASE Routes
  <2>1. msg' \in [Messages -> {"new", "queued", "taken", "dropped", "later"}]
    BY <1>5 DEF Routes, GivesUp, DropsQueue, At, vars, inject, process, doctor, counts, stopping, written
  <2>2. session' \in BOOLEAN /\ window' \in BOOLEAN /\ restarting' \in BOOLEAN /\ tools' \in BOOLEAN
         /\ relaunched' \in BOOLEAN /\ fresh' \in BOOLEAN /\ next' \in BOOLEAN
    BY <1>5, Zenon DEF Routes, GivesUp, DropsQueue, At, vars, inject, process, doctor, counts,
      stopping, written
  <2>3. QED
    BY <1>5, <2>1, <2>2 DEF Routes, GivesUp, DropsQueue, At, vars, inject, process, doctor, counts,
      stopping, written
<1>6. CASE Prompts
  <2>1. msg' \in [Messages -> {"new", "queued", "taken", "dropped", "later"}]
    BY <1>6 DEF Prompts, At, Taken, vars, inject, process, doctor, counts, stopping, written
  <2>2. session' \in BOOLEAN /\ window' \in BOOLEAN /\ restarting' \in BOOLEAN /\ tools' \in BOOLEAN
         /\ relaunched' \in BOOLEAN /\ fresh' \in BOOLEAN /\ next' \in BOOLEAN
    BY <1>6, Zenon DEF Prompts, At, Taken, vars, inject, process, doctor, counts, stopping, written
  <2>3. QED
    BY <1>6, <2>1, <2>2 DEF Prompts, At, Taken, vars, inject, process, doctor, counts, stopping, written
<1>7. CASE Launches
  <2>1. msg' \in [Messages -> {"new", "queued", "taken", "dropped", "later"}]
    BY <1>7 DEF Launches, GivesUp, DropsQueue, At, vars, inject, process, doctor, counts, stopping, written
  <2>2. session' \in BOOLEAN /\ window' \in BOOLEAN /\ restarting' \in BOOLEAN /\ tools' \in BOOLEAN
         /\ relaunched' \in BOOLEAN /\ fresh' \in BOOLEAN /\ next' \in BOOLEAN
    BY <1>7, Zenon DEF Launches, GivesUp, DropsQueue, At, vars, inject, process, doctor, counts,
      stopping, written
  <2>3. QED
    BY <1>7, <2>1, <2>2 DEF Launches, GivesUp, DropsQueue, At, vars, inject, process, doctor,
      counts, stopping, written
<1>8. CASE CompletionWins
  BY <1>8 DEF CompletionWins, At, vars, inject, process, doctor, counts, stopping, written
<1>9. CASE HangSettles
  BY <1>9 DEF HangSettles, At, vars, inject, process, doctor, counts, stopping, written
<1>10. CASE Recovers
  BY <1>10 DEF Recovers, CallEnds, TakesQueue, Queued, Taken, vars, inject, process, doctor, counts,
    stopping, written
<1>11. CASE Relaunches
  BY <1>11 DEF Relaunches, CallEnds, vars, inject, process, doctor, counts, stopping, written
<1>12. CASE Returns
  BY <1>12 DEF Returns, CallEnds, TakesQueue, Returned, Queued, vars, inject, process, doctor,
    counts, stopping, written
<1>13. CASE Drafted
  <2>1. msg' \in [Messages -> {"new", "queued", "taken", "dropped", "later"}]
    BY <1>13 DEF Drafted, Exhausted, Finishes, TakesQueue, Taken, Queued, At, vars, inject, process,
      doctor, counts, stopping, written
  <2>2. session' \in BOOLEAN /\ window' \in BOOLEAN /\ restarting' \in BOOLEAN /\ tools' \in BOOLEAN
         /\ relaunched' \in BOOLEAN /\ fresh' \in BOOLEAN /\ next' \in BOOLEAN
    BY ZenonT(60), <1>13, Zenon DEF Drafted, Exhausted, Finishes, TakesQueue, Taken, Queued, At, vars, inject,
      process, doctor, counts, stopping, written
  <2>3. QED
    BY <1>13, <2>1, <2>2 DEF Drafted, Exhausted, Finishes, TakesQueue, Taken, Queued, At, vars,
      inject, process, doctor, counts, stopping, written
<1>14. CASE JudgeContinues
  <2>1. msg' \in [Messages -> {"new", "queued", "taken", "dropped", "later"}]
    BY <1>14 DEF JudgeContinues, At, Queued, vars, inject, process, doctor, counts, stopping, written
  <2>2. session' \in BOOLEAN /\ window' \in BOOLEAN /\ restarting' \in BOOLEAN /\ tools' \in BOOLEAN
         /\ relaunched' \in BOOLEAN /\ fresh' \in BOOLEAN /\ next' \in BOOLEAN
    BY <1>14, Zenon DEF JudgeContinues, At, Queued, vars, inject, process, doctor, counts, stopping, written
  <2>3. QED
    BY <1>14, <2>1, <2>2 DEF JudgeContinues, At, Queued, vars, inject, process, doctor, counts,
      stopping, written
<1>15. CASE JudgeDecides
  <2>1. msg' \in [Messages -> {"new", "queued", "taken", "dropped", "later"}]
    BY <1>15 DEF JudgeDecides, Finishes, TakesQueue, Queued, At, vars, inject, process, doctor,
      counts, stopping, written
  <2>2. session' \in BOOLEAN /\ window' \in BOOLEAN /\ restarting' \in BOOLEAN /\ tools' \in BOOLEAN
         /\ relaunched' \in BOOLEAN /\ fresh' \in BOOLEAN /\ next' \in BOOLEAN
    BY <1>15, Zenon DEF JudgeDecides, Finishes, TakesQueue, Queued, At, vars, inject, process,
      doctor, counts, stopping, written
  <2>3. QED
    BY <1>15, <2>1, <2>2 DEF JudgeDecides, Finishes, TakesQueue, Queued, At, vars, inject, process,
      doctor, counts, stopping, written
<1>16. CASE TurnReturns
  BY <1>16 DEF TurnReturns, At, vars, inject, process, doctor, counts, stopping, written
<1>17. CASE WorkerEnds
  BY <1>17 DEF WorkerEnds, TakesQueue, Ends, Queued, vars, inject, process, doctor, counts, stopping, written
<1>18. CASE TornDown
  BY <1>18 DEF TornDown, vars, inject, process, doctor, counts, stopping, written
<1>19. CASE WorkerProgresses
  <2>1. msg' \in [Messages -> {"new", "queued", "taken", "dropped", "later"}]
    BY <1>19 DEF WorkerProgresses, vars, inject, process, doctor, counts, stopping, written
  <2>2. session' \in BOOLEAN /\ window' \in BOOLEAN /\ restarting' \in BOOLEAN /\ tools' \in BOOLEAN
         /\ relaunched' \in BOOLEAN /\ fresh' \in BOOLEAN /\ next' \in BOOLEAN
    BY <1>19, Zenon DEF WorkerProgresses, vars, inject, process, doctor, counts, stopping, written
  <2>3. QED
    BY <1>19, <2>1, <2>2 DEF WorkerProgresses, vars, inject, process, doctor, counts, stopping, written
<1>20. CASE Dismissed
  BY <1>20 DEF Dismissed, At, vars, inject, process, doctor, counts, stopping, written
<1>21. CASE Abandoned
  BY <1>21 DEF Abandoned, At, TakesQueue, vars, inject, process, doctor, counts, stopping, written
<1>22. CASE ReviewBegins
  BY <1>22 DEF ReviewBegins, At, vars, inject, process, doctor, counts, stopping, written
<1>23. CASE ReviewSpares
  BY <1>23 DEF ReviewSpares, At, vars, inject, process, doctor, counts, stopping, written
<1>24. CASE ReviewConfirms
  BY <1>24 DEF ReviewConfirms, StillHung, At, vars, inject, process, doctor, counts, stopping, written
<1>25. CASE Stop
  BY <1>25 DEF Stop, vars, inject, process, doctor, counts, stopping, written
<1>26. CASE StopLands
  <2>1. msg' \in [Messages -> {"new", "queued", "taken", "dropped", "later"}]
    BY <1>26 DEF StopLands, Cancelled, DropsQueue, LogsInterruption, vars, inject, process, doctor,
      counts, stopping, written
  <2>2. session' \in BOOLEAN /\ window' \in BOOLEAN /\ restarting' \in BOOLEAN /\ tools' \in BOOLEAN
         /\ relaunched' \in BOOLEAN /\ fresh' \in BOOLEAN /\ next' \in BOOLEAN
    BY ZenonT(60), <1>26, Zenon DEF StopLands, Cancelled, DropsQueue, LogsInterruption, vars, inject, process,
      doctor, counts, stopping, written
  <2>3. QED
    BY <1>26, <2>1, <2>2 DEF StopLands, Cancelled, DropsQueue, LogsInterruption, vars, inject,
      process, doctor, counts, stopping, written
<1>27. CASE LogWritten
  BY <1>27 DEF LogWritten, vars, inject, process, doctor, counts, stopping, written
<1>28. CASE NoteWritten
  BY <1>28 DEF NoteWritten, vars, inject, process, doctor, counts, stopping, written
<1>29. CASE NextTurn
  BY <1>29 DEF NextTurn, WritesSettled, vars, inject, process, doctor, counts, stopping, written
<1>30. QED
  BY <1>1, <1>2, <1>3, <1>4, <1>5, <1>6, <1>7, <1>8, <1>9, <1>10, <1>11, <1>12, <1>13, <1>14, <1>15,
    <1>16, <1>17, <1>18, <1>19, <1>20, <1>21, <1>22, <1>23, <1>24, <1>25, <1>26, <1>27, <1>28, <1>29
  DEF Next, TurnStep, WorkerStep, Teardown, Writes

\* Every step leaves a worker with who waits for it.
LEMMA CallStep ==
  ASSUME TurnAssumption, TurnInv, [Next]_vars
  PROVE  CallInv'
<1> USE TurnAssumption DEF TurnAssumption, TurnInv, TypeOK, CallInv, Steps
<1>1. CASE UNCHANGED vars
  BY <1>1 DEF vars, inject, process, doctor, counts, stopping, written
<1>2. CASE \E m \in Messages : Inject(m)
  BY <1>2 DEF Inject, vars, inject, process, doctor, counts, stopping, written
<1>3. CASE \E m \in Messages : WatcherTakes(m)
  BY <1>3 DEF WatcherTakes, vars, inject, process, doctor, counts, stopping, written
<1>4. CASE \E m \in Messages : JudgeInterrupted(m)
  BY <1>4 DEF JudgeInterrupted, At, vars, inject, process, doctor, counts, stopping, written
<1>5. CASE Routes
  BY <1>5 DEF Routes, GivesUp, DropsQueue, At, vars, inject, process, doctor, counts, stopping, written
<1>6. CASE Prompts
  BY <1>6 DEF Prompts, At, Taken, vars, inject, process, doctor, counts, stopping, written
<1>7. CASE Launches
  BY <1>7 DEF Launches, GivesUp, DropsQueue, At, vars, inject, process, doctor, counts, stopping, written
<1>8. CASE CompletionWins
  BY <1>8 DEF CompletionWins, At, vars, inject, process, doctor, counts, stopping, written
<1>9. CASE HangSettles
  BY <1>9 DEF HangSettles, At, vars, inject, process, doctor, counts, stopping, written
<1>10. CASE Recovers
  BY <1>10 DEF Recovers, CallEnds, TakesQueue, Queued, Taken, vars, inject, process, doctor, counts,
    stopping, written
<1>11. CASE Relaunches
  BY <1>11 DEF Relaunches, CallEnds, vars, inject, process, doctor, counts, stopping, written
<1>12. CASE Returns
  BY <1>12 DEF Returns, CallEnds, TakesQueue, Returned, Queued, vars, inject, process, doctor,
    counts, stopping, written
<1>13. CASE Drafted
  BY <1>13 DEF Drafted, Exhausted, Finishes, TakesQueue, Taken, Queued, At, vars, inject, process,
    doctor, counts, stopping, written
<1>14. CASE JudgeContinues
  BY <1>14 DEF JudgeContinues, At, Queued, vars, inject, process, doctor, counts, stopping, written
<1>15. CASE JudgeDecides
  BY <1>15 DEF JudgeDecides, Finishes, TakesQueue, Queued, At, vars, inject, process, doctor,
    counts, stopping, written
<1>16. CASE TurnReturns
  BY <1>16 DEF TurnReturns, At, vars, inject, process, doctor, counts, stopping, written
<1>17. CASE WorkerEnds
  BY <1>17 DEF WorkerEnds, TakesQueue, Ends, Queued, vars, inject, process, doctor, counts, stopping, written
<1>18. CASE TornDown
  BY <1>18 DEF TornDown, vars, inject, process, doctor, counts, stopping, written
<1>19. CASE WorkerProgresses
  BY <1>19 DEF WorkerProgresses, vars, inject, process, doctor, counts, stopping, written
<1>20. CASE Dismissed
  BY <1>20 DEF Dismissed, At, vars, inject, process, doctor, counts, stopping, written
<1>21. CASE Abandoned
  BY <1>21 DEF Abandoned, At, TakesQueue, vars, inject, process, doctor, counts, stopping, written
<1>22. CASE ReviewBegins
  BY <1>22 DEF ReviewBegins, At, vars, inject, process, doctor, counts, stopping, written
<1>23. CASE ReviewSpares
  BY <1>23 DEF ReviewSpares, At, vars, inject, process, doctor, counts, stopping, written
<1>24. CASE ReviewConfirms
  BY <1>24 DEF ReviewConfirms, StillHung, At, vars, inject, process, doctor, counts, stopping, written
<1>25. CASE Stop
  BY <1>25 DEF Stop, vars, inject, process, doctor, counts, stopping, written
<1>26. CASE StopLands
  BY <1>26 DEF StopLands, Cancelled, DropsQueue, LogsInterruption, vars, inject, process, doctor,
    counts, stopping, written
<1>27. CASE LogWritten
  BY <1>27 DEF LogWritten, vars, inject, process, doctor, counts, stopping, written
<1>28. CASE NoteWritten
  BY <1>28 DEF NoteWritten, vars, inject, process, doctor, counts, stopping, written
<1>29. CASE NextTurn
  BY <1>29 DEF NextTurn, WritesSettled, vars, inject, process, doctor, counts, stopping, written
<1>30. QED
  BY <1>1, <1>2, <1>3, <1>4, <1>5, <1>6, <1>7, <1>8, <1>9, <1>10, <1>11, <1>12, <1>13, <1>14, <1>15,
    <1>16, <1>17, <1>18, <1>19, <1>20, <1>21, <1>22, <1>23, <1>24, <1>25, <1>26, <1>27, <1>28, <1>29
  DEF Next, TurnStep, WorkerStep, Teardown, Writes

\* Every step keeps account of the messages the attempt does not know of.
LEMMA InjectStep ==
  ASSUME TurnAssumption, TurnInv, [Next]_vars
  PROVE  InjectInv'
<1> USE TurnAssumption DEF TurnAssumption, TurnInv, TypeOK, CallInv, InjectInv, InjectionsAnswered, Untold, Taken, Queued
<1>1. CASE UNCHANGED vars
  BY <1>1 DEF vars, inject, process, doctor, counts, stopping, written
<1>2. CASE \E m \in Messages : Inject(m)
  BY <1>2 DEF Inject, vars, inject, process, doctor, counts, stopping, written
<1>3. CASE \E m \in Messages : WatcherTakes(m)
  BY <1>3 DEF WatcherTakes, vars, inject, process, doctor, counts, stopping, written
<1>4. CASE \E m \in Messages : JudgeInterrupted(m)
  BY <1>4 DEF JudgeInterrupted, At, vars, inject, process, doctor, counts, stopping, written
<1>5. CASE Routes
  BY <1>5 DEF Routes, GivesUp, DropsQueue, At, vars, inject, process, doctor, counts, stopping, written
<1>6. CASE Prompts
  BY <1>6 DEF Prompts, At, vars, inject, process, doctor, counts, stopping, written
<1>7. CASE Launches
  BY <1>7 DEF Launches, GivesUp, DropsQueue, At, vars, inject, process, doctor, counts, stopping, written
<1>8. CASE CompletionWins
  BY <1>8 DEF CompletionWins, At, vars, inject, process, doctor, counts, stopping, written
<1>9. CASE HangSettles
  BY <1>9 DEF HangSettles, At, vars, inject, process, doctor, counts, stopping, written
<1>10. CASE Recovers
  BY <1>10 DEF Recovers, CallEnds, TakesQueue, vars, inject, process, doctor, counts, stopping, written
<1>11. CASE Relaunches
  BY <1>11 DEF Relaunches, CallEnds, vars, inject, process, doctor, counts, stopping, written
<1>12. CASE Returns
  BY <1>12 DEF Returns, CallEnds, TakesQueue, Returned, vars, inject, process, doctor, counts,
    stopping, written
<1>13. CASE Drafted
  BY <1>13 DEF Drafted, Exhausted, Finishes, TakesQueue, At, vars, inject, process, doctor, counts,
    stopping, written
<1>14. CASE JudgeContinues
  BY <1>14 DEF JudgeContinues, At, vars, inject, process, doctor, counts, stopping, written
<1>15. CASE JudgeDecides
  BY <1>15 DEF JudgeDecides, Finishes, TakesQueue, At, vars, inject, process, doctor, counts,
    stopping, written
<1>16. CASE TurnReturns
  BY <1>16 DEF TurnReturns, At, vars, inject, process, doctor, counts, stopping, written
<1>17. CASE WorkerEnds
  BY <1>17 DEF WorkerEnds, TakesQueue, Ends, vars, inject, process, doctor, counts, stopping, written
<1>18. CASE TornDown
  BY <1>18 DEF TornDown, vars, inject, process, doctor, counts, stopping, written
<1>19. CASE WorkerProgresses
  BY <1>19 DEF WorkerProgresses, vars, inject, process, doctor, counts, stopping, written
<1>20. CASE Dismissed
  BY <1>20 DEF Dismissed, At, vars, inject, process, doctor, counts, stopping, written
<1>21. CASE Abandoned
  BY <1>21 DEF Abandoned, At, TakesQueue, vars, inject, process, doctor, counts, stopping, written
<1>22. CASE ReviewBegins
  BY <1>22 DEF ReviewBegins, At, vars, inject, process, doctor, counts, stopping, written
<1>23. CASE ReviewSpares
  BY <1>23 DEF ReviewSpares, At, vars, inject, process, doctor, counts, stopping, written
<1>24. CASE ReviewConfirms
  BY <1>24 DEF ReviewConfirms, StillHung, At, vars, inject, process, doctor, counts, stopping, written
<1>25. CASE Stop
  BY <1>25 DEF Stop, vars, inject, process, doctor, counts, stopping, written
<1>26. CASE StopLands
  BY <1>26 DEF StopLands, Cancelled, DropsQueue, LogsInterruption, vars, inject, process, doctor,
    counts, stopping, written
<1>27. CASE LogWritten
  BY <1>27 DEF LogWritten, vars, inject, process, doctor, counts, stopping, written
<1>28. CASE NoteWritten
  BY <1>28 DEF NoteWritten, vars, inject, process, doctor, counts, stopping, written
<1>29. CASE NextTurn
  BY <1>29 DEF NextTurn, WritesSettled, vars, inject, process, doctor, counts, stopping, written
<1>30. QED
  BY <1>1, <1>2, <1>3, <1>4, <1>5, <1>6, <1>7, <1>8, <1>9, <1>10, <1>11, <1>12, <1>13, <1>14, <1>15,
    <1>16, <1>17, <1>18, <1>19, <1>20, <1>21, <1>22, <1>23, <1>24, <1>25, <1>26, <1>27, <1>28, <1>29
  DEF Next, TurnStep, WorkerStep, Teardown, Writes

\* Every step keeps account of what the session file was given.
LEMMA LogStep ==
  ASSUME TurnAssumption, TurnInv, [Next]_vars
  PROVE  LogInv'
<1> USE TurnAssumption DEF TurnAssumption, TurnInv, TypeOK, LogInv, WritesSettled
<1>1. CASE UNCHANGED vars
  BY <1>1 DEF vars, inject, process, doctor, counts, stopping, written
<1>2. CASE \E m \in Messages : Inject(m)
  BY <1>2 DEF Inject, vars, inject, process, doctor, counts, stopping, written
<1>3. CASE \E m \in Messages : WatcherTakes(m)
  BY <1>3 DEF WatcherTakes, vars, inject, process, doctor, counts, stopping, written
<1>4. CASE \E m \in Messages : JudgeInterrupted(m)
  BY <1>4 DEF JudgeInterrupted, At, vars, inject, process, doctor, counts, stopping, written
<1>5. CASE Routes
  BY <1>5 DEF Routes, GivesUp, DropsQueue, At, vars, inject, process, doctor, counts, stopping, written
<1>6. CASE Prompts
  BY <1>6 DEF Prompts, At, Taken, vars, inject, process, doctor, counts, stopping, written
<1>7. CASE Launches
  BY <1>7 DEF Launches, GivesUp, DropsQueue, At, vars, inject, process, doctor, counts, stopping, written
<1>8. CASE CompletionWins
  BY <1>8 DEF CompletionWins, At, vars, inject, process, doctor, counts, stopping, written
<1>9. CASE HangSettles
  BY <1>9 DEF HangSettles, At, vars, inject, process, doctor, counts, stopping, written
<1>10. CASE Recovers
  BY <1>10 DEF Recovers, CallEnds, TakesQueue, Queued, Taken, vars, inject, process, doctor, counts,
    stopping, written
<1>11. CASE Relaunches
  BY <1>11 DEF Relaunches, CallEnds, vars, inject, process, doctor, counts, stopping, written
<1>12. CASE Returns
  BY <1>12 DEF Returns, CallEnds, TakesQueue, Returned, Queued, vars, inject, process, doctor,
    counts, stopping, written
<1>13. CASE Drafted
  BY <1>13 DEF Drafted, Exhausted, Finishes, TakesQueue, Taken, Queued, At, vars, inject, process,
    doctor, counts, stopping, written
<1>14. CASE JudgeContinues
  BY <1>14 DEF JudgeContinues, At, Queued, vars, inject, process, doctor, counts, stopping, written
<1>15. CASE JudgeDecides
  BY <1>15 DEF JudgeDecides, Finishes, TakesQueue, Queued, At, vars, inject, process, doctor,
    counts, stopping, written
<1>16. CASE TurnReturns
  BY <1>16 DEF TurnReturns, At, vars, inject, process, doctor, counts, stopping, written
<1>17. CASE WorkerEnds
  BY <1>17 DEF WorkerEnds, TakesQueue, Ends, Queued, vars, inject, process, doctor, counts, stopping, written
<1>18. CASE TornDown
  BY <1>18 DEF TornDown, vars, inject, process, doctor, counts, stopping, written
<1>19. CASE WorkerProgresses
  BY <1>19 DEF WorkerProgresses, vars, inject, process, doctor, counts, stopping, written
<1>20. CASE Dismissed
  BY <1>20 DEF Dismissed, At, vars, inject, process, doctor, counts, stopping, written
<1>21. CASE Abandoned
  BY <1>21 DEF Abandoned, At, TakesQueue, vars, inject, process, doctor, counts, stopping, written
<1>22. CASE ReviewBegins
  BY <1>22 DEF ReviewBegins, At, vars, inject, process, doctor, counts, stopping, written
<1>23. CASE ReviewSpares
  BY <1>23 DEF ReviewSpares, At, vars, inject, process, doctor, counts, stopping, written
<1>24. CASE ReviewConfirms
  BY <1>24 DEF ReviewConfirms, StillHung, At, vars, inject, process, doctor, counts, stopping, written
<1>25. CASE Stop
  BY <1>25 DEF Stop, vars, inject, process, doctor, counts, stopping, written
<1>26. CASE StopLands
  BY <1>26 DEF StopLands, Cancelled, DropsQueue, LogsInterruption, vars, inject, process, doctor,
    counts, stopping, written
<1>27. CASE LogWritten
  BY <1>27 DEF LogWritten, vars, inject, process, doctor, counts, stopping, written
<1>28. CASE NoteWritten
  BY <1>28 DEF NoteWritten, vars, inject, process, doctor, counts, stopping, written
<1>29. CASE NextTurn
  BY <1>29 DEF NextTurn, vars, inject, process, doctor, counts, stopping, written
<1>30. QED
  BY <1>1, <1>2, <1>3, <1>4, <1>5, <1>6, <1>7, <1>8, <1>9, <1>10, <1>11, <1>12, <1>13, <1>14, <1>15,
    <1>16, <1>17, <1>18, <1>19, <1>20, <1>21, <1>22, <1>23, <1>24, <1>25, <1>26, <1>27, <1>28, <1>29
  DEF Next, TurnStep, WorkerStep, Teardown, Writes

\* Every step answers what was injected.
LEMMA AnswerStep ==
  ASSUME TurnAssumption, TurnInv, [Next]_vars
  PROVE  InjectionsAnswered'
<1> USE TurnAssumption DEF TurnAssumption, TurnInv, TypeOK, CallInv, InjectInv, InjectionsAnswered, Untold, Taken, Queued
<1>1. CASE UNCHANGED vars
  BY <1>1 DEF vars, inject, process, doctor, counts, stopping, written
<1>2. CASE \E m \in Messages : Inject(m)
  BY <1>2 DEF Inject, vars, inject, process, doctor, counts, stopping, written
<1>3. CASE \E m \in Messages : WatcherTakes(m)
  BY <1>3 DEF WatcherTakes, vars, inject, process, doctor, counts, stopping, written
<1>4. CASE \E m \in Messages : JudgeInterrupted(m)
  BY <1>4 DEF JudgeInterrupted, At, vars, inject, process, doctor, counts, stopping, written
<1>5. CASE Routes
  BY <1>5 DEF Routes, GivesUp, DropsQueue, At, vars, inject, process, doctor, counts, stopping, written
<1>6. CASE Prompts
  BY <1>6 DEF Prompts, At, vars, inject, process, doctor, counts, stopping, written
<1>7. CASE Launches
  BY <1>7 DEF Launches, GivesUp, DropsQueue, At, vars, inject, process, doctor, counts, stopping, written
<1>8. CASE CompletionWins
  BY <1>8 DEF CompletionWins, At, vars, inject, process, doctor, counts, stopping, written
<1>9. CASE HangSettles
  BY <1>9 DEF HangSettles, At, vars, inject, process, doctor, counts, stopping, written
<1>10. CASE Recovers
  BY <1>10 DEF Recovers, CallEnds, TakesQueue, vars, inject, process, doctor, counts, stopping, written
<1>11. CASE Relaunches
  BY <1>11 DEF Relaunches, CallEnds, vars, inject, process, doctor, counts, stopping, written
<1>12. CASE Returns
  BY <1>12 DEF Returns, CallEnds, TakesQueue, Returned, vars, inject, process, doctor, counts,
    stopping, written
<1>13. CASE Drafted
  BY <1>13 DEF Drafted, Exhausted, Finishes, TakesQueue, At, vars, inject, process, doctor, counts,
    stopping, written
<1>14. CASE JudgeContinues
  BY <1>14 DEF JudgeContinues, At, vars, inject, process, doctor, counts, stopping, written
<1>15. CASE JudgeDecides
  BY <1>15 DEF JudgeDecides, Finishes, TakesQueue, At, vars, inject, process, doctor, counts,
    stopping, written
<1>16. CASE TurnReturns
  BY <1>16 DEF TurnReturns, At, vars, inject, process, doctor, counts, stopping, written
<1>17. CASE WorkerEnds
  BY <1>17 DEF WorkerEnds, TakesQueue, Ends, vars, inject, process, doctor, counts, stopping, written
<1>18. CASE TornDown
  BY <1>18 DEF TornDown, vars, inject, process, doctor, counts, stopping, written
<1>19. CASE WorkerProgresses
  BY <1>19 DEF WorkerProgresses, vars, inject, process, doctor, counts, stopping, written
<1>20. CASE Dismissed
  BY <1>20 DEF Dismissed, At, vars, inject, process, doctor, counts, stopping, written
<1>21. CASE Abandoned
  BY <1>21 DEF Abandoned, At, TakesQueue, vars, inject, process, doctor, counts, stopping, written
<1>22. CASE ReviewBegins
  BY <1>22 DEF ReviewBegins, At, vars, inject, process, doctor, counts, stopping, written
<1>23. CASE ReviewSpares
  BY <1>23 DEF ReviewSpares, At, vars, inject, process, doctor, counts, stopping, written
<1>24. CASE ReviewConfirms
  BY <1>24 DEF ReviewConfirms, StillHung, At, vars, inject, process, doctor, counts, stopping, written
<1>25. CASE Stop
  BY <1>25 DEF Stop, vars, inject, process, doctor, counts, stopping, written
<1>26. CASE StopLands
  BY <1>26 DEF StopLands, Cancelled, DropsQueue, LogsInterruption, vars, inject, process, doctor,
    counts, stopping, written
<1>27. CASE LogWritten
  BY <1>27 DEF LogWritten, vars, inject, process, doctor, counts, stopping, written
<1>28. CASE NoteWritten
  BY <1>28 DEF NoteWritten, vars, inject, process, doctor, counts, stopping, written
<1>29. CASE NextTurn
  BY <1>29 DEF NextTurn, WritesSettled, vars, inject, process, doctor, counts, stopping, written
<1>30. QED
  BY <1>1, <1>2, <1>3, <1>4, <1>5, <1>6, <1>7, <1>8, <1>9, <1>10, <1>11, <1>12, <1>13, <1>14, <1>15,
    <1>16, <1>17, <1>18, <1>19, <1>20, <1>21, <1>22, <1>23, <1>24, <1>25, <1>26, <1>27, <1>28, <1>29
  DEF Next, TurnStep, WorkerStep, Teardown, Writes

\* A turn that starts satisfies it.
LEMMA InitInv ==
  ASSUME TurnAssumption, Init
  PROVE  TurnInv
<1> USE TurnAssumption DEF TurnAssumption, Init
<1>1. TypeOK
  <2>1. session \in BOOLEAN /\ window \in BOOLEAN /\ restarting \in BOOLEAN /\ tools \in BOOLEAN
         /\ relaunched \in BOOLEAN /\ fresh \in BOOLEAN /\ next \in BOOLEAN
    BY Zenon
  <2>2. QED
    BY <2>1 DEF TypeOK, Steps, Outcomes, Drafts
<1>2. CallInv /\ LogInv
  BY DEF CallInv, LogInv, WritesSettled
<1>3. InjectInv /\ InjectionsAnswered
  BY DEF InjectInv, InjectionsAnswered, Untold, Taken, Queued
<1>4. QED
  BY <1>1, <1>2, <1>3 DEF TurnInv

\* And so does every step that comes after.
LEMMA TurnStepInv ==
  ASSUME TurnAssumption, TurnInv, [Next]_vars
  PROVE  TurnInv'
BY TypeStep, CallStep, InjectStep, LogStep, AnswerStep DEF TurnInv

\* A worker is waited for by the call that owns it until it has settled, every
\* message the user injected is accounted for, and so is every write to the
\* session: the turn of agent.py keeps its invariant at every await.
THEOREM TurnCorrect == Spec => []TurnInv
<1>1. Init => TurnInv
  BY InitInv, TurnAssumption
<1>2. TurnInv /\ [Next]_vars => TurnInv'
  BY TurnStepInv, TurnAssumption
<1>3. QED
  BY <1>1, <1>2, PTL DEF Spec

\* A turn that answers, checkpoints or gives up answers with every message
\* /inject acknowledged, apart from those a recovery overtook: taken by an
\* attempt that was replaced without them, with no restart of the loop since.
THEOREM InjectionsHeard == Spec => []InjectionsAnswered
<1>1. TurnInv => InjectionsAnswered
  BY DEF TurnInv
<1>2. QED
  BY <1>1, TurnCorrect, PTL

\* However a turn ends, and wherever /stop lands, its session has at most one
\* entry of it, and exactly one when the next turn reads it unless a write failed.
THEOREM LoggedOnceHolds == Spec => []LoggedOnce
<1>1. ASSUME TurnInv PROVE LoggedOnce
  <2> USE <1>1 DEF TurnInv, TypeOK, LogInv, WritesSettled
  <2>1. entries <= 1
    BY DEF LoggedOnce
  <2>2. ASSUME next, session, draft # "unavailable", log # "failed", note # "failed"
        PROVE  entries = 1
    <3>1. log \in {"none", "kept"} /\ note \in {"none", "kept"}
      BY <2>2
    <3>2. log = "kept" \/ note = "kept"
      BY <2>2, <3>1
    <3>3. QED
      BY <3>2
  <2>3. QED
    BY <2>1, <2>2 DEF LoggedOnce
<1>2. QED
  BY <1>1, TurnCorrect, PTL

\* Once the next turn of the workspace has read the session, nothing of this one
\* reaches it any more: no write of it is still under way.
THEOREM SessionSettles == Spec => [][next => UNCHANGED <<session, written>>]_vars
<1>1. ASSUME TurnInv, [Next]_vars, next
      PROVE  UNCHANGED <<session, written>>
  <2> USE <1>1 DEF TurnInv, LogInv, WritesSettled, At
  <2>1. at = "done" /\ worker \notin {"running", "killed", "cancelled"}
    BY DEF TypeOK
  <2>2. CASE UNCHANGED vars
    BY <2>2 DEF vars, written
  <2>3. CASE Next
    <3>1. ~TurnStep /\ ~Teardown /\ ~Writes /\ ~NextTurn /\ ~Stop
      BY <2>1 DEF TurnStep, Teardown, Writes, Routes, Prompts, Launches, CompletionWins,
         HangSettles, Recovers, Relaunches, Returns, Drafted, JudgeContinues, JudgeDecides,
         TurnReturns, Dismissed, Abandoned, LogWritten, NoteWritten, NextTurn, Stop
    <3>2. ~WorkerStep /\ ~WorkerProgresses /\ ~ReviewBegins /\ ~ReviewSpares /\ ~ReviewConfirms
      BY <2>1 DEF WorkerStep, WorkerEnds, TornDown, WorkerProgresses, ReviewBegins,
         ReviewSpares, ReviewConfirms
    <3>3. ~StopLands /\ \A m \in Messages : ~Inject(m) /\ ~WatcherTakes(m) /\ ~JudgeInterrupted(m)
      BY <2>1 DEF StopLands, Inject, WatcherTakes, JudgeInterrupted
    <3>4. QED
      BY <2>3, <3>1, <3>2, <3>3 DEF Next
  <2>4. QED
    BY <1>1, <2>2, <2>3
<1>2. QED
  BY <1>1, TurnCorrect, PTL DEF Spec
-----------------------------------------------------------------------------
(* The memory of a workspace.  What a session's record covers.              *)

Entries == [n : Nat, parts : SUBSET Whole]

\* What a record of a session is made of.
LEMMA FileParts ==
  ASSUME NEW f \in File
  PROVE  /\ f.raw \in Seq(Entries) /\ f.sum \in SUBSET (Nat \X Whole) /\ f.long \in SUBSET Facts
         /\ f.name \in {"default", "named"} /\ f.count \in Nat
         /\ DOMAIN f.raw = 1..Len(f.raw) /\ Len(f.raw) \in Nat
         /\ \A i \in DOMAIN f.raw : f.raw[i] \in Entries
<1>1. f.raw \in Seq(Entries)
  BY DEF File, Entries
<1>2. /\ DOMAIN f.raw = 1..Len(f.raw) /\ Len(f.raw) \in Nat
      /\ \A i \in DOMAIN f.raw : f.raw[i] \in Entries
  BY <1>1, LenProperties, ElementOfSeq
<1>3. QED
  BY <1>1, <1>2 DEF File

\* What a message of a history says is in its pieces.
LEMMA PieceOf ==
  ASSUME NEW raw, NEW i \in DOMAIN raw, NEW p \in raw[i].parts
  PROVE  <<raw[i].n, p>> \in Pieces(raw)
BY DEF Pieces

\* A piece is of a message.
LEMMA PieceFrom ==
  ASSUME NEW raw, NEW x \in Pieces(raw)
  PROVE  \E i, p : i \in DOMAIN raw /\ p \in raw[i].parts /\ x = <<raw[i].n, p>>
<1>1. PICK i \in DOMAIN raw : x \in {raw[i].n} \X raw[i].parts
  BY DEF Pieces
<1>2. QED
  BY <1>1

\* A new session has nothing, and covers nothing.
LEMMA FreshCovers ==
  ASSUME MemoryAssumption, NEW name \in {"default", "named"}
  PROVE  Fresh(name) \in File /\ Fresh(name) # None /\ Covers(Fresh(name), 0)
<1>1. Fresh(name) \in File
  BY EmptySeq DEF Fresh, File
<1>2. Cardinality({}) <= LongCap
  BY FS_EmptySet DEF MemoryAssumption
<1>3. (1..0) \X Whole = {}
  OBVIOUS
<1>4. /\ Fresh(name).raw = <<>> /\ Fresh(name).sum = {} /\ Fresh(name).long = {}
      /\ Fresh(name).count = 0 /\ Len(<<>>) = 0
  BY EmptySeq DEF Fresh
<1>5. Covers(Fresh(name), 0)
  BY <1>2, <1>3, <1>4 DEF Covers
<1>6. QED
  BY <1>1, <1>5 DEF MemoryAssumption

\* New messages at the end are covered as well.
LEMMA AppendedCovers ==
  ASSUME NEW s, files[s] \in File, said[s] \in Nat, Covers(files[s], said[s]), NEW k \in {1, 2}
  PROVE  /\ Appended(s, k) \in File /\ Appended(s, k).long = files[s].long
         /\ Covers(Appended(s, k), said[s] + k)
<1> DEFINE f == files[s]
           n == said[s]
           g == Appended(s, k)
           new == [i \in 1..k |-> Message(n + i)]
<1>0. k \in Nat
  OBVIOUS
<1>1. /\ f.raw \in Seq(Entries) /\ DOMAIN f.raw = 1..Len(f.raw) /\ Len(f.raw) \in Nat
      /\ f.count \in Nat
  BY FileParts
<1>2. \A i \in 1..k : new[i] \in Entries /\ new[i] = [n |-> n + i, parts |-> Whole]
  BY DEF Message, Entries, Whole
<1>3. new \in Seq(Entries) /\ Len(new) = k
  <2>0. k \in Nat /\ \A i \in 1..k : Message(n + i) \in Entries
    BY DEF Message, Entries, Whole
  <2>1. new \in [1..k -> Entries] /\ k \in Nat
    BY <2>0
  <2>2. QED
    BY <2>1
<1>2a. \A i \in 1..k : new[i] = [n |-> n + i, parts |-> Whole]
  BY <1>2
<1>4. /\ g.raw = f.raw \o new /\ g.sum = f.sum /\ g.long = f.long /\ g.count = f.count
      /\ g.name = f.name /\ g = [f EXCEPT !.raw = f.raw \o new]
  BY DEF File, Appended
<1>4a. f \in File /\ n \in Nat /\ Covers(f, n)
  OBVIOUS
<1> HIDE DEF new, f, n, g
<1>5. /\ g.raw \in Seq(Entries) /\ Len(g.raw) = Len(f.raw) + k
      /\ \A i \in 1..Len(f.raw) : g.raw[i] = f.raw[i]
      /\ \A i \in 1..k : g.raw[Len(f.raw) + i] = new[i]
  <2>1. /\ g.raw \in Seq(Entries) /\ Len(g.raw) = Len(f.raw) + k
        /\ \A i \in 1..Len(f.raw) + k :
             g.raw[i] = IF i <= Len(f.raw) THEN f.raw[i] ELSE new[i - Len(f.raw)]
    <3>1. /\ f.raw \o new \in Seq(Entries) /\ Len(f.raw \o new) = Len(f.raw) + Len(new)
          /\ \A i \in 1..Len(f.raw) + Len(new) :
               (f.raw \o new)[i] = IF i <= Len(f.raw) THEN f.raw[i] ELSE new[i - Len(f.raw)]
      BY <1>1, <1>3, ConcatProperties
    <3>2. g.raw = f.raw \o new /\ Len(new) = k
      BY <1>3, <1>4
    <3>3. QED
      BY <3>1, <3>2
  <2>2. ASSUME NEW i \in 1..k PROVE g.raw[Len(f.raw) + i] = new[i]
    <3> DEFINE j == Len(f.raw) + i
    <3>1. j \in 1..Len(f.raw) + k /\ ~(j <= Len(f.raw)) /\ j - Len(f.raw) = i
      BY <1>0, <1>1
    <3> HIDE DEF j
    <3>2. g.raw[j] = new[j - Len(f.raw)]
      BY <2>1, <3>1
    <3>3. QED
      BY <3>1, <3>2 DEF j
  <2>3. ASSUME NEW i \in 1..Len(f.raw) PROVE g.raw[i] = f.raw[i]
    <3>1. i \in 1..Len(f.raw) + k /\ i <= Len(f.raw)
      BY <1>0, <1>1
    <3>2. QED
      BY <2>1, <3>1
  <2>4. QED
    BY <2>1, <2>2, <2>3
<1>6. g \in File
  <2>1. \A a \in Seq(Entries) : [f EXCEPT !.raw = a] \in File
    BY <1>4a DEF File, Entries
  <2>2. QED
    BY <1>4, <1>5, <2>1
<1>7. DOMAIN g.raw = 1..Len(f.raw) + k
  BY <1>5, <1>6, FileParts
<1>8. Pieces(f.raw) \subseteq Pieces(g.raw)
  <2> SUFFICES ASSUME NEW x \in Pieces(f.raw) PROVE x \in Pieces(g.raw)
    OBVIOUS
  <2>1. PICK i, p : i \in DOMAIN f.raw /\ p \in f.raw[i].parts /\ x = <<f.raw[i].n, p>>
    BY PieceFrom
  <2>2. i \in DOMAIN g.raw /\ g.raw[i] = f.raw[i]
    BY <1>1, <1>5, <1>7, <2>1
  <2>3. QED
    BY <2>1, <2>2, PieceOf
<1>9. \A i \in 1..k, p \in Whole : <<n + i, p>> \in Pieces(g.raw)
  <2> TAKE i \in 1..k, p \in Whole
  <2>0. Len(f.raw) + i \in DOMAIN g.raw
    BY <1>0, <1>1, <1>7
  <2>1. /\ Len(f.raw) + i \in DOMAIN g.raw
        /\ g.raw[Len(f.raw) + i] = [n |-> n + i, parts |-> Whole]
    BY <1>5, <2>0, <1>2a
  <2>2. p \in g.raw[Len(f.raw) + i].parts /\ g.raw[Len(f.raw) + i].n = n + i
    BY <2>1
  <2>3. QED
    BY <2>1, <2>2, PieceOf
<1>10. (1..n + k) \X Whole \subseteq g.sum \cup Pieces(g.raw)
  <2> SUFFICES ASSUME NEW m \in 1..n + k, NEW p \in Whole
               PROVE  <<m, p>> \in g.sum \cup Pieces(g.raw)
    OBVIOUS
  <2>1. CASE m \in 1..n
    BY <2>1, <1>4, <1>4a, <1>8 DEF Covers
  <2>2. CASE m \notin 1..n
    <3>1. m - n \in 1..k /\ n + (m - n) = m
      BY <1>4a, <2>2
    <3>2. QED
      BY <3>1, <1>9
  <2>3. QED
    BY <2>1, <2>2
<1>11. QED
  <2>1. Covers(g, n + k)
    BY SMTT(30), <1>0, <1>1, <1>4, <1>4a, <1>5, <1>10 DEF Covers
  <2>2. QED
    BY <1>4, <1>6, <2>1 DEF f, n, g

\* What is before and behind a cut of a sequence.
LEMMA Cuts ==
  ASSUME NEW S, NEW s \in Seq(S), NEW k \in 0..Len(s)
  PROVE  /\ SubSeq(s, 1, k) \in Seq(S) /\ Len(SubSeq(s, 1, k)) = k
         /\ \A i \in 1..k : SubSeq(s, 1, k)[i] = s[i]
         /\ SubSeq(s, k + 1, Len(s)) \in Seq(S) /\ Len(SubSeq(s, k + 1, Len(s))) = Len(s) - k
         /\ \A i \in 1..Len(s) - k : SubSeq(s, k + 1, Len(s))[i] = s[k + i]
<1>1. Len(s) \in Nat /\ k \in Nat /\ k <= Len(s)
  BY LenProperties
<1>2. SubSeq(s, 1, k) \in Seq(S) /\ Len(SubSeq(s, 1, k)) = k
  BY <1>1
<1>3. \A i \in 1..k : SubSeq(s, 1, k)[i] = s[i]
  BY <1>1
<1>4. SubSeq(s, k + 1, Len(s)) \in Seq(S) /\ Len(SubSeq(s, k + 1, Len(s))) = Len(s) - k
  BY <1>1
<1>5. \A i \in 1..Len(s) - k : SubSeq(s, k + 1, Len(s))[i] = s[k + i]
  BY <1>1
<1>6. QED
  BY <1>2, <1>3, <1>4, <1>5

\* A summary of the first messages covers what it replaces.
LEMMA CompactedCovers ==
  ASSUME MemoryAssumption, NEW f \in File, NEW n \in Nat, Covers(f, n), NEW k \in DOMAIN f.raw
  PROVE  LET g == Compacted(f, k)
         IN  /\ g \in File /\ g.long = f.long /\ g.name = f.name /\ Covers(g, n)
<1> DEFINE g == Compacted(f, k)
           t == Trimmed(k)
<1>1. /\ f.raw \in Seq(Entries) /\ DOMAIN f.raw = 1..Len(f.raw) /\ Len(f.raw) \in Nat
      /\ f.count \in Nat /\ f.sum \in SUBSET (Nat \X Whole)
      /\ \A i \in DOMAIN f.raw : f.raw[i] \in Entries
  BY FileParts
<1>2. k \in Nat /\ t \in 1..k /\ k <= Len(f.raw)
  BY <1>1 DEF MemoryAssumption, Trimmed
<1>3. /\ g.raw = SubSeq(f.raw, t + 1, Len(f.raw)) /\ g.sum = f.sum \cup Pieces(SubSeq(f.raw, 1, k))
      /\ g.long = f.long /\ g.name = f.name /\ g.count = f.count + t
  BY DEF File, Compacted
<1>4. /\ SubSeq(f.raw, 1, k) \in Seq(Entries) /\ Len(SubSeq(f.raw, 1, k)) = k
      /\ \A i \in 1..k : SubSeq(f.raw, 1, k)[i] = f.raw[i]
  BY SMTT(30), <1>1, <1>2, Cuts
<1>5. /\ g.raw \in Seq(Entries) /\ Len(g.raw) = Len(f.raw) - t
      /\ \A i \in 1..Len(f.raw) - t : g.raw[i] = f.raw[t + i]
  <2> HIDE DEF t, g
  <2>1. t \in 0..Len(f.raw)
    BY <1>1, <1>2
  <2>2. QED
    BY SMTT(30), <1>1, <1>3, <2>1, Cuts
<1>6. Pieces(SubSeq(f.raw, 1, k)) \subseteq Nat \X Whole
  <2> SUFFICES ASSUME NEW x \in Pieces(SubSeq(f.raw, 1, k)) PROVE x \in Nat \X Whole
    OBVIOUS
  <2>1. DOMAIN SubSeq(f.raw, 1, k) = 1..k
    BY <1>4, LenProperties
  <2>2. PICK i, p : i \in 1..k /\ p \in SubSeq(f.raw, 1, k)[i].parts /\ x = <<SubSeq(f.raw, 1, k)[i].n, p>>
    <3> DEFINE cut == SubSeq(f.raw, 1, k)
    <3>1. x \in Pieces(cut) /\ DOMAIN cut = 1..k
      BY <2>1
    <3> HIDE DEF cut
    <3>2. \E i, p : i \in DOMAIN cut /\ p \in cut[i].parts /\ x = <<cut[i].n, p>>
      BY <3>1, PieceFrom
    <3>3. \E i, p : i \in 1..k /\ p \in cut[i].parts /\ x = <<cut[i].n, p>>
      BY <3>1, <3>2
    <3>4. QED
      BY <3>3 DEF cut
  <2>3. SubSeq(f.raw, 1, k)[i] \in Entries
    <3>1. i \in 1..k /\ i \in DOMAIN f.raw
      BY <1>1, <1>2, <2>2
    <3>2. QED
      BY <1>1, <1>4, <3>1
  <2>4. QED
    BY <2>2, <2>3 DEF Entries
<1>7. g \in File
  <2> HIDE DEF t
  <2>1. g.count \in Nat /\ g.sum \in SUBSET (Nat \X Whole)
    BY SMTT(30), <1>1, <1>2, <1>3, <1>6
  <2>2. \A a \in Seq(Entries), b \in SUBSET (Nat \X Whole), c \in Nat :
           [f EXCEPT !.raw = a, !.count = c, !.sum = b] \in File
    BY DEF File, Entries
  <2>3. g = [f EXCEPT !.raw = g.raw, !.count = g.count, !.sum = g.sum]
    BY <1>3 DEF Compacted
  <2>4. QED
    <3> HIDE DEF g
    <3>1. [f EXCEPT !.raw = g.raw, !.count = g.count, !.sum = g.sum] \in File
      BY <1>5, <2>1, <2>2
    <3>2. QED
      BY <2>3, <3>1
<1>8. Pieces(f.raw) \subseteq g.sum \cup Pieces(g.raw)
  <2> HIDE DEF t, g
  <2> SUFFICES ASSUME NEW x \in Pieces(f.raw) PROVE x \in g.sum \cup Pieces(g.raw)
    OBVIOUS
  <2>1. PICK i, p : i \in DOMAIN f.raw /\ p \in f.raw[i].parts /\ x = <<f.raw[i].n, p>>
    BY PieceFrom
  <2>2. CASE i <= k
    <3>0. i \in 1..k /\ DOMAIN SubSeq(f.raw, 1, k) = 1..k
      BY <1>1, <1>2, <1>4, <2>1, <2>2, LenProperties
    <3>1. i \in DOMAIN SubSeq(f.raw, 1, k) /\ SubSeq(f.raw, 1, k)[i] = f.raw[i]
      BY <1>4, <3>0
    <3>2. x \in Pieces(SubSeq(f.raw, 1, k))
      BY <2>1, <3>1, PieceOf
    <3>3. QED
      BY <3>2, <1>3
  <2>3. CASE i > k
    <3>0. PICK n0 \in Nat : n0 = Len(f.raw)
      BY <1>1
    <3>1. i - t \in 1..Len(f.raw) - t /\ t + (i - t) = i
      <4>1. i \in 1..n0 /\ t \in 1..k /\ k \in Nat
        BY <1>1, <1>2, <2>1, <3>0
      <4>2. i - t \in 1..n0 - t /\ t + (i - t) = i
        BY <2>3, <4>1
      <4>3. QED
        BY <3>0, <4>2
    <3>2. i - t \in DOMAIN g.raw /\ g.raw[i - t] = f.raw[i]
      BY <1>5, <1>7, <3>1, FileParts
    <3>3. QED
      BY <2>1, <3>2, PieceOf
  <2>4. QED
    BY <1>1, <1>2, <2>1, <2>2, <2>3
<1>9. g.count + Len(g.raw) = n
  <2> HIDE DEF t, g
  <2>1. f.count + Len(f.raw) = n
    BY DEF Covers
  <2>2. PICK c \in Nat, l \in Nat : c = f.count /\ l = Len(f.raw)
    BY <1>1
  <2>3. t \in Nat /\ (c + t) + (l - t) = c + l
    BY <1>2
  <2>4. QED
    BY <1>3, <1>5, <2>1, <2>2, <2>3
<1>10. QED
  <2> HIDE DEF t, g
  <2>1. (1..n) \X Whole \subseteq g.sum \cup Pieces(g.raw)
    BY <1>3, <1>8 DEF Covers
  <2>2. Cardinality(g.long) <= LongCap
    BY <1>3 DEF Covers
  <2>3. QED
    BY <1>3, <1>7, <1>9, <2>1, <2>2 DEF Covers, g

\* So does one of the first part of an oversized message.
LEMMA ShortenedCovers ==
  ASSUME NEW f \in File, NEW n \in Nat, Covers(f, n), 1 \in DOMAIN f.raw, f.raw[1].parts = Whole
  PROVE  LET g == Shortened(f)
         IN  /\ g \in File /\ g.long = f.long /\ g.name = f.name /\ Covers(g, n)
<1> DEFINE g == Shortened(f)
<1>1. /\ f.raw \in Seq(Entries) /\ DOMAIN f.raw = 1..Len(f.raw) /\ Len(f.raw) \in Nat
      /\ f.count \in Nat /\ f.sum \in SUBSET (Nat \X Whole)
      /\ \A i \in DOMAIN f.raw : f.raw[i] \in Entries
  BY FileParts
<1>2. /\ g.raw = [f.raw EXCEPT ![1].parts = {2}] /\ g.sum = f.sum \cup {<<f.raw[1].n, 1>>}
      /\ g.long = f.long /\ g.name = f.name /\ g.count = f.count
  BY DEF File, Shortened
<1>3. f.raw[1].n \in Nat /\ [f.raw[1] EXCEPT !.parts = {2}] \in Entries
  BY <1>1 DEF Entries, Whole
<1>4. /\ g.raw \in Seq(Entries) /\ Len(g.raw) = Len(f.raw) /\ DOMAIN g.raw = DOMAIN f.raw
      /\ \A i \in DOMAIN f.raw : i # 1 => g.raw[i] = f.raw[i]
      /\ g.raw[1] = [f.raw[1] EXCEPT !.parts = {2}]
  <2>1. g.raw = [f.raw EXCEPT ![1] = [f.raw[1] EXCEPT !.parts = {2}]]
    BY <1>2
  <2>2. QED
    BY <1>1, <1>3, <2>1, ExceptSeq
<1>5. g.sum \in SUBSET (Nat \X Whole)
  BY <1>1, <1>2, <1>3 DEF Whole
<1>6. g \in File
  <2>1. \A a \in Seq(Entries), b \in SUBSET (Nat \X Whole) : [f EXCEPT !.raw = a, !.sum = b] \in File
    BY ZenonT(60) DEF File, Entries
  <2>2. g = [f EXCEPT !.raw = g.raw, !.sum = g.sum]
    BY <1>2 DEF Shortened
  <2>3. QED
    <3> HIDE DEF g
    <3>1. [f EXCEPT !.raw = g.raw, !.sum = g.sum] \in File
      BY <1>4, <1>5, <2>1
    <3>2. QED
      BY <2>2, <3>1
<1>7. Pieces(f.raw) \subseteq g.sum \cup Pieces(g.raw)
  <2> HIDE DEF g
  <2> SUFFICES ASSUME NEW x \in Pieces(f.raw) PROVE x \in g.sum \cup Pieces(g.raw)
    OBVIOUS
  <2>1. PICK i, p : i \in DOMAIN f.raw /\ p \in f.raw[i].parts /\ x = <<f.raw[i].n, p>>
    BY PieceFrom
  <2>2. CASE i # 1
    BY <1>4, <2>1, <2>2, PieceOf
  <2>3. CASE i = 1 /\ p = 1
    BY <1>2, <2>1, <2>3
  <2>4. CASE i = 1 /\ p # 1
    <3>1. p = 2 /\ x = <<f.raw[1].n, 2>>
      BY <2>1, <2>4 DEF Whole
    <3>2. 1 \in DOMAIN g.raw /\ g.raw[1].n = f.raw[1].n /\ 2 \in g.raw[1].parts
      BY <1>1, <1>4 DEF Entries
    <3>3. QED
      BY <3>1, <3>2, PieceOf
  <2>5. QED
    BY <2>2, <2>3, <2>4
<1>8. QED
  BY <1>2, <1>4, <1>6, <1>7 DEF Covers


\* A new long-term list that fits, and a title, leave what is covered.
LEMMA RewrittenCovers ==
  ASSUME NEW f \in File, NEW n \in Nat, Covers(f, n), NEW L \in SUBSET Facts,
         Cardinality(L) <= LongCap, NEW name \in {"default", "named"}
  PROVE  LET g == [f EXCEPT !.long = L, !.name = name]
         IN  g \in File /\ g.long = L /\ Covers(g, n)
BY DEF File, Covers

\* What a model makes of a list fits, and what is gone from it is dropped.
LEMMA LongAnswersFit ==
  ASSUME NEW long \in SUBSET Facts, Cardinality(long) <= LongCap, NEW a \in LongAnswers(long)
  PROVE  /\ a.long \in SUBSET Facts /\ Cardinality(a.long) <= LongCap
         /\ a.drops \in SUBSET Facts /\ long \ a.long \subseteq a.drops
<1>1. CASE a = [long |-> long, drops |-> {}]
  BY <1>1
<1>2. CASE \E c \in [shown : SUBSET long, said : SUBSET Facts, kept : SUBSET Facts] :
             /\ Fits(c.kept, long \ c.shown)
             /\ a = [long |-> Rewritten(long, c.shown, c.kept), drops |-> c.shown \ c.kept]
  <2>1. PICK c \in [shown : SUBSET long, said : SUBSET Facts, kept : SUBSET Facts] :
             /\ Fits(c.kept, long \ c.shown)
             /\ a = [long |-> Rewritten(long, c.shown, c.kept), drops |-> c.shown \ c.kept]
    BY <1>2
  <2>2. a.long = (long \ c.shown) \cup c.kept /\ a.drops = c.shown \ c.kept
    BY <2>1 DEF Rewritten
  <2>3. a.long = c.kept \cup (long \ c.shown)
    BY <2>2
  <2>4. c.shown \subseteq long /\ c.kept \subseteq Facts
    OBVIOUS
  <2>5. QED
    BY <2>1, <2>2, <2>3, <2>4 DEF Fits
<1>3. QED
  BY <1>1, <1>2 DEF LongAnswers

\* The list of a session that is there is among the facts, and fits.
LEMMA LongFits ==
  ASSUME SessionInv, NEW s \in Existing
  PROVE  /\ s \in Sessions /\ files[s] \in File /\ files[s].long \in SUBSET Facts
         /\ Cardinality(files[s].long) <= LongCap /\ Covers(files[s], said[s]) /\ said[s] \in Nat
<1>1. s \in Sessions /\ files[s] \in File /\ Covers(files[s], said[s]) /\ said[s] \in Nat
  BY DEF SessionInv, MemoryTypeOK, HistoryKept, Existing
<1>2. QED
  BY <1>1, FileParts DEF Covers

LEMMA MemoryFacts ==
  ASSUME SessionInv
  PROVE  Memory \in SUBSET Facts
BY LongFits DEF Memory, SessionInv, MemoryTypeOK

-----------------------------------------------------------------------------
(* How a step moves the files, and the writer.                              *)

FilesStay == files' = files /\ said' = said
PassOn ==
  \/ pass' = pass /\ colony' = colony
  \/ /\ pass.at # "write" /\ pass'.at # "write" /\ pass'.mem \in {pass.mem, <<>>, Memories}
     /\ colony' = colony \/ (colony' = {} /\ Existing = {})
Idles == FilesStay /\ held' = held /\ PassOn
Closed == FilesStay /\ held' = None /\ pass' = NoPass /\ colony' = colony
Opened(s) ==
  /\ s \in Sessions \ Existing /\ ~Begun(s)
  /\ s \in Jobs => held = None /\ jobs' = [jobs EXCEPT ![s] = "ready"]
  /\ \E name \in {"default", "named"} : files' = [files EXCEPT ![s] = Fresh(name)]
  /\ said' = said /\ held' = held /\ pass' = pass /\ colony' = colony
Stored ==
  /\ held # None /\ held.by # "colony" /\ held' = None
  /\ files' = [files EXCEPT ![held.s] = held.data] /\ PassOn
  /\ said' = [said EXCEPT ![held.s] = @ + Own(held.by)]
Gone(z) ==
  /\ z \in Jobs /\ files' = [files EXCEPT ![z] = None] /\ jobs' = [jobs EXCEPT ![z] = "gone"]
  /\ said' = said /\ held' = held /\ pass' = pass /\ colony' = colony
  /\ wish' = IF wish = z THEN None ELSE wish
ReadFor ==
  /\ held = None /\ held' \in Holding /\ held'.by # "colony" /\ held'.s \in Existing
  /\ Covers(held'.data, said[held'.s] + Own(held'.by))
  /\ files[held'.s].long \ held'.data.long \subseteq held'.drops
  /\ held'.by = "log" => held'.s = pending
  /\ pending' = pending /\ pass' = pass /\ colony' = colony

\* What a writer reads, with its own change, is covered.
LEMMA ReadsLog ==
  ASSUME SessionInv, NEW s \in Existing, NEW k \in {1, 2}, NEW by \in {"log", "note"},
         k = Own(by), Reads(by, s, Appended(s, k), {}), by = "log" => s = pending,
         pending' = pending, pass' = pass, colony' = colony
  PROVE  ReadFor
<1>1. /\ s \in Sessions /\ files[s] \in File /\ Covers(files[s], said[s]) /\ said[s] \in Nat
  BY LongFits
<1>2. /\ Appended(s, k) \in File /\ Appended(s, k).long = files[s].long
      /\ Covers(Appended(s, k), said[s] + k)
  BY <1>1, AppendedCovers
<1>3. held = None /\ held' = [by |-> by, s |-> s, data |-> Appended(s, k), drops |-> {}]
  BY DEF Reads
<1>4. held' \in Holding
  BY <1>1, <1>2, <1>3 DEF Holding
<1>5. QED
  BY <1>2, <1>3, <1>4 DEF ReadFor

LEMMA ReadsCompact ==
  ASSUME MemoryAssumption, SessionInv, NEW s \in Sessions, CompactReads(s)
  PROVE  ReadFor
<1>1. PICK k \in DOMAIN pipe[s].snap.raw, a \in LongAnswers(pipe[s].snap.long), title \in BOOLEAN :
       /\ Unchanged(s, k)
       /\ \E f \in {Compacted(files[s], k)} \cup
                   {Shortened(files[s]) : i \in {i \in {1} : files[s].raw[i].parts = Whole}} :
            Reads("compact", s,
                  [f EXCEPT !.long = a.long, !.name = IF title THEN "named" ELSE @], a.drops)
  BY DEF CompactReads
<1>2. s \in Existing /\ k \in DOMAIN files[s].raw /\ files[s].long = pipe[s].snap.long
  BY <1>1 DEF Unchanged
<1>3. /\ files[s] \in File /\ files[s].long \in SUBSET Facts /\ said[s] \in Nat
      /\ Cardinality(files[s].long) <= LongCap /\ Covers(files[s], said[s])
  BY <1>2, LongFits
<1>4. /\ a.long \in SUBSET Facts /\ Cardinality(a.long) <= LongCap
      /\ a.drops \in SUBSET Facts /\ files[s].long \ a.long \subseteq a.drops
  BY SMTT(30), <1>2, <1>3, LongAnswersFit
<1>5. PICK f : /\ f \in {Compacted(files[s], k)} \cup
                       {Shortened(files[s]) : i \in {i \in {1} : files[s].raw[i].parts = Whole}}
               /\ Reads("compact", s,
                         [f EXCEPT !.long = a.long, !.name = IF title THEN "named" ELSE @], a.drops)
  BY <1>1
<1>6. f \in File /\ Covers(f, said[s])
  <2>1. CASE f = Compacted(files[s], k)
    BY <1>2, <1>3, <2>1, CompactedCovers
  <2>2. CASE f = Shortened(files[s]) /\ files[s].raw[1].parts = Whole
    <3>1. 1 \in DOMAIN files[s].raw
      BY <1>2, <1>3, FileParts
    <3>2. QED
      BY <1>3, <2>2, <3>1, ShortenedCovers
  <2>3. QED
    BY <1>5, <2>1, <2>2
<1>7. PICK name \in {"default", "named"} :
        name = IF title THEN "named" ELSE f.name
  BY SMTT(30), <1>6, FileParts
<1> DEFINE g == [f EXCEPT !.long = a.long, !.name = name]
<1>8. g \in File /\ g.long = a.long /\ Covers(g, said[s])
  BY ZenonT(60), <1>3, <1>4, <1>6, RewrittenCovers
<1>9. held = None /\ held' = [by |-> "compact", s |-> s, data |-> g, drops |-> a.drops]
  BY <1>5, <1>7 DEF Reads
<1> HIDE DEF g
<1>10. held' \in Holding
  BY <1>4, <1>8, <1>9 DEF Holding
<1>11. pending' = pending /\ pass' = pass /\ colony' = colony
  BY DEF CompactReads, PipeRest, upkeep, actors
<1>12. QED
  BY SMTT(30), <1>2, <1>3, <1>4, <1>8, <1>9, <1>10, <1>11 DEF ReadFor, Own

LEMMA ReadsTitle ==
  ASSUME SessionInv, NEW s \in Sessions, TitleReads(s)
  PROVE  ReadFor
<1>1. s \in Existing /\ Reads("title", s, [files[s] EXCEPT !.name = "named"], {})
  BY DEF TitleReads, Untitled
<1>2. /\ files[s] \in File /\ Covers(files[s], said[s]) /\ said[s] \in Nat
  BY <1>1, LongFits
<1> DEFINE g == [files[s] EXCEPT !.name = "named"]
<1>3. g \in File /\ g.long = files[s].long /\ Covers(g, said[s])
  BY <1>2 DEF File, Covers
<1>4. held = None /\ held' = [by |-> "title", s |-> s, data |-> g, drops |-> {}]
  BY <1>1 DEF Reads
<1> HIDE DEF g
<1>5. held' \in Holding
  BY <1>3, <1>4 DEF Holding
<1>6. pending' = pending /\ pass' = pass /\ colony' = colony
  BY DEF TitleReads, PipeRest, upkeep, actors
<1>7. QED
  BY <1>1, <1>2, <1>3, <1>4, <1>5, <1>6 DEF ReadFor, Own

\* Every step is one of these.
Moves ==
  \/ Idles \/ Closed \/ (FilesStay /\ ReadFor) \/ Stored \/ PassReads
  \/ (\E s \in Sessions : Opened(s) \/ Rewrites(s)) \/ (\E z \in Jobs : Gone(z))

LEMMA TurnMoves ==
  ASSUME MemoryAssumption, SessionInv,
         \/ Resumes \/ TurnRoutes \/ Opens \/ RouterAnswers \/ TurnAnswers \/ Logging
         \/ \E s \in Sessions : NoteReads(s) \/ SwitchSession(s)
         \/ \E c \in Chats : NewSession(c)
         \/ ColonyNow \/ StopsTurn \/ Crashes
  PROVE  Moves
<1> USE DEF upkeep, actors, FilesStay, PassOn
<1>0. \A c \in Chats \ Existing : c \in Sessions \ Existing /\ ~Begun(c) /\ c \notin Jobs
  BY DEF MemoryAssumption, Begun, Sessions
<1>1. CASE Resumes \/ TurnRoutes \/ TurnAnswers
  <2>1. Idles
    BY <1>1 DEF Resumes, TurnRoutes, TurnAnswers, BeginRest, Idles
  <2>2. QED
    BY <2>1 DEF Moves
<1>2. ASSUME NEW c \in Chats \ Existing, files' = [files EXCEPT ![c] = Fresh("default")], BeginRest
      PROVE  Moves
  <2>1. Opened(c)
    BY <1>0, <1>2 DEF Opened, BeginRest
  <2>2. QED
    BY <1>0, <2>1 DEF Moves
<1>3. CASE Opens
  <2>1. PICK c \in Chats : files' = [files EXCEPT ![c] = Fresh("default")]
    BY <1>3 DEF Opens
  <2>2. c \in Chats \ Existing /\ BeginRest
    BY <1>3 DEF Opens
  <2>3. QED
    BY <1>2, <2>1, <2>2
<1>4. CASE RouterAnswers
  <2>1. CASE UNCHANGED files
    <3>1. Idles
      BY <1>4, <2>1 DEF RouterAnswers, BeginRest, Idles
    <3>2. QED
      BY <3>1 DEF Moves
  <2>2. CASE \E c \in Chats \ Existing : files' = [files EXCEPT ![c] = Fresh("default")]
    BY <1>2, <1>4, <2>2 DEF RouterAnswers
  <2>3. QED
    BY <1>4, <2>1, <2>2 DEF RouterAnswers
<1>5. CASE LogReads
  <2>1. /\ pending \in Existing /\ Reads("log", pending, Appended(pending, 2), {})
        /\ files' = files /\ said' = said /\ pending' = pending /\ pass' = pass /\ colony' = colony
    BY <1>5 DEF LogReads, LogRest
  <2>2. ReadFor
    <3>1. 2 = Own("log") /\ 2 \in {1, 2} /\ "log" \in {"log", "note"}
      BY DEF Own
    <3>2. QED
      BY <2>1, <3>1, ReadsLog
  <2>3. QED
    BY <2>1, <2>2 DEF Moves
<1>6. CASE LogMissed
  <2>1. Idles
    BY <1>6 DEF LogMissed, LogRest, Idles
  <2>2. QED
    BY <2>1 DEF Moves
<1>7. CASE LogSaved
  <2>1. held # None /\ held.by = "log" /\ held.s = pending
    BY <1>7 DEF LogSaved, Replaces, Writing, SessionInv, WriterInv
  <2>2. Stored
    BY <1>7, <2>1 DEF LogSaved, LogRest, Replaces, Stored, Own
  <2>3. QED
    BY <2>2 DEF Moves
<1>8. CASE NoteSaved
  <2>1. held # None /\ held.by = "note"
    BY <1>8 DEF NoteSaved, Replaces, Writing
  <2>2. Stored
    BY <1>8, <2>1 DEF NoteSaved, Replaces, Stored, Own
  <2>3. QED
    BY <2>2 DEF Moves
<1>9. ASSUME NEW s \in Sessions, NoteReads(s)
      PROVE  Moves
  <2>1. /\ s \in Existing /\ Reads("note", s, Appended(s, 1), {})
        /\ files' = files /\ said' = said /\ pending' = pending /\ pass' = pass /\ colony' = colony
    BY <1>9 DEF NoteReads
  <2>2. ReadFor
    <3>1. 1 = Own("note") /\ 1 \in {1, 2} /\ "note" \in {"log", "note"} /\ "note" # "log"
      BY DEF Own
    <3>2. QED
      BY <2>1, <3>1, ReadsLog
  <2>3. QED
    BY <2>1, <2>2 DEF Moves
<1>10. ASSUME NEW s \in Sessions, SwitchSession(s)
       PROVE  Moves
  BY <1>10 DEF SwitchSession, Idles, Moves
<1>11. ASSUME NEW c \in Chats, NewSession(c)
       PROVE  Moves
  <2>1. Opened(c)
    BY <1>0, <1>11 DEF NewSession, Opened
  <2>2. QED
    BY <2>1 DEF Moves, Sessions
<1>12. CASE ColonyNow
  <2>1. PassOn
    BY <1>12 DEF ColonyNow, SessionInv, MemoryTypeOK
  <2>2. QED
    BY <1>12, <2>1 DEF ColonyNow, Idles, Moves
<1>13. CASE StopsTurn
  BY <1>13 DEF StopsTurn, Idles, Moves
<1>14. CASE Crashes
  BY <1>14 DEF Crashes, Closed, Moves
<1>15. QED
  BY <1>1, <1>3, <1>4, <1>5, <1>6, <1>7, <1>8, <1>9, <1>10, <1>11, <1>12, <1>13, <1>14 DEF Logging

LEMMA UpkeepMoves ==
  ASSUME MemoryAssumption, SessionInv, NEW s \in Sessions, Upkeep(s)
  PROVE  Moves
<1> USE DEF upkeep, actors, FilesStay, PipeRest
<1>1. CASE UpkeepBegins(s) \/ CompactLooks(s) \/ CompactFails(s) \/ TitleLooks(s) \/ TitleFails(s)
  BY SMTT(30), <1>1 DEF UpkeepBegins, CompactLooks, CompactFails, TitleLooks, TitleFails, PassOn, Idles, Moves
<1>2. CASE CompactReads(s)
  BY <1>2, ReadsCompact DEF CompactReads, Moves
<1>3. CASE TitleReads(s)
  BY <1>3, ReadsTitle DEF TitleReads, Moves
<1>4. ASSUME NEW by \in {"compact", "title"}, Replaces(by), said' = said, PassOn
      PROVE  Moves
  <2>1. held # None /\ held.by = by /\ Own(held.by) = 0
    BY <1>4 DEF Replaces, Writing, Own
  <2>2. held \in Holding /\ held.s \in Sessions
    BY <2>1 DEF SessionInv, MemoryTypeOK, Holding
  <2>3. said' = [said EXCEPT ![held.s] = @ + Own(held.by)]
    BY <1>4, <2>1, <2>2 DEF SessionInv, MemoryTypeOK
  <2>4. QED
    BY <1>4, <2>1, <2>3 DEF Replaces, Stored, Moves
<1>5. CASE CompactWritten(s)
  <2>1. PassOn
    BY <1>5 DEF CompactWritten, PassOn, SessionInv, MemoryTypeOK
  <2>2. QED
    BY <1>4, <1>5, <2>1 DEF CompactWritten
<1>6. CASE TitleWritten(s)
  BY <1>4, <1>6 DEF TitleWritten, PassOn
<1>7. QED
  BY <1>1, <1>2, <1>3, <1>5, <1>6 DEF Upkeep

LEMMA OtherMoves ==
  ASSUME MemoryAssumption, SessionInv,
         Pass \/ \E z \in Jobs : JobOpens(z) \/ JobRuns(z) \/ JobCloses(z) \/ StopClears(z)
  PROVE  Moves
<1> USE DEF upkeep, actors, FilesStay
<1>1. CASE PassLooks \/ PassClears \/ PassFails
  <2>0. PassClears => Existing = {} /\ colony' = {}
    <3>1. DOMAIN Memories = Existing
      BY DEF Memories
    <3>2. QED
      BY <3>1 DEF PassClears, Stale
  <2>1. PassOn
    BY SMTT(30), <1>1, <2>0 DEF PassLooks, PassClears, PassFails, PassOver, NoPass, PassOn,
      SessionInv, MemoryTypeOK, PassRest
  <2>2. QED
    BY <1>1, <2>1 DEF PassLooks, PassClears, PassFails, PassRest, Idles, Moves
<1>2. CASE PassReads
  BY <1>2 DEF Moves
<1>3. ASSUME NEW s \in Sessions, Rewrites(s)
      PROVE  Moves
  BY <1>3 DEF Moves
<1>4. CASE PassEnds
  BY <1>4 DEF PassEnds, PassOver, PassRest, Closed, Moves
<1>5. ASSUME NEW z \in Jobs, JobOpens(z)
      PROVE  Moves
  <2>1. z \in Sessions \ Existing /\ ~Begun(z)
    BY <1>5 DEF JobOpens, Begun, SessionInv, BegunInv, Sessions
  <2>2. Opened(z)
    BY <1>5, <2>1 DEF JobOpens, JobRest, Opened
  <2>3. QED
    BY <2>1, <2>2 DEF Moves
<1>6. ASSUME NEW z \in Jobs, JobRuns(z)
      PROVE  Moves
  BY <1>6 DEF JobRuns, JobRest, PassOn, Idles, Moves
<1>7. ASSUME NEW z \in Jobs, JobCloses(z) \/ StopClears(z)
      PROVE  Moves
  <2>1. Gone(z)
    BY <1>7 DEF JobCloses, StopClears, Removes, JobRest, Gone
  <2>2. QED
    BY <2>1 DEF Moves
<1>8. QED
  BY <1>1, <1>2, <1>3, <1>4, <1>5, <1>6, <1>7 DEF Pass

LEMMA StepMoves ==
  ASSUME MemoryAssumption, SessionInv, [MemoryNext]_memoryVars
  PROVE  Moves
<1>1. CASE UNCHANGED memoryVars
  BY <1>1 DEF memoryVars, upkeep, actors, FilesStay, PassOn, Idles, Moves
<1>2. CASE MemoryNext
  BY <1>2, TurnMoves, UpkeepMoves, OtherMoves DEF MemoryNext
<1>3. QED
  BY <1>1, <1>2

-----------------------------------------------------------------------------
(* Each part of the invariant is kept.                                      *)

\* What a move makes of the set of sessions.
LEMMA ExistingMoves ==
  ASSUME MemoryAssumption, SessionInv
  PROVE  /\ FilesStay => Existing' = Existing
         /\ \A s \in Sessions : Opened(s) => Existing' = Existing \cup {s}
         /\ Stored => held.s \in Sessions /\ Existing' = Existing \cup {held.s}
         /\ \A z \in Jobs : Gone(z) => z \in Sessions /\ Existing' = Existing \ {z}
         /\ \A s \in Sessions : Rewrites(s) => Existing' = Existing
<1> USE DEF SessionInv, MemoryTypeOK
<1>1. FilesStay => Existing' = Existing
  BY DEF FilesStay, Existing
<1>2. ASSUME NEW s \in Sessions, Opened(s) PROVE Existing' = Existing \cup {s}
  BY <1>2, FreshCovers DEF Opened, Existing
<1>3. ASSUME Stored PROVE held.s \in Sessions /\ Existing' = Existing \cup {held.s}
  <2>1. held.s \in Sessions /\ held.data \in File
    BY <1>3 DEF Stored, Holding
  <2>2. held.data # None
    BY <2>1 DEF MemoryAssumption
  <2>3. QED
    BY <1>3, <2>1, <2>2 DEF Stored, Existing
<1>4. ASSUME NEW z \in Jobs, Gone(z) PROVE z \in Sessions /\ Existing' = Existing \ {z}
  BY <1>4 DEF Gone, Existing, Sessions
<1>5. ASSUME NEW s \in Sessions, Rewrites(s) PROVE Existing' = Existing
  <2>1. CASE s \notin Existing
    BY <1>5, <2>1 DEF Rewrites, Existing
  <2>2. CASE s \in Existing
    <3>1. files[s] \in File /\ held \in [by : {"colony"}, lists : Maps(SUBSET Facts), drops : SUBSET Facts]
      BY <1>5, <2>2 DEF Rewrites, PassInv, Existing, Holding
    <3>2. held.lists[s] \in SUBSET Facts
      BY <1>5, <3>1 DEF Rewrites, Maps
    <3>3. [files[s] EXCEPT !.long = held.lists[s]] \in File
      BY <3>1, <3>2 DEF File
    <3>4. [files[s] EXCEPT !.long = held.lists[s]] # None
      BY <3>3 DEF MemoryAssumption
    <3>5. QED
      BY <1>5, <2>2, <3>4 DEF Rewrites, Existing
  <2>3. QED
    BY <2>1, <2>2
<1>6. QED
  BY <1>1, <1>2, <1>3, <1>4, <1>5

\* A pass begins to write the lists P of the sessions it has seen in full, C
\* being the new colony.
Begins(full, P, complete, C) ==
  /\ held = None /\ DOMAIN pass.mem = Existing /\ pass' = [pass EXCEPT !.at = "write"]
  /\ \A s \in full : P[s] \subseteq files[s].long
  /\ colony' \in SUBSET Facts /\ Cardinality(colony') <= ColonyCap
  /\ C \subseteq colony' /\ (colony \subseteq colony' \/ complete)
  /\ held' = [by |-> "colony", lists |-> P,
              drops |-> ((UNION {files[s].long : s \in full}) \cup (IF complete THEN colony ELSE {}))
                          \ (C \cup UNION {P[s] : s \in full})]
  /\ FilesStay

\* A pass that begins to write: its lists are of what it has seen in full.
LEMMA PassBegins ==
  ASSUME MemoryAssumption, SessionInv, PassReads
  PROVE  \E full \in SUBSET Existing, complete \in BOOLEAN, C \in SUBSET Facts :
         \E P \in [full -> SUBSET Facts] :
           Begins(full, P, complete, C)
<1>1. held = None /\ Memories = pass.mem /\ pass' = [pass EXCEPT !.at = "write"] /\ FilesStay
  BY DEF PassReads, PassRest, Stale, FilesStay
<1>2. DOMAIN pass.mem = Existing /\ \A s \in Existing : pass.mem[s] = files[s].long
  BY <1>1 DEF Memories
<1>3. PICK full \in SUBSET DOMAIN pass.mem, all \in BOOLEAN, C \in SUBSET Memory :
       \E P \in [full -> SUBSET Facts] :
         LET complete == all /\ full = DOMAIN pass.mem
             shown == (UNION {pass.mem[s] : s \in full}) \cup (IF complete THEN colony ELSE {})
         IN /\ \A s \in full : P[s] \subseteq pass.mem[s]
            /\ Cardinality(C) <= ColonyCap
            /\ colony' = NewColony(colony, C, complete) /\ Cardinality(colony') <= ColonyCap
            /\ held' = [by |-> "colony", lists |-> P, drops |-> shown \ (C \cup UNION {P[s] : s \in full})]
  BY Zenon DEF PassReads
<1> DEFINE complete == all /\ full = DOMAIN pass.mem
<1>4. PICK P \in [full -> SUBSET Facts] :
         LET shown == (UNION {pass.mem[s] : s \in full}) \cup (IF complete THEN colony ELSE {})
         IN /\ \A s \in full : P[s] \subseteq pass.mem[s]
            /\ colony' = NewColony(colony, C, complete) /\ Cardinality(colony') <= ColonyCap
            /\ held' = [by |-> "colony", lists |-> P, drops |-> shown \ (C \cup UNION {P[s] : s \in full})]
  BY <1>3
<1>5. complete \in BOOLEAN /\ C \in SUBSET Facts /\ full \in SUBSET Existing
  BY <1>2, MemoryFacts
<1> HIDE DEF complete
<1>6. colony' \in SUBSET Facts /\ C \subseteq colony' /\ (colony \subseteq colony' \/ complete)
  BY <1>4, <1>5 DEF NewColony, SessionInv, MemoryTypeOK
<1>7. UNION {pass.mem[s] : s \in full} = UNION {files[s].long : s \in full}
  BY <1>2, <1>5
<1>8. complete \in BOOLEAN /\ C \in SUBSET Facts /\ full \in SUBSET Existing
  BY <1>5
<1>9. \A s \in full : P[s] \subseteq files[s].long
  BY <1>2, <1>4, <1>5
<1>10. Cardinality(colony') <= ColonyCap
  BY <1>4
<1>11. held' = [by |-> "colony", lists |-> P,
               drops |-> ((UNION {files[s].long : s \in full}) \cup (IF complete THEN colony ELSE {}))
                           \ (C \cup UNION {P[s] : s \in full})]
  BY <1>4, <1>7
<1>12. Begins(full, P, complete, C)
  BY <1>1, <1>2, <1>6, <1>9, <1>10, <1>11 DEF Begins
<1>13. QED
  BY <1>8, <1>12

\* What a pass still has to write is typed.
LEMMA ListsParts ==
  ASSUME SessionInv, pass.at = "write"
  PROVE  /\ held # None /\ held.by = "colony"
         /\ held \in [by : {"colony"}, lists : Maps(SUBSET Facts), drops : SUBSET Facts]
         /\ DOMAIN held.lists \in SUBSET Sessions /\ held.lists \in [DOMAIN held.lists -> SUBSET Facts]
         /\ held.drops \in SUBSET Facts
<1>1. held # None /\ held.by = "colony" /\ held \in Holding
  BY DEF SessionInv, PassInv, MemoryTypeOK
<1>2. held \in [by : {"colony"}, lists : Maps(SUBSET Facts), drops : SUBSET Facts]
  BY <1>1 DEF Holding
<1>3. PICK D \in SUBSET Sessions : held.lists \in [D -> SUBSET Facts]
  BY <1>2 DEF Maps
<1>4. QED
  BY <1>1, <1>2, <1>3

\* A list that a pass writes.
LEMMA RewriteParts ==
  ASSUME SessionInv, NEW s \in Sessions, Rewrites(s)
  PROVE  /\ pass.at = "write" /\ s \in DOMAIN held.lists
         /\ held' = [by |-> "colony", drops |-> held.drops,
                     lists |-> [x \in DOMAIN held.lists \ {s} |-> held.lists[x]]]
         /\ held' \in Holding /\ said' = said /\ colony' = colony /\ pass' = pass
         /\ s \in Existing => files' = [files EXCEPT ![s].long = held.lists[s]]
         /\ s \notin Existing => files' = files
<1>1. /\ pass.at = "write" /\ s \in DOMAIN held.lists /\ said' = said /\ colony' = colony /\ pass' = pass
      /\ held' = [held EXCEPT !.lists = [x \in DOMAIN @ \ {s} |-> @[x]]]
      /\ files' = IF s \in Existing THEN [files EXCEPT ![s].long = held.lists[s]] ELSE files
  BY DEF Rewrites, PassRest
<1>2. /\ held \in [by : {"colony"}, lists : Maps(SUBSET Facts), drops : SUBSET Facts]
      /\ held.by = "colony" /\ held.drops \in SUBSET Facts
      /\ DOMAIN held.lists \in SUBSET Sessions /\ held.lists \in [DOMAIN held.lists -> SUBSET Facts]
  BY <1>1, ListsParts
<1> DEFINE rest == [x \in DOMAIN held.lists \ {s} |-> held.lists[x]]
<1>3. held' = [held EXCEPT !.lists = rest]
  BY <1>1
<1>4. rest \in [DOMAIN held.lists \ {s} -> SUBSET Facts] /\ DOMAIN held.lists \ {s} \in SUBSET Sessions
  BY <1>2
<1> HIDE DEF rest
<1>5. held' = [by |-> "colony", drops |-> held.drops, lists |-> rest]
  BY <1>2, <1>3
<1>6. rest \in Maps(SUBSET Facts)
  BY <1>4 DEF Maps
<1>7. held' \in Holding
  BY <1>2, <1>5, <1>6 DEF Holding
<1>8. QED
  BY <1>1, <1>5, <1>7 DEF rest

\* Sessions, histories and the colony keep what they cover.
LEMMA HistoryStep ==
  ASSUME MemoryAssumption, SessionInv, Moves
  PROVE  HistoryKept'
<1> USE DEF SessionInv
<1>0. ASSUME colony' \in {colony, {}} PROVE Cardinality(colony') <= ColonyCap
  BY <1>0, FS_EmptySet DEF HistoryKept, MemoryAssumption
<1>1. ASSUME FilesStay, Cardinality(colony') <= ColonyCap PROVE HistoryKept'
  BY <1>1, ExistingMoves DEF HistoryKept, FilesStay, Covers
<1>2. CASE Idles \/ Closed \/ (FilesStay /\ ReadFor)
  BY <1>0, <1>1, <1>2 DEF Idles, Closed, ReadFor, PassOn
<1>3. CASE PassReads
  BY <1>1, <1>3, PassBegins DEF Begins
<1>4. CASE Stored
  <2>1. /\ held.s \in Sessions /\ Existing' = Existing \cup {held.s}
        /\ Covers(held.data, said[held.s] + Own(held.by))
    BY <1>4, ExistingMoves DEF Stored, WriterInv
  <2>2. /\ files'[held.s] = held.data /\ said'[held.s] = said[held.s] + Own(held.by)
        /\ \A s \in Sessions \ {held.s} : files'[s] = files[s] /\ said'[s] = said[s]
    BY <1>4, <2>1 DEF Stored, MemoryTypeOK
  <2>3. \A s \in Existing' : Covers(files'[s], said'[s])
    BY <2>1, <2>2 DEF HistoryKept, Existing
  <2>4. QED
    BY <1>0, <1>4, <2>3 DEF HistoryKept, Stored, PassOn, Covers
<1>5. ASSUME NEW s \in Sessions, Opened(s) PROVE HistoryKept'
  <2>1. Existing' = Existing \cup {s} /\ said[s] = 0
    BY <1>5, ExistingMoves DEF Opened, BegunInv
  <2>2. /\ Covers(files'[s], said'[s])
        /\ \A x \in Existing : files'[x] = files[x] /\ said'[x] = said[x]
    BY <1>5, <2>1, FreshCovers DEF Opened, MemoryTypeOK, Existing
  <2>3. \A x \in Existing' : Covers(files'[x], said'[x])
    BY <2>1, <2>2 DEF HistoryKept
  <2>4. QED
    BY <1>0, <1>5, <2>3 DEF HistoryKept, Opened, Covers
<1>6. ASSUME NEW s \in Sessions, Rewrites(s) PROVE HistoryKept'
  <2>1. Existing' = Existing /\ said' = said /\ colony' = colony /\ pass.at = "write"
    BY <1>6, ExistingMoves, RewriteParts
  <2>2. CASE s \notin Existing
    BY <1>1, <1>6, <2>1, <2>2, RewriteParts DEF FilesStay, HistoryKept
  <2>3. CASE s \in Existing
    <3>1. /\ s \in DOMAIN held.lists /\ files' = [files EXCEPT ![s].long = held.lists[s]]
          /\ files[s] \in File /\ Covers(files[s], said[s])
      BY <1>6, <2>3, RewriteParts, LongFits
    <3>2. Cardinality(held.lists[s]) <= LongCap
      BY <2>1, <3>1 DEF PassInv
    <3>3. /\ files'[s] = [files[s] EXCEPT !.long = held.lists[s]]
          /\ \A x \in Existing \ {s} : files'[x] = files[x]
      BY <3>1 DEF MemoryTypeOK, Existing
    <3>4. Covers(files'[s], said[s])
      BY <3>1, <3>2, <3>3 DEF Covers, File
    <3>5. \A x \in Existing' : Covers(files'[x], said'[x])
      BY <2>1, <3>3, <3>4 DEF HistoryKept
    <3>6. QED
      BY <2>1, <3>5 DEF HistoryKept, Covers
  <2>4. QED
    BY <2>2, <2>3
<1>7. ASSUME NEW z \in Jobs, Gone(z) PROVE HistoryKept'
  <2>1. z \in Sessions /\ Existing' = Existing \ {z} /\ said' = said
    BY <1>7, ExistingMoves DEF Gone
  <2>2. \A x \in Existing' : files'[x] = files[x]
    BY <1>7, <2>1 DEF Gone, MemoryTypeOK, Existing
  <2>3. \A x \in Existing' : Covers(files'[x], said'[x])
    BY <2>1, <2>2 DEF HistoryKept
  <2>4. QED
    BY <1>0, <1>7, <2>3 DEF HistoryKept, Gone, Covers
<1>8. QED
  BY <1>2, <1>3, <1>4, <1>5, <1>6, <1>7 DEF Moves

\* The log that is waited for changes only where no writer has read for it.
LEMMA LogMoves ==
  ASSUME SessionInv, [MemoryNext]_memoryVars
  PROVE  pending' = pending \/ held = None \/ held' = None \/ turn.at = "run"
<1> USE DEF upkeep, actors, BeginRest, LogRest, PipeRest, PassRest, JobRest
<1>1. CASE UNCHANGED memoryVars
  BY <1>1 DEF memoryVars
<1>2. CASE Resumes \/ TurnRoutes \/ Opens \/ RouterAnswers \/ ColonyNow
  BY <1>2 DEF Resumes, TurnRoutes, Opens, RouterAnswers, ColonyNow
<1>3. CASE TurnAnswers \/ Logging \/ Crashes
  BY <1>3 DEF TurnAnswers, Logging, LogReads, LogMissed, LogSaved, NoteSaved, Replaces, Crashes
<1>4. CASE StopsTurn
  BY SMTT(30), <1>4 DEF StopsTurn
<1>5. ASSUME NEW s \in Sessions, NoteReads(s) \/ SwitchSession(s) \/ Upkeep(s) PROVE pending' = pending
  BY <1>5 DEF NoteReads, SwitchSession, Upkeep, UpkeepBegins, CompactLooks, CompactReads,
     CompactFails, CompactWritten, TitleLooks, TitleReads, TitleFails, TitleWritten
<1>6. ASSUME NEW c \in Chats, NewSession(c) PROVE pending' = pending
  BY <1>6 DEF NewSession
<1>7. CASE Pass
  BY <1>7 DEF Pass, PassLooks, PassClears, PassReads, PassFails, Rewrites, PassEnds
<1>8. ASSUME NEW z \in Jobs, JobOpens(z) \/ JobRuns(z) \/ JobCloses(z) \/ StopClears(z) PROVE pending' = pending
  BY <1>8 DEF JobOpens, JobRuns, JobCloses, StopClears
<1>9. QED
  BY <1>1, <1>2, <1>3, <1>4, <1>5, <1>6, <1>7, <1>8 DEF MemoryNext

\* What a writer holds is what it read and its own change.
LEMMA WriterStep ==
  ASSUME MemoryAssumption, SessionInv, [MemoryNext]_memoryVars, Moves
  PROVE  WriterInv'
<1> SUFFICES ASSUME held' # None, held'.by # "colony"
             PROVE  /\ Covers(held'.data, said'[held'.s] + Own(held'.by))
                    /\ held'.by = "log" => held'.s = pending'
                    /\ held'.s \in Existing' => files'[held'.s].long \ held'.data.long \subseteq held'.drops
  BY DEF WriterInv, Covers, Own
<1> USE DEF SessionInv
<1>1. ASSUME held' = held PROVE held'.by = "log" => held'.s = pending'
  <2>1. held.by = "log" => pending \in Sessions /\ held.s = pending
    BY <1>1 DEF WriterInv, MemoryTypeOK, Holding
  <2>2. held.by = "log" => pending # None
    BY <2>1 DEF MemoryAssumption
  <2>3. QED
    BY <1>1, <2>1, <2>2, LogMoves DEF RouteInv
<1>2. CASE Idles
  BY <1>1, <1>2, ExistingMoves DEF Idles, FilesStay, WriterInv
<1>3. CASE FilesStay /\ ReadFor
  BY <1>3, ExistingMoves DEF FilesStay, ReadFor
<1>4. ASSUME NEW s \in Sessions, Opened(s) PROVE WriterInv'
  <2>1. held' = held /\ held.s # s /\ held.s \in Sessions /\ said' = said
    BY <1>4 DEF Opened, BegunInv, MemoryTypeOK, Holding
  <2>2. files'[held.s] = files[held.s] /\ (held.s \in Existing' => held.s \in Existing)
    <3>1. files \in [Sessions -> File \cup {None}]
      BY DEF MemoryTypeOK
    <3>2. PICK name : files' = [files EXCEPT ![s] = Fresh(name)]
      BY <1>4 DEF Opened
    <3>3. files'[held.s] = files[held.s]
      BY <2>1, <3>1, <3>2
    <3>4. QED
      BY <1>4, <2>1, <3>3, ExistingMoves
  <2>3. QED
    BY <1>1, <2>1, <2>2 DEF WriterInv, Covers, Own
<1>5. ASSUME NEW z \in Jobs, Gone(z) PROVE WriterInv'
  <2>1. held' = held /\ held.s \in Sessions /\ said' = said
    BY <1>5 DEF Gone, MemoryTypeOK, Holding
  <2>2. held.s \in Existing' => held.s \in Existing /\ files'[held.s] = files[held.s]
    <3>1. files \in [Sessions -> File \cup {None}] /\ files' = [files EXCEPT ![z] = None]
      BY <1>5 DEF MemoryTypeOK, Gone
    <3>2. z \in Sessions /\ Existing' = Existing \ {z}
      BY <1>5, ExistingMoves
    <3>3. QED
      BY <2>1, <3>1, <3>2
  <2>3. QED
    BY <1>1, <2>1, <2>2 DEF WriterInv, Covers, Own
<1>6. CASE Closed \/ Stored
  BY <1>6 DEF Closed, Stored
<1>7. CASE PassReads
  BY <1>7, PassBegins DEF Begins
<1>8. ASSUME NEW s \in Sessions, Rewrites(s) PROVE FALSE
  <2>1. held' = [by |-> "colony", drops |-> held.drops,
                 lists |-> [x \in DOMAIN held.lists \ {s} |-> held.lists[x]]]
    BY <1>8, RewriteParts
  <2>2. held'.by = "colony"
    BY <2>1
  <2>3. QED
    BY <2>2
<1>9. QED
  BY <1>2, <1>3, <1>4, <1>5, <1>6, <1>7, <1>8 DEF Moves, WriterInv, Covers, Own

\* What may not have begun has no messages, and no writer.
LEMMA JobMoves ==
  ASSUME SessionInv, [MemoryNext]_memoryVars
  PROVE  /\ jobs' \in [Jobs -> {"none", "ready", "run", "paused", "done", "gone"}]
         /\ \A z \in Jobs : jobs'[z] = "none" => jobs[z] = "none"
<1> USE DEF upkeep, actors, BeginRest, LogRest, PipeRest, PassRest, JobRest
<1>0. jobs \in [Jobs -> {"none", "ready", "run", "paused", "done", "gone"}]
  BY DEF SessionInv, MemoryTypeOK
<1>1. ASSUME jobs' = jobs
      PROVE  /\ jobs' \in [Jobs -> {"none", "ready", "run", "paused", "done", "gone"}]
             /\ \A z \in Jobs : jobs'[z] = "none" => jobs[z] = "none"
  BY <1>0, <1>1
<1>2. ASSUME NEW z \in Jobs, NEW v \in {"ready", "run", "paused", "done", "gone"},
             jobs' = [jobs EXCEPT ![z] = v]
      PROVE  /\ jobs' \in [Jobs -> {"none", "ready", "run", "paused", "done", "gone"}]
             /\ \A x \in Jobs : jobs'[x] = "none" => jobs[x] = "none"
  BY <1>0, <1>2
<1>3. CASE UNCHANGED memoryVars
  BY <1>1, <1>3 DEF memoryVars
<1>4. CASE Resumes \/ TurnRoutes \/ Opens \/ RouterAnswers \/ ColonyNow \/ TurnAnswers \/ LogReads \/ NoteSaved
  BY <1>1, <1>4 DEF Resumes, TurnRoutes, Opens, RouterAnswers, ColonyNow, TurnAnswers, LogReads, NoteSaved
<1>5. CASE LogMissed \/ LogSaved
  <2>1. TurnSettles
    BY <1>5 DEF LogMissed, LogSaved
  <2>2. jobs' = jobs \/ \E z \in Jobs : \E v \in {"done", "paused"} : jobs' = [jobs EXCEPT ![z] = v]
    BY <2>1 DEF TurnSettles
  <2>3. QED
    BY <1>1, <1>2, <2>2
<1>6. CASE Crashes
  BY <1>0, <1>6 DEF Crashes
<1>7. CASE StopsTurn
  BY SMTT(30), <1>0, <1>7 DEF StopsTurn
<1>8. ASSUME NEW s \in Sessions, NoteReads(s) \/ SwitchSession(s) \/ Upkeep(s) PROVE jobs' = jobs
  BY <1>8 DEF NoteReads, SwitchSession, Upkeep, UpkeepBegins, CompactLooks, CompactReads,
     CompactFails, CompactWritten, TitleLooks, TitleReads, TitleFails, TitleWritten
<1>9. ASSUME NEW c \in Chats, NewSession(c) PROVE jobs' = jobs
  BY <1>9 DEF NewSession
<1>10. CASE Pass
  <2>1. jobs' = jobs
    BY <1>10 DEF Pass, PassLooks, PassClears, PassReads, PassFails, Rewrites, PassEnds
  <2>2. QED
    BY <1>1, <2>1
<1>11. ASSUME NEW z \in Jobs, JobOpens(z) \/ JobRuns(z) \/ JobCloses(z) \/ StopClears(z)
       PROVE \E v \in {"ready", "run", "gone"} : jobs' = [jobs EXCEPT ![z] = v]
  BY <1>11 DEF JobOpens, JobRuns, JobCloses, StopClears, Removes
<1>12. QED
  <2>1. CASE \E z \in Jobs : JobOpens(z) \/ JobRuns(z) \/ JobCloses(z) \/ StopClears(z)
    BY <1>2, <1>11, <2>1
  <2>2. QED
    BY <1>1, <1>3, <1>4, <1>5, <1>6, <1>7, <1>8, <1>9, <1>10, <2>1 DEF MemoryNext, Logging

LEMMA BegunStep ==
  ASSUME MemoryAssumption, SessionInv, [MemoryNext]_memoryVars, Moves
  PROVE  BegunInv'
<1> USE DEF SessionInv
<1>0. /\ \A z \in Jobs : jobs'[z] = "none" => jobs[z] = "none"
      /\ files \in [Sessions -> File \cup {None}] /\ said \in [Sessions -> Nat]
      /\ Jobs \subseteq Sessions /\ Existing \subseteq Sessions
      /\ jobs \in [Jobs -> {"none", "ready", "run", "paused", "done", "gone"}]
  BY JobMoves DEF MemoryTypeOK, Sessions, Existing
<1>1. ASSUME Existing \subseteq Existing',
             \A z \in Jobs \cap (Existing' \ Existing) : jobs'[z] # "none",
             \A s \in Sessions : said'[s] # said[s] => Begun(s) \/ s \in Existing',
             held' # None /\ held'.by # "colony" =>
               \/ held # None /\ held.by # "colony" /\ held'.s = held.s
               \/ held'.s \in Existing
      PROVE  BegunInv'
  <2>1. \A s \in Sessions : ~Begun(s)' => ~Begun(s) /\ s \notin Existing'
    BY <1>0, <1>1 DEF Begun
  <2>2. ASSUME NEW s \in Sessions, ~Begun(s)' PROVE said'[s] = 0
    BY <1>1, <2>1, <2>2 DEF BegunInv
  <2>3. ASSUME NEW s \in Sessions, ~Begun(s)', held' # None, held'.by # "colony", held'.s = s PROVE FALSE
    BY <1>1, <2>1, <2>3 DEF BegunInv
  <2>4. \A z \in Jobs \cap Existing' : jobs'[z] # "none"
    BY <1>0, <1>1 DEF BegunInv
  <2>5. QED
    BY <2>2, <2>3, <2>4 DEF BegunInv
<1>2. CASE Idles \/ Closed \/ (FilesStay /\ ReadFor)
  BY <1>1, <1>2, ExistingMoves DEF Idles, Closed, FilesStay, ReadFor
<1>3. CASE PassReads
  BY <1>1, <1>3, ExistingMoves, PassBegins DEF Begins, FilesStay
<1>4. CASE Stored
  <2>1. /\ held.s \in Sessions /\ Existing' = Existing \cup {held.s} /\ held' = None
        /\ Begun(held.s) /\ \A s \in Sessions \ {held.s} : said'[s] = said[s]
    BY <1>0, <1>4, ExistingMoves DEF Stored, BegunInv
  <2>2. held.s \in Jobs => jobs'[held.s] # "none"
    BY <1>0, <2>1 DEF Begun, BegunInv
  <2>3. QED
    BY <1>1, <2>1, <2>2
<1>5. ASSUME NEW s \in Sessions, Opened(s) PROVE BegunInv'
  <2>1. /\ Existing' = Existing \cup {s} /\ said' = said /\ held' = held
        /\ s \in Jobs => jobs'[s] # "none"
    BY <1>0, <1>5, ExistingMoves DEF Opened
  <2>2. QED
    BY <1>1, <2>1
<1>6. ASSUME NEW s \in Sessions, Rewrites(s) PROVE BegunInv'
  <2>1. Existing' = Existing /\ said' = said
    BY <1>6, ExistingMoves, RewriteParts
  <2>2. held' = [by |-> "colony", drops |-> held.drops,
                 lists |-> [x \in DOMAIN held.lists \ {s} |-> held.lists[x]]]
    BY <1>6, RewriteParts
  <2>3. held'.by = "colony"
    BY <2>2
  <2>4. QED
    BY <1>1, <2>1, <2>3
<1>7. ASSUME NEW z \in Jobs, Gone(z) PROVE BegunInv'
  <2>1. Existing' = Existing \ {z} /\ said' = said /\ held' = held /\ jobs'[z] = "gone"
    BY <1>0, <1>7, ExistingMoves DEF Gone
  <2>2. \A s \in Sessions : ~Begun(s)' => ~Begun(s)
    BY <1>0, <2>1 DEF Begun
  <2>3. QED
    BY <1>0, <2>1, <2>2 DEF BegunInv
<1>8. QED
  BY <1>2, <1>3, <1>4, <1>5, <1>6, <1>7 DEF Moves

\* Where the turn goes, and which session is the last one.
TurnKinds ==
  \/ turn' = turn /\ pending' \in {pending, None} /\ last' = last /\ wish' \in {wish, None}
  \/ turn' = Idle /\ last' = last /\ wish' = wish /\ pending' \in Sessions \cup {None}
  \/ \E s \in Sessions : /\ Runs(s) /\ pending' = pending /\ pending = None /\ wish' = wish
                         /\ \/ last' = last
                            \/ s \in Existing' /\ last' = s /\ turn.at = "route" /\ last = turn.before
                            \/ s \in Existing' /\ last' = s /\ Existing = {}
  \/ /\ turn' = [at |-> "route", s |-> None, before |-> last, shown |-> Existing]
     /\ pending = None /\ pending' = pending /\ last \notin Existing /\ last' = last /\ wish' = wish
  \/ turn.at = "run" /\ turn' = [turn EXCEPT !.at = "log"] /\ pending' = turn.s /\ last' = last /\ wish' = wish
  \/ \E c \in Chats \ Existing : /\ last' = c /\ wish' = c /\ turn' = turn /\ pending' = pending /\ c \in Existing'
  \/ \E s \in Existing : /\ last' = s /\ turn' = turn /\ pending' = pending /\ Existing' = Existing
                         /\ wish' = IF Unseen(s) THEN None ELSE s

LEMMA TurnsMove ==
  ASSUME MemoryAssumption, SessionInv, [MemoryNext]_memoryVars
  PROVE  TurnKinds
<1> USE DEF upkeep, actors, LogRest, PipeRest, PassRest, JobRest, TurnKinds
<1>0. /\ Existing \subseteq Sessions /\ Chats \subseteq Sessions /\ Jobs \subseteq Sessions
      /\ files \in [Sessions -> File \cup {None}]
      /\ pending \in Sessions \cup {None}
  BY DEF Existing, Sessions, SessionInv, MemoryTypeOK
<1>1. CASE UNCHANGED memoryVars
  BY <1>1 DEF memoryVars
<1>2. CASE Resumes
  <2>1. Runs(last) /\ last \in Sessions /\ pending' = pending /\ pending = None /\ wish' = wish /\ last' = last
    BY <1>0, <1>2 DEF Resumes, BeginRest, MayBegin, Runs
  <2>2. QED
    BY <2>1
<1>3. CASE TurnRoutes
  BY <1>3 DEF TurnRoutes, BeginRest, MayBegin
<1>4. ASSUME NEW c \in Chats \ Existing, files' = [files EXCEPT ![c] = Fresh("default")]
      PROVE c \in Existing'
  BY <1>0, <1>4, FreshCovers DEF Existing
<1>5. CASE Opens
  <2>1. PICK c \in Chats : files' = [files EXCEPT ![c] = Fresh("default")] /\ Runs(c) /\ Routed(c, last)
    BY <1>5 DEF Opens
  <2>2. /\ Runs(c) /\ c \in Sessions /\ c \in Existing' /\ pending' = pending /\ pending = None /\ wish' = wish
        /\ last' = c /\ Existing = {}
    BY <1>0, <1>4, <1>5, <2>1 DEF Opens, BeginRest, MayBegin, Runs, Routed
  <2>3. QED
    BY <2>2
<1>6. CASE RouterAnswers
  <2>1. turn.at = "route" /\ pending' = pending /\ pending = None /\ wish' = wish
    BY <1>6 DEF RouterAnswers, BeginRest, SessionInv, RouteInv
  <2>2. PICK s \in Sessions : Runs(s) /\ Routed(s, turn.before) /\ s \in Existing'
    <3>1. CASE \E s \in turn.shown \cap Existing :
                 Runs(s) /\ Routed(s, turn.before) /\ UNCHANGED files
      BY <1>0, <3>1 DEF Runs, Existing
    <3>2. CASE \E c \in Chats \ Existing :
                 /\ files' = [files EXCEPT ![c] = Fresh("default")]
                 /\ Runs(c) /\ Routed(c, turn.before)
      BY <1>0, <1>4, <3>2 DEF Runs
    <3>3. QED
      BY <1>6, <3>1, <3>2 DEF RouterAnswers
  <2>3. last' = last \/ (last' = s /\ last = turn.before)
    BY <2>2 DEF Routed
  <2>4. QED
    BY <2>1, <2>2, <2>3
<1>7. CASE TurnAnswers
  BY <1>7 DEF TurnAnswers
<1>8. CASE LogMissed \/ LogSaved
  <2>1. TurnSettles /\ last' = last /\ wish' = wish
    BY <1>8 DEF LogMissed, LogSaved
  <2>2. pending' = None /\ (turn' = Idle \/ turn' = turn)
    BY <2>1 DEF TurnSettles
  <2>3. QED
    BY <2>1, <2>2
<1>9. CASE LogReads \/ NoteSaved \/ ColonyNow
  BY <1>9 DEF LogReads, NoteSaved, ColonyNow
<1>10. CASE Crashes
  BY <1>10 DEF Crashes
<1>11. CASE StopsTurn
  <2>1. turn' = Idle /\ last' = last /\ wish' = wish
    BY <1>11 DEF StopsTurn
  <2>2. pending' \in Sessions \cup {None}
    BY <1>0, <1>11 DEF StopsTurn, SessionInv, RouteInv
  <2>3. QED
    BY <2>1, <2>2
<1>12. ASSUME NEW s \in Sessions, SwitchSession(s) PROVE TurnKinds
  <2>1. /\ s \in Existing /\ last' = s /\ turn' = turn /\ pending' = pending
        /\ wish' = IF Unseen(s) THEN None ELSE s
    BY <1>12 DEF SwitchSession
  <2>2. Existing' = Existing
    BY <1>12 DEF SwitchSession, Existing
  <2>3. QED
    BY <2>1, <2>2
<1>13. ASSUME NEW s \in Sessions, NoteReads(s) \/ Upkeep(s) PROVE TurnKinds
  <2>1. turn' = turn /\ pending' = pending /\ last' = last /\ wish' = wish
    BY <1>13 DEF NoteReads, Upkeep, UpkeepBegins, CompactLooks, CompactReads,
       CompactFails, CompactWritten, TitleLooks, TitleReads, TitleFails, TitleWritten
  <2>2. QED
    BY SMTT(30), <2>1
<1>14. ASSUME NEW c \in Chats, NewSession(c) PROVE TurnKinds
  <2>1. c \in Chats \ Existing /\ last' = c /\ wish' = c /\ turn' = turn /\ pending' = pending /\ c \in Existing'
    BY <1>4, <1>14 DEF NewSession
  <2>2. QED
    BY <2>1
<1>15. CASE Pass
  <2>1. turn' = turn /\ pending' = pending /\ last' = last /\ wish' = wish
    BY <1>15 DEF Pass, PassLooks, PassClears, PassReads, PassFails, Rewrites, PassEnds
  <2>2. QED
    BY <2>1
<1>16. ASSUME NEW z \in Jobs, JobOpens(z) \/ JobCloses(z) \/ StopClears(z) PROVE TurnKinds
  <2>1. turn' = turn /\ pending' = pending /\ last' = last /\ wish' \in {wish, None}
    BY <1>16 DEF JobOpens, JobCloses, StopClears, Removes
  <2>2. QED
    BY <2>1
<1>17. ASSUME NEW z \in Jobs, JobRuns(z) PROVE TurnKinds
  <2>1. Runs(z) /\ z \in Sessions /\ pending' = pending /\ pending = None /\ wish' = wish /\ last' = last
    BY <1>0, <1>17 DEF JobRuns, MayBegin, Runs
  <2>2. QED
    BY <2>1
<1>18. QED
  <2> HIDE DEF TurnKinds
  <2>1. QED
    BY <1>1, <1>2, <1>3, <1>5, <1>6, <1>7, <1>8, <1>9, <1>10, <1>11, <1>12, <1>13, <1>14, <1>15,
       <1>16, <1>17 DEF MemoryNext, Logging

\* A session that is removed is not the one the user wants.
LEMMA WishStays ==
  ASSUME MemoryAssumption, SessionInv, [MemoryNext]_memoryVars, Moves, NEW s \in Existing
  PROVE  s \in Existing' \/ (s \in Jobs /\ wish' # s)
<1>1. ASSUME NEW z \in Jobs, Gone(z) PROVE s \in Existing' \/ (s \in Jobs /\ wish' # s)
  <2>1. Existing' = Existing \ {z} /\ wish' # z
    BY ZenonT(60), <1>1, ExistingMoves DEF Gone, Existing, MemoryAssumption
  <2>2. QED
    BY <2>1
<1>2. CASE Idles \/ Closed \/ (FilesStay /\ ReadFor) \/ PassReads
  BY <1>2, ExistingMoves, PassBegins DEF Idles, Closed, Begins
<1>3. CASE Stored \/ \E x \in Sessions : Opened(x) \/ Rewrites(x)
  BY <1>3, ExistingMoves
<1>4. QED
  BY <1>1, <1>2, <1>3 DEF Moves

LEMMA RouteStep ==
  ASSUME MemoryAssumption, SessionInv, [MemoryNext]_memoryVars, Moves
  PROVE  RouteInv' /\ ChoiceKept'
<1> USE DEF RouteInv, ChoiceKept
<1>0. /\ turn.at \in {"route", "run"} => pending = None
      /\ turn.at \in {"run", "log"} => turn.s \in Sessions
      /\ last \in Chats => last \in Existing
      /\ turn.at = "route" => turn.before \notin Chats
      /\ wish # None => wish \in Existing /\ ~(turn.at = "route" /\ turn.before = wish)
      /\ wish # None => last = wish
      /\ None \notin Sessions /\ Chats \cap Jobs = {} /\ Chats \subseteq Sessions
      /\ Existing \subseteq Sessions
      /\ turn \in [at : {"idle", "route", "run", "log"}, s : Sessions \cup {None},
                   before : Sessions \cup {None}, shown : SUBSET Sessions]
  BY DEF SessionInv, MemoryAssumption, Sessions, Existing, MemoryTypeOK
<1>1. \A s \in Existing : s \in Existing' \/ (s \in Jobs /\ wish' # s)
  BY WishStays
<1>2. CASE turn' = turn /\ pending' \in {pending, None} /\ last' = last /\ wish' \in {wish, None}
  BY <1>0, <1>1, <1>2
<1>3. CASE turn' = Idle /\ last' = last /\ wish' = wish /\ pending' \in Sessions \cup {None}
  <2>1. turn'.at = "idle"
    BY <1>3 DEF Idle
  <2>2. QED
    BY <1>0, <1>1, <1>3, <2>1
<1>4. ASSUME NEW s \in Sessions, Runs(s), pending' = pending, pending = None, wish' = wish,
             \/ last' = last
             \/ s \in Existing' /\ last' = s /\ turn.at = "route" /\ last = turn.before
             \/ s \in Existing' /\ last' = s /\ Existing = {}
      PROVE  RouteInv' /\ ChoiceKept'
  <2>1. turn'.at = "run" /\ turn'.s = s
    BY <1>4 DEF Runs, Idle
  <2>2. QED
    BY <1>0, <1>1, <1>4, <2>1
<1>5. CASE /\ turn' = [at |-> "route", s |-> None, before |-> last, shown |-> Existing]
           /\ pending = None /\ pending' = pending /\ last \notin Existing /\ last' = last /\ wish' = wish
  <2>1. turn'.at = "route" /\ turn'.before = last
    BY <1>5
  <2>2. QED
    BY <1>0, <1>1, <1>5, <2>1
<1>6. CASE turn.at = "run" /\ turn' = [turn EXCEPT !.at = "log"] /\ pending' = turn.s /\ last' = last /\ wish' = wish
  <2>1. turn'.at = "log" /\ turn'.s = turn.s
    BY <1>0, <1>6
  <2>2. QED
    BY <1>0, <1>1, <1>6, <2>1
<1>7. ASSUME NEW c \in Chats \ Existing, last' = c, wish' = c, turn' = turn, pending' = pending, c \in Existing'
      PROVE  RouteInv' /\ ChoiceKept'
  BY <1>0, <1>1, <1>7
<1>8. ASSUME NEW s \in Existing, last' = s, turn' = turn, pending' = pending, Existing' = Existing,
             wish' = IF Unseen(s) THEN None ELSE s
      PROVE  RouteInv' /\ ChoiceKept'
  BY <1>0, <1>8 DEF Unseen
<1>9. QED
  BY <1>2, <1>3, <1>4, <1>5, <1>6, <1>7, <1>8, TurnsMove DEF TurnKinds

\* What a pass has yet to write.
LEMMA PassStep ==
  ASSUME MemoryAssumption, SessionInv, [MemoryNext]_memoryVars, Moves
  PROVE  PassInv'
<1> USE DEF SessionInv
<1>0. /\ files \in [Sessions -> File \cup {None}] /\ Existing \subseteq Sessions
      /\ pass \in [at : {"idle", "due", "ask", "write"}, colony : SUBSET Facts, mem : Maps(SUBSET Facts)]
      /\ DOMAIN Memories = Existing /\ Chats \cap Jobs = {} /\ Chats \subseteq Sessions
  BY DEF MemoryTypeOK, Existing, Memories, MemoryAssumption, Sessions
\* A pass that is not writing, before and after.
<1>1. ASSUME pass.at # "write", pass'.at # "write", Chats \cap Existing \subseteq Existing',
             DOMAIN pass'.mem \subseteq DOMAIN pass.mem \/ DOMAIN pass'.mem \subseteq Existing,
             held' # None => held'.by # "colony"
      PROVE  PassInv'
  BY <1>1 DEF PassInv
\* A pass that writes, while another step changes the sessions.
<1>2. ASSUME pass.at = "write", pass' = pass, held' = held, colony' = colony,
             Chats \cap Existing \subseteq Existing', Jobs \cap Existing' \subseteq Existing,
             DOMAIN pass.mem \subseteq Existing' =>
               /\ Existing \subseteq Existing'
               /\ DOMAIN pass.mem \subseteq Existing
               /\ \A s \in Existing : files'[s] = files[s]
      PROVE  PassInv'
  <2>1. /\ Chats \cap DOMAIN pass'.mem \subseteq Existing'
        /\ pass'.at = "write" <=> held' # None /\ held'.by = "colony"
        /\ DOMAIN held'.lists \subseteq DOMAIN pass'.mem /\ Jobs \cap Existing' \subseteq DOMAIN pass'.mem
        /\ \A t \in DOMAIN held'.lists : Cardinality(held'.lists[t]) <= LongCap
    BY <1>2 DEF PassInv
  <2>2. ASSUME DOMAIN pass.mem \subseteq Existing', NEW t \in DOMAIN held.lists
        PROVE  /\ held.lists[t] \subseteq files'[t].long
               /\ files'[t].long \ held.lists[t] \subseteq held.drops \cup Elsewhere'
    <3>1. /\ held.lists[t] \subseteq files[t].long /\ files'[t] = files[t]
          /\ files[t].long \ held.lists[t] \subseteq held.drops \cup Elsewhere
      BY <1>2, <2>2 DEF PassInv
    <3>2. Elsewhere \subseteq Elsewhere'
      BY <1>2, <2>2 DEF Elsewhere
    <3>3. QED
      BY <3>1, <3>2
  <2>3. QED
    BY <1>2, <2>1, <2>2 DEF PassInv
<1>3. ASSUME pass.at # "write" PROVE held # None => held.by # "colony"
  BY <1>3 DEF PassInv
<1>4. ASSUME PassOn, pass.at # "write"
      PROVE  pass'.at # "write" /\ (DOMAIN pass'.mem \subseteq DOMAIN pass.mem \/ DOMAIN pass'.mem \subseteq Existing)
  BY <1>0, <1>4 DEF PassOn
<1>5. CASE Idles
  <2>1. Existing' = Existing /\ files' = files /\ held' = held
    BY <1>5, ExistingMoves DEF Idles, FilesStay
  <2>2. CASE pass.at = "write"
    BY <1>2, <1>5, <2>1, <2>2 DEF Idles, PassOn
  <2>3. CASE pass.at # "write"
    BY <1>1, <1>3, <1>4, <1>5, <2>1, <2>3 DEF Idles
  <2>4. QED
    BY <2>2, <2>3
<1>6. CASE Closed
  BY <1>6 DEF Closed, NoPass, PassInv
<1>7. CASE FilesStay /\ ReadFor
  <2>1. Existing' = Existing /\ pass' = pass /\ held = None /\ held'.by # "colony"
    BY <1>7, ExistingMoves DEF ReadFor
  <2>2. pass.at # "write"
    BY <2>1 DEF PassInv
  <2>3. QED
    BY <1>1, <2>1, <2>2
<1>8. CASE Stored
  <2>1. held' = None /\ PassOn /\ Existing \subseteq Existing' /\ pass.at # "write"
    BY <1>8, ExistingMoves DEF Stored, PassInv
  <2>2. QED
    BY <1>1, <1>4, <2>1
<1>9. ASSUME NEW s \in Sessions, Opened(s) PROVE PassInv'
  <2>1. /\ Existing' = Existing \cup {s} /\ s \notin Existing /\ pass' = pass /\ held' = held /\ colony' = colony
        /\ s \in Jobs => held = None
    BY <1>9, ExistingMoves DEF Opened
  <2>2. CASE pass.at # "write"
    BY <1>1, <1>3, <2>1, <2>2
  <2>3. CASE pass.at = "write"
    <3>1. s \in Chats /\ Chats \cap DOMAIN pass.mem \subseteq Existing
      BY <2>1, <2>3 DEF PassInv, Sessions
    <3>2. DOMAIN pass.mem \subseteq Existing' => DOMAIN pass.mem \subseteq Existing
      BY <2>1, <3>1
    <3>3. \A x \in Existing : files'[x] = files[x]
      <4>1. PICK name : files' = [files EXCEPT ![s] = Fresh(name)]
        BY <1>9 DEF Opened
      <4>2. QED
        BY <1>0, <2>1, <4>1
    <3>4. Jobs \cap Existing' \subseteq Existing
      BY <1>0, <2>1, <3>1
    <3>5. QED
      BY <1>2, <2>1, <2>3, <3>2, <3>3, <3>4
  <2>4. QED
    BY <2>2, <2>3
<1>10. ASSUME NEW z \in Jobs, Gone(z) PROVE PassInv'
  <2>1. /\ Existing' = Existing \ {z} /\ pass' = pass /\ held' = held /\ colony' = colony
        /\ files' = [files EXCEPT ![z] = None] /\ z \in Sessions /\ z \notin Chats
    BY <1>0, <1>10, ExistingMoves DEF Gone
  <2>2. CASE pass.at # "write"
    BY <1>1, <1>3, <2>1, <2>2
  <2>3. CASE pass.at = "write"
    <3>1. z \in Existing => z \in DOMAIN pass.mem
      BY <2>3 DEF PassInv
    <3>2. DOMAIN pass.mem \subseteq Existing' => z \notin Existing /\ Existing' = Existing
      BY <2>1, <3>1
    <3>3. z \notin Existing => \A s \in Existing : files'[s] = files[s]
      BY <1>0, <2>1
    <3>4. QED
      BY <1>2, <2>1, <2>3, <3>2, <3>3
  <2>4. QED
    BY <2>2, <2>3
<1>11. ASSUME NEW s \in Sessions, Rewrites(s) PROVE PassInv'
  <2> DEFINE rest == [x \in DOMAIN held.lists \ {s} |-> held.lists[x]]
  <2>1. /\ pass.at = "write" /\ s \in DOMAIN held.lists /\ pass' = pass /\ colony' = colony
        /\ held' = [by |-> "colony", drops |-> held.drops, lists |-> rest] /\ held' \in Holding
        /\ Existing' = Existing
        /\ s \in Existing => files' = [files EXCEPT ![s].long = held.lists[s]]
    BY <1>11, RewriteParts, ExistingMoves
  <2>2. /\ held'.by = "colony" /\ held'.drops = held.drops /\ held'.lists = rest
        /\ DOMAIN rest = DOMAIN held.lists \ {s} /\ \A x \in DOMAIN rest : rest[x] = held.lists[x]
    BY <2>1
  <2>3. held' # None
    BY <2>1 DEF MemoryAssumption
  <2> HIDE DEF rest
  <2>4. /\ DOMAIN held.lists \subseteq DOMAIN pass.mem /\ Jobs \cap Existing \subseteq DOMAIN pass.mem
        /\ Chats \cap DOMAIN pass.mem \subseteq Existing
        /\ \A t \in DOMAIN held.lists : Cardinality(held.lists[t]) <= LongCap
    BY <2>1 DEF PassInv
  <2>5. ASSUME DOMAIN pass.mem \subseteq Existing, NEW t \in DOMAIN rest
        PROVE  /\ rest[t] \subseteq files'[t].long
               /\ files'[t].long \ rest[t] \subseteq held.drops \cup Elsewhere'
    <3>1. /\ rest[t] \subseteq files[t].long /\ rest[t] = held.lists[t]
          /\ files[t].long \ rest[t] \subseteq held.drops \cup Elsewhere
          /\ s \in Existing /\ t # s /\ t \in Existing
      BY <2>1, <2>2, <2>4, <2>5 DEF PassInv
    <3>2. /\ files'[s].long = held.lists[s]
          /\ \A x \in Existing \ {s} : files'[x] = files[x]
      <4>1. files[s] \in File /\ files' = [files EXCEPT ![s].long = held.lists[s]]
        BY <2>1, <3>1, LongFits
      <4>2. files'[s] = [files[s] EXCEPT !.long = held.lists[s]]
        BY <1>0, <3>1, <4>1
      <4>3. QED
        BY <1>0, <3>1, <4>1, <4>2 DEF File
    <3>3. Elsewhere \subseteq Elsewhere'
      <4> SUFFICES ASSUME NEW x \in Elsewhere PROVE x \in Elsewhere'
        OBVIOUS
      <4>1. CASE x \in colony
        BY <2>1, <4>1 DEF Elsewhere
      <4>2. ASSUME NEW u \in Existing \ DOMAIN held.lists, x \in files[u].long PROVE x \in Elsewhere'
        <5>1. u \in Existing' \ DOMAIN held'.lists /\ files'[u] = files[u]
          BY <2>1, <2>2, <3>2, <4>2
        <5>2. QED
          BY <4>2, <5>1 DEF Elsewhere
      <4>3. ASSUME NEW u \in DOMAIN held.lists, u # s, x \in held.lists[u] PROVE x \in Elsewhere'
        <5>1. u \in DOMAIN held'.lists /\ held'.lists[u] = held.lists[u]
          BY <2>2, <4>3
        <5>2. QED
          BY <4>3, <5>1 DEF Elsewhere
      <4>4. CASE x \in held.lists[s]
        <5>1. s \in Existing' \ DOMAIN held'.lists /\ x \in files'[s].long
          BY <2>1, <2>2, <3>1, <3>2, <4>4
        <5>2. QED
          BY <5>1 DEF Elsewhere
      <4>5. QED
        BY <4>1, <4>2, <4>3, <4>4 DEF Elsewhere
    <3>4. files'[t] = files[t]
      BY <3>1, <3>2
    <3>5. QED
      BY <3>1, <3>3, <3>4
  <2>6. \A t \in DOMAIN rest : Cardinality(rest[t]) <= LongCap
    BY <2>2, <2>4
  <2>7. DOMAIN rest \subseteq DOMAIN pass.mem
    BY <2>2, <2>4
  <2>8. QED
    BY <2>1, <2>2, <2>3, <2>4, <2>5, <2>6, <2>7 DEF PassInv
<1>12. CASE PassReads
  <2>1. PICK full \in SUBSET Existing, complete \in BOOLEAN, C \in SUBSET Facts :
             \E P \in [full -> SUBSET Facts] : Begins(full, P, complete, C)
    BY <1>12, PassBegins
  <2>2. PICK P \in [full -> SUBSET Facts] : Begins(full, P, complete, C)
    BY <2>1
  <2> DEFINE drops == ((UNION {files[s].long : s \in full}) \cup (IF complete THEN colony ELSE {}))
                        \ (C \cup UNION {P[s] : s \in full})
  <2>3. /\ held' = [by |-> "colony", lists |-> P, drops |-> drops] /\ pass' = [pass EXCEPT !.at = "write"]
        /\ DOMAIN pass.mem = Existing /\ Existing' = Existing /\ files' = files
        /\ \A s \in full : P[s] \subseteq files[s].long
        /\ C \subseteq colony' /\ DOMAIN P = full
    BY <2>2, ExistingMoves DEF Begins, FilesStay
  <2>4. \A s \in full : files[s].long \ P[s] \subseteq drops \cup C \cup UNION {P[x] : x \in full}
    OBVIOUS
  <2>5. held' # None
    <3>1. P \in Maps(SUBSET Facts)
      BY <1>0 DEF Maps
    <3>2. drops \in SUBSET Facts
      <4>1. \A s \in full : files[s].long \subseteq Facts
        BY LongFits
      <4>2. colony \subseteq Facts
        BY DEF MemoryTypeOK
      <4>3. QED
        BY <4>1, <4>2
    <3> HIDE DEF drops
    <3>3. held' \in Holding
      BY <2>3, <3>1, <3>2 DEF Holding
    <3>4. QED
      BY <3>3 DEF MemoryAssumption
  <2> HIDE DEF drops
  <2>6. /\ held'.by = "colony" /\ held'.lists = P /\ held'.drops = drops
        /\ pass'.at = "write" /\ pass'.mem = pass.mem
    BY <1>0, <2>3
  <2>7. C \cup UNION {P[x] : x \in full} \subseteq Elsewhere'
    BY <2>3, <2>6 DEF Elsewhere
  <2>8. \A s \in full : Cardinality(P[s]) <= LongCap
    <3> TAKE s \in full
    <3>1. files[s].long \in SUBSET Facts /\ Cardinality(files[s].long) <= LongCap
      BY LongFits
    <3>2. IsFiniteSet(files[s].long)
      BY <3>1, FS_Subset DEF MemoryAssumption
    <3>3. Cardinality(P[s]) <= Cardinality(files[s].long) /\ IsFiniteSet(P[s])
      BY <2>3, <3>2, FS_Subset
    <3>4. Cardinality(P[s]) \in Nat /\ Cardinality(files[s].long) \in Nat /\ LongCap \in Nat
      BY <3>2, <3>3, FS_CardinalityType DEF MemoryAssumption
    <3>5. QED
      BY <3>1, <3>3, <3>4
  <2>9. \A s \in full : files'[s].long \ P[s] \subseteq held'.drops \cup Elsewhere'
    BY <2>3, <2>4, <2>6, <2>7
  <2>10. QED
    BY <2>3, <2>5, <2>6, <2>8, <2>9 DEF PassInv
<1>13. QED
  BY <1>5, <1>6, <1>7, <1>8, <1>9, <1>10, <1>11, <1>12 DEF Moves

\* A pass that begins to write holds what it will write.
LEMMA BegunHolds ==
  ASSUME MemoryAssumption, SessionInv, PassReads
  PROVE  held' \in Holding
<1>1. PICK full \in SUBSET Existing, complete \in BOOLEAN, C \in SUBSET Facts :
           \E P \in [full -> SUBSET Facts] : Begins(full, P, complete, C)
  BY PassBegins
<1>2. PICK P \in [full -> SUBSET Facts] : Begins(full, P, complete, C)
  BY <1>1
<1> DEFINE drops == ((UNION {files[s].long : s \in full}) \cup (IF complete THEN colony ELSE {}))
                      \ (C \cup UNION {P[s] : s \in full})
<1>3. held' = [by |-> "colony", lists |-> P, drops |-> drops]
  BY <1>2 DEF Begins
<1>4. P \in Maps(SUBSET Facts)
  BY DEF Maps, Existing
<1>5. drops \in SUBSET Facts
  <2>1. \A s \in full : files[s].long \subseteq Facts
    BY LongFits
  <2>2. colony \subseteq Facts
    BY DEF SessionInv, MemoryTypeOK
  <2>3. QED
    BY <2>1, <2>2
<1> HIDE DEF drops
<1>6. QED
  BY <1>3, <1>4, <1>5 DEF Holding

\* The files, the colony and the writer stay typed.
LEMMA FilesType ==
  ASSUME MemoryAssumption, SessionInv, Moves
  PROVE  /\ files' \in [Sessions -> File \cup {None}] /\ said' \in [Sessions -> Nat]
         /\ colony' \in SUBSET Facts /\ held' \in Holding \cup {None}
<1>0. /\ files \in [Sessions -> File \cup {None}] /\ said \in [Sessions -> Nat]
      /\ colony \in SUBSET Facts /\ held \in Holding \cup {None}
  BY DEF SessionInv, MemoryTypeOK
<1>1. CASE Idles \/ Closed \/ (FilesStay /\ ReadFor)
  BY <1>0, <1>1 DEF Idles, Closed, FilesStay, ReadFor, PassOn
<1>2. CASE Stored
  <2>1. held.s \in Sessions /\ held.data \in File /\ Own(held.by) \in Nat
    BY <1>0, <1>2 DEF Stored, Holding, Own
  <2>2. QED
    BY <1>0, <1>2, <2>1 DEF Stored, PassOn
<1>3. CASE PassReads
  <2>1. files' = files /\ said' = said /\ colony' \in SUBSET Facts
    BY <1>3, PassBegins DEF Begins, FilesStay
  <2>2. QED
    BY <1>0, <1>3, <2>1, BegunHolds
<1>4. ASSUME NEW s \in Sessions, Opened(s)
      PROVE  /\ files' \in [Sessions -> File \cup {None}] /\ said' = said
             /\ colony' = colony /\ held' = held
  BY <1>0, <1>4, FreshCovers DEF Opened
<1>5. ASSUME NEW s \in Sessions, Rewrites(s)
      PROVE  /\ files' \in [Sessions -> File \cup {None}] /\ said' = said
             /\ colony' = colony /\ held' \in Holding
  <2>1. /\ held' \in Holding /\ said' = said /\ colony' = colony /\ pass.at = "write" /\ s \in DOMAIN held.lists
        /\ s \in Existing => files' = [files EXCEPT ![s].long = held.lists[s]]
        /\ s \notin Existing => files' = files
    BY <1>5, RewriteParts
  <2>2. held.lists[s] \in SUBSET Facts
    BY <2>1, ListsParts
  <2>3. s \in Existing => [files[s] EXCEPT !.long = held.lists[s]] \in File
    BY <2>2, LongFits DEF File
  <2>4. QED
    BY <1>0, <2>1, <2>3
<1>6. ASSUME NEW z \in Jobs, Gone(z)
      PROVE  /\ files' \in [Sessions -> File \cup {None}] /\ said' = said
             /\ colony' = colony /\ held' = held
  BY <1>0, <1>6 DEF Gone
<1>7. QED
  BY <1>0, <1>1, <1>2, <1>3, <1>4, <1>5, <1>6 DEF Moves

\* The turn, its log and the sessions of the user stay typed.
LEMMA TurnType ==
  ASSUME MemoryAssumption, SessionInv, [MemoryNext]_memoryVars
  PROVE  /\ last' \in Sessions \cup {None} /\ pending' \in Sessions \cup {None}
         /\ wish' \in Sessions \cup {None}
         /\ turn' \in [at : {"idle", "route", "run", "log"}, s : Sessions \cup {None},
                       before : Sessions \cup {None}, shown : SUBSET Sessions]
<1>0. /\ last \in Sessions \cup {None} /\ pending \in Sessions \cup {None} /\ wish \in Sessions \cup {None}
      /\ turn \in [at : {"idle", "route", "run", "log"}, s : Sessions \cup {None},
                   before : Sessions \cup {None}, shown : SUBSET Sessions]
      /\ Existing \subseteq Sessions /\ Chats \subseteq Sessions
      /\ turn.at \in {"run", "log"} => turn.s \in Sessions
  BY DEF SessionInv, MemoryTypeOK, Existing, Sessions, RouteInv
<1>1. ASSUME NEW s \in Sessions, Runs(s)
      PROVE  turn' \in [at : {"idle", "route", "run", "log"}, s : Sessions \cup {None},
                        before : Sessions \cup {None}, shown : SUBSET Sessions]
  BY <1>1 DEF Runs, Idle
<1>2. Idle \in [at : {"idle", "route", "run", "log"}, s : Sessions \cup {None},
               before : Sessions \cup {None}, shown : SUBSET Sessions]
  BY DEF Idle
<1>3. [turn EXCEPT !.at = "log"]
        \in [at : {"idle", "route", "run", "log"}, s : Sessions \cup {None},
             before : Sessions \cup {None}, shown : SUBSET Sessions]
  BY <1>0
<1>4. /\ last' \in Sessions \cup {None} /\ pending' \in Sessions \cup {None}
      /\ wish' \in Sessions \cup {None}
  BY <1>0, TurnsMove DEF TurnKinds
<1>5. turn' \in [at : {"idle", "route", "run", "log"}, s : Sessions \cup {None},
                before : Sessions \cup {None}, shown : SUBSET Sessions]
  <2>1. CASE turn' = [at |-> "route", s |-> None, before |-> last, shown |-> Existing]
    BY <1>0, <2>1
  <2>2. QED
    BY <1>0, <1>1, <1>2, <1>3, <2>1, TurnsMove DEF TurnKinds
<1>6. QED
  BY <1>4, <1>5

\* So does the upkeep.
LEMMA UpkeepType ==
  ASSUME MemoryAssumption, SessionInv, [MemoryNext]_memoryVars
  PROVE  /\ mlock' \in Sessions \cup {"colony", None}
         /\ pipe' \in [Sessions -> [at : {"idle", "compact", "ask", "title", "name"}, snap : File \cup {None}]]
         /\ pass' \in [at : {"idle", "due", "ask", "write"}, colony : SUBSET Facts, mem : Maps(SUBSET Facts)]
<1> DEFINE P == [at : {"idle", "compact", "ask", "title", "name"}, snap : File \cup {None}]
           C == [at : {"idle", "due", "ask", "write"}, colony : SUBSET Facts, mem : Maps(SUBSET Facts)]
           Goal == mlock' \in Sessions \cup {"colony", None} /\ pipe' \in [Sessions -> P] /\ pass' \in C
<1> SUFFICES Goal
  OBVIOUS
<1>0. /\ mlock \in Sessions \cup {"colony", None} /\ pipe \in [Sessions -> P] /\ pass \in C
      /\ colony \in SUBSET Facts /\ \A s \in Existing : files[s] \in File
  BY LongFits DEF SessionInv, MemoryTypeOK
<1>1. NoPipe \in P /\ \A v \in {"idle", "compact", "ask", "title", "name"} : [NoPipe EXCEPT !.at = v] \in P
  BY DEF NoPipe
<1>2. <<>> \in Maps(SUBSET Facts) /\ NoPass \in C
  <2>1. <<>> \in [{} -> SUBSET Facts]
    OBVIOUS
  <2>2. QED
    BY <2>1 DEF Maps, NoPass
<1>3. Memories \in Maps(SUBSET Facts)
  <2>1. Memories \in [Existing -> SUBSET Facts] /\ Existing \in SUBSET Sessions
    BY LongFits DEF Memories, Existing
  <2>2. QED
    BY <2>1 DEF Maps
<1> HIDE DEF P, C
<1>4. ASSUME UNCHANGED <<mlock, pipe>>, pass' \in C PROVE Goal
  BY <1>0, <1>4
<1>5. ASSUME NEW s \in Sessions, NEW v \in P, pipe' = [pipe EXCEPT ![s] = v],
             mlock' \in {mlock, s, None}, pass' \in C
      PROVE  Goal
  BY <1>0, <1>5
<1>6. \A v \in {"idle", "due", "ask", "write"} : [pass EXCEPT !.at = v] \in C
  BY <1>0 DEF C
<1>7. CASE \/ UNCHANGED memoryVars \/ Resumes \/ TurnRoutes \/ Opens \/ RouterAnswers \/ TurnAnswers \/ Logging
           \/ StopsTurn \/ \E s \in Sessions : NoteReads(s) \/ SwitchSession(s) \/ CompactReads(s) \/ TitleReads(s)
           \/ \E c \in Chats : NewSession(c)
           \/ \E z \in Jobs : JobOpens(z) \/ JobRuns(z) \/ JobCloses(z) \/ StopClears(z)
  <2>1. UNCHANGED <<mlock, pipe, pass>>
    <3> USE DEF upkeep, actors
    <3>1. CASE UNCHANGED memoryVars \/ Resumes \/ TurnRoutes \/ Opens \/ RouterAnswers \/ TurnAnswers \/ StopsTurn
      BY <3>1 DEF memoryVars, Resumes, TurnRoutes, Opens, RouterAnswers, TurnAnswers, StopsTurn, BeginRest
    <3>2. CASE Logging
      BY SMTT(30), <3>2 DEF Logging, LogReads, LogMissed, LogSaved, NoteSaved, LogRest
    <3>3. CASE \E s \in Sessions : NoteReads(s) \/ SwitchSession(s) \/ CompactReads(s) \/ TitleReads(s)
      BY <3>3 DEF NoteReads, SwitchSession, CompactReads, TitleReads
    <3>4. CASE \E c \in Chats : NewSession(c)
      BY <3>4 DEF NewSession
    <3>5. CASE \E z \in Jobs : JobOpens(z) \/ JobRuns(z) \/ JobCloses(z) \/ StopClears(z)
      BY <3>5 DEF JobOpens, JobRuns, JobCloses, StopClears, JobRest
    <3>6. QED
      BY <1>7, <3>1, <3>2, <3>3, <3>4, <3>5
  <2>2. QED
    BY <1>0, <1>4, <2>1
<1>8. CASE ColonyNow \/ Pass
  <2>1. pipe' = pipe /\ mlock' \in {mlock, "colony", None}
    BY <1>8 DEF ColonyNow, Pass, PassLooks, PassClears, PassReads, PassFails, Rewrites, PassEnds,
      PassRest, PassOver
  <2>2. pass' \in C
    <3>1. \/ pass' \in {pass, NoPass, [at |-> "ask", colony |-> colony, mem |-> Memories]}
          \/ \E v \in {"due", "write"} : pass' = [pass EXCEPT !.at = v]
      BY <1>8 DEF ColonyNow, Pass, PassLooks, PassClears, PassReads, PassFails, Rewrites, PassEnds, PassOver
    <3>2. [at |-> "ask", colony |-> colony, mem |-> Memories] \in C
      BY <1>0, <1>3 DEF C
    <3>3. QED
      BY <1>0, <1>2, <1>6, <3>1, <3>2
  <2>3. QED
    BY <1>0, <2>1, <2>2
<1>9. CASE Crashes
  BY <1>1, <1>2, <1>9 DEF Crashes
<1>10. ASSUME NEW s \in Sessions, Upkeep(s), ~CompactReads(s), ~TitleReads(s) PROVE Goal
  <2>1. ASSUME NEW v \in {"idle", "compact", "ask", "title", "name"}, Goes(s, v),
               mlock' \in {mlock, s, None}, pass' \in C
        PROVE  Goal
    BY <1>1, <1>5, <2>1 DEF Goes
  <2>2. ASSUME UpkeepEnds(s), mlock' = mlock, pass' = pass PROVE Goal
    BY <1>0, <1>1, <1>5, <2>2 DEF UpkeepEnds
  <2>3. CASE UpkeepBegins(s) \/ CompactFails(s)
    BY <1>0, <2>1, <2>3 DEF UpkeepBegins, CompactFails, Frees
  <2>4. CASE CompactLooks(s)
    <3>1. CASE Goes(s, "title") /\ mlock' = mlock
      BY <1>0, <2>1, <2>4, <3>1 DEF CompactLooks
    <3>2. CASE s \in Existing /\ mlock' = s /\ pipe' = [pipe EXCEPT ![s] = [at |-> "ask", snap |-> files[s]]]
      <4>1. [at |-> "ask", snap |-> files[s]] \in P
        BY <1>0, <3>2 DEF P
      <4>2. QED
        BY <1>0, <1>5, <2>4, <3>2, <4>1 DEF CompactLooks
    <3>3. QED
      BY <2>4, <3>1, <3>2 DEF CompactLooks
  <2>5. CASE CompactWritten(s)
    <3>1. pass' \in C
      BY <1>0, <1>6, <2>5 DEF CompactWritten
    <3>2. QED
      BY <2>1, <2>5, <3>1 DEF CompactWritten
  <2>6. CASE TitleLooks(s)
    BY <1>0, <2>1, <2>2, <2>6 DEF TitleLooks
  <2>7. CASE TitleFails(s) \/ TitleWritten(s)
    BY <2>2, <2>7 DEF TitleFails, TitleWritten
  <2>8. QED
    BY <1>10, <2>3, <2>4, <2>5, <2>6, <2>7 DEF Upkeep
<1>11. QED
  <2> HIDE DEF Goal
  <2>1. CASE \E s \in Sessions : Upkeep(s)
    BY <1>7, <1>10, <2>1
  <2>2. QED
    BY <1>7, <1>8, <1>9, <2>1 DEF MemoryNext

LEMMA MemoryTypeStep ==
  ASSUME MemoryAssumption, SessionInv, [MemoryNext]_memoryVars, Moves
  PROVE  MemoryTypeOK'
BY JobMoves, FilesType, TurnType, UpkeepType DEF MemoryTypeOK

\* An empty workspace, or one with a full session, begins right.
LEMMA MemoryBegins ==
  ASSUME MemoryAssumption, MemoryInit
  PROVE  SessionInv
<1>1. PICK s \in Chats, L \in SUBSET Facts :
        /\ Cardinality(L) = LongCap
        /\ files \in {[x \in Sessions |-> None],
                      [x \in Sessions |-> IF x = s THEN [Fresh("named") EXCEPT !.long = L] ELSE None]}
  BY DEF MemoryInit
<1>2. Fresh("named") \in File /\ Covers(Fresh("named"), 0)
  BY FreshCovers
<1> DEFINE g == [Fresh("named") EXCEPT !.long = L]
<1>3. g \in File /\ g # None /\ Covers(g, 0)
  <2>1. LongCap \in Nat
    BY DEF MemoryAssumption
  <2>2. g \in File /\ Covers(g, 0)
    BY <1>1, <1>2, <2>1 DEF Covers, File
  <2>3. QED
    BY <2>2 DEF MemoryAssumption
<1> HIDE DEF g
<1>4. /\ files \in [Sessions -> File \cup {None}] /\ s \in Sessions
      /\ \A x \in Existing : x = s /\ files[x] = g
  BY <1>1, <1>3 DEF Existing, Sessions, g
<1>5. /\ colony = {} /\ last \in {None} \cup Existing /\ held = None /\ mlock = None /\ turn = Idle
      /\ pending = None /\ jobs = [z \in Jobs |-> "none"]
      /\ pipe = [x \in Sessions |-> NoPipe] /\ pass = NoPass
      /\ said = [x \in Sessions |-> 0] /\ wish = None
  BY DEF MemoryInit
<1>6. Existing \subseteq Chats /\ Existing \subseteq Sessions /\ Chats \cap Jobs = {}
  BY <1>4 DEF MemoryAssumption
<1>7. MemoryTypeOK
  <2>1. pass \in [at : {"idle", "due", "ask", "write"}, colony : SUBSET Facts, mem : Maps(SUBSET Facts)]
    <3>1. <<>> \in [{} -> SUBSET Facts]
      OBVIOUS
    <3>2. QED
      BY <1>5, <3>1 DEF NoPass, Maps
  <2>2. turn \in [at : {"idle", "route", "run", "log"}, s : Sessions \cup {None},
                  before : Sessions \cup {None}, shown : SUBSET Sessions]
    BY <1>5 DEF Idle
  <2>3. pipe \in [Sessions -> [at : {"idle", "compact", "ask", "title", "name"}, snap : File \cup {None}]]
    BY <1>5 DEF NoPipe
  <2>4. QED
    BY <1>4, <1>5, <1>6, <2>1, <2>2, <2>3 DEF MemoryTypeOK
<1>8. HistoryKept
  <2>1. Cardinality(colony) <= ColonyCap
    BY <1>5, FS_EmptySet DEF MemoryAssumption
  <2>2. \A x \in Existing : Covers(files[x], said[x])
    BY <1>3, <1>4, <1>5
  <2>3. QED
    BY <2>1, <2>2 DEF HistoryKept
<1>9. ChoiceKept /\ WriterInv
  BY <1>5 DEF ChoiceKept, WriterInv
<1>10. BegunInv
  BY <1>5, <1>6 DEF BegunInv
<1>11. RouteInv
  BY <1>5, <1>6 DEF RouteInv, Idle, MemoryAssumption, Sessions
<1>12. PassInv
  BY <1>5 DEF PassInv, NoPass
<1>13. QED
  BY <1>7, <1>8, <1>9, <1>10, <1>11, <1>12 DEF SessionInv

\* Every message stays in its session or in what a summary covers, and the
\* session the user chose last is where the next turn goes.
THEOREM SessionCorrect == MemorySpec => []SessionInv
<1>1. MemoryInit => SessionInv
  BY MemoryBegins, MemoryAssumption
<1>2. SessionInv /\ [MemoryNext]_memoryVars => SessionInv'
  <2> SUFFICES ASSUME SessionInv, [MemoryNext]_memoryVars PROVE SessionInv'
    OBVIOUS
  <2>1. Moves
    BY StepMoves, MemoryAssumption
  <2>2. QED
    BY <2>1, MemoryAssumption, MemoryTypeStep, HistoryStep, WriterStep, BegunStep, RouteStep,
      PassStep DEF SessionInv
<1>3. QED
  BY <1>1, <1>2, PTL DEF MemorySpec

\* A step of a writer, or of the colony, keeps the facts it does not drop.
LEMMA FactsStep ==
  ASSUME MemoryAssumption, SessionInv, [MemoryNext]_memoryVars, Moves
  PROVE  \/ Memory \ Memory' \subseteq Dropped
         \/ ~(Existing \subseteq Existing') \/ Existing = {}
         \/ pass.at = "write" /\ ~(DOMAIN pass.mem \subseteq Existing)
<1> SUFFICES ASSUME Existing \subseteq Existing', Existing # {},
                    pass.at = "write" => DOMAIN pass.mem \subseteq Existing,
                    NEW f \in Memory, f \notin Memory', f \notin Dropped
             PROVE  FALSE
  OBVIOUS
<1>0. files \in [Sessions -> File \cup {None}] /\ Existing \subseteq Sessions
  BY DEF SessionInv, MemoryTypeOK, Existing
<1>1. f \in colony \/ \E s \in Existing : f \in files[s].long
  BY DEF Memory
<1>2. f \notin colony' /\ \A s \in Existing : f \notin files'[s].long
  BY DEF Memory
<1>3. (held # None => f \notin held.drops) /\ (held' # None => f \notin held'.drops)
  BY DEF Dropped
<1>4. CASE Idles \/ Closed \/ (FilesStay /\ ReadFor)
  BY <1>1, <1>2, <1>4 DEF Idles, Closed, FilesStay, ReadFor, PassOn
<1>5. CASE Stored
  <2>1. held # None /\ held.by # "colony" /\ held.s \in Sessions /\ colony' = colony
    BY <1>5, ExistingMoves DEF Stored, PassOn
  <2>2. held.s \in Existing => files[held.s].long \ held.data.long \subseteq held.drops
    BY <2>1 DEF SessionInv, WriterInv
  <2>3. files'[held.s] = held.data /\ \A s \in Existing \ {held.s} : files'[s] = files[s]
    BY <1>0, <1>5, <2>1 DEF Stored
  <2>4. QED
    BY <1>1, <1>2, <1>3, <2>1, <2>2, <2>3
<1>6. CASE PassReads
  <2>1. PICK full \in SUBSET Existing, complete \in BOOLEAN, C \in SUBSET Facts :
             \E P \in [full -> SUBSET Facts] : Begins(full, P, complete, C)
    BY <1>6, PassBegins
  <2>2. PICK P \in [full -> SUBSET Facts] : Begins(full, P, complete, C)
    BY <2>1
  <2> DEFINE drops == ((UNION {files[s].long : s \in full}) \cup (IF complete THEN colony ELSE {}))
                        \ (C \cup UNION {P[s] : s \in full})
  <2>3. /\ held' = [by |-> "colony", lists |-> P, drops |-> drops] /\ files' = files
        /\ \A s \in full : P[s] \subseteq files[s].long
        /\ C \subseteq colony' /\ (colony \subseteq colony' \/ complete)
    BY <2>2 DEF Begins, FilesStay
  <2>4. held' # None
    BY <1>6, BegunHolds DEF MemoryAssumption
  <2>5. f \in colony /\ complete
    BY <1>1, <1>2, <2>3
  <2>6. f \notin drops
    BY <1>3, <2>3, <2>4
  <2>7. f \in C \/ \E s \in full : f \in P[s]
    BY <2>5, <2>6
  <2> HIDE DEF drops
  <2>8. QED
    BY <1>2, <2>3, <2>7
<1>7. ASSUME NEW s \in Sessions, Opened(s) PROVE FALSE
  <2>1. PICK name : files' = [files EXCEPT ![s] = Fresh(name)]
    BY <1>7 DEF Opened
  <2>2. s \notin Existing /\ colony' = colony /\ \A x \in Existing : files'[x] = files[x]
    BY <1>0, <1>7, <2>1 DEF Opened
  <2>3. QED
    BY <1>1, <1>2, <2>2
<1>8. ASSUME NEW z \in Jobs, Gone(z) PROVE FALSE
  <2>0. Existing' = Existing \ {z} /\ Existing \subseteq Existing'
    BY <1>8, ExistingMoves
  <2>1. z \notin Existing /\ colony' = colony /\ files' = [files EXCEPT ![z] = None]
    BY <1>8, <2>0 DEF Gone
  <2>2. \A s \in Existing : files'[s] = files[s]
    BY <1>0, <2>1
  <2>3. QED
    BY <1>1, <1>2, <2>1, <2>2
<1>9. ASSUME NEW s \in Sessions, Rewrites(s) PROVE FALSE
  <2>1. /\ pass.at = "write" /\ s \in DOMAIN held.lists /\ colony' = colony
        /\ held # None /\ DOMAIN held.lists \subseteq DOMAIN pass.mem
    BY <1>9, RewriteParts, ListsParts DEF SessionInv, PassInv
  <2>2. /\ DOMAIN held.lists \subseteq Existing /\ s \in Existing
        /\ \A t \in DOMAIN held.lists :
             /\ held.lists[t] \subseteq files[t].long
             /\ files[t].long \ held.lists[t] \subseteq held.drops \cup Elsewhere
    BY <2>1 DEF SessionInv, PassInv
  <2>3. files[s] \in File /\ files' = [files EXCEPT ![s].long = held.lists[s]]
    BY <1>9, <2>2, RewriteParts, LongFits
  <2>4. /\ files'[s] = [files[s] EXCEPT !.long = held.lists[s]]
        /\ \A x \in Existing \ {s} : files'[x] = files[x]
    BY <1>0, <2>2, <2>3
  <2>5. files'[s].long = held.lists[s]
    BY <2>3, <2>4 DEF File
  <2>6. f \in files[s].long /\ f \notin held.lists[s]
    BY <1>1, <1>2, <2>1, <2>2, <2>4, <2>5
  <2>7. f \in Elsewhere
    BY <1>3, <2>1, <2>2, <2>6
  <2>8. CASE f \in colony
    BY <1>2, <2>1, <2>8
  <2>9. ASSUME NEW t \in Existing \ DOMAIN held.lists, f \in files[t].long PROVE FALSE
    BY <1>2, <2>1, <2>4, <2>9
  <2>10. ASSUME NEW t \in DOMAIN held.lists, f \in held.lists[t] PROVE FALSE
    <3>1. t # s /\ t \in Existing /\ f \in files[t].long
      BY <2>2, <2>6, <2>10
    <3>2. QED
      BY <1>2, <2>4, <3>1
  <2>11. QED
    BY <2>7, <2>8, <2>9, <2>10 DEF Elsewhere
<1>10. QED
  BY <1>4, <1>5, <1>6, <1>7, <1>8, <1>9 DEF Moves

\* No fact is lost but by the answer of a model that was shown it, for want of
\* room in a full list, or with its session.
THEOREM FactsCorrect == MemorySpec => FactsKept
<1> DEFINE A == \/ Memory \ Memory' \subseteq Dropped
                \/ ~(Existing \subseteq Existing') \/ Existing = {}
                \/ pass.at = "write" /\ ~(DOMAIN pass.mem \subseteq Existing)
<1>1. SessionInv /\ [MemoryNext]_memoryVars => [A]_memoryVars
  BY StepMoves, FactsStep, MemoryAssumption
<1>2. MemorySpec => []SessionInv
  BY SessionCorrect
<1>3. FactsKept <=> [][A]_memoryVars
  BY DEF FactsKept
<1> HIDE DEF A
<1>4. QED
  BY <1>1, <1>2, <1>3, PTL DEF MemorySpec

-------------------------------------------------------------------------------
(* A job of the flexible agent.                                            *)

\* Positions are counted without gaps or repetitions.
LEMMA Ranks ==
  ASSUME NEW P \in SUBSET Nat, IsFiniteSet(P)
  PROVE  /\ Cardinality(P) \in Nat
         /\ \A i \in Nat : Rank(P, i) \in 0..Cardinality(P)
         /\ \A i, j \in Nat : i <= j => Rank(P, i) <= Rank(P, j)
         /\ \A i \in P : Rank(P, i) >= 1 /\ Nth(P, Rank(P, i)) = i
         /\ \A k \in 1..Cardinality(P) : Nth(P, k) \in P /\ Rank(P, Nth(P, k)) = k
<1> DEFINE below(i) == {j \in P : j <= i}
<1>1. \A i : IsFiniteSet(below(i)) /\ Cardinality(below(i)) <= Cardinality(P)
  BY FS_Subset
<1>2. Cardinality(P) \in Nat /\ \A i : Cardinality(below(i)) \in Nat
  BY <1>1, FS_CardinalityType
<1>3. \A i, j \in Nat : i <= j => Cardinality(below(i)) <= Cardinality(below(j))
  <2> SUFFICES ASSUME NEW i \in Nat, NEW j \in Nat, i <= j
               PROVE  Cardinality(below(i)) <= Cardinality(below(j))
    OBVIOUS
  <2>1. below(i) \subseteq below(j)
    <3> SUFFICES ASSUME NEW k \in P, k <= i PROVE k <= j
      OBVIOUS
    <3> QED
      OBVIOUS
  <2>2. QED
    BY <2>1, <1>1, FS_Subset
<1>4. \A i, j \in P : i < j => Cardinality(below(i)) < Cardinality(below(j))
  <2> SUFFICES ASSUME NEW i \in P, NEW j \in P, i < j
               PROVE  Cardinality(below(i)) < Cardinality(below(j))
    OBVIOUS
  <2> i \in Nat /\ j \in Nat
    OBVIOUS
  <2>1. below(i) \subseteq below(j)
    <3> SUFFICES ASSUME NEW k \in P, k <= i PROVE k <= j
      OBVIOUS
    <3> QED
      OBVIOUS
  <2>a. j \in below(j) /\ j \notin below(i)
    OBVIOUS
  <2>2. Cardinality(below(i)) <= Cardinality(below(j)) /\ Cardinality(below(i)) # Cardinality(below(j))
    BY <2>1, <2>a, <1>1, FS_Subset
  <2>3. QED
    BY <2>2, <1>2
<1>5. \A i \in P : Cardinality(below(i)) >= 1
  <2> SUFFICES ASSUME NEW i \in P PROVE Cardinality(below(i)) >= 1
    OBVIOUS
  <2>1. below(i) # {}
    OBVIOUS
  <2>2. QED
    BY <2>1, <1>1, <1>2, FS_EmptySet
<1>6. \A i, j \in P : Cardinality(below(i)) = Cardinality(below(j)) => i = j
  BY <1>4, <1>2
<1>7. \A i \in P : Nth(P, Cardinality(below(i))) = i
  BY <1>6 DEF Nth, Rank
<1>8. \A k \in 1..Cardinality(P) : \E i \in P : Cardinality(below(i)) = k
  <2> DEFINE f == [i \in P |-> Cardinality(below(i))]
  <2>1. f \in [P -> 1..Cardinality(P)]
    BY <1>1, <1>2, <1>5
  <2>2. f \in Injection(P, 1..Cardinality(P))
    BY <2>1, <1>6 DEF Injection, IsInjective
  <2>3. IsFiniteSet(1..Cardinality(P)) /\ Cardinality(1..Cardinality(P)) = Cardinality(P)
    BY <1>2, FS_Interval
  <2>4. f \in Surjection(P, 1..Cardinality(P))
    BY <2>2, <2>3, FS_Injection
  <2>5. QED
    BY <2>4 DEF Surjection
<1>9. \A k \in 1..Cardinality(P) : Nth(P, k) \in P /\ Cardinality(below(Nth(P, k))) = k
  BY <1>8 DEF Nth, Rank
<1>10. QED
  BY <1>1, <1>2, <1>3, <1>5, <1>7, <1>9 DEF Rank

LEMMA Positions ==
  ASSUME NEW S, NEW s \in Seq(S), NEW P \in SUBSET DOMAIN s
  PROVE  /\ P \subseteq Nat /\ IsFiniteSet(P)
         /\ Len(s) \in Nat /\ DOMAIN s = 1..Len(s)
<1>1. Len(s) \in Nat /\ DOMAIN s = 1..Len(s)
  BY LenProperties
<1>2. IsFiniteSet(1..Len(s))
  BY <1>1, FS_Interval
<1>3. QED
  BY <1>1, <1>2, FS_Subset

\* The elements at some positions are a sequence of just these elements.
LEMMA OnlyThose ==
  ASSUME NEW S, NEW s \in Seq(S), NEW P \in SUBSET DOMAIN s
  PROVE  /\ Only(s, P) \in Seq(S)
         /\ ToSet(Only(s, P)) = {s[i] : i \in P}
<1>1. P \subseteq Nat /\ IsFiniteSet(P) /\ \A i \in P : s[i] \in S
  BY Positions, ElementOfSeq
<1>2. /\ Cardinality(P) \in Nat
      /\ \A i \in P : Rank(P, i) \in 1..Cardinality(P) /\ Nth(P, Rank(P, i)) = i
      /\ \A k \in 1..Cardinality(P) : Nth(P, k) \in P
  BY SMTT(30), <1>1, Ranks
<1>3. Only(s, P) \in Seq(S) /\ DOMAIN Only(s, P) = 1..Cardinality(P)
  BY <1>1, <1>2 DEF Only
<1>4. \A k \in DOMAIN Only(s, P) : \E i \in P : Only(s, P)[k] = s[i]
  BY <1>2, <1>3 DEF Only
<1>5. \A i \in P : \E k \in DOMAIN Only(s, P) : Only(s, P)[k] = s[i]
  BY <1>2, <1>3 DEF Only
<1>6. QED
  BY <1>3, <1>4, <1>5 DEF ToSet

LEMMA Listed ==
  ASSUME NEW S, IsFiniteSet(S)
  PROVE  SetToSeq(S) \in Seq(S) /\ ToSet(SetToSeq(S)) = S
<1>1. Cardinality(S) \in Nat
  BY FS_CardinalityType
<1>2. PICK f \in Bijection(1..Cardinality(S), S) : TRUE
  BY FS_CardinalityType DEF ExistsBijection
<1>3. f \in [1..Cardinality(S) -> S] /\ IsInjective(f)
  BY <1>2 DEF Bijection, Injection
<1>4. SetToSeq(S) \in [1..Cardinality(S) -> S] /\ IsInjective(SetToSeq(S))
  BY <1>3 DEF SetToSeq
<1>5. SetToSeq(S) \in Injection(1..Cardinality(S), S)
  BY <1>4 DEF Injection
<1>6. IsFiniteSet(1..Cardinality(S)) /\ Cardinality(1..Cardinality(S)) = Cardinality(S)
  BY <1>1, FS_Interval
<1>7. SetToSeq(S) \in Surjection(1..Cardinality(S), S)
  BY <1>5, <1>6, FS_Injection
<1>8. SetToSeq(S) \in Seq(S) /\ DOMAIN SetToSeq(S) = 1..Cardinality(S)
  BY <1>1, <1>4
<1>9. QED
  BY <1>4, <1>7, <1>8 DEF Surjection, ToSet

LEMMA ToSetOf ==
  ASSUME NEW S, NEW s \in Seq(S)
  PROVE  /\ ToSet(s) \subseteq S /\ IsFiniteSet(ToSet(s))
         /\ \A i \in 1..Len(s) : s[i] \in ToSet(s)
         /\ \A x \in ToSet(s) : \E i \in 1..Len(s) : x = s[i]
<1>1. DOMAIN s = 1..Len(s) /\ Len(s) \in Nat /\ \A i \in 1..Len(s) : s[i] \in S
  BY ElementOfSeq, LenProperties
<1>2. s \in Surjection(DOMAIN s, ToSet(s)) /\ IsFiniteSet(DOMAIN s)
  <2>1. s \in [DOMAIN s -> ToSet(s)]
    BY <1>1 DEF ToSet
  <2>2. s \in Surjection(DOMAIN s, ToSet(s))
    BY <2>1 DEF Surjection, ToSet
  <2>3. IsFiniteSet(1..Len(s))
    BY <1>1, FS_Interval
  <2>4. QED
    BY <1>1, <2>2, <2>3
<1>3. IsFiniteSet(ToSet(s))
  BY <1>2, FS_Surjection
<1>4. QED
  BY <1>1, <1>3 DEF ToSet

LEMMA ToSetConcat ==
  ASSUME NEW S, NEW s \in Seq(S), NEW t \in Seq(S)
  PROVE  s \o t \in Seq(S) /\ ToSet(s \o t) = ToSet(s) \cup ToSet(t)
<1>1. /\ s \o t \in Seq(S) /\ Len(s \o t) = Len(s) + Len(t)
      /\ \A i \in 1..Len(s) + Len(t) :
           (s \o t)[i] = IF i <= Len(s) THEN s[i] ELSE t[i - Len(s)]
  BY ConcatProperties
<1>2. Len(s) \in Nat /\ Len(t) \in Nat
  BY LenProperties
<1>3. ToSet(s \o t) \subseteq ToSet(s) \cup ToSet(t)
  <2>0. \A x \in ToSet(s \o t) : \E i \in 1..Len(s) + Len(t) : x = (s \o t)[i]
    BY <1>1, ToSetOf
  <2> SUFFICES ASSUME NEW i \in 1..Len(s) + Len(t) PROVE (s \o t)[i] \in ToSet(s) \cup ToSet(t)
    BY <2>0
  <2>1. CASE i <= Len(s)
    <3>1. i \in 1..Len(s)
      BY <2>1, <1>2
    <3>2. QED
      BY <3>1, <2>1, <1>1, ToSetOf
  <2>2. CASE i > Len(s)
    <3>1. i - Len(s) \in 1..Len(t) /\ ~(i <= Len(s))
      BY <2>2, <1>2
    <3>2. QED
      BY <3>1, <1>1, ToSetOf
  <2>3. QED
    BY <2>1, <2>2, <1>2
<1>4. ToSet(s) \subseteq ToSet(s \o t)
  <2> SUFFICES ASSUME NEW i \in 1..Len(s) PROVE s[i] \in ToSet(s \o t)
    BY ToSetOf
  <2>1. i \in 1..Len(s \o t) /\ (s \o t)[i] = s[i]
    BY <1>1, <1>2
  <2>2. QED
    BY <2>1, <1>1, ToSetOf
<1>5. ToSet(t) \subseteq ToSet(s \o t)
  <2> SUFFICES ASSUME NEW i \in 1..Len(t) PROVE t[i] \in ToSet(s \o t)
    BY ToSetOf
  <2>1. Len(s) + i \in 1..Len(s \o t) /\ (s \o t)[Len(s) + i] = t[i]
    BY <1>1, <1>2
  <2>2. QED
    BY <2>1, <1>1, ToSetOf
<1>6. QED
  BY <1>1, <1>3, <1>4, <1>5

LEMMA ScopesType ==
  ASSUME NEW s \in Seq(TaskType)
  PROVE  ScopesOf(s) \subseteq Scopes /\ IsFiniteSet(ScopesOf(s))
<1>1. ToSet(s) \subseteq TaskType /\ IsFiniteSet(ToSet(s))
  BY ToSetOf
<1>2. \A t \in TaskType : t.scopes \subseteq Scopes /\ IsFiniteSet(t.scopes)
  BY DEF TaskType
<1> DEFINE all == {t.scopes : t \in ToSet(s)}
           f == [t \in ToSet(s) |-> t.scopes]
<1>3. f \in Surjection(ToSet(s), all)
  BY DEF Surjection
<1>4. IsFiniteSet(all) /\ \A S \in all : IsFiniteSet(S)
  BY <1>1, <1>2, <1>3, FS_Surjection
<1>5. IsFiniteSet(UNION all)
  BY <1>4, FS_UNION
<1>6. QED
  BY <1>1, <1>2, <1>5 DEF ScopesOf

LEMMA ScopesIn ==
  ASSUME NEW x, NEW s
  PROVE  x \in ScopesOf(s) <=> \E t \in ToSet(s) : x \in t.scopes
BY DEF ScopesOf

\* Joined tasks stand for every scope of the tasks they were made of.
LEMMA JoinedAll ==
  ASSUME NEW tasks \in Seq(TaskType)
  PROVE  Joined(tasks) \in Seq(TaskType) /\ ScopesOf(tasks) \subseteq ScopesOf(Joined(tasks))
<1> DEFINE first == {i \in DOMAIN tasks : i = 1 \/ tasks[i - 1].tier # tasks[i].tier}
           group(k) == {n \in DOMAIN tasks : Rank(first, n) = k}
           scopes(k) == UNION {tasks[i].scopes : i \in group(k)}
           task(k) == [tier |-> tasks[Nth(first, k)].tier, read |-> FALSE, scopes |-> scopes(k)]
<1>1. /\ Len(tasks) \in Nat /\ DOMAIN tasks = 1..Len(tasks) /\ IsFiniteSet(DOMAIN tasks)
      /\ \A i \in DOMAIN tasks : tasks[i] \in TaskType
  BY Positions, ElementOfSeq
<1>2. first \in SUBSET Nat /\ IsFiniteSet(first) /\ first \subseteq DOMAIN tasks
  BY Positions
<1>3. /\ Cardinality(first) \in Nat
      /\ \A i \in Nat : Rank(first, i) \in 0..Cardinality(first)
      /\ \A i, j \in Nat : i <= j => Rank(first, i) <= Rank(first, j)
      /\ \A i \in first : Rank(first, i) >= 1
      /\ \A k \in 1..Cardinality(first) : Nth(first, k) \in first
  BY <1>2, Ranks
<1>4. \A k : scopes(k) \subseteq Scopes /\ IsFiniteSet(scopes(k))
  <2> TAKE k
  <2> DEFINE f == [i \in group(k) |-> tasks[i].scopes]
             all == {tasks[i].scopes : i \in group(k)}
  <2>1. \A S \in all : S \subseteq Scopes /\ IsFiniteSet(S)
    BY <1>1 DEF TaskType
  <2>2. f \in Surjection(group(k), all)
    BY DEF Surjection
  <2>3. IsFiniteSet(group(k))
    BY <1>1, FS_Subset
  <2>4. IsFiniteSet(all)
    BY <2>2, <2>3, FS_Surjection
  <2>5. IsFiniteSet(UNION all)
    BY <2>1, <2>4, FS_UNION
  <2>6. QED
    BY <2>1, <2>5
<1>5. \A k \in 1..Cardinality(first) : task(k) \in TaskType
  <2> TAKE k \in 1..Cardinality(first)
  <2>1. tasks[Nth(first, k)].tier \in 1..Top
    BY <1>1, <1>2, <1>3 DEF TaskType
  <2>2. QED
    BY <2>1, <1>4 DEF TaskType
<1>6. Joined(tasks) = [k \in 1..Cardinality(first) |-> task(k)]
  BY DEF Joined
<1>7. Joined(tasks) \in Seq(TaskType) /\ DOMAIN Joined(tasks) = 1..Cardinality(first)
  <2> HIDE DEF task
  <2> QED
    BY <1>3, <1>5, <1>6
<1>8. ASSUME NEW x \in ScopesOf(tasks) PROVE x \in ScopesOf(Joined(tasks))
  <2>1. PICK n \in DOMAIN tasks : x \in tasks[n].scopes
    BY ScopesIn DEF ToSet
  <2>2. 1 \in first /\ n \in Nat /\ 1 <= n
    BY <1>1, <2>1
  <2>3. Rank(first, 1) >= 1 /\ Rank(first, 1) <= Rank(first, n) /\ Rank(first, n) \in 0..Cardinality(first)
    BY <1>3, <2>2
  <2>4. Rank(first, n) \in 1..Cardinality(first)
    BY <1>3, <2>2, <2>3
  <2>5. x \in scopes(Rank(first, n))
    BY <2>1
  <2>6. task(Rank(first, n)).scopes = scopes(Rank(first, n))
    OBVIOUS
  <2>7. task(Rank(first, n)) \in ToSet(Joined(tasks))
    <3> HIDE DEF task
    <3> QED
      BY <1>6, <1>7, <2>4 DEF ToSet
  <2>8. QED
    BY <2>5, <2>6, <2>7, ScopesIn
<1>9. QED
  BY <1>7, <1>8

LEMMA OpenIn ==
  ASSUME NEW rows \in Seq(RowType), NEW x
  PROVE  x \in OpenScopes(rows) <=> \E n \in 1..Len(rows) : rows[n].scope = x /\ ~rows[n].resolved
BY LenProperties DEF OpenScopes, ToSet

LEMMA NoRows == OpenScopes(<<>>) = {} /\ ScopesOf(<<>>) = {}
BY DEF OpenScopes, ToSet, ScopesOf

\* What the owner names is an open obligation afterwards, as what was open is.
LEMMA Named ==
  ASSUME NEW rows \in Seq(RowType), NEW S \in SUBSET Scopes, IsFiniteSet(S)
  PROVE  /\ CameBack(rows, S) \o NewRows(rows, S) \in Seq(RowType)
         /\ S \cup OpenScopes(rows) \subseteq OpenScopes(CameBack(rows, S) \o NewRows(rows, S))
         /\ \A m \in Nat :
              LET all == CameBack(rows, S) \o NewRows(rows, S)
              IN Len(rows) <= m /\ m < Len(all) =>
                   OpenScopes(rows) \subseteq OpenScopes(SubSeq(all, 1, m))
<1> DEFINE new == {s \in S : OpenRow(rows, s) = {}}
           named == SetToSeq(new)
           old == CameBack(rows, S)
           more == NewRows(rows, S)
<1>1. IsFiniteSet(new) /\ new \subseteq Scopes
  BY FS_Subset
<1>2. named \in Seq(new) /\ ToSet(named) = new
  BY <1>1, Listed
<1>3. Len(rows) \in Nat /\ DOMAIN rows = 1..Len(rows) /\ \A n \in 1..Len(rows) : rows[n] \in RowType
  BY LenProperties, ElementOfSeq
<1>4. Len(named) \in Nat /\ DOMAIN named = 1..Len(named) /\ \A n \in 1..Len(named) : named[n] \in new
  BY <1>2, LenProperties, ElementOfSeq
<1>5. \A s \in Scopes : NewRow(s) \in RowType
  BY DEF NewRow, RowType
<1>6. old \in Seq(RowType) /\ Len(old) = Len(rows)
  <2>1. \A n \in 1..Len(rows) :
          [rows[n] EXCEPT !.repeats = @ + 1] \in RowType
    BY <1>3 DEF RowType
  <2>2. old \in [1..Len(rows) -> RowType]
    BY <1>3, <2>1 DEF CameBack
  <2>3. QED
    BY <1>3, <2>2
<1>7. more = [n \in 1..Len(named) |-> NewRow(named[n])]
  BY <1>4 DEF NewRows
<1>8. more \in Seq(RowType) /\ Len(more) = Len(named)
  <2>1. more \in [1..Len(named) -> RowType]
    BY <1>1, <1>4, <1>5, <1>7
  <2>2. QED
    <3> HIDE DEF more, named
    <3> QED
      BY <1>4, <2>1
<1>9. old \o more \in Seq(RowType) /\ ToSet(old \o more) = ToSet(old) \cup ToSet(more)
  BY <1>6, <1>8, ToSetConcat
<1>10. OpenScopes(old \o more) = OpenScopes(old) \cup OpenScopes(more)
  BY <1>9 DEF OpenScopes
<1>11. ASSUME NEW x \in OpenScopes(rows) PROVE x \in OpenScopes(old)
  <2>1. PICK n \in 1..Len(rows) : rows[n].scope = x /\ ~rows[n].resolved
    BY OpenIn
  <2>2. old[n].scope = x /\ ~old[n].resolved
    BY <1>3, <2>1 DEF CameBack, RowType
  <2>3. QED
    BY <2>1, <2>2, <1>6, OpenIn
<1>12. ASSUME NEW x \in new PROVE x \in OpenScopes(more)
  <2>1. PICK n \in 1..Len(named) : named[n] = x
    BY <1>2, <1>4 DEF ToSet
  <2>2. more[n].scope = x /\ ~more[n].resolved
    BY <1>7, <2>1 DEF NewRow
  <2>3. QED
    BY <2>1, <2>2, <1>8, OpenIn
<1>13. ASSUME NEW x \in S, x \notin new PROVE x \in OpenScopes(rows)
  BY <1>3, <1>13, OpenIn DEF OpenRow
<1>14. ASSUME NEW m \in Nat, Len(rows) <= m, m < Len(old \o more), NEW x \in OpenScopes(rows)
       PROVE  x \in OpenScopes(SubSeq(old \o more, 1, m))
  <2> DEFINE all == old \o more
  <2>1. PICK n \in 1..Len(old) : old[n].scope = x /\ ~old[n].resolved
    BY <1>6, <1>11, <1>14, OpenIn
  <2>2. all \in Seq(RowType) /\ all[n] = old[n] /\ n \in 1..m /\ m < Len(all) /\ Len(all) \in Nat
    BY <1>3, <1>6, <1>8, <1>9, <1>14, <2>1, ConcatProperties, LenProperties
  <2> HIDE DEF all
  <2>3. SubSeq(all, 1, m) \in Seq(RowType) /\ Len(SubSeq(all, 1, m)) = m /\ SubSeq(all, 1, m)[n] = all[n]
    BY <2>2
  <2>4. QED
    BY <2>1, <2>2, <2>3, OpenIn DEF all
<1>15. QED
  BY <1>9, <1>10, <1>11, <1>12, <1>13, <1>14

LEMMA Numbers ==
  /\ Top \in Nat /\ Top > 0 /\ MaxWorkers \in Nat /\ MaxParallel \in Nat
  /\ MaxQueue \in Nat /\ MaxQueue > 0 /\ MaxFollowups \in Nat /\ MaxLeases \in Nat
  /\ MaxRepeats \in Nat /\ MaxObligations \in Nat /\ MaxJudged \in Nat
  /\ MaxGuidance \in Nat /\ Inspecting \subseteq 1..Top /\ More \subseteq Scopes
BY FlexAssumption

LEMMA NoPlanSound ==
  NoPlan \in PlanType /\ PlanSound(NoPlan)
<1>1. NoOutput \in OutputType /\ ~NoOutput.complete /\ ~NoOutput.held /\ NoOutput.round = 0
      /\ ~NoOutput.processed
  BY FlexAssumption DEF NoOutput, OutputType, EndType
<1>2. NoPlan \in PlanType
  BY <1>1 DEF NoPlan, PlanType
<1>3. Limited(NoPlan) /\ Signed(NoPlan) /\ InterimSound(NoPlan)
  BY FlexAssumption DEF NoPlan, Limited, Signed, InterimSound, Indices
<1>4. OutputsSound(NoPlan)
  BY <1>1 DEF NoPlan, OutputsSound
<1>5. OwnerSound(NoPlan)
  BY DEF NoPlan, OwnerSound
<1>6. QED
  BY <1>2, <1>3, <1>4, <1>5 DEF PlanSound

\* A plan that is set aside is otherwise what it was.
LEMMA SetAside ==
  ASSUME disk \in PlanType, PlanSound(disk)
  PROVE  /\ Invalidated \in PlanType /\ PlanSound(Invalidated) /\ ~Invalidated.active
         /\ Invalidated.owner = disk.owner /\ Invalidated.queue = disk.queue
         /\ Invalidated.cursor = disk.cursor /\ Invalidated.read = disk.read
         /\ Invalidated.fatal = disk.fatal /\ Invalidated.obligations = disk.obligations
         /\ Invalidated.interim = disk.interim
<1> DEFINE q == Invalidated
<1>1. /\ q \in PlanType /\ ~q.active
      /\ q.owner = disk.owner /\ q.queue = disk.queue /\ q.cursor = disk.cursor
      /\ q.outputs = disk.outputs /\ q.leases = disk.leases /\ q.obligations = disk.obligations
      /\ q.errors = disk.errors /\ q.fatal = disk.fatal /\ q.asks = disk.asks /\ q.read = disk.read
      /\ q.interim = disk.interim /\ q.signature = disk.signature /\ q.aliases = disk.aliases
      /\ q.knows = disk.knows
  BY ZenonT(60) DEF PlanType, Invalidated
<1> HIDE DEF q
<1>2. Limited(q) /\ OutputsSound(q) /\ Signed(q) /\ OwnerSound(q) /\ InterimSound(q)
  BY <1>1 DEF PlanSound, Limited, OutputsSound, Signed, OwnerSound, InterimSound
<1>3. QED
  BY <1>1, <1>2 DEF PlanSound, q

\* A turn that ends leaves the job as its disk has it.
LEMMA Leaving ==
  ASSUME FlexInv, NEW h, Leaves(h),
         disk' \in PlanType, PlanSound(disk'), folded' \in Nat, folded' <= MaxGuidance,
         found' \subseteq Scopes, settled' \subseteq Scopes,
         disk'.active => found' \subseteq settled' \cup Open(disk'),
         \A key \in disk'.read : key[2] \in settled',
         h = "answered" => found' \subseteq settled',
         h = "question" => found' \subseteq settled' \cup Unresolved(disk'),
         h = "error" => found' \subseteq settled' \cup Unresolved(disk') \cup Skipped(disk')
  PROVE  FlexInv'
<1>0. /\ stage' = "idle" /\ how' = h /\ plan' = NoPlan /\ wave' = {} /\ upto' = 0
      /\ helping' = {} /\ workers' = 0 /\ judged' = 0 /\ injected' = 0
  BY DEF Leaves
<1>1. NoPlan \in PlanType /\ PlanSound(NoPlan)
  BY NoPlanSound
<1>2. JobTypeOK'
  <2>1. 0 \in Nat /\ 0 \in 0..MaxWorkers /\ 0 \in 0..MaxJudged
    BY Numbers
  <2>2. injected' \in Nat /\ folded' + injected' <= MaxGuidance
    BY <1>0
  <2>3. QED
    BY <1>0, <1>1, <2>1, <2>2 DEF JobTypeOK
<1>3. PlanSound(plan)' /\ PlanSound(disk)'
  BY <1>0, <1>1
<1>4. InStep' /\ WaveSound' /\ HelpersSound'
  BY <1>0 DEF InStep, WaveSound, HelpersSound
<1>5. ScopesInv'
  <2>1. NoPlan.read = {}
    BY DEF NoPlan
  <2>2. QED
    BY <1>0, <2>1 DEF ScopesInv, RepliesTell
<1>6. QED
  BY <1>2, <1>3, <1>4, <1>5 DEF FlexInv

\* A step that ends with the plan on the disk and no worker in flight.
LEMMA GoesOn ==
  ASSUME FlexInv,
         stage' \in {"run", "lease", "merge"}, disk' = plan', plan' \in PlanType, PlanSound(plan'),
         plan'.active, plan'.queue # <<>>, stage' = "merge" => plan'.cursor = Len(plan'.queue),
         UNCHANGED <<judged, request>>,
         plan'.knows = folded + injected, wave' = {}, upto' \in Nat, workers' \in 0..MaxWorkers,
         how' = "none", HelpersSound', found' \subseteq Scopes, settled' \subseteq Scopes,
         found' \subseteq settled' \cup Open(plan'), \A key \in plan'.read : key[2] \in settled'
  PROVE  FlexInv'
<1> USE DEF FlexInv, request
<1>1. JobTypeOK'
  BY DEF JobTypeOK
<1>2. PlanSound(plan)' /\ PlanSound(disk)'
  OBVIOUS
<1>3. InStep' /\ WaveSound'
  BY DEF InStep, WaveSound
<1>4. ScopesInv'
  BY DEF ScopesInv, RepliesTell
<1>5. QED
  BY <1>1, <1>2, <1>3, <1>4

LEMMA Fields ==
  ASSUME NEW p \in PlanType
  PROVE  /\ p.active \in BOOLEAN /\ p.owner \in BOOLEAN /\ p.queue \in Seq(TaskType) /\ p.cursor \in Nat
         /\ p.outputs \in [Indices -> OutputType] /\ p.leases \in [Indices -> Seq(LeaseType)]
         /\ p.unrun \subseteq TaskType /\ p.obligations \in Seq(RowType) /\ p.errors \in Nat
         /\ p.fatal \in BOOLEAN /\ p.asks \in BOOLEAN /\ p.unavailable \subseteq 0..Top
         /\ p.read \subseteq Nat \X Scopes /\ p.interim \in [Indices -> Seq(TaskType)]
         /\ p.signature \in Nat \X Nat /\ p.aliases \subseteq Nat \X Nat /\ p.knows \in Nat
BY DEF PlanType

LEMMA Ended ==
  ASSUME FlexInv, NEW h, JobEnds(h)
  PROVE  Leaves(h) /\ folded' \in Nat /\ folded' <= MaxGuidance /\ stage' = "idle" /\ how' = h
<1>1. folded \in Nat /\ injected \in Nat /\ folded + injected <= MaxGuidance /\ MaxGuidance \in Nat
  BY Numbers DEF FlexInv, JobTypeOK
<1>2. CASE h \in Continued
  BY <1>1, <1>2 DEF JobEnds, Leaves
<1>3. CASE h \notin Continued
  BY <1>1, <1>3 DEF JobEnds, Leaves
<1>4. QED
  BY <1>2, <1>3

\* Between turns and before a plan is there.
LEMMA TurnsStep ==
  ASSUME FlexInv,
         Starts \/ Phase \/ Interrupted \/ Guided \/ Planned \/ PlannerAsks
  PROVE  FlexInv'
<1>1. CASE Starts
  <2>1. JobTypeOK' /\ PlanSound(plan)' /\ PlanSound(disk)'
    BY <1>1 DEF Starts, FlexInv, JobTypeOK, allowance, request, history
  <2>2. InStep' /\ WaveSound' /\ HelpersSound' /\ ScopesInv'
    BY <1>1 DEF Starts, Running, FlexInv, InStep, WaveSound, HelpersSound, ScopesInv, RepliesTell,
         allowance, request, history
  <2>3. QED
    BY <2>1, <2>2 DEF FlexInv
<1>2. CASE Phase
  <2> USE <1>2
  <2>1. wave = {} /\ helping = {} /\ how = "none" /\ plan = NoPlan /\ stage = "phase"
    BY DEF Phase, FlexInv, InStep, WaveSound, HelpersSound
  <2>2. CASE Matches /\ stage' = "run" /\ Saves
             /\ plan' = [disk EXCEPT !.signature = Signature,
                                     !.aliases = IF injected = 0 THEN @ ELSE Aliases]
    <3> DEFINE q == [disk EXCEPT !.signature = Signature,
                                 !.aliases = IF injected = 0 THEN @ ELSE Aliases]
    <3>1. disk \in PlanType /\ PlanSound(disk) /\ disk.active
      BY <2>2 DEF FlexInv, JobTypeOK, Matches
    <3>2. folded \in Nat /\ injected \in Nat
      BY DEF FlexInv, JobTypeOK
    <3>3. Signature \in Nat \X Nat /\ Aliases \subseteq Nat \X Nat
      BY <3>2 DEF Signature, Aliases
    <3>4. /\ q \in PlanType /\ q.active
          /\ q.owner = disk.owner /\ q.queue = disk.queue /\ q.cursor = disk.cursor
          /\ q.outputs = disk.outputs /\ q.leases = disk.leases /\ q.unrun = disk.unrun
          /\ q.obligations = disk.obligations /\ q.errors = disk.errors /\ q.fatal = disk.fatal
          /\ q.asks = disk.asks /\ q.read = disk.read /\ q.interim = disk.interim
          /\ q.signature = Signature /\ q.aliases = (IF injected = 0 THEN disk.aliases ELSE Aliases)
          /\ q.knows = disk.knows
      BY ZenonT(60), <3>1, <3>3 DEF PlanType
    <3> HIDE DEF q
    <3>5. disk.knows = folded + injected
      <4>1. Signature \in disk.aliases \cup {disk.signature}
        BY <2>2 DEF Matches
      <4>2. Signature[1] + Signature[2] = disk.knows
        BY <3>1, <4>1 DEF PlanSound, Signed
      <4>3. QED
        BY <4>2 DEF Signature
    <3>6. Signed(q)
      BY <3>1, <3>2, <3>4, <3>5 DEF PlanSound, Signed, Signature, Aliases
    <3>7. Limited(q) /\ OutputsSound(q) /\ OwnerSound(q) /\ InterimSound(q)
      BY SMTT(30), <3>1, <3>4 DEF PlanSound, Limited, OutputsSound, OwnerSound, InterimSound
    <3>8. Open(q) = Open(disk)
      BY <3>4 DEF Open
    <3>9. plan' = q /\ disk' = q
      BY <2>2 DEF Saves, q
    <3>10. found \subseteq settled \cup Open(disk) /\ \A key \in disk.read : key[2] \in settled
      BY <3>1 DEF FlexInv, ScopesInv
    <3>11. UNCHANGED <<wave, upto, helping, workers, judged, folded, injected, how, found, settled>>
      BY DEF Phase, allowance, request, history
    <3>12. disk.queue # <<>>
      BY <3>1 DEF PlanSound, Limited
    <3>13. PlanSound(plan') /\ plan' \in PlanType /\ plan'.active /\ plan'.queue # <<>>
           /\ disk' = plan' /\ plan'.knows = folded + injected
      BY <3>4, <3>5, <3>6, <3>7, <3>9, <3>12 DEF PlanSound
    <3>14. found' \subseteq settled' \cup Open(plan') /\ \A key \in plan'.read : key[2] \in settled'
      BY <3>4, <3>8, <3>9, <3>10, <3>11
    <3>15. /\ wave' = {} /\ helping' = {} /\ upto' \in Nat /\ workers' \in 0..MaxWorkers
           /\ how' = "none" /\ found' \subseteq Scopes /\ settled' \subseteq Scopes
      BY <2>1, <3>11 DEF FlexInv, JobTypeOK
    <3>16. HelpersSound' /\ UNCHANGED <<judged, request>> /\ stage' = "run"
      BY <2>2, <3>11, <3>15 DEF HelpersSound, request
    <3>17. QED
      BY <3>13, <3>14, <3>15, <3>16, GoesOn
  <2>3. CASE ~Matches /\ stage' = "planning" /\ disk' = Invalidated /\ UNCHANGED plan
    <3>1. disk' \in PlanType /\ PlanSound(disk') /\ ~disk'.active /\ disk'.read = disk.read
      BY <2>3, SetAside DEF FlexInv, JobTypeOK
    <3>2. UNCHANGED <<wave, upto, helping, workers, judged, folded, injected, how, found, settled>>
      BY DEF Phase, allowance, request, history
    <3>3. JobTypeOK' /\ PlanSound(plan)'
      BY <2>3, <3>1, <3>2 DEF FlexInv, JobTypeOK
    <3>4. InStep' /\ WaveSound' /\ HelpersSound' /\ ScopesInv'
      BY <2>1, <2>3, <3>1, <3>2 DEF FlexInv, InStep, WaveSound, HelpersSound, ScopesInv, RepliesTell
    <3>5. QED
      BY <3>1, <3>3, <3>4 DEF FlexInv
  <2>4. QED
    BY <2>2, <2>3 DEF Phase
<1>3. CASE Interrupted
  <2>1. Leaves("interrupted") /\ UNCHANGED <<disk, folded, found, settled>>
    BY <1>3 DEF Interrupted, history
  <2>2. folded \in Nat /\ folded <= MaxGuidance
    BY SMTT(30), FlexAssumption DEF FlexInv, JobTypeOK
  <2>3. QED
    BY <2>1, <2>2, Leaving DEF FlexInv, JobTypeOK, ScopesInv
<1>4. CASE Guided
  <2>1. disk' \in PlanType /\ PlanSound(disk') /\ ~disk'.active /\ disk'.read = disk.read
    BY <1>4, SetAside DEF Guided, FlexInv, JobTypeOK
  <2>2. NoPlan \in PlanType /\ PlanSound(NoPlan) /\ NoPlan.read = {}
    BY NoPlanSound DEF NoPlan
  <2>3. /\ plan' = NoPlan /\ stage' = "phase" /\ wave' = {} /\ helping' = {} /\ upto' = 0
        /\ injected' = injected + 1 /\ folded + injected < MaxGuidance
        /\ UNCHANGED <<workers, judged, folded, how, found, settled>>
        /\ stage # "idle"
    BY <1>4 DEF Guided, history
  <2>4. JobTypeOK' /\ PlanSound(plan)'
    BY SMTT(30), <2>1, <2>2, <2>3, FlexAssumption DEF FlexInv, JobTypeOK
  <2>5. InStep' /\ WaveSound' /\ HelpersSound' /\ ScopesInv'
    BY <2>1, <2>2, <2>3 DEF FlexInv, InStep, WaveSound, HelpersSound, ScopesInv, RepliesTell
  <2>6. QED
    BY <2>1, <2>4, <2>5 DEF FlexInv
<1>5. CASE Planned
  <2>1. PICK p \in Plans : plan' = NewPlan(p)
    BY <1>5 DEF Planned
  <2>2. /\ p \in [owner : BOOLEAN, queue : Seq(TaskType), specialists : Seq(1..Top)]
        /\ Len(p.queue) \in 1..MaxQueue /\ Len(p.specialists) <= MaxLeases
        /\ p.owner => Len(p.queue) = 1
    BY FlexAssumption
  <2>3. folded \in Nat /\ injected \in Nat
    BY DEF FlexInv, JobTypeOK
  <2>4. Signature \in Nat \X Nat /\ Aliases \subseteq Nat \X Nat
    BY <2>3 DEF Signature, Aliases
  <2> DEFINE q == NewPlan(p)
             initial == [n \in DOMAIN p.specialists |->
                           [tier |-> p.specialists[n], state |-> "pending", initial |-> TRUE]]
             leases == [i \in Indices |-> IF i = 1 THEN initial ELSE <<>>]
  <2>5. initial \in Seq(LeaseType) /\ Len(initial) <= MaxLeases
    <3>1. Len(p.specialists) \in Nat /\ DOMAIN p.specialists = 1..Len(p.specialists)
          /\ \A n \in DOMAIN p.specialists : p.specialists[n] \in 1..Top
      BY <2>2, LenProperties, ElementOfSeq
    <3>2. initial \in [1..Len(p.specialists) -> LeaseType]
      <4>1. 1..Top \subseteq 0..Top
        BY Numbers
      <4>2. \A n \in DOMAIN p.specialists :
              [tier |-> p.specialists[n], state |-> "pending", initial |-> TRUE] \in LeaseType
        BY <3>1, <4>1 DEF LeaseType
      <4>3. QED
        BY <3>1, <4>2
    <3>3. QED
      BY <2>2, <3>1, <3>2
  <2>6. leases \in [Indices -> Seq(LeaseType)] /\ \A i \in Indices : Len(leases[i]) <= MaxLeases
    <3> HIDE DEF initial
    <3> QED
      BY <2>5, FlexAssumption
  <2>7. NoPlan \in PlanType /\ PlanSound(NoPlan)
    BY NoPlanSound
  <2>8. /\ q \in PlanType /\ q.active /\ q.owner = p.owner /\ q.queue = p.queue /\ q.leases = leases
        /\ q.signature = Signature /\ q.aliases = Aliases /\ q.knows = folded + injected
    <3>1. q = [NoPlan EXCEPT !.active = TRUE, !.owner = p.owner, !.queue = p.queue,
                 !.leases = leases, !.signature = Signature, !.aliases = Aliases,
                 !.knows = folded + injected]
      BY DEF NewPlan
    <3> HIDE DEF leases, q
    <3>2. p.owner \in BOOLEAN /\ p.queue \in Seq(TaskType) /\ folded + injected \in Nat
      BY <2>2, <2>3
    <3>3. q \in PlanType
      BY <3>1, <3>2, <2>4, <2>6, <2>7, Zenon DEF PlanType
    <3>4. q.active /\ q.owner = p.owner /\ q.queue = p.queue /\ q.leases = leases
      BY <3>1, <2>7, Zenon DEF PlanType
    <3>5. q.signature = Signature /\ q.aliases = Aliases /\ q.knows = folded + injected
      BY <3>1, <2>7, Zenon DEF PlanType
    <3>6. QED
      BY <3>3, <3>4, <3>5
  <2>9. /\ q.cursor = 0 /\ q.unrun = {} /\ q.obligations = <<>> /\ q.errors = 0
        /\ ~q.fatal /\ ~q.asks /\ q.read = {}
        /\ \A i \in Indices : q.outputs[i] = NoOutput /\ q.interim[i] = <<>>
    BY DEF NewPlan, NoPlan
  <2> HIDE DEF q, leases
  <2>10. Limited(q) /\ Signed(q) /\ InterimSound(q)
    <3>1. Limited(q)
      BY SMTT(30), <2>2, <2>6, <2>8, <2>9, FlexAssumption DEF Limited
    <3>2. Signed(q)
      BY <2>3, <2>8 DEF Signed, Signature, Aliases
    <3>3. InterimSound(q)
      BY <2>9 DEF InterimSound
    <3>4. QED
      BY <3>1, <3>2, <3>3
  <2>11. OutputsSound(q)
    BY <2>6, <2>8, <2>9, LenProperties DEF OutputsSound, NoOutput
  <2>12. OwnerSound(q)
    BY <2>2, <2>8, <2>9, NoRows, FlexAssumption DEF OwnerSound, Indices
  <2>13. plan' = q /\ disk' = q /\ found' = {} /\ settled' = {} /\ stage' = "run" /\ stage = "planning"
         /\ UNCHANGED <<wave, upto, helping, workers, judged, folded, injected, how>>
    BY <1>5, <2>1 DEF Planned, Saves, allowance, request, q
  <2>14. wave = {} /\ helping = {} /\ how = "none"
    BY <2>13 DEF FlexInv, InStep, WaveSound, HelpersSound
  <2>15. q.queue # <<>>
    BY <2>2, <2>8
  <2>16. QED
    BY <2>8, <2>9, <2>10, <2>11, <2>12, <2>13, <2>14, <2>15, GoesOn
       DEF PlanSound, HelpersSound, FlexInv, JobTypeOK, request
<1>6. CASE PlannerAsks
  <2>1. JobEnds("question") /\ found' = {} /\ UNCHANGED <<disk, settled>>
    BY <1>6 DEF PlannerAsks
  <2>2. QED
    BY <2>1, Ended, Leaving DEF FlexInv, JobTypeOK, ScopesInv
<1>7. QED
  BY <1>1, <1>2, <1>3, <1>4, <1>5, <1>6

-------------------------------------------------------------------------------
\* Workers.
LEMMA Greatest ==
  ASSUME NEW P \in SUBSET Nat, IsFiniteSet(P), P # {}
  PROVE  \E m \in P : \A j \in P : j <= m
<1> DEFINE c == Cardinality(P)
           m == Nth(P, c)
<1>1. c \in Nat /\ c # 0
  BY FS_CardinalityType, FS_EmptySet
<1>2. m \in P /\ Rank(P, m) = c
  BY <1>1, Ranks
<1>3. ASSUME NEW j \in P, j > m PROVE FALSE
  <2> HIDE DEF m
  <2>0. m \in Nat /\ j \in Nat
    BY <1>2
  <2>1. m \in Nat /\ j \in Nat /\ m <= j
    BY <2>0, <1>3
  <2>a. Rank(P, m) <= Rank(P, j) /\ Rank(P, j) \in 0..c
    BY <2>1, Ranks
  <2>2. Rank(P, j) = c
    BY <1>1, <1>2, <2>a
  <2>3. j = m
    BY <1>2, <2>2, Ranks
  <2>4. QED
    BY <2>3, <1>3
<1>4. \A j \in P : j <= m
  <2> HIDE DEF m
  <2>1. m \in Nat /\ \A j \in P : j \in Nat
    BY <1>2
  <2>2. QED
    BY <2>1, <1>3
<1>5. QED
  BY <1>2, <1>4

LEMMA TailIn ==
  ASSUME NEW q \in Seq(TaskType), NEW c \in Nat, c <= Len(q), NEW x
  PROVE  x \in ScopesOf(SubSeq(q, c + 1, Len(q))) <=> \E i \in c + 1..Len(q) : x \in q[i].scopes
<1> DEFINE t == SubSeq(q, c + 1, Len(q))
<1>1. Len(q) \in Nat
  BY LenProperties
<1>2. t \in Seq(TaskType) /\ DOMAIN t = 1..(Len(q) - c) /\ \A i \in 1..(Len(q) - c) : t[i] = q[c + i]
  BY <1>1
<1>3. x \in ScopesOf(t) <=> \E i \in 1..(Len(q) - c) : x \in q[c + i].scopes
  BY <1>2 DEF ScopesOf, ToSet
<1>4. ASSUME NEW i \in c + 1..Len(q), x \in q[i].scopes PROVE \E n \in 1..(Len(q) - c) : x \in q[c + n].scopes
  <2>1. i - c \in 1..(Len(q) - c) /\ c + (i - c) = i
    BY <1>1
  <2>2. QED
    BY <2>1, <1>4
<1>5. ASSUME NEW n \in 1..(Len(q) - c) PROVE c + n \in c + 1..Len(q)
  BY <1>1
<1>6. QED
  BY <1>3, <1>4, <1>5

\* While a task runs, the plan has it, and the disk has the plan.
LEMMA RunFacts ==
  ASSUME FlexInv, stage \in {"run", "lease", "merge", "work"}
  PROVE  /\ plan \in PlanType /\ PlanSound(plan) /\ disk \in PlanType /\ PlanSound(disk)
         /\ plan.active /\ plan.queue # <<>> /\ plan.knows = folded + injected
         /\ plan.cursor \in Nat /\ plan.cursor <= Len(plan.queue) /\ Len(plan.queue) \in Nat
         /\ Len(plan.queue) <= MaxQueue /\ DOMAIN plan.queue = 1..Len(plan.queue)
         /\ disk.active /\ Open(disk) = Open(plan) /\ disk.owner = plan.owner
         /\ found \subseteq settled \cup Open(plan)
         /\ \A p \in {plan, disk} : \A key \in p.read : key[2] \in settled
         /\ found \subseteq Scopes /\ settled \subseteq Scopes /\ how = "none"
         /\ \A i \in 1..Len(plan.queue) : i \in Indices /\ Task(i) \in TaskType
<1>1. /\ plan \in PlanType /\ PlanSound(plan) /\ disk \in PlanType /\ PlanSound(disk)
      /\ found \subseteq Scopes /\ settled \subseteq Scopes
  BY DEF FlexInv, JobTypeOK
<1>2. /\ plan.active /\ plan.queue # <<>> /\ plan.knows = folded + injected
      /\ disk.active /\ Open(disk) = Open(plan) /\ disk.owner = plan.owner
      /\ how = "none"
  BY DEF FlexInv, InStep, Open
<1>3. plan.queue \in Seq(TaskType) /\ plan.cursor \in Nat
  BY <1>1 DEF PlanType
<1>4. Len(plan.queue) \in Nat /\ plan.cursor <= Len(plan.queue) /\ Len(plan.queue) <= MaxQueue
      /\ DOMAIN plan.queue = 1..Len(plan.queue)
  BY <1>1, <1>3, LenProperties DEF PlanSound, Limited
<1>5. \A i \in 1..Len(plan.queue) : i \in Indices /\ Task(i) \in TaskType
  BY <1>3, <1>4, ElementOfSeq, Numbers DEF Indices, Task
<1>6. found \subseteq settled \cup Open(plan) /\ \A p \in {plan, disk} : \A key \in p.read : key[2] \in settled
  BY <1>2 DEF FlexInv, ScopesInv
<1>7. QED
  BY <1>1, <1>2, <1>3, <1>4, <1>5, <1>6

\* The scopes of the current task, and what is open beside it.
LEMMA OpenParts ==
  ASSUME NEW p \in PlanType, p.cursor <= Len(p.queue), NEW x
  PROVE  x \in Open(p) <=>
           \/ \E i \in p.cursor + 1..Len(p.queue) : x \in p.queue[i].scopes
           \/ \E t \in p.unrun : x \in t.scopes
           \/ x \in OpenScopes(p.obligations)
           \/ \E i \in Indices : x \in ScopesOf(p.interim[i])
<1>1. p.queue \in Seq(TaskType) /\ p.cursor \in Nat
  BY DEF PlanType
<1>2. x \in ScopesOf(SubSeq(p.queue, p.cursor + 1, Len(p.queue)))
        <=> \E i \in p.cursor + 1..Len(p.queue) : x \in p.queue[i].scopes
  BY <1>1, TailIn
<1>3. QED
  BY <1>2 DEF Open

LEMMA SkipsStep ==
  ASSUME FlexInv, Skips
  PROVE  FlexInv'
<1> DEFINE q == [plan EXCEPT !.cursor = @ + 1, !.errors = @ + 1, !.fatal = TRUE]
<1>1. /\ stage = "run" /\ stage' = "run" /\ helping = {} /\ Current <= Len(plan.queue)
      /\ plan' = q /\ disk' = q /\ settled' = settled \cup Task(Current).scopes
      /\ UNCHANGED <<wave, upto, helping, workers, judged, request, how, found>>
  BY DEF Skips, AtTask, Saves, allowance
<1>2. /\ plan \in PlanType /\ PlanSound(plan) /\ plan.active /\ plan.queue # <<>>
      /\ plan.knows = folded + injected /\ plan.cursor \in Nat /\ Len(plan.queue) \in Nat
      /\ found \subseteq settled \cup Open(plan) /\ \A key \in plan.read : key[2] \in settled
      /\ found \subseteq Scopes /\ settled \subseteq Scopes /\ how = "none"
      /\ \A i \in 1..Len(plan.queue) : i \in Indices /\ Task(i) \in TaskType
  BY <1>1, RunFacts
<1>3. Current \in 1..Len(plan.queue) /\ Current = plan.cursor + 1 /\ Task(Current).scopes \subseteq Scopes
  BY <1>1, <1>2 DEF Current, TaskType
<1>4. /\ q \in PlanType /\ q.active
      /\ q.owner = plan.owner /\ q.queue = plan.queue /\ q.cursor = plan.cursor + 1
      /\ q.outputs = plan.outputs /\ q.leases = plan.leases /\ q.unrun = plan.unrun
      /\ q.obligations = plan.obligations /\ q.fatal /\ q.read = plan.read
      /\ q.interim = plan.interim /\ q.signature = plan.signature /\ q.aliases = plan.aliases
      /\ q.knows = plan.knows
  <2>1. plan.cursor + 1 \in Nat /\ plan.errors + 1 \in Nat
    BY <1>2, Fields
  <2>2. QED
    BY <1>2, <2>1, Zenon DEF PlanType
<1> HIDE DEF q
<1>5. Limited(q) /\ OutputsSound(q) /\ Signed(q) /\ OwnerSound(q) /\ InterimSound(q)
  <2>1. Limited(q)
    BY <1>2, <1>3, <1>4 DEF PlanSound, Limited
  <2>2. OutputsSound(q) /\ Signed(q)
    BY <1>2, <1>4 DEF PlanSound, OutputsSound, Signed
  <2>3. q.cursor # 0
    BY <1>2, <1>4
  <2>4. OwnerSound(q) /\ InterimSound(q)
    BY <1>2, <1>4, <2>3 DEF PlanSound, OwnerSound, InterimSound
  <2>5. QED
    BY <2>1, <2>2, <2>4
<1>6. q.cursor <= Len(q.queue) /\ plan.cursor <= Len(plan.queue)
  BY <1>2, <1>3, <1>4
<1>7. ASSUME NEW x \in Open(plan), x \notin Open(q) PROVE x \in Task(Current).scopes
  <2>1. PICK i \in plan.cursor + 1..Len(plan.queue) : x \in plan.queue[i].scopes
    BY <1>2, <1>4, <1>6, <1>7, OpenParts
  <2>2. i \notin q.cursor + 1..Len(q.queue)
    BY <1>4, <1>6, <1>7, <2>1, OpenParts
  <2>3. i = Current
    BY <1>2, <1>3, <1>4, <2>1, <2>2
  <2>4. QED
    BY <2>1, <2>3 DEF Task
<1>8. found' \subseteq settled' \cup Open(q)
  BY <1>1, <1>2, <1>7
<1>9. HelpersSound'
  BY <1>1 DEF HelpersSound
<1>10. wave' = {} /\ upto' \in Nat /\ workers' \in 0..MaxWorkers
  BY <1>1 DEF FlexInv, JobTypeOK, WaveSound
<1>11. QED
  BY <1>1, <1>2, <1>3, <1>4, <1>5, <1>8, <1>9, <1>10, GoesOn DEF PlanSound

LEMMA Waves ==
  ASSUME FlexInv, WaveBegins
  PROVE  /\ WaveEnd \in Nat /\ Current <= WaveEnd /\ WaveEnd <= Len(plan.queue)
         /\ Cardinality(Undone(WaveEnd)) <= Remaining /\ Cardinality(Undone(WaveEnd)) \in Nat
<1>1. stage = "run" /\ WaveEnds # {} /\ Current \in Nat /\ Len(plan.queue) \in Nat
  BY RunFacts DEF WaveBegins, AtTask, Current
<1>2. WaveEnds \subseteq Current..Len(plan.queue) /\ IsFiniteSet(Current..Len(plan.queue))
  <2>1. WaveEnds \subseteq Current..Len(plan.queue)
    BY DEF WaveEnds
  <2>2. IsFiniteSet(Current..Len(plan.queue))
    <3>1. Current \in Int /\ Len(plan.queue) \in Int
      BY <1>1
    <3>2. QED
      BY ONLY <3>1, FS_Interval
  <2>3. QED
    BY <2>1, <2>2
<1>3. WaveEnds \in SUBSET Nat /\ IsFiniteSet(WaveEnds)
  <2>1. IsFiniteSet(WaveEnds)
    BY <1>2, FS_Subset
  <2>2. Current..Len(plan.queue) \subseteq Nat
    BY <1>1
  <2>3. QED
    BY <1>2, <2>1, <2>2
<1>4. \E m \in WaveEnds : \A j \in WaveEnds : j <= m
  BY <1>1, <1>3, Greatest
<1>5. WaveEnd \in WaveEnds
  BY <1>4 DEF WaveEnd
<1>6. WaveEnd \in Nat /\ Current <= WaveEnd /\ WaveEnd <= Len(plan.queue)
  BY <1>1, <1>2, <1>5
<1>7. IsFiniteSet(Undone(WaveEnd))
  <2>1. Undone(WaveEnd) \subseteq Current..WaveEnd /\ IsFiniteSet(Current..WaveEnd)
    <3>1. IsFiniteSet(Current..WaveEnd)
      <4>1. Current \in Int /\ WaveEnd \in Int
        BY <1>1, <1>6
      <4>2. QED
        BY ONLY <4>1, FS_Interval
    <3>2. QED
      BY <3>1 DEF Undone
  <2>2. QED
    BY <2>1, FS_Subset
<1>8. QED
  BY <1>5, <1>6, <1>7, FS_CardinalityType DEF WaveEnds

LEMMA WaveStep ==
  ASSUME FlexInv, WaveBegins
  PROVE  FlexInv'
<1>1. /\ stage = "run" /\ stage' = "work" /\ helping = {} /\ upto' = WaveEnd /\ wave' = Undone(WaveEnd)
      /\ workers' = workers + Cardinality(Undone(WaveEnd))
      /\ plan' = IF Task(Current).read THEN plan ELSE [plan EXCEPT !.read = {}]
      /\ UNCHANGED <<disk, helping, judged, folded, injected, how, found, settled>>
  BY DEF WaveBegins, AtTask, request, history
<1>2. /\ plan \in PlanType /\ PlanSound(plan) /\ plan.active /\ plan.queue # <<>>
      /\ plan.knows = folded + injected /\ how = "none" /\ Len(plan.queue) \in Nat
  BY <1>1, RunFacts
<1>3. disk = plan
  BY <1>1 DEF FlexInv, InStep
<1>4. /\ plan' \in PlanType /\ plan'.active = plan.active
      /\ plan'.owner = plan.owner /\ plan'.queue = plan.queue /\ plan'.cursor = plan.cursor
      /\ plan'.outputs = plan.outputs /\ plan'.leases = plan.leases /\ plan'.unrun = plan.unrun
      /\ plan'.obligations = plan.obligations /\ plan'.errors = plan.errors
      /\ plan'.fatal = plan.fatal /\ plan'.asks = plan.asks /\ plan'.read \in {plan.read, {}}
      /\ plan'.interim = plan.interim /\ plan'.signature = plan.signature
      /\ plan'.aliases = plan.aliases /\ plan'.knows = plan.knows
  BY ZenonT(60), <1>1, <1>2 DEF PlanType
<1>5. PlanSound(plan')
  <2>1. Limited(plan') /\ OutputsSound(plan') /\ Signed(plan') /\ InterimSound(plan')
    BY <1>2, <1>4 DEF PlanSound, Limited, OutputsSound, Signed, InterimSound
  <2>2. OwnerSound(plan')
    BY <1>2, <1>4 DEF PlanSound, OwnerSound
  <2>3. QED
    BY <2>1, <2>2 DEF PlanSound
<1>6. /\ WaveEnd \in Nat /\ Current <= WaveEnd /\ WaveEnd <= Len(plan.queue)
      /\ Cardinality(Undone(WaveEnd)) <= Remaining /\ Cardinality(Undone(WaveEnd)) \in Nat
  BY Waves
<1>7. JobTypeOK'
  <2>1. workers' \in 0..MaxWorkers
    <3>1. workers \in Nat /\ MaxWorkers \in Nat
      BY Numbers DEF FlexInv, JobTypeOK
    <3>2. QED
      BY <1>1, <1>6, <3>1 DEF Remaining
  <2>2. QED
    BY <1>1, <1>4, <1>6, <2>1 DEF FlexInv, JobTypeOK
<1>8. InStep'
  BY <1>1, <1>2, <1>3, <1>4 DEF InStep
<1>9. WaveSound'
  <2>1. Current' = Current /\ \A i : Done(i)' <=> Done(i)
    BY <1>4 DEF Current, Done
  <2>2. QED
    BY <1>1, <1>4, <1>6, <2>1 DEF WaveSound, Undone
<1>10. HelpersSound'
  BY <1>1 DEF HelpersSound
<1>11. ScopesInv'
  <2>1. \A p \in {plan', disk'} : \A key \in p.read : key[2] \in settled
    BY <1>1, <1>3, <1>4 DEF FlexInv, ScopesInv
  <2>2. QED
    BY <1>1, <1>2, <2>1 DEF FlexInv, ScopesInv, RepliesTell
<1>12. PlanSound(disk)'
  BY <1>1, <1>2, <1>3
<1>13. QED
  BY <1>5, <1>7, <1>8, <1>9, <1>10, <1>11, <1>12 DEF FlexInv

LEMMA AllowanceStep ==
  ASSUME FlexInv, AllowanceEnds
  PROVE  FlexInv'
<1>1. JobEnds("budget") /\ UNCHANGED <<disk, found, settled>>
  BY DEF AllowanceEnds, history
<1>2. QED
  BY <1>1, Ended, Leaving DEF FlexInv, JobTypeOK, ScopesInv

\* A result takes nothing from a plan.
LEMMA ResultStep ==
  ASSUME FlexInv, NEW i \in Indices, WorkerReturns(i)
  PROVE  FlexInv'
<1>1. stage = "work" /\ i \in wave /\ UNCHANGED <<found, settled>>
  BY DEF WorkerReturns, history
<1>2. PICK o \in Endings :
        LET after == [plan EXCEPT !.outputs[i] = Output(o)]
        IN \/ /\ o.end = "tools" /\ disk' = after /\ JobEnds("budget")
           \/ /\ o.end = "prerequisite" /\ disk' = after /\ JobEnds("deferred")
           \/ /\ Output(o).complete /\ plan' = after /\ wave' = wave \ {i}
              /\ IF upto > Current THEN Saves ELSE UNCHANGED disk
              /\ UNCHANGED <<stage, upto, helping, workers, judged, request, starts, how>>
  BY DEF WorkerReturns
<1> DEFINE out == Output(o)
           outputs == [plan.outputs EXCEPT ![i] = out]
           q == [plan EXCEPT !.outputs = outputs]
<1>3. /\ plan \in PlanType /\ PlanSound(plan) /\ disk \in PlanType /\ PlanSound(disk)
      /\ plan.active /\ plan.queue # <<>>
      /\ plan.knows = folded + injected /\ how = "none" /\ Len(plan.queue) \in Nat
      /\ disk.active /\ Open(disk) = Open(plan)
      /\ found \subseteq settled \cup Open(plan) /\ found \subseteq Scopes /\ settled \subseteq Scopes
      /\ \A p \in {plan, disk} : \A key \in p.read : key[2] \in settled
      /\ plan.cursor \in Nat /\ plan.cursor <= Len(plan.queue)
  BY <1>1, RunFacts
<1>4. i \in Current..upto /\ ~Done(i) /\ upto <= Len(plan.queue) /\ Current <= upto /\ upto \in Nat
      /\ \A j \in Current..upto : j \in wave <=> ~Done(j)
      /\ wave \subseteq Current..upto /\ helping = {}
  BY <1>1 DEF FlexInv, JobTypeOK, WaveSound, HelpersSound
<1>5. /\ out \in OutputType /\ ~out.held /\ ~out.processed /\ out.round = 0
      /\ (out.complete <=> o.end \notin {"tools", "prerequisite"}) /\ out.end = o.end /\ o.end # "none"
  <2>1. o \in [end : EndType, tier : 0..Top, followups : Seq(TaskType), detached : BOOLEAN]
    BY FlexAssumption
  <2>2. QED
    BY <2>1 DEF Output, NoOutput, OutputType, EndType
<1>6. plan.outputs \in [Indices -> OutputType] /\ plan.leases \in [Indices -> Seq(LeaseType)]
      /\ plan.interim \in [Indices -> Seq(TaskType)]
  BY <1>3, Fields
<1> HIDE DEF out
<1>7. /\ outputs \in [Indices -> OutputType] /\ outputs[i] = out
      /\ \A j \in Indices \ {i} : outputs[j] = plan.outputs[j]
  BY <1>5, <1>6
<1>8. [plan EXCEPT !.outputs[i] = out] = q
  BY <1>3, <1>6 DEF PlanType
<1>9. /\ q \in PlanType /\ q.active = plan.active
      /\ q.owner = plan.owner /\ q.queue = plan.queue /\ q.cursor = plan.cursor
      /\ q.outputs = outputs /\ q.leases = plan.leases /\ q.unrun = plan.unrun
      /\ q.obligations = plan.obligations /\ q.errors = plan.errors
      /\ q.fatal = plan.fatal /\ q.asks = plan.asks /\ q.read = plan.read
      /\ q.interim = plan.interim /\ q.signature = plan.signature
      /\ q.aliases = plan.aliases /\ q.knows = plan.knows
  <2> HIDE DEF outputs
  <2> QED
    BY ZenonT(60), <1>3, <1>7 DEF PlanType
<1> HIDE DEF q, outputs
<1>10. PlanSound(q)
  <2>1. Limited(q) /\ Signed(q) /\ InterimSound(q)
    BY <1>3, <1>9 DEF PlanSound, Limited, Signed, InterimSound
  <2>2. OutputsSound(q)
    <3> SUFFICES ASSUME NEW j \in Indices
                 PROVE  LET x == outputs[j]
                        IN /\ x.complete => x.end \notin {"none", "tools", "prerequisite"}
                           /\ x.held => x.complete
                           /\ x.round <= Len(plan.leases[j])
                           /\ x.processed /\ ~x.held =>
                                x.end = "lease" /\ ToSet(x.followups) \subseteq ToSet(plan.interim[j])
      BY <1>9 DEF OutputsSound
    <3>1. CASE j = i
      <4>1. Len(plan.leases[j]) \in Nat
        BY <1>6, LenProperties
      <4>2. QED
        BY <3>1, <4>1, <1>5, <1>7
    <3>2. CASE j # i
      BY <3>2, <1>3, <1>7 DEF PlanSound, OutputsSound
    <3>3. QED
      BY <3>1, <3>2
  <2>3. OwnerSound(q)
    <3>1. 1 \in Indices
      BY Numbers DEF Indices
    <3>2. plan.cursor = 0 /\ plan.owner /\ ~outputs[1].held => ~plan.outputs[1].held
      <4>1. ~plan.outputs[i].held
        BY <1>3, <1>4 DEF Done, PlanSound, OutputsSound
      <4>2. QED
        BY <4>1, <3>1, <1>7
    <3>3. QED
      BY <3>2, <1>3, <1>9 DEF PlanSound, OwnerSound
  <2>4. QED
    BY <2>1, <2>2, <2>3 DEF PlanSound
<1>11. Open(q) = Open(plan)
  BY <1>9 DEF Open
<1>12. CASE disk' = q /\ (JobEnds("budget") \/ JobEnds("deferred"))
  <2>1. PICK h \in {"budget", "deferred"} : JobEnds(h)
    BY <1>12
  <2>2. Leaves(h) /\ folded' \in Nat /\ folded' <= MaxGuidance
    BY <2>1, Ended
  <2>3. QED
    BY <2>2, <1>1, <1>3, <1>9, <1>10, <1>11, <1>12, Leaving
<1>13. CASE /\ out.complete /\ plan' = q /\ wave' = wave \ {i} /\ disk' \in {q, disk}
            /\ UNCHANGED <<stage, upto, helping, workers, judged, request, starts, how>>
  <2>1. PlanSound(plan)' /\ PlanSound(disk)' /\ JobTypeOK'
    BY <1>1, <1>3, <1>9, <1>10, <1>13 DEF FlexInv, JobTypeOK, request
  <2>2. InStep'
    BY <1>1, <1>3, <1>9, <1>13 DEF FlexInv, InStep, request
  <2>3. WaveSound'
    <3>1. Current' = Current
      BY <1>9, <1>13 DEF Current
    <3>2. \A j \in Current..upto : j \in Indices
      <4>1. upto <= MaxQueue /\ MaxQueue \in Nat
        BY <1>3, <1>4, Numbers DEF PlanSound, Limited
      <4>2. QED
        BY <1>3, <1>4, <4>1 DEF Current, Indices
    <3>3. \A j \in Current..upto : Done(j)' <=> (j = i \/ Done(j))
      BY <1>7, <1>9, <1>13, <3>2 DEF Done
    <3>4. QED
      BY <1>1, <1>4, <1>9, <1>13, <3>1, <3>3 DEF WaveSound
  <2>4. HelpersSound'
    BY <1>1, <1>4, <1>13 DEF HelpersSound
  <2>5. ScopesInv'
    BY <1>1, <1>3, <1>9, <1>11, <1>13 DEF ScopesInv, RepliesTell
  <2>6. QED
    BY <2>1, <2>2, <2>3, <2>4, <2>5 DEF FlexInv
<1>14. QED
  BY <1>2, <1>8, <1>12, <1>13 DEF Saves, out

-------------------------------------------------------------------------------
\* What a report leads to.
LEMMA SettlingFacts ==
  ASSUME FlexInv, Settling
  PROVE  /\ stage = "work" /\ wave = {} /\ helping = {}
         /\ Current = plan.cursor + 1 /\ Current \in 1..Len(plan.queue) /\ Current \in Indices
         /\ Current <= upto /\ upto <= Len(plan.queue) /\ upto \in Nat
         /\ Task(Current) \in TaskType
         /\ It \in OutputType /\ It.complete
         /\ It.end \in {"report", "await", "fail", "limit", "lease", "escalate"}
         /\ plan.owner => Current = 1 /\ Len(plan.queue) = 1 /\ plan.cursor = 0 /\ plan.read = {}
         /\ ~plan.owner => plan.obligations = <<>>
<1>1. stage = "work" /\ wave = {}
  BY DEF Settling
<1>2. /\ plan \in PlanType /\ PlanSound(plan) /\ plan.cursor \in Nat /\ Len(plan.queue) \in Nat
      /\ \A i \in 1..Len(plan.queue) : i \in Indices /\ Task(i) \in TaskType
  BY <1>1, RunFacts
<1>3. /\ helping = {} /\ Current <= upto /\ upto <= Len(plan.queue) /\ upto \in Nat
      /\ \A i \in Current..upto : Done(i)
  BY <1>1 DEF FlexInv, JobTypeOK, HelpersSound, WaveSound
<1>4. Current = plan.cursor + 1 /\ Current \in 1..Len(plan.queue) /\ Current \in Current..upto
  <2>1. Current = plan.cursor + 1
    BY DEF Current
  <2>2. Current \in Nat /\ Current >= 1
    BY <1>2, <2>1
  <2>3. QED
    BY <1>2, <1>3, <2>1, <2>2
<1>5. It \in OutputType /\ It.complete
  BY <1>2, <1>3, <1>4, Fields DEF It, Done
<1>6. It.end \in {"report", "await", "fail", "limit", "lease", "escalate"}
  <2>1. It.end \notin {"none", "tools", "prerequisite"}
    BY <1>2, <1>4, <1>5 DEF PlanSound, OutputsSound, It
  <2>2. QED
    BY <1>5, <2>1 DEF OutputType, EndType
<1>7. plan.owner => Current = 1 /\ Len(plan.queue) = 1 /\ plan.cursor = 0 /\ plan.read = {}
  <2>1. plan.owner => plan.read = {} /\ Len(plan.queue) = 1
    BY <1>2 DEF PlanSound, OwnerSound
  <2> SUFFICES ASSUME plan.owner
               PROVE  Current = 1 /\ Len(plan.queue) = 1 /\ plan.cursor = 0 /\ plan.read = {}
    OBVIOUS
  <2>2. Len(plan.queue) = 1 /\ plan.read = {}
    BY <2>1
  <2>3. QED
    BY <1>2, <1>4, <2>2
<1>8. ~plan.owner => plan.obligations = <<>>
  BY <1>2 DEF PlanSound, OwnerSound
<1>9. QED
  BY <1>1, <1>2, <1>3, <1>4, <1>5, <1>6, <1>7, <1>8

\* The obligations after a report: nothing that was open is forgotten, and an
\* owner's new report adds what it names.
LEMMA Obliged ==
  ASSUME FlexInv, Settling
  PROVE  /\ Obligations \in Seq(RowType) /\ OpenScopes(plan.obligations) \subseteq OpenScopes(Obligations)
         /\ plan.owner /\ ~It.processed => ScopesOf(It.followups) \subseteq OpenScopes(Obligations)
         /\ ~plan.owner => Obligations = <<>>
         /\ TooMany => OpenScopes(plan.obligations) \subseteq OpenScopes(SubSeq(Obligations, 1, MaxObligations))
<1>1. plan \in PlanType /\ PlanSound(plan) /\ plan.obligations \in Seq(RowType)
  BY SettlingFacts, RunFacts, Fields
<1>2. It.followups \in Seq(TaskType)
  BY SettlingFacts DEF OutputType
<1>3. ScopesOf(It.followups) \subseteq Scopes /\ IsFiniteSet(ScopesOf(It.followups))
  BY <1>2, ScopesType
<1>4. Len(plan.obligations) <= MaxObligations /\ MaxObligations \in Nat /\ Len(plan.obligations) \in Nat
  BY <1>1, Numbers, LenProperties DEF PlanSound, Limited
<1>5. CASE ~plan.owner \/ It.processed
  <2>1. Obligations = plan.obligations
    BY <1>5 DEF Obligations
  <2>2. ~TooMany
    BY <1>4, <2>1 DEF TooMany
  <2>3. QED
    BY <1>1, <1>5, <2>1, <2>2, SettlingFacts
<1>6. CASE plan.owner /\ ~It.processed
  <2>1. Obligations = CameBack(plan.obligations, ScopesOf(It.followups))
                        \o NewRows(plan.obligations, ScopesOf(It.followups))
    BY <1>6 DEF Obligations
  <2>2. QED
    BY <1>1, <1>3, <1>4, <1>6, <2>1, Named DEF TooMany
<1>7. QED
  BY <1>5, <1>6

\* What is recorded of a report, field by field.
LEMMA RecordedFacts ==
  ASSUME FlexInv, Settling
  PROVE  /\ Recorded \in PlanType
         /\ Recorded.active = plan.active /\ Recorded.owner = plan.owner
         /\ Recorded.queue = plan.queue /\ Recorded.cursor = plan.cursor
         /\ Recorded.leases = plan.leases /\ Recorded.unrun = plan.unrun
         /\ Recorded.asks = plan.asks /\ Recorded.read = plan.read
         /\ Recorded.signature = plan.signature /\ Recorded.aliases = plan.aliases
         /\ Recorded.knows = plan.knows /\ Recorded.obligations = Obligations
         /\ Recorded.fatal = (plan.fatal \/ It.end = "limit")
         /\ Recorded.errors = (IF It.end \in {"fail", "limit"} THEN plan.errors + 1 ELSE plan.errors)
         /\ Recorded.outputs = [plan.outputs EXCEPT ![Current] = [It EXCEPT !.processed = TRUE]]
         /\ ToSet(Recorded.interim[Current]) = ToSet(plan.interim[Current]) \cup ToSet(It.followups)
         /\ \A i \in Indices \ {Current} : Recorded.interim[i] = plan.interim[i]
<1> DEFINE heard == plan.interim[Current] \o Only(It.followups, Unheard)
           interim == [plan.interim EXCEPT ![Current] = heard]
           out == [It EXCEPT !.processed = TRUE]
           outputs == [plan.outputs EXCEPT ![Current] = out]
           errors == IF It.end \in {"fail", "limit"} THEN plan.errors + 1 ELSE plan.errors
           fatal == plan.fatal \/ It.end = "limit"
           unavailable == IF It.end = "limit" THEN plan.unavailable \cup {Task(Current).tier}
                          ELSE plan.unavailable
<1>1. /\ plan \in PlanType /\ Current \in Indices /\ It \in OutputType
      /\ Task(Current) \in TaskType /\ Obligations \in Seq(RowType)
  BY SettlingFacts, RunFacts, Obliged
<1>2. /\ plan.outputs \in [Indices -> OutputType] /\ plan.interim \in [Indices -> Seq(TaskType)]
      /\ plan.errors \in Nat /\ plan.fatal \in BOOLEAN /\ plan.unavailable \subseteq 0..Top
  BY <1>1, Fields
<1>3. It.followups \in Seq(TaskType) /\ plan.interim[Current] \in Seq(TaskType)
  BY <1>1, <1>2 DEF OutputType
<1>4. /\ Only(It.followups, Unheard) \in Seq(TaskType)
      /\ ToSet(Only(It.followups, Unheard)) = {It.followups[k] : k \in Unheard}
  BY <1>3, OnlyThose DEF Unheard
<1>5. heard \in Seq(TaskType) /\ ToSet(heard) = ToSet(plan.interim[Current]) \cup ToSet(It.followups)
  <2>1. /\ heard \in Seq(TaskType)
        /\ ToSet(heard) = ToSet(plan.interim[Current]) \cup ToSet(Only(It.followups, Unheard))
    BY <1>3, <1>4, ToSetConcat
  <2>2. ToSet(It.followups) \subseteq ToSet(plan.interim[Current]) \cup {It.followups[k] : k \in Unheard}
    BY DEF ToSet, Unheard
  <2>3. {It.followups[k] : k \in Unheard} \subseteq ToSet(It.followups)
    BY DEF ToSet, Unheard
  <2>4. QED
    BY <1>4, <2>1, <2>2, <2>3
<1>6. out \in OutputType
  BY <1>1 DEF OutputType
<1> HIDE DEF heard, out
<1>7. interim \in [Indices -> Seq(TaskType)] /\ interim[Current] = heard
      /\ \A i \in Indices \ {Current} : interim[i] = plan.interim[i]
  BY <1>1, <1>2, <1>5
<1>8. outputs \in [Indices -> OutputType]
  BY <1>1, <1>2, <1>6
<1>9. errors \in Nat /\ fatal \in BOOLEAN /\ unavailable \in SUBSET (0..Top)
  <2>1. Task(Current).tier \in 0..Top
    <3>1. Task(Current).tier \in 1..Top
      BY <1>1 DEF TaskType
    <3>2. QED
      BY <3>1, Numbers
  <2>2. QED
    BY <1>2, <2>1
<1>10. Recorded = [plan EXCEPT !.interim = interim, !.obligations = Obligations, !.outputs = outputs,
                               !.errors = errors, !.fatal = fatal, !.unavailable = unavailable]
  BY DEF Recorded, heard, out, It
<1> HIDE DEF interim, outputs, errors, fatal, unavailable
<1> DEFINE q == [plan EXCEPT !.interim = interim, !.obligations = Obligations, !.outputs = outputs,
                             !.errors = errors, !.fatal = fatal, !.unavailable = unavailable]
<1>11. q \in PlanType
  BY <1>1, <1>7, <1>8, <1>9, Zenon DEF PlanType
<1>12. /\ q.active = plan.active /\ q.owner = plan.owner /\ q.queue = plan.queue
       /\ q.cursor = plan.cursor /\ q.leases = plan.leases /\ q.unrun = plan.unrun
  BY <1>1, Zenon DEF PlanType
<1>13. /\ q.asks = plan.asks /\ q.read = plan.read /\ q.signature = plan.signature
       /\ q.aliases = plan.aliases /\ q.knows = plan.knows
  BY <1>1, Zenon DEF PlanType
<1>14. /\ q.interim = interim /\ q.obligations = Obligations /\ q.outputs = outputs
       /\ q.errors = errors /\ q.fatal = fatal
  BY <1>1, Zenon DEF PlanType
<1>15. QED
  <2>1. Recorded = q
    BY <1>10
  <2> HIDE DEF q
  <2>2. QED
    BY <2>1, <1>5, <1>7, <1>11, <1>12, <1>13, <1>14 DEF outputs, out, errors, fatal

\* A plan in which the current task's entries changed, and the task stays.
LEMMA StaysSound ==
  ASSUME FlexInv, Settling, NEW q \in PlanType,
         q.active = plan.active, q.owner = plan.owner, Len(q.queue) = Len(plan.queue),
         q.cursor = plan.cursor, q.read = plan.read, q.signature = plan.signature,
         q.aliases = plan.aliases, q.knows = plan.knows, plan.fatal => q.fatal,
         \A i \in Indices \ {Current} : /\ q.outputs[i] = plan.outputs[i] /\ q.leases[i] = plan.leases[i]
                                        /\ q.interim[i] = plan.interim[i],
         Len(q.leases[Current]) <= MaxLeases, Len(q.obligations) <= MaxObligations,
         q.owner \/ q.obligations = <<>>,
         LET o == q.outputs[Current]
         IN /\ o.complete => o.end \notin {"none", "tools", "prerequisite"}
            /\ o.held => o.complete
            /\ o.round <= Len(q.leases[Current])
            /\ o.processed /\ ~o.held =>
                 o.end = "lease" /\ ToSet(o.followups) \subseteq ToSet(q.interim[Current]),
         q.owner /\ ~q.outputs[Current].held =>
           q.errors = 0 /\ ScopesOf(q.interim[Current]) \subseteq OpenScopes(q.obligations)
  PROVE  PlanSound(q)
<1>1. /\ plan \in PlanType /\ PlanSound(plan) /\ plan.active /\ plan.queue # <<>>
      /\ plan.cursor \in Nat /\ plan.cursor <= Len(plan.queue) /\ Len(plan.queue) \in Nat
      /\ Len(plan.queue) <= MaxQueue
  BY SettlingFacts, RunFacts
<1>2. /\ Current = plan.cursor + 1 /\ Current \in 1..Len(plan.queue) /\ Current \in Indices
      /\ plan.owner => Current = 1 /\ Len(plan.queue) = 1 /\ plan.cursor = 0 /\ plan.read = {}
  BY SettlingFacts
<1>3. Limited(q)
  <2>1. \A i \in Indices : Len(q.leases[i]) <= MaxLeases
    BY <1>1 DEF PlanSound, Limited
  <2>2. q.queue # <<>>
    <3>1. Len(q.queue) # 0
      BY <1>1, <1>2
    <3>2. Len(<<>>) = 0
      OBVIOUS
    <3>3. QED
      BY <3>1, <3>2
  <2>3. QED
    BY <1>1, <2>1, <2>2 DEF PlanSound, Limited
<1>4. OutputsSound(q)
  BY ZenonT(60), <1>1 DEF PlanSound, OutputsSound
<1>5. Signed(q)
  BY <1>1 DEF PlanSound, Signed
<1>6. OwnerSound(q)
  <2>1. CASE plan.owner
    <3>1. Current = 1 /\ q.cursor = 0 /\ q.read = {} /\ Len(q.queue) = 1
      BY <1>2, <2>1
    <3>2. QED
      BY <2>1, <3>1 DEF OwnerSound
  <2>2. CASE ~plan.owner
    BY <2>2 DEF OwnerSound
  <2>3. QED
    BY <2>1, <2>2
<1>7. InterimSound(q)
  <2> SUFFICES ASSUME NEW i \in Indices, q.interim[i] # <<>>
               PROVE  q.fatal \/ (i = q.cursor + 1 /\ i <= Len(q.queue))
    BY DEF InterimSound
  <2>1. CASE i = Current
    BY <2>1, <1>1, <1>2
  <2>2. CASE i # Current
    BY <2>2, <1>1, <1>2 DEF PlanSound, InterimSound
  <2>3. QED
    BY <2>1, <2>2
<1>8. QED
  BY <1>3, <1>4, <1>5, <1>6, <1>7 DEF PlanSound

\* A scope that is found stays open while the task stays, if its report is kept
\* or names obligations.
LEMMA StaysOpen ==
  ASSUME FlexInv, Settling, NEW q \in PlanType,
         Len(q.queue) = Len(plan.queue), q.cursor = plan.cursor, q.unrun = plan.unrun,
         \A i \in 1..Len(plan.queue) : q.queue[i].scopes = plan.queue[i].scopes,
         OpenScopes(plan.obligations) \subseteq OpenScopes(q.obligations),
         \A i \in Indices \ {Current} : q.interim[i] = plan.interim[i],
         ScopesOf(plan.interim[Current]) \cup ScopesOf(It.followups)
           \subseteq ScopesOf(q.interim[Current]) \cup OpenScopes(q.obligations),
         Finds
  PROVE  /\ found' \subseteq settled' \cup Open(q) /\ found' \subseteq Scopes /\ settled' \subseteq Scopes
         /\ q.read = plan.read => \A key \in q.read : key[2] \in settled'
<1>1. /\ plan \in PlanType /\ found \subseteq settled \cup Open(plan) /\ plan.cursor \in Nat
      /\ plan.cursor <= Len(plan.queue) /\ Len(plan.queue) \in Nat
      /\ found \subseteq Scopes /\ settled \subseteq Scopes
      /\ \A key \in plan.read : key[2] \in settled
  BY SettlingFacts, RunFacts
<1>2. /\ Current \in Indices /\ It \in OutputType
      /\ plan.owner => Current = 1 /\ Len(plan.queue) = 1 /\ plan.cursor = 0 /\ plan.read = {}
  BY SettlingFacts
<1>3. It.followups \in Seq(TaskType) /\ ScopesOf(It.followups) \subseteq Scopes
  BY <1>2, ScopesType DEF OutputType
<1>4. ASSUME NEW x \in OpenScopes(q.obligations) \cup ScopesOf(q.interim[Current])
      PROVE  x \in Open(q)
  BY <1>1, <1>2, OpenParts
<1>5. ASSUME NEW x \in Open(plan) PROVE x \in Open(q)
  <2>1. CASE \E i \in plan.cursor + 1..Len(plan.queue) : x \in plan.queue[i].scopes
    <3>1. PICK i \in plan.cursor + 1..Len(plan.queue) : x \in plan.queue[i].scopes
      BY <2>1
    <3>2. i \in 1..Len(plan.queue)
      BY <1>1
    <3>3. x \in q.queue[i].scopes /\ i \in q.cursor + 1..Len(q.queue)
      BY <3>1, <3>2
    <3>4. QED
      BY <3>3, <1>1, OpenParts
  <2>2. CASE \E t \in plan.unrun : x \in t.scopes
    BY <2>2, <1>1, OpenParts
  <2>3. CASE x \in OpenScopes(plan.obligations)
    BY <2>3, <1>4
  <2>4. CASE \E i \in Indices : x \in ScopesOf(plan.interim[i])
    <3>1. PICK i \in Indices : x \in ScopesOf(plan.interim[i])
      BY <2>4
    <3>2. CASE i = Current
      BY <3>1, <3>2, <1>4
    <3>3. CASE i # Current
      BY <3>1, <3>3, <1>1, OpenParts
    <3>4. QED
      BY <3>2, <3>3
  <2>5. QED
    BY <1>1, <2>1, <2>2, <2>3, <2>4, OpenParts
<1>6. found' = found \cup ScopesOf(It.followups)
      /\ settled' = (IF plan.owner /\ ~It.processed THEN settled \ ScopesOf(It.followups) ELSE settled)
  BY DEF Finds
<1>7. found' \subseteq settled' \cup Open(q)
  BY <1>1, <1>4, <1>5, <1>6
<1>8. q.read = plan.read => \A key \in q.read : key[2] \in settled'
  BY <1>1, <1>2, <1>6
<1>9. QED
  BY <1>1, <1>3, <1>6, <1>7, <1>8

LEMMA Heard ==
  ASSUME FlexInv, Settling
  PROVE  /\ ScopesOf(Recorded.interim[Current]) = ScopesOf(plan.interim[Current]) \cup ScopesOf(It.followups)
         /\ Recorded.interim \in [Indices -> Seq(TaskType)]
         /\ Recorded.outputs[Current] = [It EXCEPT !.processed = TRUE]
         /\ It.round \in Nat /\ It.round <= Len(plan.leases[Current])
         /\ It.followups \in Seq(TaskType) /\ ScopesOf(It.followups) \subseteq Scopes
         /\ plan.leases \in [Indices -> Seq(LeaseType)] /\ Len(plan.leases[Current]) \in Nat
         /\ Len(plan.leases[Current]) <= MaxLeases
         /\ plan.outputs \in [Indices -> OutputType]
<1>1. plan \in PlanType /\ PlanSound(plan) /\ Current \in Indices /\ It \in OutputType
  BY SettlingFacts, RunFacts
<1>2. plan.leases \in [Indices -> Seq(LeaseType)] /\ plan.outputs \in [Indices -> OutputType]
  BY <1>1, Fields
<1>3. It.round \in Nat /\ It.round <= Len(plan.leases[Current]) /\ Len(plan.leases[Current]) \in Nat
      /\ Len(plan.leases[Current]) <= MaxLeases
  <2>1. Len(plan.leases[Current]) \in Nat
    BY <1>1, <1>2, LenProperties
  <2>2. QED
    BY <1>1, <2>1 DEF PlanSound, OutputsSound, Limited, It, OutputType
<1>4. It.followups \in Seq(TaskType) /\ ScopesOf(It.followups) \subseteq Scopes
  BY <1>1, ScopesType DEF OutputType
<1>5. Recorded.interim \in [Indices -> Seq(TaskType)]
  BY RecordedFacts, Fields
<1>6. Recorded.outputs[Current] = [It EXCEPT !.processed = TRUE]
  BY <1>1, <1>2, RecordedFacts
<1>7. ScopesOf(Recorded.interim[Current]) = ScopesOf(plan.interim[Current]) \cup ScopesOf(It.followups)
  BY RecordedFacts DEF ScopesOf
<1>8. QED
  BY <1>2, <1>3, <1>4, <1>5, <1>6, <1>7

\* A held task keeps its output, its reports and, within the limit, what is open.
LEMMA HeldStep ==
  ASSUME FlexInv, HeldAgain \/ Held
  PROVE  FlexInv'
<1>1. CASE HeldAgain
  <2>1. JobEnds("held") /\ UNCHANGED <<disk, found, settled>>
    BY <1>1 DEF HeldAgain, history
  <2>2. QED
    BY <2>1, Ended, Leaving DEF FlexInv, JobTypeOK, ScopesInv
<1>2. CASE Held
  <2> USE <1>2
  <2> DEFINE rows == SubSeq(Obligations, 1, IF TooMany THEN MaxObligations ELSE Len(Obligations))
             out == [It EXCEPT !.processed = TRUE, !.held = TRUE]
             outputs == [plan.outputs EXCEPT ![Current] = out]
             q == [Recorded EXCEPT !.obligations = rows, !.outputs = outputs]
  <2>1. Settling /\ JobEnds("held") /\ Finds /\ disk' = [Kept EXCEPT !.outputs[Current].held = TRUE]
    BY DEF Held, Holds
  <2>2. /\ plan \in PlanType /\ PlanSound(plan) /\ plan.active /\ plan.knows = folded + injected
        /\ \A key \in plan.read : key[2] \in settled
    BY <2>1, SettlingFacts, RunFacts
  <2>3. /\ Current \in Indices /\ It \in OutputType /\ It.complete
        /\ It.end \in {"report", "await", "fail", "limit", "lease", "escalate"}
        /\ ~plan.owner => plan.obligations = <<>>
    BY <2>1, SettlingFacts
  <2>4. /\ Obligations \in Seq(RowType) /\ OpenScopes(plan.obligations) \subseteq OpenScopes(Obligations)
        /\ ~plan.owner => Obligations = <<>>
        /\ TooMany => OpenScopes(plan.obligations) \subseteq OpenScopes(SubSeq(Obligations, 1, MaxObligations))
        /\ Len(Obligations) \in Nat /\ MaxObligations \in Nat
    BY <2>1, Obliged, Numbers, LenProperties
  <2>5. /\ rows \in Seq(RowType) /\ Len(rows) <= MaxObligations
        /\ OpenScopes(plan.obligations) \subseteq OpenScopes(rows)
        /\ ~plan.owner => rows = <<>>
    <3>1. CASE TooMany
      <4>1. rows = SubSeq(Obligations, 1, MaxObligations) /\ MaxObligations < Len(Obligations)
        BY <3>1, <2>4 DEF TooMany
      <4>2. SubSeq(Obligations, 1, MaxObligations) \in Seq(RowType)
            /\ Len(SubSeq(Obligations, 1, MaxObligations)) = MaxObligations
        BY <2>4, <4>1
      <4>3. plan.owner
        BY <2>4, <4>1
      <4> HIDE DEF rows
      <4>4. QED
        BY <2>4, <3>1, <4>1, <4>2, <4>3
    <3>2. CASE ~TooMany
      <4>1. rows = Obligations /\ Len(Obligations) <= MaxObligations
        BY <3>2, <2>4 DEF TooMany
      <4> HIDE DEF rows
      <4>2. QED
        BY <2>4, <4>1
    <3>3. QED
      BY <3>1, <3>2
  <2>6. /\ Recorded \in PlanType
        /\ Recorded.active = plan.active /\ Recorded.owner = plan.owner
        /\ Recorded.queue = plan.queue /\ Recorded.cursor = plan.cursor
        /\ Recorded.leases = plan.leases /\ Recorded.unrun = plan.unrun
        /\ Recorded.read = plan.read
        /\ Recorded.signature = plan.signature /\ Recorded.aliases = plan.aliases
        /\ Recorded.knows = plan.knows /\ Recorded.obligations = Obligations
        /\ Recorded.fatal = (plan.fatal \/ It.end = "limit")
        /\ Recorded.outputs = [plan.outputs EXCEPT ![Current] = [It EXCEPT !.processed = TRUE]]
        /\ \A i \in Indices \ {Current} : Recorded.interim[i] = plan.interim[i]
    BY <2>1, RecordedFacts
  <2>7. /\ ScopesOf(Recorded.interim[Current]) = ScopesOf(plan.interim[Current]) \cup ScopesOf(It.followups)
        /\ It.round <= Len(plan.leases[Current]) /\ plan.outputs \in [Indices -> OutputType]
        /\ Len(plan.leases[Current]) <= MaxLeases
    BY <2>1, Heard
  <2>8. out \in OutputType /\ out.held /\ out.complete /\ out.end = It.end /\ out.round = It.round
    BY <2>3 DEF OutputType
  <2>9. /\ outputs \in [Indices -> OutputType] /\ outputs[Current] = out
        /\ \A i \in Indices \ {Current} : outputs[i] = plan.outputs[i]
    <3> HIDE DEF out
    <3> QED
      BY <2>3, <2>7, <2>8
  <2>10. disk' = q
    <3>1. disk' = [Recorded EXCEPT !.obligations = rows,
                      !.outputs = [Recorded.outputs EXCEPT ![Current].held = TRUE]]
      <4>1. Kept = [Recorded EXCEPT !.obligations = rows]
        BY <2>6 DEF Kept
      <4>2. Kept.outputs = Recorded.outputs
        BY <2>6, <4>1, Zenon DEF PlanType
      <4> HIDE DEF rows
      <4>3. QED
        BY <2>1, <4>1, <4>2
    <3>2. [Recorded.outputs EXCEPT ![Current].held = TRUE] = outputs
      BY <2>3, <2>6, <2>7 DEF OutputType
    <3> HIDE DEF rows, outputs
    <3>3. QED
      BY <3>1, <3>2
  <2> HIDE DEF rows, outputs, out
  <2>11. q \in PlanType
    BY <2>5, <2>6, <2>9, Zenon DEF PlanType
  <2>12. /\ q.active = Recorded.active /\ q.owner = Recorded.owner /\ q.queue = Recorded.queue
         /\ q.cursor = Recorded.cursor /\ q.leases = Recorded.leases /\ q.unrun = Recorded.unrun
         /\ q.read = Recorded.read
    BY <2>6, Zenon DEF PlanType
  <2>13. /\ q.signature = Recorded.signature /\ q.aliases = Recorded.aliases
         /\ q.knows = Recorded.knows /\ q.obligations = rows /\ q.fatal = Recorded.fatal
         /\ q.outputs = outputs /\ q.interim = Recorded.interim
    BY <2>6, Zenon DEF PlanType
  <2> HIDE DEF q
  <2>14. PlanSound(q)
    <3>1. /\ q.active = plan.active /\ q.owner = plan.owner /\ Len(q.queue) = Len(plan.queue)
          /\ q.cursor = plan.cursor /\ q.read = plan.read /\ q.signature = plan.signature
          /\ q.aliases = plan.aliases /\ q.knows = plan.knows /\ (plan.fatal => q.fatal)
      BY <2>6, <2>12, <2>13
    <3>2. \A i \in Indices \ {Current} : /\ q.outputs[i] = plan.outputs[i] /\ q.leases[i] = plan.leases[i]
                                         /\ q.interim[i] = plan.interim[i]
      BY <2>6, <2>9, <2>12, <2>13
    <3>3. Len(q.leases[Current]) <= MaxLeases /\ Len(q.obligations) <= MaxObligations
          /\ (q.owner \/ q.obligations = <<>>)
      BY <2>5, <2>6, <2>7, <2>12, <2>13
    <3>4. LET o == q.outputs[Current]
          IN /\ o.complete => o.end \notin {"none", "tools", "prerequisite"}
             /\ o.held => o.complete
             /\ o.round <= Len(q.leases[Current])
             /\ o.processed /\ ~o.held =>
                  o.end = "lease" /\ ToSet(o.followups) \subseteq ToSet(q.interim[Current])
      BY <2>3, <2>6, <2>7, <2>8, <2>9, <2>12, <2>13
    <3>5. q.owner /\ ~q.outputs[Current].held =>
            q.errors = 0 /\ ScopesOf(q.interim[Current]) \subseteq OpenScopes(q.obligations)
      BY <2>8, <2>9, <2>13
    <3>6. QED
      BY <2>1, <2>11, <3>1, <3>2, <3>3, <3>4, <3>5, StaysSound
  <2>15. /\ found' \subseteq settled' \cup Open(q) /\ found' \subseteq Scopes /\ settled' \subseteq Scopes
         /\ \A key \in q.read : key[2] \in settled'
    <3>1. /\ Len(q.queue) = Len(plan.queue) /\ q.cursor = plan.cursor /\ q.unrun = plan.unrun
          /\ \A i \in 1..Len(plan.queue) : q.queue[i].scopes = plan.queue[i].scopes
          /\ OpenScopes(plan.obligations) \subseteq OpenScopes(q.obligations)
          /\ \A i \in Indices \ {Current} : q.interim[i] = plan.interim[i]
          /\ q.read = plan.read
      BY <2>5, <2>6, <2>12, <2>13
    <3>2. ScopesOf(plan.interim[Current]) \cup ScopesOf(It.followups)
            \subseteq ScopesOf(q.interim[Current]) \cup OpenScopes(q.obligations)
      BY <2>7, <2>13
    <3>3. QED
      BY <2>1, <2>11, <3>1, <3>2, StaysOpen
  <2>16. Leaves("held") /\ folded' \in Nat /\ folded' <= MaxGuidance
    BY <2>1, Ended
  <2>17. QED
    BY <2>10, <2>11, <2>14, <2>15, <2>16, Leaving
<1>3. QED
  BY <1>1, <1>2

\* What is named when the job goes on: the owner's are obligations.
LEMMA Proceeding ==
  ASSUME FlexInv, Proceeds
  PROVE  /\ Settling /\ ~It.held /\ ~TooMany /\ ~Limits /\ Len(Obligations) <= MaxObligations
         /\ It.processed => It.end = "lease" /\ ScopesOf(It.followups) \subseteq ScopesOf(plan.interim[Current])
         /\ plan.owner => /\ plan.errors = 0
                          /\ ScopesOf(plan.interim[Current]) \cup ScopesOf(It.followups)
                               \subseteq OpenScopes(Obligations)
<1>1. Settling /\ ~It.held /\ ~TooMany /\ ~Limits
  BY DEF Proceeds, Limits
<1>2. Len(Obligations) <= MaxObligations
  <2>1. Len(Obligations) \in Nat /\ MaxObligations \in Nat
    BY <1>1, Obliged, Numbers, LenProperties
  <2>2. QED
    BY <1>1, <2>1 DEF TooMany
<1>3. /\ plan \in PlanType /\ PlanSound(plan) /\ Current \in Indices /\ It \in OutputType
      /\ plan.owner => Current = 1 /\ Len(plan.queue) = 1 /\ plan.cursor = 0 /\ plan.read = {}
  BY <1>1, SettlingFacts, RunFacts
<1>4. It.processed => It.end = "lease" /\ ToSet(It.followups) \subseteq ToSet(plan.interim[Current])
  BY <1>1, <1>3 DEF PlanSound, OutputsSound, It
<1>5. It.processed => ScopesOf(It.followups) \subseteq ScopesOf(plan.interim[Current])
  BY <1>4 DEF ScopesOf
<1>6. ASSUME plan.owner
      PROVE  /\ plan.errors = 0
             /\ ScopesOf(plan.interim[Current]) \cup ScopesOf(It.followups) \subseteq OpenScopes(Obligations)
  <2>1. Current = 1 /\ plan.cursor = 0 /\ ~plan.outputs[1].held
    BY <1>1, <1>3, <1>6 DEF It
  <2>2. plan.errors = 0 /\ ScopesOf(plan.interim[Current]) \subseteq OpenScopes(plan.obligations)
    BY <1>3, <1>6, <2>1 DEF PlanSound, OwnerSound
  <2>3. /\ OpenScopes(plan.obligations) \subseteq OpenScopes(Obligations)
        /\ ~It.processed => ScopesOf(It.followups) \subseteq OpenScopes(Obligations)
    BY <1>1, <1>6, Obliged
  <2>4. QED
    BY <1>5, <2>2, <2>3
<1>7. QED
  BY <1>1, <1>2, <1>4, <1>5, <1>6

\* A plan in which the task stays is sound and keeps what was found, if reports
\* are kept or name obligations.
LEMMA StaysStep ==
  ASSUME FlexInv, Proceeds, Finds, NEW q \in PlanType,
         stage' \in {"run", "lease"}, plan' = q, Saves, Resets, UNCHANGED <<request, starts, how>>,
         q.active = plan.active, q.owner = plan.owner, Len(q.queue) = Len(plan.queue),
         \A i \in 1..Len(plan.queue) : q.queue[i].scopes = plan.queue[i].scopes,
         q.cursor = plan.cursor, q.unrun = plan.unrun, q.read = plan.read,
         q.signature = plan.signature, q.aliases = plan.aliases, q.knows = plan.knows,
         q.obligations = Obligations, plan.fatal => q.fatal,
         \A i \in Indices \ {Current} : /\ q.outputs[i] = plan.outputs[i] /\ q.leases[i] = plan.leases[i]
                                        /\ q.interim[i] = plan.interim[i],
         Len(q.leases[Current]) <= MaxLeases, ~q.outputs[Current].held,
         LET o == q.outputs[Current]
         IN /\ o.complete => o.end \notin {"none", "tools", "prerequisite"}
            /\ o.round <= Len(q.leases[Current])
            /\ o.processed => o.end = "lease" /\ ToSet(o.followups) \subseteq ToSet(q.interim[Current]),
         q.owner => q.errors = 0 /\ ScopesOf(q.interim[Current]) \subseteq OpenScopes(q.obligations),
         ScopesOf(plan.interim[Current]) \cup ScopesOf(It.followups)
           \subseteq ScopesOf(q.interim[Current]) \cup OpenScopes(q.obligations),
         stage' = "lease" => q.leases[Current] # <<>>
  PROVE  FlexInv'
<1>1. Settling /\ Len(Obligations) <= MaxObligations
  BY Proceeding
<1>2. /\ plan.active /\ plan.knows = folded + injected /\ how = "none"
      /\ \A key \in plan.read : key[2] \in settled
  BY <1>1, SettlingFacts, RunFacts
<1>3. /\ Current \in 1..Len(plan.queue) /\ Current = plan.cursor + 1 /\ helping = {}
      /\ ~plan.owner => plan.obligations = <<>>
  BY <1>1, SettlingFacts
<1>4. ~plan.owner => Obligations = <<>>
  BY <1>1, Obliged
<1>5. OpenScopes(plan.obligations) \subseteq OpenScopes(q.obligations)
  BY <1>1, Obliged
<1>6. PlanSound(q)
  BY <1>1, <1>4, StaysSound
<1>7. /\ found' \subseteq settled' \cup Open(q) /\ found' \subseteq Scopes /\ settled' \subseteq Scopes
      /\ \A key \in q.read : key[2] \in settled'
  BY <1>1, <1>5, StaysOpen
<1>8. wave' = {} /\ upto' \in Nat /\ workers' \in 0..MaxWorkers /\ UNCHANGED <<helping, judged, how>>
  BY DEF Resets, FlexInv, JobTypeOK
<1>9. plan'.queue # <<>>
  BY <1>2, <1>6 DEF PlanSound, Limited
<1>10. Current' = Current /\ Len(plan'.queue) = Len(plan.queue)
  BY DEF Current
<1>11. Current' <= Len(plan'.queue)
  BY <1>3, <1>10
<1>12. HelpersSound'
  BY <1>3, <1>8, <1>10, <1>11 DEF HelpersSound
<1>13. disk' = plan'
  BY DEF Saves
<1>14. QED
  BY <1>2, <1>6, <1>7, <1>8, <1>9, <1>12, <1>13, GoesOn


LEMMA HelpAskedStep ==
  ASSUME FlexInv, HelpAsked
  PROVE  FlexInv'
<1> DEFINE n == Len(plan.leases[Current]) + 1
           lease == [tier |-> It.tier, initial |-> FALSE,
                     state |-> IF It.tier = Task(Current).tier THEN "complete" ELSE "pending"]
           asked == Append(plan.leases[Current], lease)
           leases == [plan.leases EXCEPT ![Current] = asked]
           out == [It EXCEPT !.processed = TRUE, !.round = n]
           outputs == [plan.outputs EXCEPT ![Current] = out]
           q == [Recorded EXCEPT !.outputs = outputs, !.leases = leases]
<1>1. /\ Proceeds /\ AsksHelp /\ stage' = "lease" /\ Resets /\ Finds /\ Saves
      /\ UNCHANGED <<request, starts, how>>
      /\ plan' = IF It.round # 0 THEN Recorded
                 ELSE [Recorded EXCEPT !.outputs[Current].round = n, !.leases[Current] = Append(@, lease)]
  BY DEF HelpAsked
<1>2. /\ Settling /\ ~It.held /\ ~Limits
      /\ plan.owner => /\ plan.errors = 0
                       /\ ScopesOf(plan.interim[Current]) \cup ScopesOf(It.followups)
                            \subseteq OpenScopes(Obligations)
  BY <1>1, Proceeding
<1>3. /\ Current \in Indices /\ It \in OutputType /\ It.end = "lease"
      /\ Current \in 1..Len(plan.queue)
  BY <1>1, <1>2, SettlingFacts DEF AsksHelp
<1>4. /\ ScopesOf(Recorded.interim[Current]) = ScopesOf(plan.interim[Current]) \cup ScopesOf(It.followups)
      /\ Recorded.outputs[Current] = [It EXCEPT !.processed = TRUE]
      /\ It.round \in Nat /\ It.round <= Len(plan.leases[Current])
      /\ plan.leases \in [Indices -> Seq(LeaseType)] /\ Len(plan.leases[Current]) \in Nat
      /\ Len(plan.leases[Current]) <= MaxLeases
      /\ plan.outputs \in [Indices -> OutputType]
  BY <1>2, Heard
<1>5. /\ Recorded \in PlanType
      /\ Recorded.active = plan.active /\ Recorded.owner = plan.owner
      /\ Recorded.queue = plan.queue /\ Recorded.cursor = plan.cursor
      /\ Recorded.leases = plan.leases /\ Recorded.unrun = plan.unrun
      /\ Recorded.read = plan.read
      /\ Recorded.signature = plan.signature /\ Recorded.aliases = plan.aliases
      /\ Recorded.knows = plan.knows /\ Recorded.obligations = Obligations
      /\ Recorded.fatal = (plan.fatal \/ It.end = "limit")
      /\ Recorded.errors = (IF It.end \in {"fail", "limit"} THEN plan.errors + 1 ELSE plan.errors)
      /\ Recorded.outputs = [plan.outputs EXCEPT ![Current] = [It EXCEPT !.processed = TRUE]]
      /\ ToSet(Recorded.interim[Current]) = ToSet(plan.interim[Current]) \cup ToSet(It.followups)
      /\ \A i \in Indices \ {Current} : Recorded.interim[i] = plan.interim[i]
  BY <1>2, RecordedFacts
<1>6. Recorded.errors = plan.errors
  BY <1>3, <1>5
<1>7. CASE It.round # 0
  <2>1. plan' = Recorded
    BY <1>1, <1>7
  <2>2. /\ Len(Recorded.queue) = Len(plan.queue) /\ (plan.fatal => Recorded.fatal)
        /\ \A i \in 1..Len(plan.queue) : Recorded.queue[i].scopes = plan.queue[i].scopes
        /\ \A i \in Indices \ {Current} : /\ Recorded.outputs[i] = plan.outputs[i]
                                         /\ Recorded.leases[i] = plan.leases[i]
                                         /\ Recorded.interim[i] = plan.interim[i]
    BY <1>4, <1>5
  <2>3. /\ Recorded.outputs[Current].end = "lease" /\ ~Recorded.outputs[Current].held
        /\ Recorded.outputs[Current].round = It.round
        /\ Recorded.outputs[Current].followups = It.followups
    BY <1>2, <1>3, <1>4 DEF OutputType
  <2>4. LET o == Recorded.outputs[Current]
        IN /\ o.complete => o.end \notin {"none", "tools", "prerequisite"}
           /\ o.round <= Len(Recorded.leases[Current])
           /\ o.processed => o.end = "lease" /\ ToSet(o.followups) \subseteq ToSet(Recorded.interim[Current])
    BY <1>4, <1>5, <2>3
  <2>5. Recorded.owner => /\ Recorded.errors = 0
                          /\ ScopesOf(Recorded.interim[Current]) \subseteq OpenScopes(Recorded.obligations)
    BY <1>2, <1>4, <1>5, <1>6
  <2>6. ScopesOf(plan.interim[Current]) \cup ScopesOf(It.followups)
          \subseteq ScopesOf(Recorded.interim[Current]) \cup OpenScopes(Recorded.obligations)
    BY <1>4
  <2>7. Len(Recorded.leases[Current]) <= MaxLeases /\ Recorded.leases[Current] # <<>>
    <3>1. Len(plan.leases[Current]) # 0
      BY <1>4, <1>7
    <3>2. Len(<<>>) = 0
      OBVIOUS
    <3>3. QED
      BY <1>4, <1>5, <3>1, <3>2
  <2>8. QED
    BY <1>1, <1>5, <2>1, <2>2, <2>3, <2>4, <2>5, <2>6, <2>7, StaysStep
<1>8. CASE It.round = 0
  <2>1. n \in Nat /\ n <= MaxLeases
    <3>1. ~(Len(plan.leases[Current]) >= MaxLeases) /\ MaxLeases \in Nat
      BY <1>1, <1>2, <1>8, Numbers DEF Limits
    <3>2. QED
      BY <1>4, <3>1
  <2>2. lease \in LeaseType
    BY <1>3 DEF OutputType, LeaseType
  <2>3. asked \in Seq(LeaseType) /\ Len(asked) = n /\ asked # <<>>
    <3> HIDE DEF lease
    <3>1. plan.leases[Current] \in Seq(LeaseType)
      BY <1>3, <1>4
    <3>2. QED
      BY <2>2, <3>1
  <2>4. out \in OutputType /\ ~out.held /\ out.end = "lease" /\ out.round = n
        /\ out.followups = It.followups
    BY <1>2, <1>3, <2>1 DEF OutputType
  <2>5. [Recorded EXCEPT !.outputs[Current].round = n, !.leases[Current] = Append(@, lease)]
          = [Recorded EXCEPT !.outputs = [Recorded.outputs EXCEPT ![Current] =
                                            [Recorded.outputs[Current] EXCEPT !.round = n]],
                             !.leases = [Recorded.leases EXCEPT ![Current] =
                                           Append(Recorded.leases[Current], lease)]]
    OBVIOUS
  <2>6. [Recorded.outputs[Current] EXCEPT !.round = n] = out
    BY <1>3, <1>4 DEF OutputType
  <2>7. [Recorded.outputs EXCEPT ![Current] = out] = outputs
    <3> HIDE DEF out
    <3> QED
      BY <1>3, <1>4, <1>5
  <2>8. plan' = q
    <3> HIDE DEF out, lease, n
    <3> QED
      BY <1>1, <1>5, <1>8, <2>5, <2>6, <2>7
  <2> HIDE DEF n, lease, asked, out
  <2>9. /\ leases \in [Indices -> Seq(LeaseType)] /\ leases[Current] = asked
        /\ \A i \in Indices \ {Current} : leases[i] = plan.leases[i]
    BY <1>3, <1>4, <2>3
  <2>10. /\ outputs \in [Indices -> OutputType] /\ outputs[Current] = out
         /\ \A i \in Indices \ {Current} : outputs[i] = plan.outputs[i]
    BY <1>3, <1>4, <2>4
  <2> HIDE DEF leases, outputs
  <2>11. q \in PlanType
    BY <1>5, <2>9, <2>10, Zenon DEF PlanType
  <2>12. /\ q.active = Recorded.active /\ q.owner = Recorded.owner /\ q.queue = Recorded.queue
         /\ q.cursor = Recorded.cursor /\ q.leases = leases /\ q.unrun = Recorded.unrun
         /\ q.read = Recorded.read
    BY <1>5, Zenon DEF PlanType
  <2>13. /\ q.signature = Recorded.signature /\ q.aliases = Recorded.aliases
         /\ q.knows = Recorded.knows /\ q.obligations = Recorded.obligations /\ q.fatal = Recorded.fatal
         /\ q.outputs = outputs /\ q.interim = Recorded.interim /\ q.errors = Recorded.errors
    BY <1>5, Zenon DEF PlanType
  <2> HIDE DEF q
  <2>14. /\ q.active = plan.active /\ q.owner = plan.owner /\ Len(q.queue) = Len(plan.queue)
         /\ \A i \in 1..Len(plan.queue) : q.queue[i].scopes = plan.queue[i].scopes
         /\ q.cursor = plan.cursor /\ q.unrun = plan.unrun /\ q.read = plan.read
         /\ q.signature = plan.signature /\ q.aliases = plan.aliases /\ q.knows = plan.knows
         /\ q.obligations = Obligations /\ (plan.fatal => q.fatal)
    BY <1>5, <2>12, <2>13
  <2>15. \A i \in Indices \ {Current} : /\ q.outputs[i] = plan.outputs[i] /\ q.leases[i] = plan.leases[i]
                                       /\ q.interim[i] = plan.interim[i]
    BY <1>5, <2>9, <2>10, <2>12, <2>13
  <2>16. Len(q.leases[Current]) <= MaxLeases /\ ~q.outputs[Current].held /\ q.leases[Current] # <<>>
    BY <2>1, <2>3, <2>4, <2>9, <2>10, <2>12, <2>13
  <2>17. LET o == q.outputs[Current]
         IN /\ o.complete => o.end \notin {"none", "tools", "prerequisite"}
            /\ o.round <= Len(q.leases[Current])
            /\ o.processed => o.end = "lease" /\ ToSet(o.followups) \subseteq ToSet(q.interim[Current])
    BY <1>5, <2>1, <2>3, <2>4, <2>9, <2>10, <2>12, <2>13
  <2>18. q.owner => q.errors = 0 /\ ScopesOf(q.interim[Current]) \subseteq OpenScopes(q.obligations)
    BY <1>2, <1>4, <1>5, <1>6, <2>12, <2>13
  <2>19. ScopesOf(plan.interim[Current]) \cup ScopesOf(It.followups)
           \subseteq ScopesOf(q.interim[Current]) \cup OpenScopes(q.obligations)
    BY <1>4, <2>13
  <2>20. QED
    BY <1>1, <2>8, <2>11, <2>14, <2>15, <2>16, <2>17, <2>18, <2>19, StaysStep
<1>9. QED
  BY <1>7, <1>8


\* The task again, one tier up.
LEMMA EscalatedStep ==
  ASSUME FlexInv, Escalated
  PROVE  FlexInv'
<1> DEFINE task == [Task(Current) EXCEPT !.tier = @ + 1]
           queue == [plan.queue EXCEPT ![Current] = task]
           outputs == [plan.outputs EXCEPT ![Current] = NoOutput]
           q == [Recorded EXCEPT !.outputs = outputs, !.queue = queue]
<1>1. /\ Proceeds /\ Escalates /\ stage' = "run" /\ Resets /\ Finds /\ Saves
      /\ UNCHANGED <<request, starts, how>>
      /\ plan' = [Again EXCEPT !.queue[Current].tier = @ + 1]
  BY DEF Escalated
<1>2. /\ Settling /\ ~It.held /\ ~Limits
      /\ plan.owner => /\ plan.errors = 0
                       /\ ScopesOf(plan.interim[Current]) \cup ScopesOf(It.followups)
                            \subseteq OpenScopes(Obligations)
  BY <1>1, Proceeding
<1>3. /\ Current \in Indices /\ It \in OutputType /\ It.end = "escalate"
      /\ Current \in 1..Len(plan.queue) /\ Task(Current) \in TaskType
  BY <1>1, <1>2, SettlingFacts DEF Escalates
<1>4. /\ ScopesOf(Recorded.interim[Current]) = ScopesOf(plan.interim[Current]) \cup ScopesOf(It.followups)
      /\ Len(plan.leases[Current]) \in Nat /\ Len(plan.leases[Current]) <= MaxLeases
      /\ plan.outputs \in [Indices -> OutputType]
  BY <1>2, Heard
<1>5. /\ Recorded \in PlanType
      /\ Recorded.active = plan.active /\ Recorded.owner = plan.owner
      /\ Recorded.queue = plan.queue /\ Recorded.cursor = plan.cursor
      /\ Recorded.leases = plan.leases /\ Recorded.unrun = plan.unrun
      /\ Recorded.read = plan.read
      /\ Recorded.signature = plan.signature /\ Recorded.aliases = plan.aliases
      /\ Recorded.knows = plan.knows /\ Recorded.obligations = Obligations
      /\ Recorded.fatal = (plan.fatal \/ It.end = "limit")
      /\ Recorded.errors = (IF It.end \in {"fail", "limit"} THEN plan.errors + 1 ELSE plan.errors)
      /\ Recorded.outputs = [plan.outputs EXCEPT ![Current] = [It EXCEPT !.processed = TRUE]]
      /\ \A i \in Indices \ {Current} : Recorded.interim[i] = plan.interim[i]
  BY <1>2, RecordedFacts
<1>6. Recorded.errors = plan.errors
  BY <1>3, <1>5
<1>7. task \in TaskType /\ task.scopes = Task(Current).scopes
  <2>1. Task(Current).tier \in 1..Top /\ Task(Current).tier # Top /\ Top \in Nat
    BY <1>1, <1>2, <1>3, Numbers DEF Limits, TaskType
  <2>2. Task(Current).tier + 1 \in 1..Top
    BY <2>1
  <2>3. QED
    BY <1>3, <2>2 DEF TaskType
<1>8. NoOutput \in OutputType /\ ~NoOutput.held /\ ~NoOutput.complete /\ NoOutput.round = 0
      /\ ~NoOutput.processed
  BY Numbers DEF NoOutput, OutputType, EndType
<1>9. plan.queue \in Seq(TaskType)
  BY <1>2, SettlingFacts, RunFacts, Fields
<1>10. plan' = q
  <2>1. Again = [Recorded EXCEPT !.outputs = outputs]
    <3>1. Again = [Recorded EXCEPT !.outputs = [Recorded.outputs EXCEPT ![Current] = NoOutput]]
      BY DEF Again
    <3>2. [Recorded.outputs EXCEPT ![Current] = NoOutput] = outputs
      BY <1>3, <1>4, <1>5
    <3>3. QED
      BY <3>1, <3>2
  <2>2. Again.queue = plan.queue
    BY <2>1, <1>5, Zenon DEF PlanType
  <2>3. plan' = [Again EXCEPT !.queue = [Again.queue EXCEPT ![Current] =
                                           [Again.queue[Current] EXCEPT !.tier = @ + 1]]]
    BY <1>1
  <2>4. [Again.queue[Current] EXCEPT !.tier = @ + 1] = task
    BY <2>2 DEF Task
  <2> HIDE DEF task, outputs
  <2>5. QED
    BY <2>1, <2>2, <2>3, <2>4
<1> HIDE DEF task
<1>11. /\ queue \in Seq(TaskType) /\ Len(queue) = Len(plan.queue)
       /\ \A i \in 1..Len(plan.queue) : queue[i].scopes = plan.queue[i].scopes
  <2>1. queue \in Seq(TaskType) /\ Len(queue) = Len(plan.queue)
    BY <1>3, <1>7, <1>9
  <2>2. \A i \in 1..Len(plan.queue) : queue[i] = IF i = Current THEN task ELSE plan.queue[i]
    BY <1>3, <1>9
  <2>3. QED
    BY <1>7, <2>1, <2>2 DEF Task
<1>12. /\ outputs \in [Indices -> OutputType] /\ outputs[Current] = NoOutput
       /\ \A i \in Indices \ {Current} : outputs[i] = plan.outputs[i]
  BY <1>3, <1>4, <1>8
<1> HIDE DEF queue, outputs
<1>13. q \in PlanType
  BY <1>5, <1>11, <1>12, Zenon DEF PlanType
<1>14. /\ q.active = Recorded.active /\ q.owner = Recorded.owner /\ q.queue = queue
       /\ q.cursor = Recorded.cursor /\ q.leases = Recorded.leases /\ q.unrun = Recorded.unrun
       /\ q.read = Recorded.read
  BY <1>5, Zenon DEF PlanType
<1>15. /\ q.signature = Recorded.signature /\ q.aliases = Recorded.aliases
       /\ q.knows = Recorded.knows /\ q.obligations = Recorded.obligations /\ q.fatal = Recorded.fatal
       /\ q.outputs = outputs /\ q.interim = Recorded.interim /\ q.errors = Recorded.errors
  BY <1>5, Zenon DEF PlanType
<1> HIDE DEF q
<1>16. /\ q.active = plan.active /\ q.owner = plan.owner /\ Len(q.queue) = Len(plan.queue)
       /\ \A i \in 1..Len(plan.queue) : q.queue[i].scopes = plan.queue[i].scopes
       /\ q.cursor = plan.cursor /\ q.unrun = plan.unrun /\ q.read = plan.read
       /\ q.signature = plan.signature /\ q.aliases = plan.aliases /\ q.knows = plan.knows
       /\ q.obligations = Obligations /\ (plan.fatal => q.fatal)
  BY <1>5, <1>11, <1>14, <1>15
<1>17. \A i \in Indices \ {Current} : /\ q.outputs[i] = plan.outputs[i] /\ q.leases[i] = plan.leases[i]
                                      /\ q.interim[i] = plan.interim[i]
  BY <1>5, <1>12, <1>14, <1>15
<1>18. Len(q.leases[Current]) <= MaxLeases /\ ~q.outputs[Current].held
  BY <1>4, <1>5, <1>8, <1>12, <1>14, <1>15
<1>19. LET o == q.outputs[Current]
       IN /\ o.complete => o.end \notin {"none", "tools", "prerequisite"}
          /\ o.round <= Len(q.leases[Current])
          /\ o.processed => o.end = "lease" /\ ToSet(o.followups) \subseteq ToSet(q.interim[Current])
  BY <1>4, <1>5, <1>8, <1>12, <1>14, <1>15
<1>20. q.owner => q.errors = 0 /\ ScopesOf(q.interim[Current]) \subseteq OpenScopes(q.obligations)
  BY <1>2, <1>4, <1>5, <1>6, <1>14, <1>15
<1>21. ScopesOf(plan.interim[Current]) \cup ScopesOf(It.followups)
         \subseteq ScopesOf(q.interim[Current]) \cup OpenScopes(q.obligations)
  BY <1>4, <1>15
<1>22. QED
  BY <1>1, <1>10, <1>13, <1>16, <1>17, <1>18, <1>19, <1>20, <1>21, StaysStep

\* The owner again; what it has named are obligations.
LEMMA OwnerContinuesStep ==
  ASSUME FlexInv, OwnerContinues
  PROVE  FlexInv'
<1> DEFINE interim == [Recorded.interim EXCEPT ![Current] = <<>>]
           outputs == [plan.outputs EXCEPT ![Current] = NoOutput]
           q == [Recorded EXCEPT !.outputs = outputs, !.interim = interim]
<1>1. /\ Proceeds /\ NamesMore /\ stage' = "run" /\ Resets /\ Finds /\ Saves
      /\ UNCHANGED <<request, starts, how>>
      /\ plan' = [Again EXCEPT !.interim[Current] = <<>>]
  BY DEF OwnerContinues
<1>2. /\ Settling /\ ~It.held /\ ~Limits /\ plan.owner /\ It.end = "report"
      /\ plan.errors = 0
      /\ ScopesOf(plan.interim[Current]) \cup ScopesOf(It.followups) \subseteq OpenScopes(Obligations)
  BY <1>1, Proceeding DEF NamesMore
<1>3. Current \in Indices /\ It \in OutputType /\ Current \in 1..Len(plan.queue)
  BY <1>1, <1>2, SettlingFacts
<1>4. /\ Len(plan.leases[Current]) \in Nat /\ Len(plan.leases[Current]) <= MaxLeases
      /\ plan.outputs \in [Indices -> OutputType] /\ Recorded.interim \in [Indices -> Seq(TaskType)]
  BY <1>2, Heard
<1>5. /\ Recorded \in PlanType
      /\ Recorded.active = plan.active /\ Recorded.owner = plan.owner
      /\ Recorded.queue = plan.queue /\ Recorded.cursor = plan.cursor
      /\ Recorded.leases = plan.leases /\ Recorded.unrun = plan.unrun
      /\ Recorded.read = plan.read
      /\ Recorded.signature = plan.signature /\ Recorded.aliases = plan.aliases
      /\ Recorded.knows = plan.knows /\ Recorded.obligations = Obligations
      /\ Recorded.fatal = (plan.fatal \/ It.end = "limit")
      /\ Recorded.errors = (IF It.end \in {"fail", "limit"} THEN plan.errors + 1 ELSE plan.errors)
      /\ Recorded.outputs = [plan.outputs EXCEPT ![Current] = [It EXCEPT !.processed = TRUE]]
      /\ \A i \in Indices \ {Current} : Recorded.interim[i] = plan.interim[i]
  BY <1>2, RecordedFacts
<1>6. Recorded.errors = 0
  BY <1>2, <1>5
<1>8. NoOutput \in OutputType /\ ~NoOutput.held /\ ~NoOutput.complete /\ NoOutput.round = 0
      /\ ~NoOutput.processed
  BY Numbers DEF NoOutput, OutputType, EndType
<1>9. plan' = q
  <2>1. Again = [Recorded EXCEPT !.outputs = outputs]
    <3>1. Again = [Recorded EXCEPT !.outputs = [Recorded.outputs EXCEPT ![Current] = NoOutput]]
      BY DEF Again
    <3>2. [Recorded.outputs EXCEPT ![Current] = NoOutput] = outputs
      BY <1>3, <1>4, <1>5
    <3>3. QED
      BY <3>1, <3>2
  <2>2. Again.interim = Recorded.interim
    BY <2>1, <1>5, Zenon DEF PlanType
  <2>3. plan' = [Again EXCEPT !.interim = [Again.interim EXCEPT ![Current] = <<>>]]
    BY <1>1
  <2> HIDE DEF outputs
  <2>4. QED
    BY <2>1, <2>2, <2>3
<1>10. /\ interim \in [Indices -> Seq(TaskType)] /\ interim[Current] = <<>>
       /\ \A i \in Indices \ {Current} : interim[i] = plan.interim[i]
  BY <1>3, <1>4, <1>5
<1>11. /\ outputs \in [Indices -> OutputType] /\ outputs[Current] = NoOutput
       /\ \A i \in Indices \ {Current} : outputs[i] = plan.outputs[i]
  BY <1>3, <1>4, <1>8
<1> HIDE DEF interim, outputs
<1>12. q \in PlanType
  BY <1>5, <1>10, <1>11, Zenon DEF PlanType
<1>13. /\ q.active = Recorded.active /\ q.owner = Recorded.owner /\ q.queue = Recorded.queue
       /\ q.cursor = Recorded.cursor /\ q.leases = Recorded.leases /\ q.unrun = Recorded.unrun
       /\ q.read = Recorded.read
  BY <1>5, Zenon DEF PlanType
<1>14. /\ q.signature = Recorded.signature /\ q.aliases = Recorded.aliases
       /\ q.knows = Recorded.knows /\ q.obligations = Recorded.obligations /\ q.fatal = Recorded.fatal
       /\ q.outputs = outputs /\ q.interim = interim /\ q.errors = Recorded.errors
  BY <1>5, Zenon DEF PlanType
<1> HIDE DEF q
<1>15. /\ q.active = plan.active /\ q.owner = plan.owner /\ Len(q.queue) = Len(plan.queue)
       /\ \A i \in 1..Len(plan.queue) : q.queue[i].scopes = plan.queue[i].scopes
       /\ q.cursor = plan.cursor /\ q.unrun = plan.unrun /\ q.read = plan.read
       /\ q.signature = plan.signature /\ q.aliases = plan.aliases /\ q.knows = plan.knows
       /\ q.obligations = Obligations /\ (plan.fatal => q.fatal)
  BY <1>5, <1>13, <1>14
<1>16. \A i \in Indices \ {Current} : /\ q.outputs[i] = plan.outputs[i] /\ q.leases[i] = plan.leases[i]
                                      /\ q.interim[i] = plan.interim[i]
  BY <1>5, <1>10, <1>11, <1>13, <1>14
<1>17. Len(q.leases[Current]) <= MaxLeases /\ ~q.outputs[Current].held
  BY <1>4, <1>5, <1>8, <1>11, <1>13, <1>14
<1>18. LET o == q.outputs[Current]
       IN /\ o.complete => o.end \notin {"none", "tools", "prerequisite"}
          /\ o.round <= Len(q.leases[Current])
          /\ o.processed => o.end = "lease" /\ ToSet(o.followups) \subseteq ToSet(q.interim[Current])
  BY <1>4, <1>5, <1>8, <1>11, <1>13, <1>14
<1>19. q.owner => q.errors = 0 /\ ScopesOf(q.interim[Current]) \subseteq OpenScopes(q.obligations)
  BY <1>5, <1>6, <1>10, <1>14, NoRows
<1>20. ScopesOf(plan.interim[Current]) \cup ScopesOf(It.followups)
         \subseteq ScopesOf(q.interim[Current]) \cup OpenScopes(q.obligations)
  BY <1>2, <1>5, <1>14
<1>21. QED
  BY <1>1, <1>9, <1>12, <1>15, <1>16, <1>17, <1>18, <1>19, <1>20, StaysStep


\* A final report is new, and of one of four kinds.
LEMMA ReportFacts ==
  ASSUME FlexInv, Reports
  PROVE  /\ Proceeds /\ Settling /\ ~It.processed /\ ~TooMany
         /\ It.end \in {"report", "await", "fail", "limit"}
         /\ found' = found \cup ScopesOf(It.followups)
         /\ settled' = settled \cup Task(Current).scopes
                         \cup {o.scope : o \in {r \in ToSet(plan'.obligations) : r.resolved}}
         /\ plan' = (IF plan.owner THEN OwnerReported ELSE TaskReported) /\ disk' = plan'
         /\ UNCHANGED <<request, starts, how>>
<1>1. /\ Proceeds /\ ~AsksHelp /\ ~Escalates
      /\ found' = found \cup ScopesOf(It.followups)
      /\ settled' = settled \cup Task(Current).scopes
                      \cup {o.scope : o \in {r \in ToSet(plan'.obligations) : r.resolved}}
      /\ plan' = (IF plan.owner THEN OwnerReported ELSE TaskReported) /\ disk' = plan'
      /\ UNCHANGED <<request, starts, how>>
  BY DEF Reports, Saves
<1>2. /\ Settling /\ ~It.held /\ ~TooMany /\ ~Limits /\ (It.processed => It.end = "lease")
  BY <1>1, Proceeding
<1>3. ~Unsettled
  BY <1>2 DEF Limits
<1>4. It.end # "lease" /\ It.end # "escalate"
  BY <1>1, <1>2, <1>3 DEF AsksHelp, Escalates
<1>5. It.end \in {"report", "await", "fail", "limit", "lease", "escalate"}
  BY <1>2, SettlingFacts
<1>6. QED
  BY <1>1, <1>2, <1>4, <1>5

LEMMA AdvancedFacts ==
  ASSUME FlexInv, Settling
  PROVE  /\ Advanced \in PlanType
         /\ Advanced.active = plan.active /\ Advanced.owner = plan.owner
         /\ Advanced.queue = plan.queue /\ Advanced.cursor = plan.cursor + 1
         /\ Advanced.leases = plan.leases /\ Advanced.unrun = plan.unrun
         /\ Advanced.read = plan.read
         /\ Advanced.asks = (plan.asks \/ It.end = "await")
         /\ Advanced.signature = plan.signature /\ Advanced.aliases = plan.aliases
         /\ Advanced.knows = plan.knows /\ Advanced.obligations = Obligations
         /\ Advanced.fatal = (plan.fatal \/ It.end = "limit")
         /\ Advanced.errors = (IF It.end \in {"fail", "limit"} THEN plan.errors + 1 ELSE plan.errors)
         /\ Advanced.outputs[Current] = NoOutput /\ Advanced.interim[Current] = <<>>
         /\ \A i \in Indices \ {Current} : /\ Advanced.outputs[i] = plan.outputs[i]
                                          /\ Advanced.interim[i] = plan.interim[i]
<1> DEFINE interim == [Recorded.interim EXCEPT ![Current] = <<>>]
           outputs == [Recorded.outputs EXCEPT ![Current] = NoOutput]
           cursor == Recorded.cursor + 1
           asks == Recorded.asks \/ It.end = "await"
           q == [Recorded EXCEPT !.cursor = cursor, !.interim = interim, !.outputs = outputs, !.asks = asks]
<1>1. Current \in Indices
  BY SettlingFacts
<1>2. /\ plan.outputs \in [Indices -> OutputType] /\ Recorded.interim \in [Indices -> Seq(TaskType)]
      /\ plan.cursor \in Nat
  BY Heard, SettlingFacts, RunFacts
<1>3. /\ Recorded \in PlanType
      /\ Recorded.active = plan.active /\ Recorded.owner = plan.owner
      /\ Recorded.queue = plan.queue /\ Recorded.cursor = plan.cursor
      /\ Recorded.leases = plan.leases /\ Recorded.unrun = plan.unrun
      /\ Recorded.asks = plan.asks /\ Recorded.read = plan.read
      /\ Recorded.signature = plan.signature /\ Recorded.aliases = plan.aliases
      /\ Recorded.knows = plan.knows /\ Recorded.obligations = Obligations
      /\ Recorded.fatal = (plan.fatal \/ It.end = "limit")
      /\ Recorded.errors = (IF It.end \in {"fail", "limit"} THEN plan.errors + 1 ELSE plan.errors)
      /\ Recorded.outputs = [plan.outputs EXCEPT ![Current] = [It EXCEPT !.processed = TRUE]]
      /\ \A i \in Indices \ {Current} : Recorded.interim[i] = plan.interim[i]
  BY RecordedFacts
<1>4. Advanced = q
  BY DEF Advanced
<1>5. NoOutput \in OutputType
  BY Numbers DEF NoOutput, OutputType, EndType
<1>6. /\ interim \in [Indices -> Seq(TaskType)] /\ interim[Current] = <<>>
      /\ \A i \in Indices \ {Current} : interim[i] = plan.interim[i]
  BY <1>1, <1>2, <1>3
<1>7. /\ outputs \in [Indices -> OutputType] /\ outputs[Current] = NoOutput
      /\ \A i \in Indices \ {Current} : outputs[i] = plan.outputs[i]
  <2>1. Recorded.outputs \in [Indices -> OutputType]
    BY <1>3, Fields
  <2>2. \A i \in Indices \ {Current} : Recorded.outputs[i] = plan.outputs[i]
    BY <1>2, <1>3
  <2>3. QED
    BY <1>1, <1>5, <2>1, <2>2
<1>8. cursor \in Nat /\ cursor = plan.cursor + 1 /\ asks \in BOOLEAN
      /\ asks = (plan.asks \/ It.end = "await")
  BY <1>2, <1>3
<1> HIDE DEF interim, outputs, cursor, asks
<1>9. q \in PlanType
  <2>1. /\ Recorded \in PlanType /\ interim \in [Indices -> Seq(TaskType)]
        /\ outputs \in [Indices -> OutputType] /\ cursor \in Nat /\ asks \in BOOLEAN
    BY <1>3, <1>6, <1>7, <1>8
  <2>2. QED
    BY <2>1, Zenon DEF PlanType
<1>10. /\ q.active = Recorded.active /\ q.owner = Recorded.owner /\ q.queue = Recorded.queue
       /\ q.cursor = cursor /\ q.leases = Recorded.leases /\ q.unrun = Recorded.unrun
       /\ q.read = Recorded.read /\ q.asks = asks
  BY <1>3, Zenon DEF PlanType
<1>11. /\ q.signature = Recorded.signature /\ q.aliases = Recorded.aliases
       /\ q.knows = Recorded.knows /\ q.obligations = Recorded.obligations /\ q.fatal = Recorded.fatal
       /\ q.outputs = outputs /\ q.interim = interim /\ q.errors = Recorded.errors
  BY <1>3, Zenon DEF PlanType
<1> HIDE DEF q
<1>12. QED
  BY <1>3, <1>4, <1>6, <1>7, <1>8, <1>9, <1>10, <1>11

\* A plan whose current task is over is sound.
LEMMA AdvancesSound ==
  ASSUME FlexInv, Settling, NEW q \in PlanType,
         q.owner = plan.owner, Len(plan.queue) <= Len(q.queue), Len(q.queue) <= MaxQueue,
         plan.owner => Len(q.queue) = 1,
         q.cursor = plan.cursor + 1, q.leases = plan.leases, q.signature = plan.signature,
         q.aliases = plan.aliases, q.knows = plan.knows, plan.fatal => q.fatal,
         q.outputs[Current] = NoOutput, q.interim[Current] = <<>>,
         \A i \in Indices \ {Current} : /\ q.outputs[i] = plan.outputs[i]
                                        /\ q.interim[i] = plan.interim[i],
         Len(q.obligations) <= MaxObligations, q.owner \/ q.obligations = <<>>,
         q.owner => q.read = {} /\ (q.fatal \/ q.asks \/ q.errors = 1 \/ OpenScopes(q.obligations) = {})
  PROVE  PlanSound(q) /\ q.queue # <<>>
<1>1. /\ plan \in PlanType /\ PlanSound(plan) /\ plan.cursor \in Nat /\ Len(plan.queue) \in Nat
      /\ Len(q.queue) \in Nat
  BY SettlingFacts, RunFacts, Fields, LenProperties
<1>2. Current = plan.cursor + 1 /\ Current \in 1..Len(plan.queue) /\ Current \in Indices
  BY SettlingFacts
<1>3. q.queue # <<>>
  <2>1. Len(q.queue) # 0
    BY <1>1, <1>2
  <2>2. Len(<<>>) = 0
    OBVIOUS
  <2>3. QED
    BY <2>1, <2>2
<1>4. Limited(q)
  <2>1. q.cursor <= Len(q.queue)
    <3>1. q.cursor = Current /\ Current <= Len(plan.queue) /\ Current \in Nat
      BY <1>1, <1>2
    <3>2. \A a, b, c \in Nat : a <= b /\ b <= c => a <= c
      OBVIOUS
    <3>3. QED
      BY <3>1, <3>2, <1>1, Zenon
  <2>2. QED
    BY <1>1, <1>3, <2>1 DEF PlanSound, Limited
<1>5. OutputsSound(q)
  <2> SUFFICES ASSUME NEW i \in Indices
               PROVE  LET o == q.outputs[i]
                      IN /\ o.complete => o.end \notin {"none", "tools", "prerequisite"}
                         /\ o.held => o.complete
                         /\ o.round <= Len(q.leases[i])
                         /\ o.processed /\ ~o.held =>
                              o.end = "lease" /\ ToSet(o.followups) \subseteq ToSet(q.interim[i])
    BY DEF OutputsSound
  <2>1. CASE i = Current
    <3>1. Len(q.leases[i]) \in Nat
      BY Fields, LenProperties
    <3>2. QED
      BY <2>1, <3>1 DEF NoOutput
  <2>2. CASE i # Current
    BY <2>2, <1>1 DEF PlanSound, OutputsSound
  <2>3. QED
    BY <2>1, <2>2
<1>6. Signed(q)
  BY <1>1 DEF PlanSound, Signed
<1>7. OwnerSound(q)
  <2>1. q.cursor # 0
    BY <1>1
  <2>2. QED
    BY <2>1 DEF OwnerSound
<1>8. InterimSound(q)
  BY <1>1, <1>2 DEF PlanSound, InterimSound
<1>9. QED
  BY <1>3, <1>4, <1>5, <1>6, <1>7, <1>8 DEF PlanSound


\* The owner's final report resolves its obligations, or leaves them open.
LEMMA OwnerReportedSound ==
  ASSUME FlexInv, Reports, plan.owner
  PROVE  /\ plan' \in PlanType /\ PlanSound(plan') /\ plan'.queue # <<>>
         /\ plan'.active = plan.active /\ plan'.knows = plan.knows
         /\ plan'.cursor = plan.cursor + 1 /\ Len(plan.queue) <= Len(plan'.queue)
         /\ \A i \in Indices \ {Current} : plan'.outputs[i] = plan.outputs[i]
         /\ found' \subseteq settled' \cup Open(plan') /\ found' \subseteq Scopes /\ settled' \subseteq Scopes
         /\ \A key \in plan'.read : key[2] \in settled'
<1> DEFINE rows == IF It.end # "report" THEN Obligations
                   ELSE [n \in DOMAIN Obligations |-> [Obligations[n] EXCEPT !.resolved = TRUE]]
           q == [Advanced EXCEPT !.obligations = rows]
<1>1. /\ Proceeds /\ Settling /\ ~It.processed /\ ~TooMany
      /\ It.end \in {"report", "await", "fail", "limit"}
      /\ found' = found \cup ScopesOf(It.followups)
      /\ settled' = settled \cup Task(Current).scopes
                      \cup {o.scope : o \in {r \in ToSet(plan'.obligations) : r.resolved}}
      /\ plan' = OwnerReported
  BY ReportFacts
<1>2. /\ plan \in PlanType /\ PlanSound(plan) /\ plan.cursor \in Nat /\ Len(plan.queue) \in Nat
      /\ plan.cursor <= Len(plan.queue) /\ Len(plan.queue) <= MaxQueue
      /\ found \subseteq settled \cup Open(plan) /\ found \subseteq Scopes /\ settled \subseteq Scopes
  BY <1>1, SettlingFacts, RunFacts
<1>3. /\ Current = 1 /\ Len(plan.queue) = 1 /\ plan.cursor = 0 /\ plan.read = {}
      /\ Current \in Indices /\ Task(Current) \in TaskType
  BY <1>1, SettlingFacts
<1>4. /\ Advanced \in PlanType
      /\ Advanced.active = plan.active /\ Advanced.owner = plan.owner
      /\ Advanced.queue = plan.queue /\ Advanced.cursor = plan.cursor + 1
      /\ Advanced.leases = plan.leases /\ Advanced.unrun = plan.unrun
      /\ Advanced.read = plan.read
      /\ Advanced.asks = (plan.asks \/ It.end = "await")
      /\ Advanced.signature = plan.signature /\ Advanced.aliases = plan.aliases
      /\ Advanced.knows = plan.knows /\ Advanced.obligations = Obligations
      /\ Advanced.fatal = (plan.fatal \/ It.end = "limit")
      /\ Advanced.errors = (IF It.end \in {"fail", "limit"} THEN plan.errors + 1 ELSE plan.errors)
      /\ Advanced.outputs[Current] = NoOutput /\ Advanced.interim[Current] = <<>>
      /\ \A i \in Indices \ {Current} : /\ Advanced.outputs[i] = plan.outputs[i]
                                       /\ Advanced.interim[i] = plan.interim[i]
  BY <1>1, AdvancedFacts
<1>5. /\ plan.errors = 0 /\ Len(Obligations) <= MaxObligations
      /\ ScopesOf(plan.interim[Current]) \cup ScopesOf(It.followups) \subseteq OpenScopes(Obligations)
      /\ Obligations \in Seq(RowType) /\ Len(Obligations) \in Nat /\ DOMAIN Obligations = 1..Len(Obligations)
      /\ OpenScopes(plan.obligations) \subseteq OpenScopes(Obligations)
  BY <1>1, Proceeding, Obliged, LenProperties
<1>6. /\ rows \in Seq(RowType) /\ Len(rows) = Len(Obligations)
      /\ It.end # "report" => rows = Obligations
      /\ It.end = "report" => \A n \in 1..Len(Obligations) :
                                rows[n].resolved /\ rows[n].scope = Obligations[n].scope
  <2>1. CASE It.end # "report"
    BY <2>1, <1>5
  <2>2. CASE It.end = "report"
    <3>1. rows = [n \in 1..Len(Obligations) |-> [Obligations[n] EXCEPT !.resolved = TRUE]]
      BY <2>2, <1>5
    <3>2. \A n \in 1..Len(Obligations) : Obligations[n] \in RowType
      BY <1>5, ElementOfSeq
    <3>3. \A n \in 1..Len(Obligations) :
            /\ [Obligations[n] EXCEPT !.resolved = TRUE] \in RowType
            /\ [Obligations[n] EXCEPT !.resolved = TRUE].resolved
            /\ [Obligations[n] EXCEPT !.resolved = TRUE].scope = Obligations[n].scope
      BY <3>2 DEF RowType
    <3> HIDE DEF rows
    <3>4. rows \in [1..Len(Obligations) -> RowType]
      BY <3>1, <3>3
    <3>5. rows \in Seq(RowType) /\ Len(rows) = Len(Obligations)
      BY <3>4, <1>5
    <3>6. QED
      BY <2>2, <3>1, <3>3, <3>5
  <2>3. QED
    BY <2>1, <2>2
<1>7. plan' = q
  <2>1. OwnerReported = [Advanced EXCEPT !.obligations =
           IF It.end # "report" THEN Advanced.obligations
           ELSE [n \in DOMAIN Advanced.obligations |->
                   [Advanced.obligations[n] EXCEPT !.resolved = TRUE]]]
    BY DEF OwnerReported
  <2>2. QED
    BY <1>1, <1>4, <2>1
<1> HIDE DEF rows
<1>8. q \in PlanType
  BY <1>4, <1>6, Zenon DEF PlanType
<1>9. /\ q.active = Advanced.active /\ q.owner = Advanced.owner /\ q.queue = Advanced.queue
      /\ q.cursor = Advanced.cursor /\ q.leases = Advanced.leases /\ q.unrun = Advanced.unrun
      /\ q.read = Advanced.read /\ q.asks = Advanced.asks
  BY <1>4, Zenon DEF PlanType
<1>10. /\ q.signature = Advanced.signature /\ q.aliases = Advanced.aliases
       /\ q.knows = Advanced.knows /\ q.obligations = rows /\ q.fatal = Advanced.fatal
       /\ q.outputs = Advanced.outputs /\ q.interim = Advanced.interim /\ q.errors = Advanced.errors
  BY <1>4, Zenon DEF PlanType
<1> HIDE DEF q
<1>a. q.queue = plan.queue /\ Len(q.queue) = Len(plan.queue) /\ Len(q.queue) = 1 /\ q.cursor <= Len(q.queue)
  <2>1. q.queue = plan.queue
    BY <1>4, <1>9
  <2>2. q.cursor = 1
    BY <1>3, <1>4, <1>9
  <2>3. Len(q.queue) = 1
    BY <1>3, <2>1
  <2>4. Len(q.queue) = Len(plan.queue)
    BY <2>1
  <2>5. 1 <= 1
    OBVIOUS
  <2>6. q.cursor <= Len(q.queue)
    BY <2>2, <2>3, <2>5, Zenon
  <2>7. QED
    BY <2>1, <2>3, <2>4, <2>6, Zenon
<1>11. q.fatal \/ q.asks \/ q.errors = 1 \/ OpenScopes(q.obligations) = {}
  <2>1. CASE It.end = "report"
    <3>1. OpenScopes(rows) = {}
      BY <2>1, <1>6, OpenIn
    <3>2. QED
      BY <3>1, <1>10
  <2>2. CASE It.end = "await"
    BY <2>2, <1>4, <1>9
  <2>3. CASE It.end \in {"fail", "limit"}
    BY <2>3, <1>4, <1>5, <1>10
  <2>4. QED
    BY <1>1, <2>1, <2>2, <2>3
<1>12. PlanSound(q) /\ q.queue # <<>>
  <2>1. /\ q.owner = plan.owner /\ q.queue = plan.queue
        /\ q.cursor = plan.cursor + 1 /\ q.leases = plan.leases /\ q.signature = plan.signature
        /\ q.aliases = plan.aliases /\ q.knows = plan.knows /\ (plan.fatal => q.fatal)
        /\ q.outputs[Current] = NoOutput /\ q.interim[Current] = <<>>
        /\ \A i \in Indices \ {Current} : /\ q.outputs[i] = plan.outputs[i]
                                          /\ q.interim[i] = plan.interim[i]
        /\ q.read = {}
    BY ZenonT(60), <1>3, <1>4, <1>9, <1>10
  <2>2. Len(q.obligations) <= MaxObligations
    BY <1>5, <1>6, <1>10
  <2>3. Len(plan.queue) <= Len(q.queue) /\ Len(q.queue) <= MaxQueue /\ Len(q.queue) = 1
    BY <1>2, <1>a
  <2>4. QED
    BY <1>1, <1>8, <1>11, <2>1, <2>2, <2>3, AdvancesSound
<1>13. settled' \subseteq Scopes
  <2>1. ToSet(rows) \subseteq RowType
    BY <1>6, ToSetOf
  <2>2. QED
    BY <1>1, <1>2, <1>3, <1>7, <1>10, <2>1 DEF RowType, TaskType
<1>14. ASSUME NEW x \in OpenScopes(Obligations) PROVE x \in settled' \cup Open(q)
  <2>1. PICK n \in 1..Len(Obligations) : Obligations[n].scope = x /\ ~Obligations[n].resolved
    BY <1>5, <1>14, OpenIn
  <2>2. CASE It.end = "report"
    <3>1. rows[n].resolved /\ rows[n].scope = x /\ rows[n] \in ToSet(rows)
      BY <2>1, <2>2, <1>6, ToSetOf
    <3>2. QED
      BY <3>1, <1>1, <1>7, <1>10
  <2>3. CASE It.end # "report"
    <3>1. x \in OpenScopes(q.obligations) /\ q.cursor <= Len(q.queue)
      BY <2>3, <1>6, <1>a, <1>10, <1>14
    <3>2. QED
      BY <3>1, <1>8, OpenParts
  <2>4. QED
    BY <2>2, <2>3
<1>15. ASSUME NEW x \in Open(plan) PROVE x \in settled' \cup Open(q)
  <2>0. q.cursor <= Len(q.queue)
    BY <1>a
  <2>1. CASE \E i \in plan.cursor + 1..Len(plan.queue) : x \in plan.queue[i].scopes
    <3>1. PICK i \in plan.cursor + 1..Len(plan.queue) : x \in plan.queue[i].scopes
      BY <2>1
    <3>2. i = Current
      BY <3>1, <1>3
    <3>3. QED
      BY <3>1, <3>2, <1>1 DEF Task
  <2>2. CASE \E t \in plan.unrun : x \in t.scopes
    BY <2>0, <2>2, <1>4, <1>8, <1>9, OpenParts
  <2>3. CASE x \in OpenScopes(plan.obligations)
    BY <2>3, <1>5, <1>14
  <2>4. CASE \E i \in Indices : x \in ScopesOf(plan.interim[i])
    <3>1. PICK i \in Indices : x \in ScopesOf(plan.interim[i])
      BY <2>4
    <3>2. CASE i = Current
      BY <3>1, <3>2, <1>5, <1>14
    <3>3. CASE i # Current
      <4>1. q.interim[i] = plan.interim[i]
        BY <3>1, <3>3, <1>4, <1>10
      <4>2. QED
        BY <2>0, <3>1, <4>1, <1>8, OpenParts
    <3>4. QED
      BY <3>2, <3>3
  <2>5. QED
    BY <1>2, <2>1, <2>2, <2>3, <2>4, OpenParts
<1>16. found' \subseteq settled' \cup Open(q)
  BY <1>1, <1>2, <1>5, <1>14, <1>15
<1>17. found' \subseteq Scopes
  <2>1. ScopesOf(It.followups) \subseteq Scopes
    BY <1>1, Heard
  <2>2. QED
    BY <2>1, <1>1, <1>2
<1>18. QED
  BY <1>2, <1>3, <1>4, <1>7, <1>8, <1>9, <1>10, <1>12, <1>13, <1>16, <1>17


\* What is joined is queued as far as there is room, and else listed as not run.
LEMMA Shared ==
  ASSUME FlexInv, Settling
  PROVE  /\ Fitting \in Seq(TaskType) /\ Len(Fitting) \in Nat /\ Left \subseteq TaskType
         /\ Len(plan.queue) + Len(Fitting) <= MaxQueue
         /\ ScopesOf(Unknown) \subseteq ScopesOf(Fitting) \cup UNION {t.scopes : t \in Left}
<1> DEFINE c == Coalesced
           m == IF Len(c) < Room THEN Len(c) ELSE Room
<1>1. Current \in Indices /\ Recorded.interim[Current] \in Seq(TaskType)
  BY SettlingFacts, Heard
<1>2. Unknown \in Seq(TaskType)
  <2> DEFINE heard == Recorded.interim[Current]
             P == {k \in DOMAIN heard : ~(Identities(heard[k]) \subseteq Known)}
  <2>1. Unknown = Only(heard, P)
    BY DEF Unknown
  <2>2. P \subseteq DOMAIN heard
    OBVIOUS
  <2> HIDE DEF P, heard
  <2>3. heard \in Seq(TaskType)
    BY <1>1 DEF heard
  <2>4. QED
    BY <2>1, <2>2, <2>3, OnlyThose
<1>3. c \in Seq(TaskType) /\ ScopesOf(Unknown) \subseteq ScopesOf(c) /\ Len(c) \in Nat
  BY <1>2, JoinedAll, LenProperties DEF Coalesced
<1>4. /\ Len(plan.queue) \in Nat /\ Len(plan.queue) <= MaxQueue /\ MaxQueue \in Nat
      /\ MaxFollowups \in Nat
  BY SettlingFacts, RunFacts, Numbers
<1>5. Room \in Nat /\ Len(plan.queue) + Room <= MaxQueue
  <2>1. PICK n \in Nat : n = Len(plan.queue)
    BY <1>4
  <2>2. n <= MaxQueue /\ MaxQueue \in Nat /\ MaxFollowups \in Nat
    BY <1>4, <2>1
  <2>3. Room = IF MaxQueue - n < MaxFollowups THEN MaxQueue - n ELSE MaxFollowups
    BY <2>1 DEF Room
  <2>4. Room \in Nat /\ n + Room <= MaxQueue
    BY <2>2, <2>3
  <2>5. QED
    BY <2>1, <2>4
<1> HIDE DEF c
<1>6. m \in 0..Len(c) /\ m <= Room
  <2>1. Len(c) \in Nat /\ Room \in Nat
    BY <1>3, <1>5
  <2> HIDE DEF c
  <2>2. QED
    BY <2>1
<1> HIDE DEF m
<1>7. Fitting = SubSeq(c, 1, m)
  BY DEF Fitting, c, m
<1>8. /\ Fitting \in Seq(TaskType) /\ Len(Fitting) = m
      /\ \A i \in 1..m : Fitting[i] = c[i]
  BY <1>3, <1>6, <1>7, Cuts
<1>9. Left = ToSet(SubSeq(c, m + 1, Len(c)))
  BY <1>8 DEF Left, c
<1> DEFINE rest == SubSeq(c, m + 1, Len(c))
<1>10. /\ rest \in Seq(TaskType) /\ Len(rest) = Len(c) - m
       /\ \A i \in 1..Len(c) - m : rest[i] = c[m + i]
  BY <1>3, <1>6, Cuts
<1> HIDE DEF rest
<1>11. Left \subseteq TaskType
  BY <1>9, <1>10, ToSetOf DEF rest
<1>12. ASSUME NEW x \in ScopesOf(c)
       PROVE  x \in ScopesOf(Fitting) \cup UNION {t.scopes : t \in Left}
  <2>1. PICK i \in 1..Len(c) : x \in c[i].scopes
    <3>1. PICK t \in ToSet(c) : x \in t.scopes
      BY <1>12, ScopesIn
    <3>2. \E i \in 1..Len(c) : t = c[i]
      BY <1>3, ToSetOf
    <3>3. QED
      BY <3>1, <3>2
  <2>2. CASE i <= m
    <3>1. i \in 1..Len(Fitting) /\ Fitting[i] = c[i]
      BY <1>6, <1>8, <2>2
    <3>2. Fitting[i] \in ToSet(Fitting)
      BY <1>8, <3>1, ToSetOf
    <3>3. QED
      BY <2>1, <3>1, <3>2, ScopesIn
  <2>3. CASE i > m
    <3>1. i - m \in 1..Len(rest) /\ m + (i - m) = i
      BY <1>3, <1>6, <1>10, <2>3
    <3>2. rest[i - m] = c[i]
      BY <1>10, <3>1
    <3>3. c[i] \in ToSet(rest)
      BY <1>10, <3>1, <3>2, ToSetOf
    <3>4. QED
      BY <2>1, <3>3, <1>9 DEF rest
  <2>4. QED
    BY <1>3, <1>6, <2>2, <2>3
<1>13. Len(Fitting) \in Nat /\ Len(plan.queue) + Len(Fitting) <= MaxQueue
  BY <1>4, <1>5, <1>6, <1>8
<1>14. QED
  BY <1>3, <1>8, <1>11, <1>12, <1>13


\* A task's final report: what it names is queued, listed, already known or done.
LEMMA TaskReportedSound ==
  ASSUME FlexInv, Reports, ~plan.owner
  PROVE  /\ plan' \in PlanType /\ PlanSound(plan') /\ plan'.queue # <<>>
         /\ plan'.active = plan.active /\ plan'.knows = plan.knows
         /\ plan'.cursor = plan.cursor + 1 /\ Len(plan.queue) <= Len(plan'.queue)
         /\ \A i \in Indices \ {Current} : plan'.outputs[i] = plan.outputs[i]
         /\ found' \subseteq settled' \cup Open(plan') /\ found' \subseteq Scopes /\ settled' \subseteq Scopes
         /\ \A key \in plan'.read : key[2] \in settled'
<1> DEFINE queue == plan.queue \o Fitting
           unrun == plan.unrun \cup Left
           read == IF Inspected THEN plan.read \cup Identities(Task(Current)) ELSE plan.read
           q == [Advanced EXCEPT !.queue = queue, !.unrun = unrun, !.read = read]
<1>1. /\ Proceeds /\ Settling /\ ~It.processed /\ ~TooMany
      /\ found' = found \cup ScopesOf(It.followups)
      /\ settled' = settled \cup Task(Current).scopes
                      \cup {o.scope : o \in {r \in ToSet(plan'.obligations) : r.resolved}}
      /\ plan' = TaskReported
  BY ReportFacts
<1>2. /\ plan \in PlanType /\ PlanSound(plan) /\ plan.cursor \in Nat /\ Len(plan.queue) \in Nat
      /\ plan.cursor <= Len(plan.queue) /\ Len(plan.queue) <= MaxQueue
      /\ DOMAIN plan.queue = 1..Len(plan.queue)
      /\ found \subseteq settled \cup Open(plan) /\ found \subseteq Scopes /\ settled \subseteq Scopes
      /\ \A key \in plan.read : key[2] \in settled
  BY <1>1, SettlingFacts, RunFacts
<1>3. /\ Current = plan.cursor + 1 /\ Current \in 1..Len(plan.queue)
      /\ Current \in Indices /\ Task(Current) \in TaskType
  BY <1>1, SettlingFacts
<1>4. /\ Advanced \in PlanType
      /\ Advanced.active = plan.active /\ Advanced.owner = plan.owner
      /\ Advanced.queue = plan.queue /\ Advanced.cursor = plan.cursor + 1
      /\ Advanced.leases = plan.leases /\ Advanced.unrun = plan.unrun
      /\ Advanced.read = plan.read
      /\ Advanced.signature = plan.signature /\ Advanced.aliases = plan.aliases
      /\ Advanced.knows = plan.knows /\ Advanced.obligations = Obligations
      /\ (plan.fatal => Advanced.fatal)
      /\ Advanced.outputs[Current] = NoOutput /\ Advanced.interim[Current] = <<>>
      /\ \A i \in Indices \ {Current} : /\ Advanced.outputs[i] = plan.outputs[i]
                                       /\ Advanced.interim[i] = plan.interim[i]
  BY <1>1, AdvancedFacts
<1>5. Obligations = <<>> /\ plan.obligations = <<>>
  BY <1>1, Obliged, SettlingFacts
<1>6. plan.queue \in Seq(TaskType) /\ plan.unrun \subseteq TaskType /\ plan.read \subseteq Nat \X Scopes
  BY <1>2, Fields
<1>7. /\ Fitting \in Seq(TaskType) /\ Len(Fitting) \in Nat /\ Left \subseteq TaskType
      /\ Len(plan.queue) + Len(Fitting) <= MaxQueue
      /\ ScopesOf(Unknown) \subseteq ScopesOf(Fitting) \cup UNION {t.scopes : t \in Left}
  BY <1>1, Shared
<1>8. /\ queue \in Seq(TaskType) /\ Len(queue) = Len(plan.queue) + Len(Fitting)
      /\ \A i \in 1..Len(plan.queue) + Len(Fitting) :
           queue[i] = IF i <= Len(plan.queue) THEN plan.queue[i] ELSE Fitting[i - Len(plan.queue)]
  BY <1>6, <1>7, ConcatProperties
<1>9. unrun \in SUBSET TaskType
  BY <1>6, <1>7
<1>10. read \in SUBSET (Nat \X Scopes)
       /\ \A key \in read : key \in plan.read \/ key[2] \in Task(Current).scopes
  <2>1. Task(Current).tier \in Nat /\ Task(Current).scopes \subseteq Scopes
    <3>1. Task(Current).tier \in 1..Top /\ Task(Current).scopes \subseteq Scopes
      BY <1>3 DEF TaskType
    <3>2. Top \in Nat
      BY Numbers
    <3>3. \A k \in 1..Top : k \in Nat
      BY <3>2
    <3>4. QED
      BY <3>1, <3>3
  <2>2. QED
    BY <1>6, <2>1 DEF Identities
<1>11. plan' = q
  <2>1. TaskReported = [Advanced EXCEPT !.queue = Advanced.queue \o Fitting,
                          !.unrun = Advanced.unrun \cup Left,
                          !.read = IF Inspected THEN Advanced.read \cup Identities(Task(Current))
                                   ELSE Advanced.read]
    BY DEF TaskReported
  <2>2. QED
    BY <1>1, <1>4, <2>1
<1> HIDE DEF queue, unrun, read
<1>12. q \in PlanType
  BY <1>4, <1>8, <1>9, <1>10, Zenon DEF PlanType
<1>13. /\ q.active = Advanced.active /\ q.owner = Advanced.owner /\ q.queue = queue
       /\ q.cursor = Advanced.cursor /\ q.leases = Advanced.leases /\ q.unrun = unrun
       /\ q.read = read /\ q.asks = Advanced.asks
  BY <1>4, Zenon DEF PlanType
<1>14. /\ q.signature = Advanced.signature /\ q.aliases = Advanced.aliases
       /\ q.knows = Advanced.knows /\ q.obligations = Advanced.obligations /\ q.fatal = Advanced.fatal
       /\ q.outputs = Advanced.outputs /\ q.interim = Advanced.interim /\ q.errors = Advanced.errors
  BY <1>4, Zenon DEF PlanType
<1> HIDE DEF q
<1>15. Len(q.queue) = Len(plan.queue) + Len(Fitting) /\ Len(plan.queue) <= Len(q.queue)
       /\ Len(q.queue) <= MaxQueue
  <2>1. Len(q.queue) = Len(plan.queue) + Len(Fitting)
    BY <1>8, <1>13
  <2>2. Len(plan.queue) <= Len(plan.queue) + Len(Fitting)
    BY <1>2, <1>7
  <2>3. QED
    BY <2>1, <2>2, <1>7, Zenon
<1>16. q.cursor = plan.cursor + 1 /\ q.cursor <= Len(q.queue)
  <2>1. q.cursor = Current /\ Current <= Len(plan.queue) /\ Current \in Nat
    BY <1>3, <1>4, <1>13
  <2>2. Current <= Len(plan.queue) + Len(Fitting)
    BY <1>2, <1>7, <2>1
  <2>3. q.cursor <= Len(q.queue)
    BY <1>15, <2>1, <2>2, Zenon
  <2>4. QED
    BY <1>4, <1>13, <2>3, Zenon
<1>17. PlanSound(q) /\ q.queue # <<>>
  <2>1. /\ q.owner = plan.owner /\ q.leases = plan.leases /\ q.signature = plan.signature
        /\ q.aliases = plan.aliases /\ q.knows = plan.knows /\ (plan.fatal => q.fatal)
        /\ q.outputs[Current] = NoOutput /\ q.interim[Current] = <<>>
        /\ \A i \in Indices \ {Current} : /\ q.outputs[i] = plan.outputs[i]
                                          /\ q.interim[i] = plan.interim[i]
    BY <1>4, <1>13, <1>14
  <2>2. q.obligations = <<>> /\ Len(q.obligations) <= MaxObligations
    <3>1. q.obligations = <<>>
      BY <1>4, <1>5, <1>14
    <3>2. Len(<<>>) <= MaxObligations
      BY Numbers
    <3>3. QED
      BY <3>1, <3>2
  <2>3. QED
    BY <1>1, <1>12, <1>15, <1>16, <2>1, <2>2, AdvancesSound
<1>18. settled' = settled \cup Task(Current).scopes
  <2>1. ToSet(plan'.obligations) = {}
    BY <1>4, <1>5, <1>11, <1>14 DEF ToSet
  <2>2. QED
    BY <1>1, <2>1
<1>19. settled' \subseteq Scopes
  BY <1>2, <1>3, <1>18 DEF TaskType
<1>20. ASSUME NEW i \in plan.cursor + 1..Len(plan.queue), NEW x \in plan.queue[i].scopes
       PROVE  x \in settled' \cup Open(q)
  <2>1. CASE i = Current
    BY <1>18, <2>1, <1>20 DEF Task
  <2>2. CASE i # Current
    <3>0. i \in Nat /\ plan.cursor + 1 <= i /\ i <= Len(plan.queue) /\ i # plan.cursor + 1
      BY <2>2, <1>2, <1>3
    <3>1. i \in 1..Len(plan.queue) + Len(Fitting) /\ i <= Len(plan.queue)
          /\ i \in (plan.cursor + 1) + 1..Len(plan.queue) + Len(Fitting)
      <4>1. \A n, l, c, f \in Nat : c + 1 <= n /\ n <= l /\ n # c + 1 =>
              n \in 1..l + f /\ n \in (c + 1) + 1..l + f
        OBVIOUS
      <4>2. Len(plan.queue) \in Nat /\ Len(Fitting) \in Nat /\ plan.cursor \in Nat
        BY <1>2, <1>7
      <4>3. QED
        BY <3>0, <4>1, <4>2, Zenon
    <3>2. q.queue[i] = plan.queue[i]
      BY <3>1, <1>8, <1>13
    <3>3. i \in q.cursor + 1..Len(q.queue)
      BY <3>1, <1>15, <1>16
    <3>4. QED
      BY <3>2, <3>3, <1>12, <1>16, <1>20, OpenParts
  <2>3. QED
    BY <2>1, <2>2
<1>21. ASSUME NEW t \in unrun, NEW x \in t.scopes PROVE x \in Open(q)
  BY <1>12, <1>13, <1>16, <1>21, OpenParts
<1>22. ASSUME NEW x \in ScopesOf(Fitting) PROVE x \in Open(q)
  <2>1. PICK j \in 1..Len(Fitting) : x \in Fitting[j].scopes
    BY <1>7, <1>22, ScopesIn, ToSetOf
  <2>a. plan.cursor + 1 <= Len(plan.queue) /\ j \in Nat /\ 1 <= j /\ j <= Len(Fitting)
    BY <1>3, <1>7
  <2>2. /\ Len(plan.queue) + j \in 1..Len(plan.queue) + Len(Fitting)
        /\ ~(Len(plan.queue) + j <= Len(plan.queue))
        /\ (Len(plan.queue) + j) - Len(plan.queue) = j
        /\ Len(plan.queue) + j \in (plan.cursor + 1) + 1..Len(plan.queue) + Len(Fitting)
    <3>1. \A l, c, f, n \in Nat : c + 1 <= l /\ 1 <= n /\ n <= f =>
            /\ l + n \in 1..l + f /\ ~(l + n <= l) /\ (l + n) - l = n
            /\ l + n \in (c + 1) + 1..l + f
      OBVIOUS
    <3>2. Len(plan.queue) \in Nat /\ Len(Fitting) \in Nat /\ plan.cursor \in Nat
      BY <1>2, <1>7
    <3>3. QED
      BY <2>a, <3>1, <3>2, Zenon
  <2>3. queue[Len(plan.queue) + j] = Fitting[j]
    BY <2>2, <1>8
  <2>4. Len(plan.queue) + j \in q.cursor + 1..Len(q.queue) /\ x \in q.queue[Len(plan.queue) + j].scopes
    BY <2>1, <2>2, <2>3, <1>13, <1>15, <1>16
  <2>5. QED
    BY <2>4, <1>12, <1>16, OpenParts
<1>23. ASSUME NEW x \in ScopesOf(Recorded.interim[Current]) PROVE x \in settled' \cup Open(q)
  <2> DEFINE heard == Recorded.interim[Current]
             P == {k \in DOMAIN heard : ~(Identities(heard[k]) \subseteq Known)}
  <2>0. heard \in Seq(TaskType) /\ DOMAIN heard = 1..Len(heard)
    BY <1>1, <1>3, Heard, LenProperties
  <2>1. PICK k \in DOMAIN heard : x \in heard[k].scopes
    <3>1. x \in ScopesOf(heard)
      BY <1>23
    <3> HIDE DEF heard
    <3>2. PICK t \in ToSet(heard) : x \in t.scopes
      BY <3>1, ScopesIn
    <3>3. \E k \in 1..Len(heard) : t = heard[k]
      BY <2>0, ToSetOf
    <3>4. QED
      BY <2>0, <3>2, <3>3
  <2>2. CASE k \in P
    <3>1. Unknown = Only(heard, P)
      BY DEF Unknown
    <3>2. P \subseteq DOMAIN heard
      OBVIOUS
    <3> HIDE DEF P, heard
    <3>3. ToSet(Unknown) = {heard[i] : i \in P}
      BY <2>0, <3>1, <3>2, OnlyThose
    <3>4. x \in ScopesOf(Unknown)
      BY <2>1, <2>2, <3>3, ScopesIn
    <3>5. x \in ScopesOf(Fitting) \/ \E t \in Left : x \in t.scopes
      BY <3>4, <1>7
    <3>6. Left \subseteq unrun
      BY DEF unrun
    <3>7. QED
      BY <3>5, <3>6, <1>21, <1>22
  <2>3. CASE k \notin P
    <3>1. <<heard[k].tier, x>> \in Known
      BY <2>1, <2>3 DEF Identities
    <3>2. CASE <<heard[k].tier, x>> \in plan.read
      BY <3>2, <1>2, <1>18
    <3>3. CASE \E t \in plan.unrun : <<heard[k].tier, x>> \in Identities(t)
      <4>1. PICK t \in plan.unrun : <<heard[k].tier, x>> \in Identities(t)
        BY <3>3
      <4>2. x \in t.scopes /\ t \in unrun
        BY <4>1 DEF Identities, unrun
      <4>3. QED
        BY <4>2, <1>21
    <3>4. CASE \E i \in Current + 1..Len(plan.queue) : <<heard[k].tier, x>> \in Identities(Task(i))
      <4>1. PICK i \in Current + 1..Len(plan.queue) : <<heard[k].tier, x>> \in Identities(Task(i))
        BY <3>4
      <4>2. x \in plan.queue[i].scopes
        BY <4>1 DEF Identities, Task
      <4>3. i \in plan.cursor + 1..Len(plan.queue)
        BY <1>2, <1>3
      <4>4. QED
        BY <4>2, <4>3, <1>20
    <3>5. CASE <<heard[k].tier, x>> \in Identities(Task(Current))
      BY <3>5, <1>18 DEF Identities
    <3>6. QED
      BY <3>1, <3>2, <3>3, <3>4, <3>5 DEF Known
  <2>4. QED
    BY <2>2, <2>3
<1>24. ScopesOf(Recorded.interim[Current]) = ScopesOf(plan.interim[Current]) \cup ScopesOf(It.followups)
       /\ ScopesOf(It.followups) \subseteq Scopes
  BY <1>1, Heard
<1>25. ASSUME NEW x \in Open(plan) PROVE x \in settled' \cup Open(q)
  <2>1. CASE \E i \in plan.cursor + 1..Len(plan.queue) : x \in plan.queue[i].scopes
    BY <2>1, <1>20
  <2>2. CASE \E t \in plan.unrun : x \in t.scopes
    BY <2>2, <1>21 DEF unrun
  <2>3. CASE x \in OpenScopes(plan.obligations)
    BY <2>3, <1>5, NoRows
  <2>4. CASE \E i \in Indices : x \in ScopesOf(plan.interim[i])
    <3>1. PICK i \in Indices : x \in ScopesOf(plan.interim[i])
      BY <2>4
    <3>2. CASE i = Current
      BY <3>1, <3>2, <1>23, <1>24
    <3>3. CASE i # Current
      <4>1. q.interim[i] = plan.interim[i]
        BY <3>1, <3>3, <1>4, <1>14
      <4>2. QED
        BY <3>1, <4>1, <1>12, <1>16, OpenParts
    <3>4. QED
      BY <3>2, <3>3
  <2>5. QED
    BY <1>2, <2>1, <2>2, <2>3, <2>4, OpenParts
<1>26. found' \subseteq settled' \cup Open(q) /\ found' \subseteq Scopes
  BY <1>1, <1>2, <1>23, <1>24, <1>25
<1>27. \A key \in q.read : key[2] \in settled'
  BY <1>2, <1>10, <1>13, <1>18
<1>28. QED
  BY <1>4, <1>11, <1>12, <1>13, <1>14, <1>15, <1>16, <1>17, <1>19, <1>26, <1>27

LEMMA ReportsStep ==
  ASSUME FlexInv, Reports
  PROVE  FlexInv'
<1>1. /\ plan' \in PlanType /\ PlanSound(plan') /\ plan'.queue # <<>>
      /\ plan'.active = plan.active /\ plan'.knows = plan.knows
      /\ plan'.cursor = plan.cursor + 1 /\ Len(plan.queue) <= Len(plan'.queue)
      /\ \A i \in Indices \ {Current} : plan'.outputs[i] = plan.outputs[i]
      /\ found' \subseteq settled' \cup Open(plan') /\ found' \subseteq Scopes /\ settled' \subseteq Scopes
      /\ \A key \in plan'.read : key[2] \in settled'
  BY OwnerReportedSound, TaskReportedSound
<1>2. Settling /\ disk' = plan' /\ UNCHANGED <<folded, injected, how>>
  BY ReportFacts DEF request
<1>3. /\ stage = "work" /\ wave = {} /\ helping = {} /\ Current = plan.cursor + 1
      /\ Current \in 1..Len(plan.queue) /\ upto \in Nat /\ upto <= Len(plan.queue) /\ Current \in Indices
  BY <1>2, SettlingFacts
<1>4. /\ plan.active /\ plan.knows = folded + injected /\ how = "none" /\ plan.cursor \in Nat
      /\ Len(plan.queue) \in Nat /\ Len(plan'.queue) \in Nat
      /\ \A i \in 1..Len(plan.queue) : i \in Indices
  BY <1>1, <1>2, SettlingFacts, RunFacts, Fields, LenProperties
<1>5. CASE Current < upto /\ stage' = "work" /\ UNCHANGED allowance
  <2>1. UNCHANGED <<wave, upto, helping, workers, judged>>
    BY <1>5 DEF allowance
  <2>2. JobTypeOK'
    BY <1>1, <1>2, <1>5, <2>1 DEF FlexInv, JobTypeOK
  <2>3. InStep'
    BY <1>1, <1>2, <1>4, <1>5 DEF InStep
  <2>4. WaveSound'
    <3>1. Current' = plan.cursor + 2
      BY <1>1, <1>4 DEF Current
    <3>2. Current' <= upto /\ upto <= Len(plan'.queue)
      <4>1. plan.cursor + 2 <= upto
        BY <1>3, <1>4, <1>5
      <4>2. upto <= Len(plan'.queue)
        BY <1>1, <1>3, <1>4
      <4>3. QED
        BY <3>1, <4>1, <4>2
    <3>3. ASSUME NEW i \in Current'..upto PROVE Done(i)'
      <4>0. i \in plan.cursor + 2..upto
        BY <3>1
      <4>1. i \in Current..upto /\ i \in 1..Len(plan.queue) /\ i # Current
        <5>1. \A c, u, l \in Nat : u <= l => \A n \in c + 2..u : n \in c + 1..u /\ n \in 1..l /\ n # c + 1
          OBVIOUS
        <5>2. upto <= Len(plan.queue) /\ upto \in Nat /\ Len(plan.queue) \in Nat /\ plan.cursor \in Nat
              /\ Current = plan.cursor + 1
          BY <1>3, <1>4
        <5>3. QED
          BY <4>0, <5>1, <5>2, Zenon
      <4>2. Done(i)
        BY <4>1, <1>3 DEF FlexInv, WaveSound
      <4>3. QED
        BY <4>1, <4>2, <1>1, <1>4 DEF Done
    <3>4. QED
      BY <1>3, <1>5, <2>1, <3>2, <3>3 DEF WaveSound
  <2>5. HelpersSound'
    BY <1>3, <1>5, <2>1 DEF HelpersSound
  <2>6. ScopesInv'
    BY <1>1, <1>2, <1>4, <1>5 DEF ScopesInv, RepliesTell
  <2>7. QED
    BY <1>1, <1>2, <2>2, <2>3, <2>4, <2>5, <2>6 DEF FlexInv
<1>6. CASE stage' = "run" /\ Resets
  <2>1. wave' = {} /\ upto' \in Nat /\ workers' \in 0..MaxWorkers /\ UNCHANGED <<helping, judged>>
    BY <1>6 DEF Resets, FlexInv, JobTypeOK
  <2>2. HelpersSound'
    BY <1>3, <1>6, <2>1 DEF HelpersSound
  <2>3. QED
    BY <1>1, <1>2, <1>4, <1>6, <2>1, <2>2, GoesOn DEF request
<1>7. QED
  BY <1>5, <1>6 DEF Reports


-------------------------------------------------------------------------------
\* Helpers.
LEMMA WantedFacts ==
  ASSUME FlexInv, NEW n \in Wanted
  PROVE  /\ stage \in {"run", "lease"} /\ n \in DOMAIN plan.leases[Current]
         /\ Current \in 1..Len(plan.queue) /\ Current \in Indices
         /\ stage = "run" => Current = 1
<1>1. stage \in {"run", "lease"}
  BY DEF Wanted
<1>2. /\ plan \in PlanType /\ PlanSound(plan) /\ plan.cursor \in Nat /\ Len(plan.queue) \in Nat
      /\ \A i \in 1..Len(plan.queue) : i \in Indices
  BY <1>1, RunFacts
<1>3. CASE stage = "lease"
  <2>1. Current <= Len(plan.queue) /\ plan.leases[Current] # <<>>
    BY <1>3 DEF FlexInv, HelpersSound
  <2>2. Current \in 1..Len(plan.queue) /\ Current \in Indices
    <3>1. Current \in 1..Len(plan.queue)
      BY <1>2, <2>1 DEF Current
    <3>2. QED
      BY <3>1, <1>2
  <2>3. n = Len(plan.leases[Current])
    BY <1>3 DEF Wanted, Asked
  <2>4. plan.leases[Current] \in Seq(LeaseType)
    BY <1>2, <2>2, Fields
  <2>5. n \in DOMAIN plan.leases[Current]
    BY <2>1, <2>3, <2>4, EmptySeq, LenProperties
  <2>6. QED
    BY <1>3, <2>2, <2>5
<1>4. CASE stage = "run"
  <2>1. plan.owner /\ Current = 1 /\ n \in PendingSpecialists
    BY <1>4 DEF Wanted
  <2>2. Len(plan.queue) = 1
    BY <1>2, <2>1 DEF PlanSound, OwnerSound
  <2>3. Current \in 1..Len(plan.queue)
    BY <2>1, <2>2
  <2>4. n \in DOMAIN plan.leases[Current]
    BY <2>1 DEF PendingSpecialists
  <2>5. QED
    BY <1>2, <1>4, <2>1, <2>3, <2>4
<1>5. QED
  BY <1>1, <1>3, <1>4

\* A helper's result, or none, changes what its lease says and nothing else.
LEMMA LeaseDone ==
  ASSUME FlexInv, stage \in {"run", "lease"}, Current \in Indices,
         NEW n \in DOMAIN plan.leases[Current], NEW accounts \in SUBSET (0..Top)
  PROVE  LET q == [WithState(n, "complete") EXCEPT !.unavailable = accounts]
         IN /\ q \in PlanType /\ PlanSound(q) /\ q.active = plan.active /\ q.queue = plan.queue
            /\ q.cursor = plan.cursor /\ q.outputs = plan.outputs
            /\ q.read = plan.read /\ q.knows = plan.knows
            /\ Open(q) = Open(plan)
            /\ DOMAIN q.leases[Current] = DOMAIN plan.leases[Current]
            /\ q.leases[Current] # <<>>
            /\ WithState(n, "complete") \in PlanType
            /\ WithState(n, "complete").unavailable = plan.unavailable
<1> DEFINE lease == [plan.leases[Current][n] EXCEPT !.state = "complete"]
           list == [plan.leases[Current] EXCEPT ![n] = lease]
           leases == [plan.leases EXCEPT ![Current] = list]
           q == [plan EXCEPT !.leases = leases, !.unavailable = accounts]
<1>1. plan \in PlanType /\ PlanSound(plan)
  BY RunFacts
<1>2. plan.leases \in [Indices -> Seq(LeaseType)] /\ plan.leases[Current] \in Seq(LeaseType)
  BY <1>1, Fields
<1>3. lease \in LeaseType
  <2>1. plan.leases[Current][n] \in LeaseType
    BY <1>2, ElementOfSeq, LenProperties
  <2>2. QED
    BY <2>1 DEF LeaseType
<1> HIDE DEF lease
<1>4. list \in Seq(LeaseType) /\ Len(list) = Len(plan.leases[Current])
      /\ DOMAIN list = DOMAIN plan.leases[Current] /\ list # <<>>
  <2>1. list \in Seq(LeaseType) /\ Len(list) = Len(plan.leases[Current])
        /\ DOMAIN list = DOMAIN plan.leases[Current]
    BY <1>2, <1>3
  <2>2. n \in DOMAIN list
    BY <2>1
  <2>3. QED
    BY <2>1, <2>2
<1> HIDE DEF list
<1>5. /\ leases \in [Indices -> Seq(LeaseType)] /\ leases[Current] = list
      /\ \A i \in Indices \ {Current} : leases[i] = plan.leases[i]
  BY <1>2, <1>4
<1>6. WithState(n, "complete") = [plan EXCEPT !.leases = leases]
  BY DEF WithState, leases, list, lease
<1> HIDE DEF leases
<1>7. WithState(n, "complete") \in PlanType /\ WithState(n, "complete").unavailable = plan.unavailable
  <2>1. [plan EXCEPT !.leases = leases] \in PlanType
    BY <1>1, <1>5, Zenon DEF PlanType
  <2>2. [plan EXCEPT !.leases = leases].unavailable = plan.unavailable
    BY <1>1, Zenon DEF PlanType
  <2>3. QED
    BY <1>6, <2>1, <2>2
<1>8. [WithState(n, "complete") EXCEPT !.unavailable = accounts] = q
  BY <1>6
<1>9. q \in PlanType
  BY <1>1, <1>5, Zenon DEF PlanType
<1>10. /\ q.active = plan.active /\ q.owner = plan.owner /\ q.queue = plan.queue
       /\ q.cursor = plan.cursor /\ q.leases = leases /\ q.unrun = plan.unrun
       /\ q.read = plan.read /\ q.asks = plan.asks
  BY <1>1, Zenon DEF PlanType
<1>11. /\ q.signature = plan.signature /\ q.aliases = plan.aliases
       /\ q.knows = plan.knows /\ q.obligations = plan.obligations /\ q.fatal = plan.fatal
       /\ q.outputs = plan.outputs /\ q.interim = plan.interim /\ q.errors = plan.errors
  BY <1>1, Zenon DEF PlanType
<1> HIDE DEF q
<1>12. \A i \in Indices : Len(q.leases[i]) = Len(plan.leases[i])
  BY <1>4, <1>5, <1>10
<1>13. PlanSound(q)
  <2>1. Limited(q) /\ Signed(q) /\ InterimSound(q)
    BY <1>1, <1>10, <1>11, <1>12 DEF PlanSound, Limited, Signed, InterimSound
  <2>2. OutputsSound(q)
    BY <1>1, <1>10, <1>11, <1>12 DEF PlanSound, OutputsSound
  <2>3. OwnerSound(q)
    BY <1>1, <1>10, <1>11 DEF PlanSound, OwnerSound
  <2>4. QED
    BY <2>1, <2>2, <2>3 DEF PlanSound
<1>14. Open(q) = Open(plan)
  BY <1>10, <1>11 DEF Open
<1>15. QED
  BY <1>4, <1>5, <1>7, <1>8, <1>9, <1>10, <1>11, <1>13, <1>14

\* A step at a helper that leaves the task where it is.
LEMMA HelperGoesOn ==
  ASSUME FlexInv, stage \in {"run", "lease"}, stage' = stage, NEW q \in PlanType,
         PlanSound(q), plan' = q, disk' = q, q.active = plan.active, q.queue = plan.queue,
         q.cursor = plan.cursor, q.outputs = plan.outputs, q.read = plan.read,
         q.knows = plan.knows, Open(q) = Open(plan),
         DOMAIN q.leases[Current] = DOMAIN plan.leases[Current],
         stage = "lease" => q.leases[Current] # <<>>,
         \A n \in helping' : n \in DOMAIN plan.leases[Current],
         helping' # {} => Current <= Len(plan.queue) /\ (stage = "run" => Current = 1),
         workers' \in 0..MaxWorkers, UNCHANGED <<wave, upto, judged, request, how, found, settled>>
  PROVE  FlexInv'
<1>1. /\ plan.active /\ plan.queue # <<>> /\ plan.knows = folded + injected /\ how = "none"
      /\ found \subseteq settled \cup Open(plan) /\ \A key \in plan.read : key[2] \in settled
      /\ found \subseteq Scopes /\ settled \subseteq Scopes
  BY RunFacts
<1>2. wave = {} /\ upto \in Nat
  BY DEF FlexInv, WaveSound, JobTypeOK
<1>3. Current' = Current
  BY DEF Current
<1>4. stage = "lease" => Current <= Len(plan.queue) /\ ~plan.outputs[Current].held
  BY DEF FlexInv, HelpersSound
<1>5. HelpersSound'
  BY <1>3, <1>4 DEF HelpersSound
<1>6. QED
  BY <1>1, <1>2, <1>5, GoesOn


LEMMA HelperRefusedStep ==
  ASSUME FlexInv, NEW n, HelperRefused(n)
  PROVE  FlexInv'
<1> DEFINE q == [WithState(n, "complete") EXCEPT !.unavailable = plan.unavailable]
<1>1. /\ helping = {} /\ n \in Wanted /\ plan' = WithState(n, "complete") /\ disk' = plan'
      /\ UNCHANGED <<stage, wave, upto, helping, workers, judged, request, how, found, settled>>
  BY DEF HelperRefused, Saves, allowance, history
<1>2. /\ stage \in {"run", "lease"} /\ n \in DOMAIN plan.leases[Current]
      /\ Current \in 1..Len(plan.queue) /\ Current \in Indices
  BY <1>1, WantedFacts
<1>3. plan.unavailable \in SUBSET (0..Top)
  BY <1>2, RunFacts, Fields
<1>4. /\ q \in PlanType /\ PlanSound(q) /\ q.active = plan.active /\ q.queue = plan.queue
      /\ q.cursor = plan.cursor /\ q.outputs = plan.outputs
      /\ q.read = plan.read /\ q.knows = plan.knows
      /\ Open(q) = Open(plan)
      /\ DOMAIN q.leases[Current] = DOMAIN plan.leases[Current]
      /\ q.leases[Current] # <<>>
      /\ WithState(n, "complete") \in PlanType
      /\ WithState(n, "complete").unavailable = plan.unavailable
  BY <1>2, <1>3, LeaseDone
<1>5. plan' = q
  BY <1>1, <1>4 DEF PlanType
<1> HIDE DEF q
<1>6. workers' \in 0..MaxWorkers
  BY <1>1 DEF FlexInv, JobTypeOK
<1>7. QED
  BY <1>1, <1>2, <1>4, <1>5, <1>6, HelperGoesOn

LEMMA HelperReturnsStep ==
  ASSUME FlexInv, NEW n, HelperReturns(n)
  PROVE  FlexInv'
<1>1. n \in helping /\ UNCHANGED <<found, settled>>
  BY DEF HelperReturns, history
<1>2. stage \in {"run", "lease"} /\ Current <= Len(plan.queue) /\ n \in DOMAIN plan.leases[Current]
      /\ \A k \in helping : k \in DOMAIN plan.leases[Current]
      /\ (stage = "run" => Current = 1)
  BY <1>1 DEF FlexInv, HelpersSound
<1>3. /\ plan \in PlanType /\ plan.cursor \in Nat /\ Len(plan.queue) \in Nat /\ disk = plan
      /\ \A i \in 1..Len(plan.queue) : i \in Indices
  BY <1>2, RunFacts DEF FlexInv, InStep
<1>4. Current \in Indices
  <2>1. Current \in 1..Len(plan.queue)
    BY <1>2, <1>3 DEF Current
  <2>2. QED
    BY <2>1, <1>3
<1>5. PICK end \in {"answer", "limit", "deferred"} :
        LET spoken == IF end = "deferred" THEN plan ELSE WithState(n, "complete")
            after == IF end = "limit" THEN [spoken EXCEPT !.unavailable = @ \cup {Item(n).tier}] ELSE spoken
        IN \/ /\ end = "deferred" /\ helping = {n} /\ disk' = after /\ JobEnds("deferred")
           \/ /\ end # "deferred" /\ plan' = after /\ Saves /\ helping' = helping \ {n}
              /\ UNCHANGED <<stage, wave, upto, workers, judged, request, starts, how>>
  BY DEF HelperReturns
<1>6. CASE end = "deferred"
  <2>1. disk' = disk /\ JobEnds("deferred")
    BY <1>3, <1>5, <1>6
  <2>2. QED
    BY <1>1, <2>1, Ended, Leaving DEF FlexInv, JobTypeOK, ScopesInv
<1>7. CASE end # "deferred"
  <2> DEFINE accounts == IF end = "limit" THEN plan.unavailable \cup {Item(n).tier} ELSE plan.unavailable
             q == [WithState(n, "complete") EXCEPT !.unavailable = accounts]
  <2>1. plan.unavailable \in SUBSET (0..Top) /\ Item(n).tier \in 0..Top
    <3>1. plan.leases[Current] \in Seq(LeaseType) /\ plan.unavailable \in SUBSET (0..Top)
      BY <1>3, <1>4, Fields
    <3>2. plan.leases[Current][n] \in LeaseType
      BY <1>2, <3>1, ElementOfSeq, LenProperties
    <3>3. QED
      BY <3>1, <3>2 DEF Item, LeaseType
  <2>2. accounts \in SUBSET (0..Top)
    BY <2>1
  <2>a. WithState(n, "complete") \in PlanType /\ WithState(n, "complete").unavailable = plan.unavailable
    BY <1>2, <1>4, <2>2, LeaseDone
  <2>3. plan' = q
    <3>1. CASE end = "limit"
      <4>1. plan' = [WithState(n, "complete") EXCEPT !.unavailable = @ \cup {Item(n).tier}]
        BY <1>5, <1>7, <3>1
      <4>2. QED
        BY <2>a, <3>1, <4>1
    <3>2. CASE end # "limit"
      <4>1. plan' = WithState(n, "complete")
        BY <1>5, <1>7, <3>2
      <4>2. QED
        BY <2>a, <3>2, <4>1 DEF PlanType
    <3>3. QED
      BY <3>1, <3>2
  <2> HIDE DEF accounts
  <2>4. /\ q \in PlanType /\ PlanSound(q) /\ q.active = plan.active /\ q.queue = plan.queue
        /\ q.cursor = plan.cursor /\ q.outputs = plan.outputs
        /\ q.read = plan.read /\ q.knows = plan.knows
        /\ Open(q) = Open(plan)
        /\ DOMAIN q.leases[Current] = DOMAIN plan.leases[Current]
        /\ q.leases[Current] # <<>>
    BY SMTT(30), <1>2, <1>4, <2>2, LeaseDone
  <2>5. /\ disk' = plan' /\ helping' = helping \ {n}
        /\ UNCHANGED <<stage, wave, upto, workers, judged, request, how>>
    BY <1>5, <1>7 DEF Saves
  <2> HIDE DEF q
  <2>6. workers' \in 0..MaxWorkers /\ \A k \in helping' : k \in DOMAIN plan.leases[Current]
    BY <1>2, <2>5 DEF FlexInv, JobTypeOK
  <2>7. QED
    BY <1>1, <1>2, <2>3, <2>4, <2>5, <2>6, HelperGoesOn
<1>8. QED
  BY <1>6, <1>7

LEMMA HelpersBeginStep ==
  ASSUME FlexInv, HelpersBegin
  PROVE  FlexInv'
<1>1. helping = {} /\ Wanted # {} /\ UNCHANGED <<disk, found, settled>>
  BY DEF HelpersBegin, history
<1>2. /\ stage \in {"run", "lease"} /\ Current \in 1..Len(plan.queue) /\ Current \in Indices
      /\ (stage = "run" => Current = 1) /\ Wanted \subseteq DOMAIN plan.leases[Current]
  BY <1>1, WantedFacts
<1>3. /\ plan \in PlanType /\ PlanSound(plan) /\ Len(plan.queue) \in Nat /\ disk = plan
  BY <1>2, RunFacts DEF FlexInv, InStep
<1>4. IsFiniteSet(Wanted) /\ Wanted \subseteq Nat
  <2>1. plan.leases[Current] \in Seq(LeaseType)
    BY <1>2, <1>3, Fields
  <2>2. QED
    BY <1>2, <2>1, Positions
<1>5. CASE Remaining = 0 /\ JobEnds("budget")
  BY <1>1, <1>5, Ended, Leaving DEF FlexInv, JobTypeOK, ScopesInv
<1>6. CASE /\ Remaining > 0
           /\ helping' = IF Cardinality(Together) <= Remaining THEN Together ELSE {n \in Wanted : First(n)}
           /\ workers' = workers + Cardinality(helping')
           /\ UNCHANGED <<stage, plan, wave, upto, judged, request, starts, how>>
  <2> DEFINE one == {n \in Wanted : First(n)}
  <2>1. Together \subseteq Wanted /\ one \subseteq Wanted
    BY DEF Together
  <2>2. helping' \subseteq Wanted
    BY <1>6, <2>1
  <2>3. IsFiniteSet(Together) /\ IsFiniteSet(one) /\ Cardinality(Together) \in Nat /\ Cardinality(one) \in Nat
    BY <1>4, <2>1, FS_Subset, FS_CardinalityType
  <2>4. Cardinality(one) <= 1
    <3>1. \A i, j \in one : i = j
      BY <1>4 DEF First
    <3>2. CASE one = {}
      BY <3>2, FS_EmptySet
    <3>3. CASE one # {}
      <4>1. PICK i \in one : TRUE
        BY <3>3
      <4> HIDE DEF one
      <4>2. one = {i}
        BY <3>1, <4>1
      <4>3. Cardinality(one) = 1
        BY <4>2, FS_Singleton
      <4>4. 1 <= 1
        OBVIOUS
      <4>5. QED
        BY <4>3, <4>4
    <3>4. QED
      BY <3>2, <3>3
  <2> HIDE DEF one
  <2>5. workers \in Nat /\ MaxWorkers \in Nat /\ workers <= MaxWorkers
    BY Numbers DEF FlexInv, JobTypeOK
  <2>6. Cardinality(helping') \in Nat /\ Cardinality(helping') <= Remaining
    <3>1. CASE Cardinality(Together) <= Remaining
      BY <1>6, <2>3, <3>1
    <3>2. CASE ~(Cardinality(Together) <= Remaining)
      <4>1. helping' = one
        BY <1>6, <3>2 DEF one
      <4>2. Remaining \in Int /\ Remaining > 0
        BY <1>6, <2>5 DEF Remaining
      <4>3. QED
        BY <2>3, <2>4, <4>1, <4>2
    <3>3. QED
      BY <3>1, <3>2
  <2>7. workers' \in 0..MaxWorkers
    BY <1>6, <2>5, <2>6 DEF Remaining
  <2>8. stage = "lease" => plan.leases[Current] # <<>>
    BY DEF FlexInv, HelpersSound
  <2>9. Current <= Len(plan.queue)
    BY <1>2, <1>3
  <2>10. QED
    BY <1>1, <1>2, <1>3, <1>6, <2>2, <2>7, <2>8, <2>9, HelperGoesOn
<1>7. QED
  BY <1>5, <1>6 DEF HelpersBegin

\* The parent's output made way for its helper's findings.
LEMMA ParentStep ==
  ASSUME FlexInv, ParentContinues
  PROVE  FlexInv'
<1> DEFINE outputs == [plan.outputs EXCEPT ![Current] = NoOutput]
           q == [plan EXCEPT !.outputs = outputs]
<1>1. /\ stage = "lease" /\ helping = {} /\ stage' = "run" /\ plan' = q /\ disk' = plan'
      /\ UNCHANGED <<wave, upto, helping, workers, judged, request, how, found, settled>>
  BY DEF ParentContinues, Saves, allowance, history
<1>2. /\ plan \in PlanType /\ PlanSound(plan) /\ plan.active /\ plan.queue # <<>>
      /\ plan.knows = folded + injected /\ how = "none"
      /\ plan.cursor \in Nat /\ Len(plan.queue) \in Nat
      /\ found \subseteq settled \cup Open(plan) /\ \A key \in plan.read : key[2] \in settled
      /\ found \subseteq Scopes /\ settled \subseteq Scopes
      /\ \A i \in 1..Len(plan.queue) : i \in Indices
  BY <1>1, RunFacts
<1>3. Current <= Len(plan.queue) /\ ~plan.outputs[Current].held
  BY <1>1 DEF FlexInv, HelpersSound
<1>4. Current \in Indices /\ Current = plan.cursor + 1
  <2>1. Current \in 1..Len(plan.queue)
    BY <1>2, <1>3 DEF Current
  <2>2. QED
    BY <2>1, <1>2 DEF Current
<1>5. NoOutput \in OutputType /\ ~NoOutput.held /\ ~NoOutput.complete /\ NoOutput.round = 0
      /\ ~NoOutput.processed
  BY Numbers DEF NoOutput, OutputType, EndType
<1>6. plan.outputs \in [Indices -> OutputType] /\ plan.leases \in [Indices -> Seq(LeaseType)]
  BY <1>2, Fields
<1>7. /\ outputs \in [Indices -> OutputType] /\ outputs[Current] = NoOutput
      /\ \A i \in Indices \ {Current} : outputs[i] = plan.outputs[i]
  BY <1>4, <1>5, <1>6
<1> HIDE DEF outputs
<1>8. q \in PlanType
  BY <1>2, <1>7, Zenon DEF PlanType
<1>9. /\ q.active = plan.active /\ q.owner = plan.owner /\ q.queue = plan.queue
      /\ q.cursor = plan.cursor /\ q.leases = plan.leases /\ q.unrun = plan.unrun
      /\ q.read = plan.read /\ q.asks = plan.asks
  BY <1>2, Zenon DEF PlanType
<1>10. /\ q.signature = plan.signature /\ q.aliases = plan.aliases
       /\ q.knows = plan.knows /\ q.obligations = plan.obligations /\ q.fatal = plan.fatal
       /\ q.outputs = outputs /\ q.interim = plan.interim /\ q.errors = plan.errors
  BY <1>2, Zenon DEF PlanType
<1> HIDE DEF q
<1>11. Limited(q) /\ Signed(q) /\ InterimSound(q)
  BY <1>2, <1>9, <1>10 DEF PlanSound, Limited, Signed, InterimSound
<1>12. OutputsSound(q)
  <2> SUFFICES ASSUME NEW i \in Indices
               PROVE  LET o == outputs[i]
                      IN /\ o.complete => o.end \notin {"none", "tools", "prerequisite"}
                         /\ o.held => o.complete
                         /\ o.round <= Len(plan.leases[i])
                         /\ o.processed /\ ~o.held =>
                              o.end = "lease" /\ ToSet(o.followups) \subseteq ToSet(plan.interim[i])
    BY <1>9, <1>10 DEF OutputsSound
  <2>1. CASE i = Current
    <3>1. Len(plan.leases[i]) \in Nat
      BY <1>6, LenProperties
    <3>2. QED
      BY <2>1, <3>1, <1>5, <1>7
  <2>2. CASE i # Current
    BY <2>2, <1>2, <1>7 DEF PlanSound, OutputsSound
  <2>3. QED
    BY <2>1, <2>2
<1>13. OwnerSound(q)
  <2>1. ASSUME plan.cursor = 0 PROVE ~plan.outputs[1].held
    BY <2>1, <1>3, <1>4
  <2>2. QED
    BY <2>1, <1>2, <1>9, <1>10 DEF PlanSound, OwnerSound
<1>14. PlanSound(q) /\ Open(q) = Open(plan)
  BY <1>9, <1>10, <1>11, <1>12, <1>13 DEF PlanSound, Open
<1>15. wave' = {} /\ upto' \in Nat /\ workers' \in 0..MaxWorkers
  BY <1>1 DEF FlexInv, JobTypeOK, WaveSound
<1>16. HelpersSound'
  BY <1>1 DEF HelpersSound
<1>17. QED
  BY <1>1, <1>2, <1>8, <1>9, <1>10, <1>14, <1>15, <1>16, GoesOn


-------------------------------------------------------------------------------
\* The reply, and the judge.

\* A plan whose tasks are over has nothing open but what is listed as not run,
\* the obligations of its owner, and what a skipped task had reported.
LEMMA OnlyUntold ==
  ASSUME NEW p \in PlanType, PlanSound(p), p.cursor = Len(p.queue)
  PROVE  /\ Open(p) \subseteq (UNION {t.scopes : t \in p.unrun}) \cup Unresolved(p) \cup Skipped(p)
         /\ ~p.fatal => Skipped(p) = {}
<1>1. p.queue \in Seq(TaskType) /\ p.cursor \in Nat /\ Len(p.queue) \in Nat
  BY Fields, LenProperties
<1>2. p.cursor <= Len(p.queue)
  BY <1>1
<1>3. ASSUME NEW x \in Open(p)
      PROVE  \/ \E t \in p.unrun : x \in t.scopes
             \/ x \in OpenScopes(p.obligations)
             \/ \E i \in Indices : x \in ScopesOf(p.interim[i])
  <2>1. ~ \E i \in p.cursor + 1..Len(p.queue) : x \in p.queue[i].scopes
    BY <1>1
  <2>2. QED
    BY <1>2, <2>1, OpenParts
<1>4. ASSUME ~p.fatal, NEW i \in Indices PROVE ScopesOf(p.interim[i]) = {}
  <2>1. p.interim[i] = <<>>
    BY <1>1, <1>4 DEF PlanSound, InterimSound
  <2>2. QED
    BY <2>1, NoRows
<1>5. QED
  BY <1>3, <1>4 DEF Unresolved, Skipped

\* A plan whose tasks are over has nothing open but what is listed as not run.
LEMMA NothingOpen ==
  ASSUME NEW p \in PlanType, PlanSound(p), p.cursor = Len(p.queue),
         ~p.fatal, ~p.asks, p.errors # Len(p.queue)
  PROVE  Open(p) \subseteq UNION {t.scopes : t \in p.unrun}
<1>1. p.queue \in Seq(TaskType) /\ p.cursor \in Nat /\ Len(p.queue) \in Nat
  BY Fields, LenProperties
<1>2. p.cursor <= Len(p.queue)
  BY <1>1
<1> SUFFICES ASSUME NEW x \in Open(p) PROVE \E t \in p.unrun : x \in t.scopes
  OBVIOUS
<1>3. ~ \E i \in p.cursor + 1..Len(p.queue) : x \in p.queue[i].scopes
  BY <1>1
<1>4. x \notin OpenScopes(p.obligations)
  <2>1. CASE p.owner
    <3>1. Len(p.queue) = 1
      BY <2>1 DEF PlanSound, OwnerSound
    <3>2. p.cursor = 1 /\ p.errors # 1
      BY <3>1
    <3>3. QED
      BY <2>1, <3>2 DEF PlanSound, OwnerSound
  <2>2. CASE ~p.owner
    BY <2>2, NoRows DEF PlanSound, OwnerSound
  <2>3. QED
    BY <2>1, <2>2
<1>5. \A i \in Indices : x \notin ScopesOf(p.interim[i])
  <2> SUFFICES ASSUME NEW i \in Indices, x \in ScopesOf(p.interim[i]) PROVE FALSE
    OBVIOUS
  <2>1. p.interim[i] # <<>>
    BY NoRows
  <2>2. i = p.cursor + 1 /\ i <= Len(p.queue)
    BY <2>1 DEF PlanSound, InterimSound
  <2>3. QED
    BY <2>2, <1>1
<1>6. QED
  BY <1>2, <1>3, <1>4, <1>5, OpenParts

LEMMA AnswersStep ==
  ASSUME FlexInv, stage \in {"run", "merge"}, helping = {},
         plan.cursor = Len(plan.queue), NEW asks \in BOOLEAN, plan.asks => asks, Answers(asks)
  PROVE  FlexInv'
<1>1. /\ plan \in PlanType /\ PlanSound(plan) /\ disk = plan /\ how = "none" /\ Len(plan.queue) \in Nat
      /\ found \subseteq settled \cup Open(plan) /\ \A key \in plan.read : key[2] \in settled
      /\ found \subseteq Scopes /\ settled \subseteq Scopes
  BY RunFacts DEF FlexInv, InStep
<1>2. /\ disk' = Invalidated /\ found' = found
      /\ settled' = settled \cup (UNION {t.scopes : t \in plan.unrun})
  BY DEF Answers, Told
<1>3. /\ disk' \in PlanType /\ PlanSound(disk') /\ ~disk'.active /\ disk'.queue = plan.queue
      /\ disk'.cursor = plan.cursor /\ disk'.read = plan.read /\ disk'.fatal = plan.fatal
      /\ disk'.obligations = plan.obligations /\ disk'.interim = plan.interim
  BY <1>1, <1>2, SetAside
<1>4. settled' \subseteq Scopes
  <2>1. plan.unrun \subseteq TaskType
    BY <1>1, Fields
  <2>2. QED
    BY <1>1, <1>2, <2>1 DEF TaskType
<1>5. \A key \in disk'.read : key[2] \in settled'
  BY <1>1, <1>2, <1>3
<1>6. CASE Failed \/ asks
  <2>1. PICK h \in {"error", "question"} : JobEnds(h) /\ (h = "question" => ~plan.fatal)
    BY <1>6 DEF Answers, Failed
  <2>2. Leaves(h) /\ folded' \in Nat /\ folded' <= MaxGuidance
    BY <2>1, Ended
  <2>3. found' \subseteq Scopes
    BY <1>1, <1>2
  <2>4. /\ Unresolved(disk') = Unresolved(plan) /\ Skipped(disk') = Skipped(plan)
    BY <1>3 DEF Unresolved, Skipped
  <2>5. /\ Open(plan) \subseteq (UNION {t.scopes : t \in plan.unrun}) \cup Unresolved(plan) \cup Skipped(plan)
        /\ ~plan.fatal => Skipped(plan) = {}
    BY <1>1, OnlyUntold
  <2>6. /\ found' \subseteq settled' \cup Unresolved(plan) \cup Skipped(plan)
        /\ ~plan.fatal => Skipped(plan) = {}
    BY <1>1, <1>2, <2>5
  <2>7. /\ h # "answered"
        /\ h = "question" => found' \subseteq settled' \cup Unresolved(disk')
        /\ h = "error" => found' \subseteq settled' \cup Unresolved(disk') \cup Skipped(disk')
    BY <2>1, <2>6, <2>4
  <2>8. disk' \in PlanType /\ PlanSound(disk') /\ ~disk'.active
    BY <1>3
  <2>9. QED
    BY <2>2, <2>3, <2>7, <2>8, <1>4, <1>5, Leaving
<1>7. CASE ~Failed /\ ~asks
  <2>1. /\ stage' = "judge" /\ plan' = NoPlan
        /\ UNCHANGED <<wave, upto, helping, workers, judged, folded, injected, how>>
    BY <1>7 DEF Answers, allowance, request
  <2>2. NoPlan \in PlanType /\ PlanSound(NoPlan) /\ NoPlan.read = {}
    BY NoPlanSound DEF NoPlan
  <2>3. found \subseteq settled'
    <3>1. Open(plan) \subseteq UNION {t.scopes : t \in plan.unrun}
      BY <1>1, <1>7, NothingOpen DEF Failed
    <3>2. QED
      BY <3>1, <1>1, <1>2
  <2>4. wave = {}
    BY DEF FlexInv, WaveSound
  <2>5. JobTypeOK'
    BY <1>1, <1>2, <1>3, <1>4, <2>1, <2>2 DEF FlexInv, JobTypeOK
  <2>6. InStep' /\ WaveSound' /\ HelpersSound'
    BY <1>1, <1>3, <2>1, <2>4 DEF InStep, WaveSound, HelpersSound
  <2>7. ScopesInv'
    BY <1>1, <1>2, <1>3, <1>5, <1>7, <2>1, <2>2, <2>3 DEF ScopesInv, RepliesTell, Failed
  <2>8. QED
    BY <1>3, <2>1, <2>2, <2>5, <2>6, <2>7 DEF FlexInv
<1>8. QED
  BY <1>6, <1>7 DEF Failed

LEMMA ReplyStep ==
  ASSUME FlexInv, Finish \/ Merges \/ MergeReturns
  PROVE  FlexInv'
<1>1. ASSUME Concludes PROVE stage = "run" /\ plan.cursor = Len(plan.queue) /\ helping = {}
  <2>1. stage = "run" /\ plan.cursor = Len(plan.queue)
    BY <1>1 DEF Concludes
  <2>2. plan.cursor \in Nat /\ Len(plan.queue) \in Nat
    BY <2>1, RunFacts
  <2>3. ~(Current <= Len(plan.queue))
    BY <2>1, <2>2 DEF Current
  <2>4. helping = {}
    BY <2>3 DEF FlexInv, HelpersSound
  <2>5. QED
    BY <2>1, <2>4
<1>2. CASE Finish
  <2>1. Concludes /\ Answers(plan.asks)
    BY <1>2 DEF Finish
  <2>2. plan.asks \in BOOLEAN
    BY <1>1, <2>1, RunFacts, Fields
  <2>3. QED
    BY <1>1, <2>1, <2>2, AnswersStep
<1>3. CASE Merges
  <2>1. /\ Concludes /\ stage' = "merge"
        /\ UNCHANGED <<plan, disk, wave, upto, helping, workers, judged, request, how, found, settled>>
    BY <1>3 DEF Merges, allowance, history
  <2>2. /\ stage = "run" /\ plan.cursor = Len(plan.queue) /\ helping = {} /\ disk = plan
    BY <1>1, <2>1 DEF FlexInv, InStep
  <2>3. /\ plan \in PlanType /\ PlanSound(plan) /\ plan.active /\ plan.queue # <<>>
        /\ plan.knows = folded + injected /\ how = "none"
        /\ found \subseteq settled \cup Open(plan) /\ \A key \in plan.read : key[2] \in settled
        /\ found \subseteq Scopes /\ settled \subseteq Scopes
    BY <2>2, RunFacts
  <2>4. wave' = {} /\ upto' \in Nat /\ workers' \in 0..MaxWorkers /\ HelpersSound'
    BY <2>1, <2>2 DEF FlexInv, JobTypeOK, WaveSound, HelpersSound
  <2>5. Open(plan') = Open(plan)
    BY <2>1
  <2>6. QED
    BY <2>1, <2>2, <2>3, <2>4, <2>5, GoesOn
<1>4. CASE MergeReturns
  <2>1. stage = "merge"
    BY <1>4 DEF MergeReturns
  <2>2. PICK asks \in BOOLEAN : Answers(plan.asks \/ asks)
    BY <1>4 DEF MergeReturns
  <2>3. plan.cursor = Len(plan.queue) /\ helping = {}
    BY <2>1 DEF FlexInv, InStep, HelpersSound
  <2> DEFINE both == plan.asks \/ asks
  <2>4. both \in BOOLEAN /\ (plan.asks => both) /\ Answers(both)
    BY <2>2
  <2> HIDE DEF both
  <2>5. QED
    BY <2>1, <2>3, <2>4, AnswersStep
<1>5. QED
  BY <1>2, <1>3, <1>4

\* The owner again, with what the judge misses as an open obligation.
LEMMA ReopensSound ==
  ASSUME FlexInv, stage = "judge", NEW s \in More,
         ~(disk.owner /\ Full(s)), Reopens(s)
  PROVE  /\ disk' \in PlanType /\ PlanSound(disk') /\ found' \subseteq Scopes /\ settled' \subseteq Scopes
         /\ disk'.active => found' \subseteq settled' \cup Open(disk')
         /\ \A key \in disk'.read : key[2] \in settled'
<1>1. /\ disk \in PlanType /\ PlanSound(disk) /\ ~disk.active /\ found \subseteq settled
      /\ disk.cursor = Len(disk.queue) /\ ~disk.fatal /\ found \subseteq Scopes /\ settled \subseteq Scopes
      /\ \A key \in disk.read : key[2] \in settled
  BY DEF FlexInv, JobTypeOK, InStep, ScopesInv
<1>2. CASE ~disk.owner
  BY <1>1, <1>2 DEF Reopens, history
<1>3. CASE disk.owner
  <2> DEFINE outputs == [i \in Indices |-> NoOutput]
             rows == IF OpenRow(disk.obligations, s) # {} THEN disk.obligations
                     ELSE Append(disk.obligations, NewRow(s))
             q == [disk EXCEPT !.active = TRUE, !.cursor = 0, !.outputs = outputs,
                               !.obligations = rows, !.errors = 0, !.asks = FALSE]
  <2>1. disk' = q /\ found' = found \cup {s} /\ settled' = settled \ {s}
    BY <1>3 DEF Reopens, Reopened
  <2>2. s \in Scopes
    BY Numbers
  <2>3. /\ disk.obligations \in Seq(RowType) /\ Len(disk.obligations) \in Nat
        /\ DOMAIN disk.obligations = 1..Len(disk.obligations)
        /\ Len(disk.obligations) <= MaxObligations /\ MaxObligations \in Nat
    BY <1>1, Fields, LenProperties, Numbers DEF PlanSound, Limited
  <2>4. NewRow(s) \in RowType /\ NewRow(s).scope = s /\ ~NewRow(s).resolved
    BY <2>2 DEF NewRow, RowType
  <2>5. rows \in Seq(RowType) /\ Len(rows) <= MaxObligations /\ s \in OpenScopes(rows)
    <3>1. CASE OpenRow(disk.obligations, s) # {}
      <4>1. rows = disk.obligations
        BY <3>1
      <4>2. PICK n \in 1..Len(disk.obligations) :
              disk.obligations[n].scope = s /\ ~disk.obligations[n].resolved
        BY <3>1, <2>3 DEF OpenRow
      <4>3. s \in OpenScopes(disk.obligations)
        BY <4>2, <2>3, OpenIn
      <4> HIDE DEF rows
      <4>4. QED
        BY <4>1, <4>3, <2>3
    <3>2. CASE OpenRow(disk.obligations, s) = {}
      <4>1. rows = Append(disk.obligations, NewRow(s))
        BY <3>2
      <4>2. ~(Len(disk.obligations) >= MaxObligations)
        BY <3>2, <1>3 DEF Full
      <4> HIDE DEF rows
      <4>3. /\ rows \in Seq(RowType) /\ Len(rows) = Len(disk.obligations) + 1
            /\ rows[Len(disk.obligations) + 1] = NewRow(s)
        BY <4>1, <2>3, <2>4, AppendProperties
      <4>4. Len(disk.obligations) + 1 \in 1..Len(rows) /\ Len(rows) <= MaxObligations
        BY <4>2, <4>3, <2>3
      <4>5. s \in OpenScopes(rows)
        BY <4>3, <4>4, <2>4, OpenIn
      <4>6. QED
        BY <4>3, <4>4, <4>5
    <3>3. QED
      BY <3>1, <3>2
  <2>6. NoOutput \in OutputType /\ ~NoOutput.held /\ ~NoOutput.complete /\ NoOutput.round = 0
        /\ ~NoOutput.processed
    BY Numbers DEF NoOutput, OutputType, EndType
  <2>7. outputs \in [Indices -> OutputType] /\ \A i \in Indices : outputs[i] = NoOutput
    BY <2>6
  <2> HIDE DEF outputs, rows
  <2>8. q \in PlanType
    <3>1. 0 \in Nat /\ TRUE \in BOOLEAN /\ FALSE \in BOOLEAN
      OBVIOUS
    <3>2. disk \in PlanType /\ rows \in Seq(RowType) /\ outputs \in [Indices -> OutputType]
      BY <1>1, <2>5, <2>7
    <3>3. QED
      BY <3>1, <3>2, Zenon DEF PlanType
  <2>9. /\ q.active /\ q.owner = disk.owner /\ q.queue = disk.queue
        /\ q.cursor = 0 /\ q.leases = disk.leases /\ q.read = disk.read
    BY <1>1, Zenon DEF PlanType
  <2>10. /\ q.signature = disk.signature /\ q.aliases = disk.aliases
         /\ q.knows = disk.knows /\ q.obligations = rows /\ q.fatal = disk.fatal
         /\ q.outputs = outputs /\ q.interim = disk.interim /\ q.errors = 0
    BY <1>1, Zenon DEF PlanType
  <2> HIDE DEF q
  <2>11. Len(disk.queue) = 1 /\ disk.read = {} /\ 1 \in Indices
    BY <1>1, <1>3, Numbers DEF PlanSound, OwnerSound, Indices
  <2>12. \A i \in Indices : disk.interim[i] = <<>>
    <3> SUFFICES ASSUME NEW i \in Indices, disk.interim[i] # <<>> PROVE FALSE
      OBVIOUS
    <3>1. i = disk.cursor + 1 /\ i <= Len(disk.queue)
      BY <1>1 DEF PlanSound, InterimSound
    <3>2. i = 2 /\ i <= 1
      BY <3>1, <1>1, <2>11
    <3>3. QED
      BY <3>2
  <2>13. Limited(q)
    <3>a. Len(q.queue) = 1 /\ q.cursor = 0 /\ 0 <= 1
      BY <2>9, <2>11
    <3>b. Len(disk.queue) <= MaxQueue
      BY <1>1 DEF PlanSound, Limited
    <3>c. q.cursor <= Len(q.queue)
      BY <3>a, Zenon
    <3>d. q.queue # <<>>
      <4>1. Len(q.queue) # 0
        BY <3>a
      <4>2. Len(<<>>) = 0
        OBVIOUS
      <4>3. QED
        BY <4>1, <4>2
    <3>1. q.cursor <= Len(q.queue) /\ q.queue # <<>> /\ Len(q.queue) <= MaxQueue
      BY <2>9, <3>b, <3>c, <3>d, Zenon
    <3>2. QED
      BY <1>1, <2>5, <2>9, <2>10, <3>1 DEF PlanSound, Limited
  <2>14. OutputsSound(q)
    <3>1. \A i \in Indices : Len(q.leases[i]) \in Nat
      BY <2>8, Fields, LenProperties
    <3>2. QED
      BY <2>6, <2>7, <2>10, <3>1 DEF OutputsSound
  <2>15. Signed(q) /\ InterimSound(q)
    BY <1>1, <2>10, <2>12 DEF PlanSound, Signed, InterimSound
  <2>16. OwnerSound(q)
    BY <1>3, <2>9, <2>10, <2>11, <2>12, NoRows DEF OwnerSound
  <2>17. s \in Open(q)
    <3>1. q.cursor <= Len(q.queue)
      BY <2>13 DEF Limited
    <3>2. QED
      BY <2>5, <2>8, <2>10, <3>1, OpenParts
  <2>18. QED
    BY <1>1, <2>1, <2>2, <2>8, <2>9, <2>11, <2>13, <2>14, <2>15, <2>16, <2>17 DEF PlanSound
<1>4. QED
  BY <1>2, <1>3

LEMMA JudgeStep ==
  ASSUME FlexInv,
         JudgeDone \/ \E s \in More : JudgeReopens(s) \/ JudgeBlocked(s)
  PROVE  FlexInv'
<1>1. /\ stage = "judge" /\ plan = NoPlan /\ ~disk.active /\ how = "none" /\ wave = {} /\ helping = {}
      /\ disk \in PlanType /\ PlanSound(disk) /\ found \subseteq settled /\ found \subseteq Scopes
      /\ settled \subseteq Scopes /\ \A key \in disk.read : key[2] \in settled
  <2>1. stage = "judge"
    BY DEF JudgeDone, JudgeReopens, JudgeBlocked
  <2>2. QED
    BY <2>1 DEF FlexInv, JobTypeOK, InStep, WaveSound, HelpersSound, ScopesInv, RepliesTell
<1>2. ASSUME NEW h \in {"answered", "budget"}, JobEnds(h), UNCHANGED <<disk, history>>
      PROVE  FlexInv'
  BY <1>1, <1>2, Ended, Leaving DEF history
<1>3. ASSUME NEW s \in More, ~(disk.owner /\ Full(s)), Reopens(s), NEW h \in {"judged", "blocked"}, JobEnds(h)
      PROVE  FlexInv'
  <2>1. Leaves(h) /\ folded' \in Nat /\ folded' <= MaxGuidance
    BY <1>3, Ended
  <2>2. /\ disk' \in PlanType /\ PlanSound(disk') /\ found' \subseteq Scopes /\ settled' \subseteq Scopes
        /\ disk'.active => found' \subseteq settled' \cup Open(disk')
        /\ \A key \in disk'.read : key[2] \in settled'
    BY <1>1, <1>3, ReopensSound
  <2>3. QED
    BY <1>3, <2>1, <2>2, Leaving
<1>4. ASSUME NEW s \in More, ~(disk.owner /\ Full(s)), Reopens(s), judged < MaxJudged,
             stage' = "phase", judged' = judged + 1,
             UNCHANGED <<plan, wave, upto, helping, workers, request, starts, how>>
      PROVE  FlexInv'
  <2>1. /\ disk' \in PlanType /\ PlanSound(disk') /\ found' \subseteq Scopes /\ settled' \subseteq Scopes
        /\ disk'.active => found' \subseteq settled' \cup Open(disk')
        /\ \A key \in disk'.read : key[2] \in settled'
    BY <1>1, <1>4, ReopensSound
  <2>2. NoPlan \in PlanType /\ PlanSound(NoPlan) /\ NoPlan.read = {}
    BY NoPlanSound DEF NoPlan
  <2>3. UNCHANGED <<plan, wave, upto, helping, workers, folded, injected, how>>
    BY <1>4 DEF request
  <2>4. judged' \in 0..MaxJudged
    BY <1>4, Numbers DEF FlexInv, JobTypeOK
  <2>5. JobTypeOK'
    BY <1>1, <1>4, <2>1, <2>2, <2>3, <2>4 DEF FlexInv, JobTypeOK
  <2>6. InStep' /\ WaveSound' /\ HelpersSound'
    BY <1>1, <1>4, <2>3 DEF InStep, WaveSound, HelpersSound
  <2>7. ScopesInv'
    BY <1>1, <1>4, <2>1, <2>2, <2>3 DEF ScopesInv, RepliesTell
  <2>8. PlanSound(plan)' /\ PlanSound(disk)'
    BY <1>1, <2>1, <2>2, <2>3
  <2>9. QED
    BY <2>5, <2>6, <2>7, <2>8 DEF FlexInv
<1>5. QED
  BY <1>2, <1>3, <1>4 DEF JudgeDone, JudgeReopens, JudgeBlocked


-------------------------------------------------------------------------------
\* The job.
LEMMA FlexBegins ==
  ASSUME FlexInit
  PROVE  FlexInv
<1>1. NoPlan \in PlanType /\ PlanSound(NoPlan) /\ NoPlan.read = {} /\ ~NoPlan.active
  BY NoPlanSound DEF NoPlan
<1>2. JobTypeOK
  BY <1>1, Numbers DEF FlexInit, JobTypeOK
<1>3. InStep /\ WaveSound /\ HelpersSound
  BY DEF FlexInit, InStep, WaveSound, HelpersSound
<1>4. ScopesInv
  BY <1>1 DEF FlexInit, ScopesInv, RepliesTell
<1>5. QED
  BY <1>1, <1>2, <1>3, <1>4 DEF FlexInit, FlexInv

LEMMA FlexStands ==
  ASSUME FlexInv, UNCHANGED flexVars
  PROVE  FlexInv'
<1>1. UNCHANGED <<stage, plan, disk, wave, upto, helping, workers, judged, folded, injected, starts, how,
                  found, settled>>
  BY DEF flexVars, allowance, request, history
<1>2. JobTypeOK' /\ PlanSound(plan)' /\ PlanSound(disk)'
  BY <1>1 DEF FlexInv, JobTypeOK
<1>3. InStep' /\ WaveSound' /\ HelpersSound'
  <2>1. Current' = Current /\ \A i : Done(i)' = Done(i)
    BY <1>1 DEF Current, Done
  <2>2. QED
    BY <1>1, <2>1 DEF FlexInv, InStep, WaveSound, HelpersSound
<1>4. ScopesInv'
  BY <1>1 DEF FlexInv, ScopesInv, RepliesTell
<1>5. QED
  BY <1>2, <1>3, <1>4 DEF FlexInv

LEMMA FlexStep ==
  ASSUME FlexInv, [FlexNext]_flexVars
  PROVE  FlexInv'
<1>1. CASE Starts \/ Phase \/ Interrupted \/ Guided \/ Planned \/ PlannerAsks
  BY <1>1, TurnsStep
<1>2. CASE Skips
  BY <1>2, SkipsStep
<1>3. CASE WaveBegins
  BY <1>3, WaveStep
<1>4. CASE AllowanceEnds
  BY <1>4, AllowanceStep
<1>5. CASE \E i \in Indices : WorkerReturns(i)
  BY <1>5, ResultStep
<1>6. CASE HeldAgain \/ Held
  BY <1>6, HeldStep
<1>7. CASE HelpAsked
  BY <1>7, HelpAskedStep
<1>8. CASE Escalated
  BY <1>8, EscalatedStep
<1>9. CASE OwnerContinues
  BY <1>9, OwnerContinuesStep
<1>10. CASE Reports
  BY <1>10, ReportsStep
<1>11. CASE \E n \in 1..MaxLeases : HelperRefused(n) \/ HelperReturns(n)
  BY <1>11, HelperRefusedStep, HelperReturnsStep
<1>12. CASE HelpersBegin
  BY <1>12, HelpersBeginStep
<1>13. CASE ParentContinues
  BY <1>13, ParentStep
<1>14. CASE Finish \/ Merges \/ MergeReturns
  BY <1>14, ReplyStep
<1>15. CASE JudgeDone \/ \E s \in More : JudgeReopens(s) \/ JudgeBlocked(s)
  BY <1>15, JudgeStep
<1>16. CASE UNCHANGED flexVars
  BY <1>16, FlexStands
<1>17. QED
  BY <1>1, <1>2, <1>3, <1>4, <1>5, <1>6, <1>7, <1>8, <1>9, <1>10, <1>11, <1>12, <1>13, <1>14, <1>15,
     <1>16 DEF FlexNext

\* Every plan in memory and on the disk is sound, the disk follows the plan, and
\* the plan being worked on was made with every message accepted so far.
THEOREM FlexCorrect == FlexSpec => []FlexInv
<1>1. FlexInit => FlexInv
  BY FlexBegins
<1>2. FlexInv /\ [FlexNext]_flexVars => FlexInv'
  BY FlexStep
<1>3. QED
  BY <1>1, <1>2, PTL DEF FlexSpec

\* A scope that a worker or the judge has named is settled or on the plan that
\* is saved, and a reply that ends the job leaves off no others than the open
\* obligations of an owner that asks or fails and, when an account failed, the
\* follow-ups of tasks skipped for it.
THEOREM ScopesAlwaysKept == FlexSpec => []ScopesKept
<1>1. FlexInv => ScopesKept
  BY DEF FlexInv, ScopesInv, ScopesKept
<1>2. QED
  BY <1>1, FlexCorrect, PTL

LEMMA NoneBegins ==
  ASSUME FlexInv, FlexNext, ~WaveBegins, ~HelpersBegin
  PROVE  wave' \subseteq wave /\ helping' \subseteq helping
<1>1. \A h : Leaves(h) => wave' = {} /\ helping' = {}
  BY DEF Leaves
<1>2. \A h : JobEnds(h) => wave' = {} /\ helping' = {}
  BY <1>1 DEF JobEnds
<1>3. UNCHANGED allowance => UNCHANGED <<wave, helping>>
  BY DEF allowance
<1>4. Resets => wave' = {} /\ helping' = helping
  BY DEF Resets
<1>5. CASE Starts \/ Phase \/ Interrupted \/ Guided \/ Planned \/ PlannerAsks
  BY <1>1, <1>2, <1>3, <1>5 DEF Starts, Phase, Interrupted, Guided, Planned, PlannerAsks
<1>6. CASE Skips \/ AllowanceEnds \/ HeldAgain \/ Held
  BY <1>2, <1>3, <1>6 DEF Skips, AllowanceEnds, HeldAgain, Held, Holds
<1>7. CASE \E i \in Indices : WorkerReturns(i)
  <2>1. PICK i \in Indices : WorkerReturns(i)
    BY <1>7
  <2>2. (\E h : JobEnds(h)) \/ (wave' = wave \ {i} /\ helping' = helping)
    BY <2>1 DEF WorkerReturns
  <2>3. QED
    BY <1>2, <2>2
<1>8. CASE HelpAsked \/ Escalated \/ OwnerContinues \/ Reports
  BY <1>3, <1>4, <1>8 DEF HelpAsked, Escalated, OwnerContinues, Reports
<1>9. CASE \E n \in 1..MaxLeases : HelperRefused(n) \/ HelperReturns(n)
  <2>1. PICK n \in 1..MaxLeases : HelperRefused(n) \/ HelperReturns(n)
    BY <1>9
  <2>2. CASE HelperRefused(n)
    BY <1>3, <2>2 DEF HelperRefused
  <2>3. CASE HelperReturns(n)
    <3>1. (\E h : JobEnds(h)) \/ (wave' = wave /\ helping' = helping \ {n})
      BY <2>3 DEF HelperReturns
    <3>2. QED
      BY <1>2, <3>1
  <2>4. QED
    BY <2>1, <2>2, <2>3
<1>10. CASE ParentContinues \/ Merges
  BY <1>3, <1>10 DEF ParentContinues, Merges
<1>11. CASE Finish \/ MergeReturns
  <2>1. PICK asks : Answers(asks)
    BY <1>11 DEF Finish, MergeReturns
  <2>2. (\E h : JobEnds(h)) \/ UNCHANGED allowance
    BY <2>1 DEF Answers
  <2>3. QED
    BY <1>2, <1>3, <2>2
<1>12. CASE JudgeDone
  BY <1>2, <1>12 DEF JudgeDone
<1>13. CASE \E s \in More : JudgeReopens(s) \/ JudgeBlocked(s)
  <2>1. (\E h : JobEnds(h)) \/ UNCHANGED <<wave, helping>>
    BY <1>13 DEF JudgeReopens, JudgeBlocked
  <2>2. QED
    BY <1>2, <2>1
<1>14. QED
  BY <1>5, <1>6, <1>7, <1>8, <1>9, <1>10, <1>11, <1>12, <1>13 DEF FlexNext

LEMMA EvidenceStep ==
  ASSUME FlexInv, [FlexNext]_flexVars
  PROVE  /\ \A i \in wave' \ wave : ~disk.outputs[i].complete /\ i > disk.cursor
         /\ \A n \in helping' \ helping : disk.leases[Current][n].state = "pending"
<1>1. CASE WaveBegins
  <2>1. stage = "run" /\ wave' = Undone(WaveEnd) /\ helping' = helping
    BY <1>1 DEF WaveBegins, AtTask
  <2>2. disk = plan /\ plan.cursor \in Nat /\ WaveEnd \in Nat
    BY <1>1, <2>1, RunFacts, Waves DEF FlexInv, InStep
  <2>3. ASSUME NEW i \in wave' PROVE ~disk.outputs[i].complete /\ i > disk.cursor
    <3>1. i \in Current..WaveEnd /\ ~Done(i)
      BY <2>1, <2>3 DEF Undone
    <3>2. i > plan.cursor
      BY <2>2, <3>1 DEF Current
    <3>3. QED
      BY <2>2, <3>1, <3>2 DEF Done
  <2>4. QED
    BY <2>1, <2>3
<1>2. CASE HelpersBegin
  <2>1. (\E h : JobEnds(h)) \/ (helping' \subseteq Wanted /\ wave' = wave)
    BY <1>2 DEF HelpersBegin, Together
  <2>2. CASE \E h : JobEnds(h)
    BY <2>2 DEF JobEnds, Leaves
  <2>3. CASE helping' \subseteq Wanted /\ wave' = wave
    <3> SUFFICES ASSUME NEW n \in Wanted PROVE disk.leases[Current][n].state = "pending"
      BY <2>3
    <3>1. /\ stage \in {"run", "lease"} /\ n \in DOMAIN plan.leases[Current] /\ Current \in Indices
          /\ (stage = "run" => Current = 1)
      BY WantedFacts
    <3>2. disk = plan /\ plan \in PlanType
      BY <3>1, RunFacts DEF FlexInv, InStep
    <3>3. plan.leases[Current][n].state \in {"pending", "complete"}
      <4>1. plan.leases[Current] \in Seq(LeaseType)
        BY <3>1, <3>2, Fields
      <4>2. plan.leases[Current][n] \in LeaseType
        BY <3>1, <4>1, ElementOfSeq, LenProperties
      <4>3. QED
        BY <4>2 DEF LeaseType
    <3>4. CASE stage = "lease"
      BY <3>2, <3>3, <3>4 DEF Wanted, Item
    <3>5. CASE stage = "run"
      BY <3>1, <3>2, <3>5 DEF Wanted, PendingSpecialists
    <3>6. QED
      BY <3>1, <3>4, <3>5
  <2>4. QED
    BY <2>1, <2>2, <2>3
<1>3. CASE FlexNext /\ ~WaveBegins /\ ~HelpersBegin
  BY <1>3, NoneBegins
<1>4. CASE UNCHANGED flexVars
  BY <1>4 DEF flexVars, allowance
<1>5. QED
  BY <1>1, <1>2, <1>3, <1>4

\* A worker or a helper whose result is saved is never run again, and no task
\* before the saved cursor is.
THEOREM EvidenceHolds == FlexSpec => EvidenceKept
<1>1. FlexInv /\ [FlexNext]_flexVars =>
        [/\ \A i \in wave' \ wave : ~disk.outputs[i].complete /\ i > disk.cursor
         /\ \A n \in helping' \ helping : disk.leases[Current][n].state = "pending"]_flexVars
  BY EvidenceStep
<1>2. QED
  BY <1>1, FlexCorrect, PTL DEF FlexSpec, EvidenceKept
-------------------------------------------------------------------------------
(* What runs out: what is left is compared number by number, the weightiest  *)
(* first.                                                                    *)

Below == {pair \in Nat \X Nat : pair[1] < pair[2]}

\* Numbers fall if one of them does and those before it stay; and not for ever.
LEMMA FirstFalls ==
  ASSUME NEW k \in Nat, NEW a \in [1..k -> Nat], NEW b \in [1..k -> Nat], NEW j \in 1..k,
         \A i \in 1..(j-1) : b[i] = a[i], b[j] < a[j]
  PROVE  <<b, a>> \in LexProductOrdering(Below, Nat, k)
<1>1. <<b[j], a[j]>> \in Below
  BY DEF Below
<1>2. QED
  BY <1>1 DEF LexProductOrdering

\* It is enough that none of those before it grows.
LEMMA SmallerFalls ==
  ASSUME NEW k \in Nat, NEW a \in [1..k -> Nat], NEW b \in [1..k -> Nat], NEW j \in 1..k,
         \A i \in 1..(j-1) : b[i] <= a[i], b[j] < a[j]
  PROVE  <<b, a>> \in LexProductOrdering(Below, Nat, k)
<1> DEFINE falls == {i \in 1..k : b[i] < a[i]}
<1>1. j \in falls /\ falls \subseteq Nat
  OBVIOUS
<1> HIDE DEF falls
<1>2. PICK first \in falls : \A i \in falls : <<i, first>> \notin Below
  <2>1. IsWellFoundedOn(Below, Nat)
    BY NatLessThanWellFounded DEF OpToRel, Below
  <2>2. QED
    BY <1>1, <2>1, WFMin
<1>3. ASSUME NEW i \in falls PROVE first <= i
  <2>1. <<i, first>> \notin Below /\ i \in Nat /\ first \in Nat
    BY <1>1, <1>2
  <2>2. ~(i < first)
    BY <2>1 DEF Below
  <2>3. QED
    BY <2>1, <2>2
<1>4. first \in 1..k /\ b[first] < a[first]
  BY DEF falls
<1>5. first <= j
  BY <1>1, <1>3
<1>6. ASSUME NEW i \in 1..(first-1) PROVE b[i] = a[i]
  <2>1. i \in 1..k /\ i \in 1..(j-1) /\ i < first
    BY <1>4, <1>5
  <2>2. i \notin falls
    BY <1>3, <1>4, <2>1
  <2>3. ~(b[i] < a[i]) /\ b[i] <= a[i]
    BY <2>1, <2>2 DEF falls
  <2>4. QED
    BY <2>1, <2>3
<1>7. QED
  BY <1>4, <1>6, FirstFalls

LEMMA FallingEnds ==
  \A k \in Nat : IsWellFoundedOn(LexProductOrdering(Below, Nat, k), [1..k -> Nat])
<1>1. IsWellFoundedOn(Below, Nat)
  BY NatLessThanWellFounded DEF OpToRel, Below
<1>2. QED
  BY <1>1, WFLexProductOrdering

-------------------------------------------------------------------------------
(* That a turn ends, if the user lets it.                                    *)

\* The messages that wait; the judge's rounds, and whether the loop is to start
\* over; the fresh launch and the recoveries that are left, how far the call is,
\* its process, and what else is under way.
Calling == at \in {"run", "dismiss", "settle", "after", "recover"}
StartsOver == outcome = "restart" \/ (restarting /\ worker \in {"running", "killed", "cancelled"})
QueueLeft == Cardinality(Queued)
RoundsLeft == IF at \in {"log", "done"} THEN 0
              ELSE IF at \in {"route", "abandon"} \/ (Calling /\ StartsOver) THEN MaxRounds + 2
              ELSE IF at = "prompt" THEN MaxRounds + 1 ELSE MaxRounds - rounds
RelaunchesLeft == IF relaunched THEN 0 ELSE 1
RecoveriesLeft == MaxRecoveries - recoveries
StepsLeft == IF at = "launch" THEN 9 ELSE IF at = "run" THEN 8 ELSE IF at = "settle" THEN 7
             ELSE IF at = "dismiss" THEN 6 ELSE IF at = "recover" THEN 5 ELSE IF at = "after" THEN 4
             ELSE IF at = "drafted" THEN 3 ELSE IF at = "judge" THEN 2 ELSE IF at = "log" THEN 1 ELSE 0
ProcessLeft == IF worker = "running" THEN 2 ELSE IF worker \in {"killed", "cancelled"} THEN 1 ELSE 0
WritesLeft == (IF stop = "asked" THEN 1 ELSE 0) + (IF log = "writing" THEN 1 ELSE 0)
              + (IF note = "waiting" THEN 1 ELSE 0) + (IF next THEN 0 ELSE 1)
TurnLeft == <<QueueLeft, RoundsLeft, RelaunchesLeft, RecoveriesLeft, StepsLeft, ProcessLeft, WritesLeft>>
TurnFalling == LexProductOrdering(Below, Nat, 7)

TurnNumbers == /\ QueueLeft \in Nat /\ RoundsLeft \in Nat /\ RelaunchesLeft \in Nat
               /\ RecoveriesLeft \in Nat /\ StepsLeft \in Nat /\ ProcessLeft \in Nat /\ WritesLeft \in Nat

LEMMA TurnNumbered ==
  ASSUME TurnAssumption, TurnInv, IsFiniteSet(Messages)
  PROVE  TurnNumbers
<1>1. /\ rounds \in 0..MaxRounds /\ recoveries \in 0..MaxRecoveries
      /\ MaxRounds \in Nat /\ MaxRecoveries \in Nat
  BY DEF TurnInv, TypeOK, TurnAssumption
<1>2. QueueLeft \in Nat
  <2>1. IsFiniteSet(Queued)
    BY FS_Subset DEF Queued
  <2>2. QED
    BY <2>1, FS_CardinalityType DEF QueueLeft
<1>3. RoundsLeft \in Nat /\ RelaunchesLeft \in Nat /\ RecoveriesLeft \in Nat
  BY <1>1 DEF RoundsLeft, RelaunchesLeft, RecoveriesLeft
<1>4. StepsLeft \in Nat /\ ProcessLeft \in Nat /\ WritesLeft \in Nat
  BY DEF StepsLeft, ProcessLeft, WritesLeft
<1>5. QED
  BY <1>2, <1>3, <1>4 DEF TurnNumbers

\* The numbers fall when one does and none before it grows.
LEMMA TurnFallsBy ==
  ASSUME IsFiniteSet(Messages), TurnNumbers, TurnNumbers', Queued' \subseteq Queued,
         \/ \E m \in Queued : m \notin Queued'
         \/ RoundsLeft' < RoundsLeft
         \/ RoundsLeft' <= RoundsLeft /\
            \/ RelaunchesLeft' < RelaunchesLeft
            \/ RelaunchesLeft' <= RelaunchesLeft /\
               \/ RecoveriesLeft' < RecoveriesLeft
               \/ RecoveriesLeft' <= RecoveriesLeft /\
                  \/ StepsLeft' < StepsLeft
                  \/ StepsLeft' <= StepsLeft /\
                     \/ ProcessLeft' < ProcessLeft
                     \/ ProcessLeft' <= ProcessLeft /\ WritesLeft' < WritesLeft
  PROVE  <<TurnLeft', TurnLeft>> \in TurnFalling
<1> DEFINE a == TurnLeft
           b == TurnLeft'
<1>1. a \in [1..7 -> Nat] /\ b \in [1..7 -> Nat]
  BY DEF TurnLeft, TurnNumbers
<1>2. /\ a[1] = QueueLeft /\ a[2] = RoundsLeft /\ a[3] = RelaunchesLeft /\ a[4] = RecoveriesLeft
      /\ a[5] = StepsLeft /\ a[6] = ProcessLeft /\ a[7] = WritesLeft
      /\ b[1] = QueueLeft' /\ b[2] = RoundsLeft' /\ b[3] = RelaunchesLeft' /\ b[4] = RecoveriesLeft'
      /\ b[5] = StepsLeft' /\ b[6] = ProcessLeft' /\ b[7] = WritesLeft'
  BY DEF TurnLeft
<1> HIDE DEF a, b
<1>3. QueueLeft' <= QueueLeft /\ ((\E m \in Queued : m \notin Queued') => QueueLeft' < QueueLeft)
  <2>1. IsFiniteSet(Queued) /\ IsFiniteSet(Queued')
    BY FS_Subset DEF Queued
  <2>2. Cardinality(Queued') <= Cardinality(Queued)
    BY <2>1, FS_Subset
  <2>3. ASSUME NEW m \in Queued, m \notin Queued' PROVE Cardinality(Queued') < Cardinality(Queued)
    <3>1. /\ IsFiniteSet(Queued \ {m}) /\ Cardinality(Queued \ {m}) = Cardinality(Queued) - 1
      BY <2>1, FS_RemoveElement
    <3>2. Queued' \subseteq Queued \ {m}
      BY <2>3
    <3>3. Cardinality(Queued') <= Cardinality(Queued) - 1
      BY <3>1, <3>2, FS_Subset
    <3>4. Cardinality(Queued) \in Nat /\ Cardinality(Queued') \in Nat
      BY <2>1, FS_CardinalityType
    <3>5. QED
      BY <3>3, <3>4
  <2>4. QED
    BY <2>2, <2>3 DEF QueueLeft
<1>4. \E j \in 1..7 : (\A i \in 1..(j-1) : b[i] <= a[i]) /\ b[j] < a[j]
  <2>1. CASE b[1] < a[1]
    BY <2>1
  <2>2. CASE b[1] <= a[1] /\ b[2] < a[2]
    BY <2>2
  <2>3. CASE b[1] <= a[1] /\ b[2] <= a[2] /\ b[3] < a[3]
    BY <2>3
  <2>4. CASE b[1] <= a[1] /\ b[2] <= a[2] /\ b[3] <= a[3] /\ b[4] < a[4]
    BY <2>4
  <2>5. CASE /\ b[1] <= a[1] /\ b[2] <= a[2] /\ b[3] <= a[3] /\ b[4] <= a[4]
             /\ b[5] < a[5]
    BY <2>5
  <2>6. CASE /\ b[1] <= a[1] /\ b[2] <= a[2] /\ b[3] <= a[3] /\ b[4] <= a[4]
             /\ b[5] <= a[5] /\ b[6] < a[6]
    BY <2>6
  <2>7. CASE /\ b[1] <= a[1] /\ b[2] <= a[2] /\ b[3] <= a[3] /\ b[4] <= a[4]
             /\ b[5] <= a[5] /\ b[6] <= a[6] /\ b[7] < a[7]
    BY <2>7
  <2>8. QED
    BY <1>2, <1>3, <2>1, <2>2, <2>3, <2>4, <2>5, <2>6, <2>7
<1>5. <<b, a>> \in TurnFalling
  BY <1>1, <1>4, SmallerFalls DEF TurnFalling
<1>6. QED
  BY <1>5 DEF a, b

LEMMA TurnCounts ==
  ASSUME TurnAssumption, TurnInv
  PROVE  /\ rounds \in Nat /\ rounds <= MaxRounds /\ MaxRounds \in Nat
         /\ recoveries \in Nat /\ recoveries <= MaxRecoveries /\ MaxRecoveries \in Nat
         /\ RoundsLeft \in Nat /\ relaunched \in BOOLEAN
         /\ at \notin {"log", "done"} => MaxRounds - rounds <= RoundsLeft
<1>1. /\ rounds \in 0..MaxRounds /\ recoveries \in 0..MaxRecoveries
      /\ MaxRounds \in Nat /\ MaxRecoveries \in Nat /\ relaunched \in BOOLEAN
  BY DEF TurnInv, TypeOK, TurnAssumption
<1>2. QED
  BY <1>1 DEF RoundsLeft

\* What becomes of the messages that wait.
LEMMA QueueSteps ==
  /\ TakesQueue \/ DropsQueue => Queued' = {}
  /\ msg' = msg => Queued' = Queued
  /\ \A m \in Queued :
       msg \in [Messages -> {"new", "queued", "taken", "dropped", "later"}]
       /\ msg' = [msg EXCEPT ![m] = "taken"] => Queued' = Queued \ {m}
BY DEF TakesQueue, DropsQueue, Queued

\* The loop: to a route, a prompt, a phase or the end.
LEMMA LoopFalls ==
  ASSUME TurnAssumption, TurnInv, IsFiniteSet(Messages), TurnNumbers, TurnNumbers',
         Routes \/ Prompts \/ Launches \/ Abandoned \/ JudgeContinues \/ TurnReturns
  PROVE  <<TurnLeft', TurnLeft>> \in TurnFalling
<1>1. /\ rounds \in Nat /\ rounds <= MaxRounds /\ MaxRounds \in Nat /\ RoundsLeft \in Nat
      /\ at \notin {"log", "done"} => MaxRounds - rounds <= RoundsLeft
  BY TurnCounts
<1>2. CASE Routes
  <2>1. at = "route" /\ at' \in {"prompt", "done"} /\ Queued' \subseteq Queued
    BY <1>2, QueueSteps DEF Routes, At, GivesUp, inject
  <2>2. RoundsLeft' < RoundsLeft
    BY <1>1, <2>1 DEF RoundsLeft, Calling
  <2>3. QED
    BY <2>1, <2>2, TurnFallsBy
<1>3. CASE Prompts
  <2>1. at = "prompt" /\ at' = "launch" /\ rounds' = 0 /\ Queued' \subseteq Queued
    BY <1>3, QueueSteps DEF Prompts, At
  <2>2. RoundsLeft' < RoundsLeft
    BY <1>1, <2>1 DEF RoundsLeft, Calling
  <2>3. QED
    BY <2>1, <2>2, TurnFallsBy
<1>4. CASE Launches
  <2>1. /\ at = "launch" /\ Queued' \subseteq Queued
        /\ UNCHANGED <<rounds, recoveries, relaunched>>
        /\ \/ at' = "run" /\ outcome' = "none" /\ restarting' = FALSE
           \/ at' = "done"
    BY <1>4, QueueSteps DEF Launches, At, GivesUp, inject, process, counts
  <2>2. RoundsLeft' <= RoundsLeft
    BY <1>1, <2>1 DEF RoundsLeft, Calling, StartsOver
  <2>3. RelaunchesLeft' = RelaunchesLeft /\ RecoveriesLeft' = RecoveriesLeft
    BY <2>1 DEF RelaunchesLeft, RecoveriesLeft
  <2>4. StepsLeft' < StepsLeft
    BY <2>1 DEF StepsLeft
  <2>5. QED
    BY <2>1, <2>2, <2>3, <2>4, TurnFallsBy DEF TurnNumbers
<1>5. CASE Abandoned
  <2>1. at = "abandon" /\ at' = "prompt" /\ Queued' \subseteq Queued
    BY <1>5, QueueSteps DEF Abandoned, At
  <2>2. RoundsLeft' < RoundsLeft
    BY <1>1, <2>1 DEF RoundsLeft, Calling
  <2>3. QED
    BY <2>1, <2>2, TurnFallsBy
<1>6. CASE JudgeContinues
  <2>1. /\ at = "judge" /\ at' = "launch" /\ rounds < MaxRounds /\ rounds' = rounds + 1
        /\ Queued' \subseteq Queued
    BY <1>6, QueueSteps DEF JudgeContinues, At, inject
  <2>2. RoundsLeft = MaxRounds - rounds /\ RoundsLeft' = MaxRounds - (rounds + 1)
    BY <2>1 DEF RoundsLeft, Calling
  <2>3. RoundsLeft' < RoundsLeft
    BY <1>1, <2>2
  <2>4. QED
    BY <2>1, <2>3, TurnFallsBy
<1>7. CASE TurnReturns
  <2>1. /\ at = "log" /\ at' = "done" /\ Queued' \subseteq Queued
        /\ UNCHANGED <<recoveries, relaunched>>
    BY <1>7, QueueSteps DEF TurnReturns, At, inject, process, counts
  <2>2. RoundsLeft' = RoundsLeft
    BY <2>1 DEF RoundsLeft
  <2>3. RelaunchesLeft' = RelaunchesLeft /\ RecoveriesLeft' = RecoveriesLeft
    BY <2>1 DEF RelaunchesLeft, RecoveriesLeft
  <2>4. StepsLeft' < StepsLeft
    BY <2>1 DEF StepsLeft
  <2>5. QED
    BY <2>1, <2>2, <2>3, <2>4, TurnFallsBy DEF TurnNumbers
<1>8. QED
  BY <1>2, <1>3, <1>4, <1>5, <1>6, <1>7

\* The worker: it ends, or is killed, cancelled, settled.
LEMMA ProcessFalls ==
  ASSUME TurnAssumption, TurnInv, IsFiniteSet(Messages), TurnNumbers, TurnNumbers',
         \/ WorkerEnds \/ TornDown \/ ReviewConfirms \/ CompletionWins \/ Dismissed \/ HangSettles
         \/ \E m \in Messages : WatcherTakes(m) \/ JudgeInterrupted(m)
  PROVE  <<TurnLeft', TurnLeft>> \in TurnFalling
<1>1. /\ rounds \in Nat /\ rounds <= MaxRounds /\ MaxRounds \in Nat /\ RoundsLeft \in Nat
      /\ at \notin {"log", "done"} => MaxRounds - rounds <= RoundsLeft
  BY TurnCounts
<1>2. /\ worker # "none" <=> Calling
      /\ worker = "killed" => restarting
  BY DEF TurnInv, TypeOK, CallInv, Calling
<1>3. CASE \E m \in Messages : WatcherTakes(m) \/ JudgeInterrupted(m)
  <2>1. PICK m \in Messages : msg[m] = "queued" /\ msg' = [msg EXCEPT ![m] = "taken"]
    BY <1>3 DEF WatcherTakes, JudgeInterrupted
  <2>2. m \in Queued /\ Queued' = Queued \ {m}
    BY <2>1, QueueSteps DEF Queued, TurnInv, TypeOK
  <2>3. QED
    BY <2>2, TurnFallsBy
<1>4. ASSUME Queued' \subseteq Queued, RoundsLeft' <= RoundsLeft, UNCHANGED <<relaunched, recoveries>>,
             StepsLeft' < StepsLeft \/ (StepsLeft' = StepsLeft /\ ProcessLeft' < ProcessLeft)
      PROVE  <<TurnLeft', TurnLeft>> \in TurnFalling
  <2>1. RelaunchesLeft' = RelaunchesLeft /\ RecoveriesLeft' = RecoveriesLeft
    BY <1>4 DEF RelaunchesLeft, RecoveriesLeft
  <2>2. QED
    BY <1>4, <2>1, TurnFallsBy DEF TurnNumbers
<1>5. CASE WorkerEnds
  <2>1. /\ worker = "running" /\ worker' = "ended" /\ UNCHANGED <<at, rounds, relaunched, recoveries>>
        /\ \/ Queued # {} /\ Queued' = {}
           \/ Queued' = Queued /\ outcome' # "restart"
    BY <1>5, QueueSteps DEF WorkerEnds, Ends, counts
  <2>2. CASE Queued # {} /\ Queued' = {}
    BY <2>2, TurnFallsBy
  <2>3. CASE Queued' = Queued /\ outcome' # "restart"
    <3>1. RoundsLeft' = MaxRounds - rounds /\ at \notin {"log", "done"}
      BY <1>2, <2>1, <2>3 DEF RoundsLeft, Calling, StartsOver
    <3>2. StepsLeft' = StepsLeft /\ ProcessLeft' < ProcessLeft
      BY <2>1 DEF StepsLeft, ProcessLeft
    <3>3. QED
      BY <1>1, <1>4, <2>1, <2>3, <3>1, <3>2
  <2>4. QED
    BY <2>1, <2>2, <2>3
<1>6. CASE TornDown
  <2>1. /\ worker \in {"killed", "cancelled"} /\ worker' = "ended"
        /\ UNCHANGED <<at, rounds, relaunched, recoveries, restarting>> /\ Queued' = Queued
        /\ outcome' = "restart" => worker = "killed" \/ restarting
    BY <1>6, QueueSteps DEF TornDown, counts, inject
  <2>2. Calling /\ Calling' /\ (StartsOver' => StartsOver)
    BY <1>2, <2>1 DEF Calling, StartsOver
  <2>3. RoundsLeft' <= RoundsLeft
    BY <1>1, <2>1, <2>2 DEF RoundsLeft, Calling
  <2>4. StepsLeft' = StepsLeft /\ ProcessLeft' < ProcessLeft
    BY <2>1 DEF StepsLeft, ProcessLeft
  <2>5. QED
    BY <1>4, <2>1, <2>3, <2>4
<1>7. CASE ReviewConfirms
  <2>1. /\ at = "run" /\ at' = "settle" /\ worker # "ended" /\ worker' = "cancelled"
        /\ UNCHANGED <<outcome, restarting, rounds, relaunched, recoveries>> /\ Queued' = Queued
    BY <1>7, QueueSteps DEF ReviewConfirms, At, StillHung, counts, inject
  <2>2. worker \in {"running", "killed", "cancelled"}
    BY <1>2, <2>1 DEF TurnInv, TypeOK, Calling
  <2>3. Calling /\ Calling' /\ (StartsOver' <=> StartsOver)
    BY <2>1, <2>2 DEF Calling, StartsOver
  <2>4. RoundsLeft' <= RoundsLeft
    BY <1>1, <2>1, <2>3 DEF RoundsLeft
  <2>5. StepsLeft' < StepsLeft
    BY <2>1 DEF StepsLeft
  <2>6. QED
    BY <1>4, <2>1, <2>4, <2>5
<1>8. CASE CompletionWins \/ Dismissed \/ HangSettles
  <2>1. /\ \/ at = "run" /\ at' \in {"dismiss", "after"}
           \/ at = "dismiss" /\ at' = "after"
           \/ at = "settle" /\ at' \in {"recover", "after"}
        /\ UNCHANGED <<worker, outcome, restarting, rounds, relaunched, recoveries>> /\ Queued' = Queued
    <3>1. CASE CompletionWins
      BY <3>1, QueueSteps DEF CompletionWins, At, counts, inject, process
    <3>2. CASE Dismissed
      BY <3>2, QueueSteps DEF Dismissed, At, counts, inject, process
    <3>3. CASE HangSettles
      BY <3>3, QueueSteps DEF HangSettles, At, counts, inject, process
    <3>4. QED
      BY <1>8, <3>1, <3>2, <3>3
  <2>2. Calling /\ Calling' /\ (StartsOver' <=> StartsOver)
    BY <2>1 DEF Calling, StartsOver
  <2>3. RoundsLeft' <= RoundsLeft
    BY <1>1, <2>1, <2>2 DEF RoundsLeft
  <2>4. StepsLeft' < StepsLeft
    BY <2>1 DEF StepsLeft
  <2>5. QED
    BY <1>4, <2>1, <2>3, <2>4
<1>9. QED
  BY <1>3, <1>5, <1>6, <1>7, <1>8

\* The call: it is taken up again, launched afresh, or comes back.
LEMMA CallFalls ==
  ASSUME TurnAssumption, TurnInv, IsFiniteSet(Messages), TurnNumbers, TurnNumbers',
         Recovers \/ Relaunches \/ Returns
  PROVE  <<TurnLeft', TurnLeft>> \in TurnFalling
<1>1. /\ rounds \in Nat /\ rounds <= MaxRounds /\ MaxRounds \in Nat /\ RoundsLeft \in Nat
      /\ recoveries \in Nat /\ MaxRecoveries \in Nat
      /\ at \notin {"log", "done"} => MaxRounds - rounds <= RoundsLeft
  BY TurnCounts
<1>2. CASE Recovers
  <2>1. /\ at \in {"recover", "after"} /\ Queued' = {}
        /\ Queued # {} \/ at' \in {"drafted", "launch"}
        /\ UNCHANGED <<rounds, relaunched>> /\ recoveries' = recoveries + 1
    BY <1>2, QueueSteps DEF Recovers
  <2>2. CASE Queued # {}
    BY <2>1, <2>2, TurnFallsBy
  <2>3. CASE at' \in {"drafted", "launch"}
    <3>1. RoundsLeft' = MaxRounds - rounds
      BY <2>1, <2>3 DEF RoundsLeft, Calling
    <3>2. RoundsLeft' <= RoundsLeft
      BY <1>1, <2>1, <3>1
    <3>3. RelaunchesLeft' = RelaunchesLeft
      BY <2>1 DEF RelaunchesLeft
    <3>4. RecoveriesLeft' < RecoveriesLeft
      BY <1>1, <2>1 DEF RecoveriesLeft
    <3>5. QED
      BY <2>1, <3>2, <3>3, <3>4, TurnFallsBy DEF TurnNumbers
  <2>4. QED
    BY <2>1, <2>2, <2>3
<1>3. CASE Relaunches
  <2>1. /\ at = "after" /\ at' = "launch" /\ ~relaunched /\ relaunched' = TRUE
        /\ rounds' = rounds /\ Queued' = Queued
    BY <1>3, QueueSteps DEF Relaunches, inject
  <2>2. RoundsLeft' = MaxRounds - rounds
    BY <2>1 DEF RoundsLeft, Calling
  <2>3. RoundsLeft' <= RoundsLeft
    BY <1>1, <2>1, <2>2
  <2>4. RelaunchesLeft' < RelaunchesLeft
    BY <2>1 DEF RelaunchesLeft
  <2>5. QED
    BY <2>1, <2>3, <2>4, TurnFallsBy
<1>4. CASE Returns
  <2>1. /\ at = "after" /\ Queued' = {}
        /\ UNCHANGED <<rounds, relaunched, recoveries>>
        /\ \/ Queued # {}
           \/ outcome = "restart" /\ at' = "prompt"
           \/ at' = "drafted"
    BY <1>4, QueueSteps DEF Returns, counts
  <2>2. CASE Queued # {}
    BY <2>1, <2>2, TurnFallsBy
  <2>3. CASE outcome = "restart" /\ at' = "prompt"
    <3>1. RoundsLeft = MaxRounds + 2 /\ RoundsLeft' = MaxRounds + 1
      BY <2>1, <2>3 DEF RoundsLeft, Calling, StartsOver
    <3>2. QED
      BY <1>1, <2>1, <3>1, TurnFallsBy
  <2>4. CASE at' = "drafted"
    <3>1. RoundsLeft' = MaxRounds - rounds
      BY <2>1, <2>4 DEF RoundsLeft, Calling
    <3>2. RoundsLeft' <= RoundsLeft
      BY <1>1, <2>1, <3>1
    <3>3. RelaunchesLeft' = RelaunchesLeft /\ RecoveriesLeft' = RecoveriesLeft
      BY <2>1 DEF RelaunchesLeft, RecoveriesLeft
    <3>4. StepsLeft' < StepsLeft
      BY <2>1, <2>4 DEF StepsLeft
    <3>5. QED
      BY <2>1, <3>2, <3>3, <3>4, TurnFallsBy DEF TurnNumbers
  <2>5. QED
    BY <2>1, <2>2, <2>3, <2>4
<1>5. QED
  BY <1>2, <1>3, <1>4

\* The draft and its judge.
LEMMA DraftFalls ==
  ASSUME TurnAssumption, TurnInv, IsFiniteSet(Messages), TurnNumbers, TurnNumbers',
         Drafted \/ JudgeDecides
  PROVE  <<TurnLeft', TurnLeft>> \in TurnFalling
<1>1. /\ rounds \in Nat /\ rounds <= MaxRounds /\ MaxRounds \in Nat /\ RoundsLeft \in Nat
      /\ at \notin {"log", "done"} => MaxRounds - rounds <= RoundsLeft
  BY TurnCounts
<1>2. /\ at \in {"drafted", "judge"} /\ UNCHANGED <<rounds, relaunched, recoveries>>
      /\ Queued' \subseteq Queued
      /\ \/ Queued # {} /\ Queued' = {}
         \/ at' = "log"
         \/ at = "drafted" /\ at' = "judge"
  <2>1. CASE Drafted
    BY <2>1, QueueSteps DEF Drafted, At, Finishes, Exhausted, counts, process
  <2>2. CASE JudgeDecides
    BY <2>2, QueueSteps DEF JudgeDecides, At, Finishes, counts, process
  <2>3. QED
    BY <2>1, <2>2
<1>3. CASE Queued # {} /\ Queued' = {}
  BY <1>2, <1>3, TurnFallsBy
<1>4. CASE at' = "log" \/ (at = "drafted" /\ at' = "judge")
  <2>1. RoundsLeft' = 0 \/ RoundsLeft' = MaxRounds - rounds
    BY <1>2, <1>4 DEF RoundsLeft, Calling
  <2>2. RoundsLeft' <= RoundsLeft
    BY <1>1, <1>2, <2>1
  <2>3. RelaunchesLeft' = RelaunchesLeft /\ RecoveriesLeft' = RecoveriesLeft
    BY <1>2 DEF RelaunchesLeft, RecoveriesLeft
  <2>4. StepsLeft' < StepsLeft
    BY <1>2, <1>4 DEF StepsLeft
  <2>5. QED
    BY <1>2, <2>2, <2>3, <2>4, TurnFallsBy DEF TurnNumbers
<1>5. QED
  BY <1>2, <1>3, <1>4

\* The cancellation of /stop.
LEMMA StopFalls ==
  ASSUME TurnAssumption, TurnInv, IsFiniteSet(Messages), TurnNumbers, TurnNumbers', StopLands
  PROVE  <<TurnLeft', TurnLeft>> \in TurnFalling
<1>1. /\ rounds \in Nat /\ rounds <= MaxRounds /\ MaxRounds \in Nat /\ RoundsLeft \in Nat
      /\ at \notin {"log", "done"} => MaxRounds - rounds <= RoundsLeft
  BY TurnCounts
<1>2. CASE Cancelled
  <2>1. /\ at \in {"route", "prompt", "launch", "run", "drafted", "judge", "log", "settle"}
        /\ at' = "done" /\ Queued' = {} /\ UNCHANGED <<rounds, relaunched, recoveries>>
    BY <1>2, QueueSteps DEF StopLands, Cancelled, counts
  <2>2. CASE at \in {"route", "prompt"}
    <3>1. RoundsLeft > 0 /\ RoundsLeft' = 0
      BY <1>1, <2>1, <2>2 DEF RoundsLeft, Calling
    <3>2. QED
      BY <2>1, <3>1, TurnFallsBy
  <2>3. CASE at \notin {"route", "prompt"}
    <3>1. RoundsLeft' <= RoundsLeft
      BY <1>1, <2>1 DEF RoundsLeft
    <3>2. RelaunchesLeft' = RelaunchesLeft /\ RecoveriesLeft' = RecoveriesLeft
      BY <2>1 DEF RelaunchesLeft, RecoveriesLeft
    <3>3. StepsLeft' < StepsLeft
      BY <2>1, <2>3 DEF StepsLeft
    <3>4. QED
      BY <2>1, <3>1, <3>2, <3>3, TurnFallsBy DEF TurnNumbers
  <2>4. QED
    BY <2>2, <2>3
<1>3. CASE ~Cancelled
  <2>1. /\ stop = "asked" /\ stop' = "swallowed" /\ UNCHANGED <<log, note, next>>
        /\ UNCHANGED <<at, worker, outcome, restarting, rounds, relaunched, recoveries>>
        /\ Queued' = Queued
    BY <1>3, QueueSteps DEF StopLands, inject, process, counts, written
  <2>2. /\ RoundsLeft' = RoundsLeft /\ RelaunchesLeft' = RelaunchesLeft
        /\ RecoveriesLeft' = RecoveriesLeft
    BY <2>1 DEF RoundsLeft, Calling, StartsOver, RelaunchesLeft, RecoveriesLeft
  <2>3. StepsLeft' = StepsLeft /\ ProcessLeft' = ProcessLeft
    BY <2>1 DEF StepsLeft, ProcessLeft
  <2>4. WritesLeft' < WritesLeft
    BY <2>1 DEF WritesLeft
  <2>5. QED
    BY <2>1, <2>2, <2>3, <2>4, TurnFallsBy DEF TurnNumbers
<1>4. QED
  BY <1>2, <1>3

\* The writes of the log and the turn that waits for them.
LEMMA WritesFall ==
  ASSUME TurnAssumption, TurnInv, IsFiniteSet(Messages), TurnNumbers, TurnNumbers',
         LogWritten \/ NoteWritten \/ NextTurn
  PROVE  <<TurnLeft', TurnLeft>> \in TurnFalling
<1>1. /\ UNCHANGED <<at, worker, outcome, restarting, rounds, relaunched, recoveries, stop>>
      /\ Queued' = Queued
  BY QueueSteps DEF LogWritten, NoteWritten, NextTurn, inject, process, counts, stopping
<1>2. /\ RoundsLeft' = RoundsLeft /\ RelaunchesLeft' = RelaunchesLeft
      /\ RecoveriesLeft' = RecoveriesLeft
  BY <1>1 DEF RoundsLeft, Calling, StartsOver, RelaunchesLeft, RecoveriesLeft
<1>3. StepsLeft' = StepsLeft /\ ProcessLeft' = ProcessLeft
  BY <1>1 DEF StepsLeft, ProcessLeft
<1>4. WritesLeft' < WritesLeft
  BY <1>1 DEF LogWritten, NoteWritten, NextTurn, WritesLeft
<1>5. QED
  BY <1>1, <1>2, <1>3, <1>4, TurnFallsBy DEF TurnNumbers

\* What the user does, and what only watches the worker.
UserStep == Stop \/ \E m \in Messages : Inject(m)
DoctorStep == WorkerProgresses \/ ReviewBegins \/ ReviewSpares

LEMMA DoctorLeaves ==
  ASSUME DoctorStep
  PROVE  TurnLeft' = TurnLeft
<1>1. /\ UNCHANGED <<at, worker, outcome, restarting, rounds, relaunched, recoveries>>
      /\ UNCHANGED <<stop, log, note, next>> /\ Queued' = Queued
  BY QueueSteps DEF DoctorStep, WorkerProgresses, ReviewBegins, ReviewSpares, inject, process,
                    counts, stopping, written
<1>2. /\ QueueLeft' = QueueLeft /\ RoundsLeft' = RoundsLeft /\ RelaunchesLeft' = RelaunchesLeft
      /\ RecoveriesLeft' = RecoveriesLeft
  BY <1>1 DEF QueueLeft, RoundsLeft, Calling, StartsOver, RelaunchesLeft, RecoveriesLeft
<1>3. StepsLeft' = StepsLeft /\ ProcessLeft' = ProcessLeft /\ WritesLeft' = WritesLeft
  BY <1>1 DEF StepsLeft, ProcessLeft, WritesLeft
<1>4. QED
  BY <1>2, <1>3 DEF TurnLeft

LEMMA TurnStepFalls ==
  ASSUME TurnAssumption, TurnInv, IsFiniteSet(Messages), TurnNumbers, TurnNumbers', Next
  PROVE  UserStep \/ <<TurnLeft', TurnLeft>> \in TurnFalling \/ (DoctorStep /\ TurnLeft' = TurnLeft)
<1>1. CASE \E m \in Messages : Inject(m)
  BY <1>1 DEF UserStep
<1>2. CASE \E m \in Messages : WatcherTakes(m) \/ JudgeInterrupted(m)
  BY <1>2, ProcessFalls
<1>3. CASE TurnStep
  BY <1>3, LoopFalls, ProcessFalls, CallFalls, DraftFalls DEF TurnStep
<1>4. CASE WorkerStep \/ Teardown \/ ReviewConfirms
  BY <1>4, LoopFalls, ProcessFalls DEF WorkerStep, Teardown
<1>5. CASE WorkerProgresses \/ ReviewBegins \/ ReviewSpares
  BY <1>5, DoctorLeaves DEF DoctorStep
<1>6. CASE Stop
  BY <1>6 DEF UserStep
<1>7. CASE StopLands
  BY <1>7, StopFalls
<1>8. CASE Writes \/ NextTurn
  BY <1>8, WritesFall DEF Writes
<1>9. QED
  BY <1>1, <1>2, <1>3, <1>4, <1>5, <1>6, <1>7, <1>8 DEF Next

\* A step of the user's, one that brings the end nearer, or one that only watches.
TurnNearer ==
  UserStep \/ <<TurnLeft', TurnLeft>> \in TurnFalling \/ (DoctorStep /\ TurnLeft' = TurnLeft)

\* A turn ends unless the user keeps it going: whatever the agent does brings it
\* nearer to its end, in numbers that cannot fall for ever: the messages that
\* wait, the judge's rounds until a restart is over, the fresh launch, the
\* recoveries and what is left of the call (_run_turn_impl, _drive_backend).
\* Only a message, a /stop or the watch over a worker does not.
THEOREM TurnsRunOut ==
  /\ IsWellFoundedOn(TurnFalling, [1..7 -> Nat])
  /\ IsFiniteSet(Messages) => (Spec => [][TurnNearer]_vars)
<1>1. IsWellFoundedOn(TurnFalling, [1..7 -> Nat])
  BY FallingEnds DEF TurnFalling
<1>2. ASSUME IsFiniteSet(Messages) PROVE Spec => [][TurnNearer]_vars
  <2>1. TurnInv => TurnNumbers
    BY <1>2, TurnNumbered, TurnAssumption
  <2>2. TurnInv /\ TurnNumbers /\ TurnNumbers' /\ [Next]_vars => [TurnNearer]_vars
    BY <1>2, TurnStepFalls, TurnAssumption DEF TurnNearer
  <2>3. QED
    BY <2>1, <2>2, TurnCorrect, PTL DEF Spec
<1>3. QED
  BY <1>1, <1>2
-------------------------------------------------------------------------------
(* That a job runs out.                                                      *)

\* The judge's rounds, how far the turn is, the tasks and the workers that are
\* left, how far the task is, and what is asked or in flight for it.
AtWork == stage \in {"run", "work", "lease"}
Ready == stage = "run" /\ Current <= Len(plan.queue) /\ Done(Current)
Pending == {n \in 1..MaxLeases : /\ Current \in Indices /\ n \in DOMAIN plan.leases[Current]
                                 /\ Item(n).state = "pending"}
JudgedLeft == MaxJudged - judged
StageLeft == IF stage = "phase" THEN 4 ELSE IF stage = "planning" THEN 3
             ELSE IF AtWork THEN 2 ELSE IF stage = "merge" THEN 1 ELSE 0
TasksLeft == MaxQueue - plan.cursor
WorkersLeft == MaxWorkers - workers
TaskLeft == IF Ready THEN 3 ELSE IF stage = "work" THEN 2 ELSE IF stage = "lease" THEN 1 ELSE 0
FlightLeft == Cardinality(wave) + Cardinality(helping) + Cardinality(Pending)
JobLeft == <<JudgedLeft, StageLeft, TasksLeft, WorkersLeft, TaskLeft, FlightLeft>>
JobFalling == LexProductOrdering(Below, Nat, 6)

JobNumbers == /\ JudgedLeft \in Nat /\ StageLeft \in Nat /\ TasksLeft \in Nat
              /\ WorkersLeft \in Nat /\ TaskLeft \in Nat /\ FlightLeft \in Nat

LEMMA InFlight ==
  ASSUME FlexInv
  PROVE  /\ IsFiniteSet(wave) /\ IsFiniteSet(helping) /\ IsFiniteSet(Pending)
         /\ Cardinality(wave) \in Nat /\ Cardinality(helping) \in Nat /\ Cardinality(Pending) \in Nat
<1>1. IsFiniteSet(wave)
  <2>1. CASE stage # "work"
    BY <2>1, FS_EmptySet DEF FlexInv, WaveSound
  <2>2. CASE stage = "work"
    <3>1. plan.cursor \in Nat /\ upto \in Nat /\ wave \subseteq Current..upto
      BY <2>2, RunFacts DEF FlexInv, JobTypeOK, WaveSound
    <3>2. Current \in Int /\ upto \in Int
      BY <3>1 DEF Current
    <3>3. IsFiniteSet(Current..upto)
      BY ONLY <3>2, FS_Interval
    <3>4. QED
      BY <3>1, <3>3, FS_Subset
  <2>3. QED
    BY <2>1, <2>2
<1>2. IsFiniteSet(helping)
  <2>1. CASE helping = {}
    BY <2>1, FS_EmptySet
  <2>2. CASE helping # {}
    <3>1. stage \in {"run", "lease"} /\ Current <= Len(plan.queue)
          /\ helping \subseteq DOMAIN plan.leases[Current]
      BY <2>2 DEF FlexInv, HelpersSound
    <3>2. /\ plan \in PlanType /\ plan.cursor \in Nat /\ Len(plan.queue) \in Nat
          /\ \A i \in 1..Len(plan.queue) : i \in Indices
      BY <3>1, RunFacts
    <3>3. Current \in Indices
      <4>1. Current \in 1..Len(plan.queue)
        BY <3>1, <3>2 DEF Current
      <4>2. QED
        BY <3>2, <4>1
    <3>4. plan.leases[Current] \in Seq(LeaseType)
      BY <3>2, <3>3, Fields
    <3>5. QED
      BY <3>1, <3>4, Positions
  <2>3. QED
    BY <2>1, <2>2
<1>3. IsFiniteSet(Pending)
  <2>1. MaxLeases \in Int /\ 1 \in Int
    BY Numbers
  <2>2. IsFiniteSet(1..MaxLeases)
    BY ONLY <2>1, FS_Interval
  <2>3. QED
    BY <2>2, FS_Subset DEF Pending
<1>4. QED
  BY <1>1, <1>2, <1>3, FS_CardinalityType

LEMMA JobNumbered ==
  ASSUME FlexInv
  PROVE  JobNumbers
<1>1. /\ judged \in 0..MaxJudged /\ MaxJudged \in Nat /\ workers \in 0..MaxWorkers /\ MaxWorkers \in Nat
      /\ MaxQueue \in Nat
  BY Numbers DEF FlexInv, JobTypeOK
<1>2. plan.cursor \in Nat /\ plan.cursor <= MaxQueue
  <2>1. plan \in PlanType /\ Len(plan.queue) <= MaxQueue /\ plan.cursor <= Len(plan.queue)
    BY DEF FlexInv, JobTypeOK, PlanSound, Limited
  <2>2. plan.cursor \in Nat /\ Len(plan.queue) \in Nat
    BY <2>1, Fields, LenProperties
  <2>3. QED
    BY <1>1, <2>1, <2>2
<1>3. JudgedLeft \in Nat /\ StageLeft \in Nat /\ TasksLeft \in Nat /\ WorkersLeft \in Nat /\ TaskLeft \in Nat
  BY <1>1, <1>2 DEF JudgedLeft, StageLeft, TasksLeft, WorkersLeft, TaskLeft
<1>4. FlightLeft \in Nat
  BY InFlight DEF FlightLeft
<1>5. QED
  BY <1>3, <1>4 DEF JobNumbers

\* The numbers fall when the first of them that changes does.
LEMMA JobFalls ==
  ASSUME JobNumbers, JobNumbers',
         \/ JudgedLeft' < JudgedLeft
         \/ JudgedLeft' = JudgedLeft /\
            \/ StageLeft' < StageLeft
            \/ StageLeft' = StageLeft /\
               \/ TasksLeft' < TasksLeft
               \/ TasksLeft' = TasksLeft /\
                  \/ WorkersLeft' < WorkersLeft
                  \/ WorkersLeft' = WorkersLeft /\
                     \/ TaskLeft' < TaskLeft
                     \/ TaskLeft' = TaskLeft /\ FlightLeft' < FlightLeft
  PROVE  <<JobLeft', JobLeft>> \in JobFalling
<1> DEFINE a == JobLeft
           b == JobLeft'
<1>1. a \in [1..6 -> Nat] /\ b \in [1..6 -> Nat]
  BY DEF JobLeft, JobNumbers
<1>2. /\ a[1] = JudgedLeft /\ a[2] = StageLeft /\ a[3] = TasksLeft
      /\ a[4] = WorkersLeft /\ a[5] = TaskLeft /\ a[6] = FlightLeft
      /\ b[1] = JudgedLeft' /\ b[2] = StageLeft' /\ b[3] = TasksLeft'
      /\ b[4] = WorkersLeft' /\ b[5] = TaskLeft' /\ b[6] = FlightLeft'
  BY DEF JobLeft
<1> HIDE DEF a, b
<1>3. \E j \in 1..6 : (\A i \in 1..(j-1) : b[i] = a[i]) /\ b[j] < a[j]
  <2>1. CASE b[1] < a[1]
    BY <2>1
  <2>2. CASE b[1] = a[1] /\ b[2] < a[2]
    BY <2>2
  <2>3. CASE b[1] = a[1] /\ b[2] = a[2] /\ b[3] < a[3]
    BY <2>3
  <2>4. CASE b[1] = a[1] /\ b[2] = a[2] /\ b[3] = a[3] /\ b[4] < a[4]
    BY <2>4
  <2>5. CASE b[1] = a[1] /\ b[2] = a[2] /\ b[3] = a[3] /\ b[4] = a[4] /\ b[5] < a[5]
    BY <2>5
  <2>6. CASE b[1] = a[1] /\ b[2] = a[2] /\ b[3] = a[3] /\ b[4] = a[4] /\ b[5] = a[5] /\ b[6] < a[6]
    BY <2>6
  <2>7. QED
    BY <1>2, <2>1, <2>2, <2>3, <2>4, <2>5, <2>6
<1>4. <<b, a>> \in JobFalling
  BY <1>1, <1>3, FirstFalls DEF JobFalling
<1>5. QED
  BY <1>4 DEF a, b

\* Between the tasks: a plan is taken up or made, a reply is made and judged.
LEMMA TurnFalls ==
  ASSUME FlexInv, JobNumbers, JobNumbers', Running',
         \/ Phase \/ Planned \/ Finish \/ Merges \/ MergeReturns
         \/ \E s \in More : JudgeReopens(s)
  PROVE  <<JobLeft', JobLeft>> \in JobFalling
<1>1. \A h : ~JobEnds(h)
  BY DEF JobEnds, Leaves, Running
<1>2. CASE \E s \in More : JudgeReopens(s)
  <2>1. judged' = judged + 1
    BY <1>1, <1>2, Zenon DEF JudgeReopens
  <2>2. JudgedLeft' < JudgedLeft
    BY <2>1, Numbers DEF JudgedLeft, FlexInv, JobTypeOK
  <2>3. QED
    BY <2>2, JobFalls
<1>3. ASSUME judged' = judged, StageLeft' < StageLeft PROVE <<JobLeft', JobLeft>> \in JobFalling
  BY <1>3, JobFalls DEF JudgedLeft
<1>4. CASE Phase
  BY <1>3, <1>4 DEF Phase, allowance, StageLeft, AtWork
<1>5. CASE Planned
  BY <1>3, <1>5 DEF Planned, allowance, StageLeft, AtWork
<1>6. ASSUME NEW asks, Answers(asks) PROVE judged' = judged /\ stage' = "judge"
  BY <1>1, <1>6, Zenon DEF Answers, allowance
<1>7. CASE Finish
  <2>1. stage = "run" /\ judged' = judged /\ stage' = "judge"
    BY <1>6, <1>7 DEF Finish, Concludes
  <2>2. QED
    BY <1>3, <2>1 DEF StageLeft, AtWork
<1>8. CASE Merges
  BY <1>3, <1>8 DEF Merges, Concludes, allowance, StageLeft, AtWork
<1>9. CASE MergeReturns
  <2>1. stage = "merge" /\ judged' = judged /\ stage' = "judge"
    BY <1>6, <1>9 DEF MergeReturns
  <2>2. QED
    BY <1>3, <2>1 DEF StageLeft, AtWork
<1>10. QED
  BY <1>2, <1>4, <1>5, <1>7, <1>8, <1>9

\* While tasks are worked on, the judge's rounds and the stage stay.
LEMMA WorkFalls ==
  ASSUME JobNumbers, JobNumbers', AtWork, AtWork', judged' = judged,
         \/ TasksLeft' < TasksLeft
         \/ TasksLeft' = TasksLeft /\
            \/ WorkersLeft' < WorkersLeft
            \/ WorkersLeft' = WorkersLeft /\
               \/ TaskLeft' < TaskLeft
               \/ TaskLeft' = TaskLeft /\ FlightLeft' < FlightLeft
  PROVE  <<JobLeft', JobLeft>> \in JobFalling
<1>1. JudgedLeft' = JudgedLeft /\ StageLeft = 2 /\ StageLeft' = 2
  BY DEF JudgedLeft, StageLeft, AtWork
<1>2. QED
  BY <1>1, JobFalls

\* A task that is over, or is not run.
LEMMA CursorFalls ==
  ASSUME FlexInv, JobNumbers, JobNumbers', Skips \/ Reports
  PROVE  <<JobLeft', JobLeft>> \in JobFalling
<1>1. AtWork /\ AtWork' /\ judged' = judged
  BY DEF Skips, AtTask, Reports, Proceeds, Settling, Resets, allowance, AtWork
<1>2. plan \in PlanType /\ plan.cursor \in Nat
  BY <1>1, RunFacts DEF AtWork
<1>3. plan'.cursor = plan.cursor + 1
  <2>1. CASE Skips
    <3>1. plan' = [plan EXCEPT !.cursor = @ + 1, !.errors = @ + 1, !.fatal = TRUE]
      BY <2>1 DEF Skips
    <3>2. QED
      BY <1>2, <3>1, Zenon DEF PlanType
  <2>2. CASE Reports
    BY <2>2, OwnerReportedSound, TaskReportedSound
  <2>3. QED
    BY <2>1, <2>2
<1>4. TasksLeft' < TasksLeft
  BY <1>2, <1>3, Numbers DEF TasksLeft
<1>5. QED
  BY <1>1, <1>4, WorkFalls

LEMMA Edited ==
  ASSUME NEW p \in PlanType, NEW os, NEW x
  PROVE  /\ [p EXCEPT !.outputs = os, !.leases = x].cursor = p.cursor
         /\ LET q == [p EXCEPT !.outputs = os]
            IN /\ [q EXCEPT !.queue = x].cursor = p.cursor /\ [q EXCEPT !.queue = x].outputs = os
               /\ [q EXCEPT !.interim = x].cursor = p.cursor /\ [q EXCEPT !.interim = x].outputs = os
BY ZenonT(60) DEF PlanType

\* A task that goes on: it asks, escalates or names more.
LEMMA TaskFalls ==
  ASSUME FlexInv, JobNumbers, JobNumbers', HelpAsked \/ Escalated \/ OwnerContinues
  PROVE  <<JobLeft', JobLeft>> \in JobFalling
<1>1. /\ Settling /\ stage = "work" /\ stage' \in {"run", "lease"}
      /\ judged' = judged /\ workers' = workers
  BY DEF HelpAsked, Escalated, OwnerContinues, Proceeds, Settling, Resets
<1>2. Current \in Indices /\ plan \in PlanType
  BY <1>1, SettlingFacts, RunFacts
<1>3. /\ Recorded \in PlanType /\ Recorded.cursor = plan.cursor
      /\ Recorded.outputs \in [Indices -> OutputType]
  BY <1>1, RecordedFacts, Fields
<1> DEFINE outputs == [Recorded.outputs EXCEPT ![Current] = NoOutput]
<1>4. Again = [Recorded EXCEPT !.outputs = outputs] /\ outputs[Current] = NoOutput
  <2>1. Again = [Recorded EXCEPT !.outputs = outputs]
    BY DEF Again
  <2>2. outputs[Current] = NoOutput
    BY <1>2, <1>3, Zenon
  <2>3. QED
    BY <2>1, <2>2
<1>5. plan'.cursor = plan.cursor /\ (stage' = "run" => plan'.outputs[Current] = NoOutput)
  <2>1. CASE HelpAsked
    <3>1. stage' = "lease"
      BY <2>1 DEF HelpAsked
    <3>2. \/ plan' = Recorded
          \/ \E os, ls : plan' = [Recorded EXCEPT !.outputs = os, !.leases = ls]
      BY <2>1 DEF HelpAsked
    <3>3. CASE plan' = Recorded
      BY <1>3, <3>1, <3>3
    <3>4. ASSUME NEW os, NEW ls, plan' = [Recorded EXCEPT !.outputs = os, !.leases = ls]
          PROVE  plan'.cursor = plan.cursor
      <4>1. [Recorded EXCEPT !.outputs = os, !.leases = ls].cursor = Recorded.cursor
        BY <1>3, Edited
      <4>2. QED
        BY <1>3, <3>4, <4>1
    <3>5. QED
      BY <3>1, <3>2, <3>3, <3>4
  <2>2. CASE Escalated
    <3>1. plan' = [Again EXCEPT !.queue[Current].tier = @ + 1]
      BY <2>2 DEF Escalated
    <3>2. PICK queue : plan' = [Again EXCEPT !.queue = queue]
      BY <3>1
    <3> HIDE DEF outputs
    <3>3. /\ [Again EXCEPT !.queue = queue].cursor = Recorded.cursor
          /\ [Again EXCEPT !.queue = queue].outputs = outputs
      BY <1>3, <1>4, Edited
    <3>4. QED
      BY <1>3, <1>4, <3>2, <3>3
  <2>3. CASE OwnerContinues
    <3>1. plan' = [Again EXCEPT !.interim[Current] = <<>>]
      BY <2>3 DEF OwnerContinues
    <3>2. PICK interim : plan' = [Again EXCEPT !.interim = interim]
      BY <3>1
    <3> HIDE DEF outputs
    <3>3. /\ [Again EXCEPT !.interim = interim].cursor = Recorded.cursor
          /\ [Again EXCEPT !.interim = interim].outputs = outputs
      BY <1>3, <1>4, Edited
    <3>4. QED
      BY <1>3, <1>4, <3>2, <3>3
  <2>4. QED
    BY <2>1, <2>2, <2>3
<1>6. TasksLeft' = TasksLeft /\ WorkersLeft' = WorkersLeft
  BY <1>1, <1>5 DEF TasksLeft, WorkersLeft
<1>7. ~Ready'
  <2>1. CASE stage' = "lease"
    BY <2>1 DEF Ready
  <2>2. CASE stage' = "run"
    <3>1. Current' = Current /\ plan'.outputs[Current'] = NoOutput
      BY <1>5, <2>2 DEF Current
    <3>2. ~Done(Current)'
      BY <3>1 DEF Done, NoOutput
    <3>3. QED
      BY <3>2 DEF Ready
  <2>3. QED
    BY <1>1, <2>1, <2>2
<1>8. TaskLeft = 2 /\ TaskLeft' \in {0, 1}
  BY <1>1, <1>7 DEF TaskLeft, Ready
<1>9. QED
  BY <1>1, <1>6, <1>8, WorkFalls DEF AtWork

\* A wave begins: workers are counted, or all of it is done already.
LEMMA WaveFalls ==
  ASSUME FlexInv, JobNumbers, JobNumbers', WaveBegins
  PROVE  <<JobLeft', JobLeft>> \in JobFalling
<1>1. /\ stage = "run" /\ stage' = "work" /\ Current <= Len(plan.queue) /\ wave' = Undone(WaveEnd)
      /\ workers' = workers + Cardinality(wave') /\ judged' = judged
      /\ plan' = IF Task(Current).read THEN plan ELSE [plan EXCEPT !.read = {}]
  BY DEF WaveBegins, AtTask
<1>2. plan \in PlanType /\ plan.cursor \in Nat
  BY <1>1, RunFacts
<1>3. /\ WaveEnd \in Nat /\ Current \in Nat /\ Current <= WaveEnd
      /\ Cardinality(wave') \in Nat
  BY <1>1, <1>2, Waves DEF Current
<1>4. plan'.cursor = plan.cursor
  BY <1>1, <1>2, Zenon DEF PlanType
<1>5. AtWork /\ AtWork' /\ TasksLeft' = TasksLeft
  BY <1>1, <1>4 DEF AtWork, TasksLeft
<1>6. workers \in Nat /\ MaxWorkers \in Nat
  BY Numbers DEF FlexInv, JobTypeOK
<1>7. CASE Cardinality(wave') > 0
  <2>1. WorkersLeft' < WorkersLeft
    BY <1>1, <1>3, <1>6, <1>7 DEF WorkersLeft
  <2>2. QED
    BY <1>1, <1>5, <2>1, WorkFalls
<1>8. CASE Cardinality(wave') = 0
  <2>1. IsFiniteSet(Current..WaveEnd)
    <3>1. Current \in Int /\ WaveEnd \in Int
      BY <1>3
    <3>2. QED
      BY ONLY <3>1, FS_Interval
  <2>2. IsFiniteSet(Undone(WaveEnd))
    BY <2>1, FS_Subset DEF Undone
  <2>3. Undone(WaveEnd) = {}
    BY <1>1, <1>8, <2>2, FS_EmptySet
  <2>4. Current \in Current..WaveEnd
    BY <1>3
  <2>5. Done(Current)
    BY <2>3, <2>4 DEF Undone
  <2>6. TaskLeft = 3 /\ TaskLeft' = 2
    BY <1>1, <2>5 DEF TaskLeft, Ready
  <2>7. WorkersLeft' = WorkersLeft
    BY <1>1, <1>6, <1>8 DEF WorkersLeft
  <2>8. QED
    BY <1>1, <1>5, <2>6, <2>7, WorkFalls
<1>9. QED
  BY <1>3, <1>7, <1>8

\* A worker of the wave returns.
LEMMA ResultFalls ==
  ASSUME FlexInv, JobNumbers, JobNumbers', Running', NEW i \in Indices, WorkerReturns(i)
  PROVE  <<JobLeft', JobLeft>> \in JobFalling
<1>1. \A h : ~JobEnds(h)
  BY DEF JobEnds, Leaves, Running
<1>2. /\ stage = "work" /\ i \in wave /\ wave' = wave \ {i}
      /\ UNCHANGED <<stage, helping, workers, judged>>
      /\ \E o : plan' = [plan EXCEPT !.outputs[i] = o]
  BY <1>1 DEF WorkerReturns
<1>3. plan \in PlanType
  BY <1>2, RunFacts
<1>4. plan'.cursor = plan.cursor /\ plan'.leases = plan.leases
  BY <1>2, <1>3, Zenon DEF PlanType
<1>5. Pending' = Pending
  BY <1>4 DEF Pending, Item, Current
<1>6. Cardinality(wave') = Cardinality(wave) - 1
  BY <1>2, InFlight, FS_RemoveElement
<1>7. FlightLeft' < FlightLeft
  BY <1>2, <1>5, <1>6, InFlight DEF FlightLeft
<1>8. TaskLeft = 2 /\ TaskLeft' = 2
  BY <1>2 DEF TaskLeft, Ready
<1>9. AtWork /\ AtWork' /\ TasksLeft' = TasksLeft /\ WorkersLeft' = WorkersLeft
  BY <1>2, <1>4 DEF AtWork, TasksLeft, WorkersLeft
<1>10. QED
  BY <1>2, <1>7, <1>8, <1>9, WorkFalls

\* A helper has its say, or is refused one: it is no longer pending, nor in flight.
LEMMA HelperFalls ==
  ASSUME FlexInv, JobNumbers, JobNumbers', stage \in {"run", "lease"}, Current \in Indices,
         NEW n \in DOMAIN plan.leases[Current], n \in helping \/ Item(n).state = "pending",
         plan'.leases = WithState(n, "complete").leases, plan'.cursor = plan.cursor,
         plan'.queue = plan.queue, plan'.outputs = plan.outputs,
         UNCHANGED <<stage, wave, workers, judged>>, helping' = helping \ {n}
  PROVE  <<JobLeft', JobLeft>> \in JobFalling
<1> DEFINE list == [plan.leases[Current] EXCEPT ![n].state = "complete"]
<1>1. /\ plan \in PlanType /\ plan.leases \in [Indices -> Seq(LeaseType)]
      /\ plan.leases[Current] \in Seq(LeaseType) /\ Len(plan.leases[Current]) \in Nat
      /\ DOMAIN plan.leases[Current] = 1..Len(plan.leases[Current])
      /\ Len(plan.leases[Current]) <= MaxLeases /\ MaxLeases \in Nat
  BY RunFacts, Fields, LenProperties, Numbers DEF PlanSound, Limited
<1>2. n \in 1..MaxLeases
  BY <1>1
<1>3. plan'.leases[Current] = list
  <2>1. WithState(n, "complete") = [plan EXCEPT !.leases = [plan.leases EXCEPT ![Current] = list]]
    BY DEF WithState
  <2> HIDE DEF list
  <2>2. WithState(n, "complete").leases = [plan.leases EXCEPT ![Current] = list]
    BY <1>1, <2>1, Zenon DEF PlanType
  <2>3. QED
    BY <1>1, <2>2
<1>4. /\ DOMAIN list = DOMAIN plan.leases[Current] /\ list[n].state = "complete"
      /\ \A k \in DOMAIN plan.leases[Current] \ {n} : list[k] = plan.leases[Current][k]
  <2>1. plan.leases[Current][n] \in LeaseType
    BY <1>1, ElementOfSeq
  <2>2. [plan.leases[Current][n] EXCEPT !.state = "complete"].state = "complete"
    BY <2>1 DEF LeaseType
  <2>3. QED
    BY <1>1, <2>2
<1> HIDE DEF list
<1>5. Current' = Current
  BY DEF Current
<1>6. Pending' = Pending \ {n}
  <2>1. Pending' = {k \in 1..MaxLeases : k \in DOMAIN list /\ list[k].state = "pending"}
    BY <1>3, <1>5 DEF Pending, Item
  <2>2. QED
    BY <1>4, <2>1 DEF Pending, Item
<1>7. n \in helping \/ n \in Pending
  BY <1>2 DEF Pending
<1>8. /\ Cardinality(helping') = IF n \in helping THEN Cardinality(helping) - 1 ELSE Cardinality(helping)
      /\ Cardinality(Pending') = IF n \in Pending THEN Cardinality(Pending) - 1 ELSE Cardinality(Pending)
  BY <1>6, InFlight, FS_RemoveElement
<1>9. FlightLeft' < FlightLeft
  BY <1>7, <1>8, InFlight DEF FlightLeft
<1>10. TaskLeft' = TaskLeft
  BY <1>5 DEF TaskLeft, Ready, Done
<1>11. AtWork /\ AtWork' /\ TasksLeft' = TasksLeft /\ WorkersLeft' = WorkersLeft
  BY DEF AtWork, TasksLeft, WorkersLeft
<1>12. QED
  BY <1>9, <1>10, <1>11, WorkFalls

LEMMA HelpersFall ==
  ASSUME FlexInv, JobNumbers, JobNumbers', Running', NEW n, HelperRefused(n) \/ HelperReturns(n)
  PROVE  <<JobLeft', JobLeft>> \in JobFalling
<1>1. \A h : ~JobEnds(h)
  BY DEF JobEnds, Leaves, Running
<1>2. /\ UNCHANGED <<stage, wave, workers, judged>>
      /\ \/ helping = {} /\ helping' = {} /\ n \in Wanted /\ plan' = WithState(n, "complete")
         \/ /\ n \in helping /\ helping' = helping \ {n}
            /\ \/ plan' = WithState(n, "complete")
               \/ \E accounts : plan' = [WithState(n, "complete") EXCEPT !.unavailable = accounts]
  <2>1. CASE HelperRefused(n)
    BY <2>1 DEF HelperRefused, allowance
  <2>2. CASE HelperReturns(n)
    BY <1>1, <2>2 DEF HelperReturns
  <2>3. QED
    BY <2>1, <2>2
<1>3. /\ stage \in {"run", "lease"} /\ n \in DOMAIN plan.leases[Current] /\ Current \in Indices
      /\ plan \in PlanType
  <2>1. CASE n \in Wanted
    BY <2>1, WantedFacts, RunFacts
  <2>2. CASE n \in helping
    <3>1. stage \in {"run", "lease"} /\ Current <= Len(plan.queue) /\ n \in DOMAIN plan.leases[Current]
      BY <2>2 DEF FlexInv, HelpersSound
    <3>2. /\ plan \in PlanType /\ plan.cursor \in Nat /\ Len(plan.queue) \in Nat
          /\ \A i \in 1..Len(plan.queue) : i \in Indices
      BY <3>1, RunFacts
    <3>3. Current \in 1..Len(plan.queue)
      BY <3>1, <3>2 DEF Current
    <3>4. QED
      BY <3>1, <3>2, <3>3
  <2>3. QED
    BY <1>2, <2>1, <2>2
<1>4. WithState(n, "complete") \in PlanType
  BY <1>3, LeaseDone, Fields
<1>5. /\ plan'.leases = WithState(n, "complete").leases
      /\ plan'.cursor = WithState(n, "complete").cursor /\ plan'.queue = WithState(n, "complete").queue
      /\ plan'.outputs = WithState(n, "complete").outputs
  <2>1. CASE plan' = WithState(n, "complete")
    BY <2>1
  <2>2. ASSUME NEW accounts, plan' = [WithState(n, "complete") EXCEPT !.unavailable = accounts]
        PROVE  /\ plan'.leases = WithState(n, "complete").leases
               /\ plan'.cursor = WithState(n, "complete").cursor
               /\ plan'.queue = WithState(n, "complete").queue
               /\ plan'.outputs = WithState(n, "complete").outputs
    BY <1>4, <2>2, ZenonT(60) DEF PlanType
  <2>3. QED
    BY <1>2, <2>1, <2>2
<1>6. /\ WithState(n, "complete").cursor = plan.cursor /\ WithState(n, "complete").queue = plan.queue
      /\ WithState(n, "complete").outputs = plan.outputs
  BY <1>3, ZenonT(60) DEF WithState, PlanType
<1>7. n \in Wanted => Item(n).state = "pending"
  <2> SUFFICES ASSUME n \in Wanted PROVE Item(n).state = "pending"
    OBVIOUS
  <2>1. Item(n).state \in {"pending", "complete"}
    <3>1. plan.leases[Current] \in Seq(LeaseType)
      BY <1>3, Fields
    <3>2. plan.leases[Current][n] \in LeaseType
      BY <1>3, <3>1, ElementOfSeq, LenProperties
    <3>3. QED
      BY <3>2 DEF LeaseType, Item
  <2>2. CASE stage = "lease"
    BY <2>1, <2>2 DEF Wanted
  <2>3. CASE stage = "run"
    BY <2>3 DEF Wanted, PendingSpecialists, Item
  <2>4. QED
    BY <1>3, <2>2, <2>3
<1>8. helping' = helping \ {n} /\ (n \in helping \/ Item(n).state = "pending")
  BY <1>2, <1>7
<1>9. QED
  BY <1>2, <1>3, <1>5, <1>6, <1>8, HelperFalls

\* Helpers begin: they are counted, as workers are.
LEMMA HelpFalls ==
  ASSUME FlexInv, JobNumbers, JobNumbers', Running', HelpersBegin
  PROVE  <<JobLeft', JobLeft>> \in JobFalling
<1>1. \A h : ~JobEnds(h)
  BY DEF JobEnds, Leaves, Running
<1>2. /\ Wanted # {} /\ workers' = workers + Cardinality(helping')
      /\ helping' \in {Together, {n \in Wanted : First(n)}} /\ UNCHANGED <<stage, plan, judged>>
  BY <1>1 DEF HelpersBegin
<1>3. /\ stage \in {"run", "lease"} /\ Current \in Indices /\ Wanted \subseteq DOMAIN plan.leases[Current]
  BY <1>2, WantedFacts
<1>4. IsFiniteSet(Wanted) /\ Wanted \subseteq Nat
  <2>1. plan.leases[Current] \in Seq(LeaseType)
    BY <1>3, RunFacts, Fields
  <2>2. QED
    BY <1>3, <2>1, Positions
<1>5. \E n \in Wanted : First(n)
  <2>1. IsWellFoundedOn(Below, Nat)
    BY NatLessThanWellFounded DEF OpToRel, Below
  <2>2. PICK n \in Wanted : \A k \in Wanted : <<k, n>> \notin Below
    BY <1>2, <1>4, <2>1, WFMin
  <2>3. ASSUME NEW k \in Wanted PROVE n <= k
    <3>1. n \in Nat /\ k \in Nat /\ <<k, n>> \notin Below
      BY <1>4, <2>2
    <3>2. ~(k < n)
      BY <3>1 DEF Below
    <3>3. QED
      BY <3>1, <3>2
  <2>4. QED
    BY <2>3 DEF First
<1>6. helping' # {} /\ helping' \subseteq Wanted
  BY <1>2, <1>5 DEF Together
<1>7. IsFiniteSet(helping') /\ Cardinality(helping') \in Nat /\ Cardinality(helping') # 0
  BY <1>4, <1>6, FS_Subset, FS_CardinalityType, FS_EmptySet
<1>8. workers \in Nat /\ MaxWorkers \in Nat
  BY Numbers DEF FlexInv, JobTypeOK
<1>9. WorkersLeft' < WorkersLeft
  BY <1>2, <1>7, <1>8 DEF WorkersLeft
<1>10. AtWork /\ AtWork' /\ TasksLeft' = TasksLeft
  BY <1>2, <1>3 DEF AtWork, TasksLeft
<1>11. QED
  BY <1>2, <1>9, <1>10, WorkFalls

\* The task goes on with its answer: it is to be worked on again.
LEMMA ParentFalls ==
  ASSUME FlexInv, JobNumbers, JobNumbers', ParentContinues
  PROVE  <<JobLeft', JobLeft>> \in JobFalling
<1>1. /\ stage = "lease" /\ stage' = "run" /\ workers' = workers /\ judged' = judged
      /\ plan' = [plan EXCEPT !.outputs = [plan.outputs EXCEPT ![Current] = NoOutput]]
  BY DEF ParentContinues, allowance
<1>2. /\ plan \in PlanType /\ plan.outputs \in [Indices -> OutputType] /\ plan.cursor \in Nat
      /\ Len(plan.queue) \in Nat /\ \A i \in 1..Len(plan.queue) : i \in Indices
  BY <1>1, RunFacts, Fields
<1>3. Current \in Indices
  <2>1. Current \in 1..Len(plan.queue)
    BY <1>1, <1>2 DEF FlexInv, HelpersSound, Current
  <2>2. QED
    BY <1>2, <2>1
<1> DEFINE outputs == [plan.outputs EXCEPT ![Current] = NoOutput]
<1>4. outputs[Current] = NoOutput
  BY <1>2, <1>3, Zenon
<1> HIDE DEF outputs
<1>5. plan' = [plan EXCEPT !.outputs = outputs]
  BY <1>1 DEF outputs
<1>6. plan'.cursor = plan.cursor /\ plan'.outputs = outputs
  BY <1>2, <1>5, Zenon DEF PlanType
<1>7. ~Done(Current)'
  BY <1>4, <1>6 DEF Done, Current, NoOutput
<1>8. TaskLeft = 1 /\ TaskLeft' = 0
  BY <1>1, <1>7 DEF TaskLeft, Ready
<1>9. AtWork /\ AtWork' /\ TasksLeft' = TasksLeft /\ WorkersLeft' = WorkersLeft
  BY <1>1, <1>6 DEF AtWork, TasksLeft, WorkersLeft
<1>10. QED
  BY <1>1, <1>8, <1>9, WorkFalls

\* Every step but the end of the turn and a message of the user.
LEMMA JobStepFalls ==
  ASSUME FlexInv, JobNumbers, JobNumbers', Running, Running', injected' = injected, FlexNext
  PROVE  <<JobLeft', JobLeft>> \in JobFalling
<1>1. \A h : ~JobEnds(h)
  BY DEF JobEnds, Leaves, Running
<1>2. ~Starts /\ ~Interrupted /\ ~Guided
  <2>1. folded \in Nat /\ injected \in Nat
    BY DEF FlexInv, JobTypeOK
  <2>2. injected + 1 # injected
    BY <2>1
  <2>3. ~Guided
    BY <2>2 DEF Guided
  <2>4. QED
    BY <2>3 DEF Starts, Interrupted, Leaves, Running
<1>3. ~PlannerAsks /\ ~AllowanceEnds /\ ~HeldAgain /\ ~Held /\ ~JudgeDone
      /\ \A s : ~JudgeBlocked(s)
  BY <1>1 DEF PlannerAsks, AllowanceEnds, HeldAgain, Held, Holds, JudgeDone, JudgeBlocked
<1>4. CASE Phase \/ Planned \/ Finish \/ Merges \/ MergeReturns \/ \E s \in More : JudgeReopens(s)
  BY <1>4, TurnFalls
<1>5. CASE Skips \/ Reports
  BY <1>5, CursorFalls
<1>6. CASE HelpAsked \/ Escalated \/ OwnerContinues
  BY <1>6, TaskFalls
<1>7. CASE WaveBegins
  BY <1>7, WaveFalls
<1>8. CASE \E i \in Indices : WorkerReturns(i)
  BY <1>8, ResultFalls
<1>9. CASE \E n \in 1..MaxLeases : HelperRefused(n) \/ HelperReturns(n)
  BY <1>9, HelpersFall
<1>10. CASE HelpersBegin
  BY <1>10, HelpFalls
<1>11. CASE ParentContinues
  BY <1>11, ParentFalls
<1>12. QED
  BY <1>2, <1>3, <1>4, <1>5, <1>6, <1>7, <1>8, <1>9, <1>10, <1>11 DEF FlexNext

\* A step of a turn that takes no message and does not end it.
JobStep == Running /\ Running' /\ injected' = injected => <<JobLeft', JobLeft>> \in JobFalling

\* A turn of the job cannot go on for ever without a message of the user: every
\* other step that does not end it makes what it has left fall, and that falls
\* only so often, whatever planners, workers, helpers and the judge answer.
THEOREM JobsRunOut ==
  IsWellFoundedOn(JobFalling, [1..6 -> Nat]) /\ (FlexSpec => [][JobStep]_flexVars)
<1>1. FlexInv => JobNumbers
  BY JobNumbered
<1>2. FlexInv /\ JobNumbers /\ JobNumbers' /\ [FlexNext]_flexVars => [JobStep]_flexVars
  BY JobStepFalls DEF JobStep
<1>3. FlexSpec => [][JobStep]_flexVars
  BY <1>1, <1>2, FlexCorrect, PTL DEF FlexSpec
<1>4. IsWellFoundedOn(JobFalling, [1..6 -> Nat])
  BY FallingEnds DEF JobFalling
<1>5. QED
  BY <1>3, <1>4
=============================================================================
