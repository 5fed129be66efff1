---------------------------- MODULE UpdateProofs ----------------------------
(***************************************************************************)
(* The invariant of UpdateHandoff and the safety properties that follow     *)
(* from it, for every number of platforms, requests and failures.           *)
(***************************************************************************)
EXTENDS UpdateHandoff, TLAPS



\* Every step keeps the types.
LEMMA TypeStep ==
  ASSUME HandoffAssumption, HandoffInv, [Next]_vars
  PROVE  TypeOK'
<1> USE HandoffAssumption DEF Platforms, HandoffAssumption, HandoffInv, TypeOK, Confirmed
<1>1. CASE UNCHANGED vars
  BY <1>1 DEF vars, checkout, updater, thread, parent, intake, services, bounds
<1>2. CASE \E p \in Platforms : Accept(p)
  BY <1>2 DEF Accept, Woken, vars, checkout, updater, thread, parent, intake, services, bounds
<1>3. CASE \E p \in Platforms : SchedulerAdmits(p)
  BY <1>3 DEF SchedulerAdmits, Woken, vars, checkout, updater, thread, parent, intake, services, bounds
<1>4. CASE \E p \in Platforms : SchedulerEnds(p)
  BY <1>4 DEF SchedulerEnds, vars, checkout, updater, thread, parent, intake, services, bounds
<1>5. CASE \E p \in Platforms : ConsumerLooks(p)
  <2>1. PICK p \in Platforms : ConsumerLooks(p)
    BY <1>5
  <2>2. consumer' \in [Platforms -> {"none", "ready", "turn"}]
    BY <2>1 DEF ConsumerLooks, MayStart, vars, checkout, updater, thread, parent, intake, services, bounds
  <2>3. queue' \in [Platforms -> Nat]
    BY SMTT(30), <2>1 DEF ConsumerLooks, MayStart, vars, checkout, updater, thread, parent, intake,
      services, bounds
  <2>4. QED
    BY SMTT(30), <2>1, <2>2, <2>3 DEF ConsumerLooks, MayStart, vars, checkout, updater, thread,
      parent, intake, services, bounds
<1>6. CASE \E p \in Platforms : TurnEnds(p)
  <2>1. PICK p \in Platforms : TurnEnds(p)
    BY <1>6
  <2>2. consumer' \in [Platforms -> {"none", "ready", "turn"}]
    BY <2>1 DEF TurnEnds, vars, checkout, updater, thread, parent, intake, services, bounds
  <2>3. queue' \in [Platforms -> Nat]
    BY SMTT(30), <2>1 DEF TurnEnds, vars, checkout, updater, thread, parent, intake, services, bounds
  <2>4. QED
    BY SMTT(30), <2>1, <2>2, <2>3 DEF TurnEnds, vars, checkout, updater, thread, parent, intake,
      services, bounds
<1>7. CASE \E p \in Platforms : OtherBegins(p)
  <2>1. PICK p \in Platforms : OtherBegins(p)
    BY <1>7
  <2>2. other' \in [Platforms -> {"none", "ungated", "launch"}]
    BY <2>1 DEF OtherBegins, vars, checkout, updater, thread, parent, intake, services, bounds
  <2>3. QED
    BY <2>1, <2>2 DEF OtherBegins, vars, checkout, updater, thread, parent, intake, services, bounds
<1>8. CASE \E p \in Platforms : OtherEnds(p)
  BY <1>8 DEF OtherEnds, vars, checkout, updater, thread, parent, intake, services, bounds
<1>9. CASE \E p \in Platforms : StartBegins(p)
  BY <1>9 DEF StartBegins, vars, checkout, updater, thread, parent, intake, services, bounds
<1>10. CASE \E p \in Platforms : StartNotReady(p)
  BY <1>10 DEF StartNotReady, Faulty, vars, checkout, updater, thread, parent, intake, services, bounds
<1>11. CASE \E p \in Platforms : StartRestores(p)
  BY <1>11 DEF StartRestores, vars, checkout, updater, thread, parent, intake, services, bounds
<1>12. CASE \E p \in Platforms : StartServices(p)
  BY <1>12 DEF StartServices, Woken, ServicesStarted, vars, checkout, updater, thread, parent,
    intake, services, bounds
<1>13. CASE \E p \in Platforms : StartFails(p)
  BY <1>13 DEF StartFails, Faulty, vars, checkout, updater, thread, parent, intake, services, bounds
<1>14. CASE \E p \in Platforms : StartCancelled(p)
  BY <1>14 DEF StartCancelled, vars, checkout, updater, thread, parent, intake, services, bounds
<1>15. CASE \E p \in Platforms : HaltBegins(p)
  BY <1>15 DEF HaltBegins, Stopping, vars, checkout, updater, thread, parent, intake, services, bounds
<1>16. CASE \E p \in Platforms : HaltEnds(p)
  BY <1>16 DEF HaltEnds, vars, checkout, updater, thread, parent, intake, services, bounds
<1>17. CASE OperatorMoves
  BY <1>17 DEF OperatorMoves, vars, checkout, updater, thread, parent, intake, services, bounds
<1>18. CASE OriginAdvances
  BY <1>18 DEF OriginAdvances, vars, checkout, updater, thread, parent, intake, services, bounds
<1>19. CASE PullSkipped
  BY <1>19 DEF PullSkipped, SkipOutcome, SeesHeadMoved, SeesHeadSame, Faulty, vars, checkout,
    updater, thread, parent, intake, services, bounds
<1>20. CASE GitPulls
  <2>1. moved' \in BOOLEAN
    BY <1>20, Zenon DEF GitPulls, SeesHeadSame, Faulty, vars, checkout, updater, thread, parent,
      intake, services, bounds
  <2>2. pulled' \in BOOLEAN
    BY <1>20, Zenon DEF GitPulls, SeesHeadSame, Faulty, vars, checkout, updater, thread, parent,
      intake, services, bounds
  <2>3. QED
    BY <1>20, <2>1, <2>2 DEF GitPulls, SeesHeadSame, Faulty, vars, checkout, updater, thread,
      parent, intake, services, bounds
<1>21. CASE PullSettles
  BY <1>21 DEF PullSettles, PullOutcome, Faulty, vars, checkout, updater, thread, parent, intake,
    services, bounds
<1>22. CASE InstallEnds
  BY <1>22 DEF InstallEnds, vars, checkout, updater, thread, parent, intake, services, bounds
<1>23. CASE CheckBegins
  <2>1. changed' \in BOOLEAN
    BY <1>23, Zenon DEF CheckBegins, Cancelled, vars, checkout, updater, thread, parent, intake,
      services, bounds
  <2>2. QED
    BY <1>23, <2>1 DEF CheckBegins, Cancelled, vars, checkout, updater, thread, parent, intake,
      services, bounds
<1>24. CASE CheckReturns
  BY <1>24 DEF CheckReturns, SeesHeadMoved, SeesHeadSame, Faulty, vars, checkout, updater, thread,
    parent, intake, services, bounds
<1>25. CASE UpdaterCancelled
  BY <1>25 DEF UpdaterCancelled, Cancelled, vars, checkout, updater, thread, parent, intake, services, bounds
<1>26. CASE IdleCancelled
  BY <1>26 DEF IdleCancelled, Cancelled, vars, checkout, updater, thread, parent, intake, services, bounds
<1>27. CASE IdleSeen
  BY <1>27 DEF IdleSeen, Cancelled, vars, checkout, updater, thread, parent, intake, services, bounds
<1>28. CASE GateCloses
  BY <1>28 DEF GateCloses, vars, checkout, updater, thread, parent, intake, services, bounds
<1>29. CASE SchedulerJoined
  BY <1>29 DEF SchedulerJoined, Cancelled, vars, checkout, updater, thread, parent, intake, services, bounds
<1>30. CASE LooksAgain
  BY <1>30 DEF LooksAgain, AnyActive, HasActiveTurns, Refused, vars, checkout, updater, thread,
    parent, intake, services, bounds
<1>31. CASE Releases
  BY <1>31 DEF Releases, Reopens, Woken, vars, checkout, updater, thread, parent, intake, services, bounds
<1>32. CASE ReleaseReturns
  BY <1>32 DEF ReleaseReturns, Cancelled, vars, checkout, updater, thread, parent, intake, services, bounds
<1>33. CASE PullReturns
  <2>1. upd' \in {"gone", "release", "install"} /\ worker' \in {"none", "pip"}
    BY <1>33 DEF PullReturns, AfterPull, Cancelled, vars, checkout, updater, thread, parent, intake,
      services, bounds
  <2>2. why' \in {why, "cancelled", "current", "failed"} /\ result' = "current"
    BY <1>33 DEF PullReturns, AfterPull, Cancelled, vars, checkout, updater, thread, parent, intake,
      services, bounds
  <2>3. QED
    BY <1>33, <2>1, <2>2 DEF PullReturns, vars, checkout, updater, thread, parent, intake, services, bounds
<1>34. CASE InstallReturns
  BY <1>34 DEF InstallReturns, Cancelled, vars, checkout, updater, thread, parent, intake, services, bounds
<1>35. CASE StartsJoined
  BY <1>35 DEF StartsJoined, Cancelled, vars, checkout, updater, thread, parent, intake, services, bounds
<1>36. CASE Notified
  BY <1>36 DEF Notified, Cancelled, vars, checkout, updater, thread, parent, intake, services, bounds
<1>37. CASE Reexecutes
  BY <1>37 DEF Reexecutes, Cancelled, vars, checkout, updater, thread, parent, intake, services, bounds
<1>38. CASE Signalled
  BY <1>38 DEF Signalled, vars, checkout, updater, thread, parent, intake, services, bounds
<1>39. CASE CancelsUpdater
  <2>1. crash' \in BOOLEAN
    BY <1>39, Zenon DEF CancelsUpdater, HandoffInv, TypeOK
  <2>2. cancel' \in {"none", "pending", "swallowed"}
    BY <1>39 DEF CancelsUpdater
  <2>3. QED
    BY <1>39, <2>1, <2>2 DEF CancelsUpdater, vars, checkout, updater, thread, parent, intake, services, bounds
<1>40. CASE StopsPlatforms
  BY <1>40 DEF StopsPlatforms, Settled, vars, checkout, updater, thread, parent, intake, services, bounds
<1>41. CASE Exits
  BY <1>41 DEF Exits, vars, checkout, updater, thread, parent, intake, services, bounds
<1>42. QED
  BY <1>1, <1>2, <1>3, <1>4, <1>5, <1>6, <1>7, <1>8, <1>9, <1>10, <1>11, <1>12, <1>13, <1>14, <1>15,
    <1>16, <1>17, <1>18, <1>19, <1>20, <1>21, <1>22, <1>23, <1>24, <1>25, <1>26, <1>27, <1>28,
    <1>29, <1>30, <1>31, <1>32, <1>33, <1>34, <1>35, <1>36, <1>37, <1>38, <1>39, <1>40, <1>41
  DEF Next, PlatformStep, WorkerStep, UpdaterStep, MainStep

\* How far the gates are, step by step.
LEMMA GateStep ==
  ASSUME HandoffAssumption, HandoffInv, [Next]_vars
  PROVE  GateInv'
<1> USE HandoffAssumption DEF Platforms, HandoffAssumption, HandoffInv, TypeOK, GateInv, Confirmed
<1>1. CASE UNCHANGED vars
  BY <1>1 DEF vars, checkout, updater, thread, parent, intake, services, bounds
<1>2. CASE \E p \in Platforms : Accept(p)
  BY <1>2 DEF Accept, Woken, vars, checkout, updater, thread, parent, intake, services, bounds
<1>3. CASE \E p \in Platforms : SchedulerAdmits(p)
  BY <1>3 DEF SchedulerAdmits, Woken, vars, checkout, updater, thread, parent, intake, services, bounds
<1>4. CASE \E p \in Platforms : SchedulerEnds(p)
  BY <1>4 DEF SchedulerEnds, vars, checkout, updater, thread, parent, intake, services, bounds
<1>5. CASE \E p \in Platforms : ConsumerLooks(p)
  BY <1>5 DEF ConsumerLooks, MayStart, vars, checkout, updater, thread, parent, intake, services, bounds
<1>6. CASE \E p \in Platforms : TurnEnds(p)
  BY <1>6 DEF TurnEnds, vars, checkout, updater, thread, parent, intake, services, bounds
<1>7. CASE \E p \in Platforms : OtherBegins(p)
  BY <1>7 DEF OtherBegins, vars, checkout, updater, thread, parent, intake, services, bounds
<1>8. CASE \E p \in Platforms : OtherEnds(p)
  BY <1>8 DEF OtherEnds, vars, checkout, updater, thread, parent, intake, services, bounds
<1>9. CASE \E p \in Platforms : StartBegins(p)
  BY <1>9 DEF StartBegins, vars, checkout, updater, thread, parent, intake, services, bounds
<1>10. CASE \E p \in Platforms : StartNotReady(p)
  BY <1>10 DEF StartNotReady, Faulty, vars, checkout, updater, thread, parent, intake, services, bounds
<1>11. CASE \E p \in Platforms : StartRestores(p)
  BY <1>11 DEF StartRestores, vars, checkout, updater, thread, parent, intake, services, bounds
<1>12. CASE \E p \in Platforms : StartServices(p)
  BY <1>12 DEF StartServices, Woken, ServicesStarted, vars, checkout, updater, thread, parent,
    intake, services, bounds
<1>13. CASE \E p \in Platforms : StartFails(p)
  BY <1>13 DEF StartFails, Faulty, vars, checkout, updater, thread, parent, intake, services, bounds
<1>14. CASE \E p \in Platforms : StartCancelled(p)
  BY <1>14 DEF StartCancelled, vars, checkout, updater, thread, parent, intake, services, bounds
<1>15. CASE \E p \in Platforms : HaltBegins(p)
  BY <1>15 DEF HaltBegins, Stopping, vars, checkout, updater, thread, parent, intake, services, bounds
<1>16. CASE \E p \in Platforms : HaltEnds(p)
  BY <1>16 DEF HaltEnds, vars, checkout, updater, thread, parent, intake, services, bounds
<1>17. CASE OperatorMoves
  BY <1>17 DEF OperatorMoves, vars, checkout, updater, thread, parent, intake, services, bounds
<1>18. CASE OriginAdvances
  BY <1>18 DEF OriginAdvances, vars, checkout, updater, thread, parent, intake, services, bounds
<1>19. CASE PullSkipped
  BY <1>19 DEF PullSkipped, SkipOutcome, SeesHeadMoved, SeesHeadSame, Faulty, vars, checkout,
    updater, thread, parent, intake, services, bounds
<1>20. CASE GitPulls
  BY <1>20 DEF GitPulls, SeesHeadSame, Faulty, vars, checkout, updater, thread, parent, intake,
    services, bounds
<1>21. CASE PullSettles
  BY <1>21 DEF PullSettles, PullOutcome, Faulty, vars, checkout, updater, thread, parent, intake,
    services, bounds
<1>22. CASE InstallEnds
  BY <1>22 DEF InstallEnds, vars, checkout, updater, thread, parent, intake, services, bounds
<1>23. CASE CheckBegins
  BY <1>23 DEF CheckBegins, Cancelled, vars, checkout, updater, thread, parent, intake, services, bounds
<1>24. CASE CheckReturns
  BY <1>24 DEF CheckReturns, SeesHeadMoved, SeesHeadSame, Faulty, vars, checkout, updater, thread,
    parent, intake, services, bounds
<1>25. CASE UpdaterCancelled
  BY <1>25 DEF UpdaterCancelled, Cancelled, vars, checkout, updater, thread, parent, intake, services, bounds
<1>26. CASE IdleCancelled
  BY <1>26 DEF IdleCancelled, Cancelled, vars, checkout, updater, thread, parent, intake, services, bounds
<1>27. CASE IdleSeen
  BY <1>27 DEF IdleSeen, Cancelled, vars, checkout, updater, thread, parent, intake, services, bounds
<1>28. CASE GateCloses
  BY <1>28 DEF GateCloses, vars, checkout, updater, thread, parent, intake, services, bounds
<1>29. CASE SchedulerJoined
  BY <1>29 DEF SchedulerJoined, Cancelled, vars, checkout, updater, thread, parent, intake, services, bounds
<1>30. CASE LooksAgain
  BY <1>30 DEF LooksAgain, AnyActive, HasActiveTurns, Refused, vars, checkout, updater, thread,
    parent, intake, services, bounds
<1>31. CASE Releases
  <2>1. upd = "release" /\ upd' = "released" /\ prep' = 0
    BY <1>31 DEF Releases
  <2>2. \A p \in Platforms : ~gate'[p]
    <3>1. TAKE p \in Platforms
    <3>2. gate'[p] <=> gate[p] /\ p \notin 1..prep
      BY <1>31, Zenon DEF Releases, Reopens
    <3>3. gate[p] => p \in 1..prep
      BY <2>1
    <3>4. QED
      BY <3>2, <3>3
  <2>3. QED
    BY <2>1, <2>2
<1>32. CASE ReleaseReturns
  BY <1>32 DEF ReleaseReturns, Cancelled, vars, checkout, updater, thread, parent, intake, services, bounds
<1>33. CASE PullReturns
  <2>1. upd = "pull" /\ upd' \in {"gone", "release", "install"}
    BY <1>33 DEF PullReturns, AfterPull, Cancelled, vars, checkout, updater, thread, parent, intake,
      services, bounds
  <2>2. QED
    BY <1>33, <2>1 DEF PullReturns, vars, checkout, updater, thread, parent, intake, services, bounds
<1>34. CASE InstallReturns
  BY <1>34 DEF InstallReturns, Cancelled, vars, checkout, updater, thread, parent, intake, services, bounds
<1>35. CASE StartsJoined
  BY <1>35 DEF StartsJoined, Cancelled, vars, checkout, updater, thread, parent, intake, services, bounds
<1>36. CASE Notified
  BY <1>36 DEF Notified, Cancelled, vars, checkout, updater, thread, parent, intake, services, bounds
<1>37. CASE Reexecutes
  BY <1>37 DEF Reexecutes, Cancelled, vars, checkout, updater, thread, parent, intake, services, bounds
<1>38. CASE Signalled
  BY <1>38 DEF Signalled, vars, checkout, updater, thread, parent, intake, services, bounds
<1>39. CASE CancelsUpdater
  BY <1>39 DEF CancelsUpdater, Settled, vars, checkout, updater, thread, parent, intake, services, bounds
<1>40. CASE StopsPlatforms
  BY <1>40 DEF StopsPlatforms, Settled, vars, checkout, updater, thread, parent, intake, services, bounds
<1>41. CASE Exits
  BY <1>41 DEF Exits, vars, checkout, updater, thread, parent, intake, services, bounds
<1>42. QED
  BY <1>1, <1>2, <1>3, <1>4, <1>5, <1>6, <1>7, <1>8, <1>9, <1>10, <1>11, <1>12, <1>13, <1>14, <1>15,
    <1>16, <1>17, <1>18, <1>19, <1>20, <1>21, <1>22, <1>23, <1>24, <1>25, <1>26, <1>27, <1>28,
    <1>29, <1>30, <1>31, <1>32, <1>33, <1>34, <1>35, <1>36, <1>37, <1>38, <1>39, <1>40, <1>41
  DEF Next, PlatformStep, WorkerStep, UpdaterStep, MainStep

\* The services of a platform against its gate and its stop.
LEMMA ServiceStep ==
  ASSUME HandoffAssumption, HandoffInv, [Next]_vars
  PROVE  ServiceInv'
<1> USE HandoffAssumption DEF Platforms, HandoffAssumption, HandoffInv, TypeOK, GateInv, ServiceInv, Confirmed
<1>1. CASE UNCHANGED vars
  BY <1>1 DEF vars, checkout, updater, thread, parent, intake, services, bounds
<1>2. CASE \E p \in Platforms : Accept(p)
  BY <1>2 DEF Accept, Woken, vars, checkout, updater, thread, parent, intake, services, bounds
<1>3. CASE \E p \in Platforms : SchedulerAdmits(p)
  BY <1>3 DEF SchedulerAdmits, Woken, vars, checkout, updater, thread, parent, intake, services, bounds
<1>4. CASE \E p \in Platforms : SchedulerEnds(p)
  BY <1>4 DEF SchedulerEnds, vars, checkout, updater, thread, parent, intake, services, bounds
<1>5. CASE \E p \in Platforms : ConsumerLooks(p)
  BY <1>5 DEF ConsumerLooks, MayStart, vars, checkout, updater, thread, parent, intake, services, bounds
<1>6. CASE \E p \in Platforms : TurnEnds(p)
  BY <1>6 DEF TurnEnds, vars, checkout, updater, thread, parent, intake, services, bounds
<1>7. CASE \E p \in Platforms : OtherBegins(p)
  BY <1>7 DEF OtherBegins, vars, checkout, updater, thread, parent, intake, services, bounds
<1>8. CASE \E p \in Platforms : OtherEnds(p)
  BY <1>8 DEF OtherEnds, vars, checkout, updater, thread, parent, intake, services, bounds
<1>9. CASE \E p \in Platforms : StartBegins(p)
  BY <1>9 DEF StartBegins, vars, checkout, updater, thread, parent, intake, services, bounds
<1>10. CASE \E p \in Platforms : StartNotReady(p)
  BY <1>10 DEF StartNotReady, Faulty, vars, checkout, updater, thread, parent, intake, services, bounds
<1>11. CASE \E p \in Platforms : StartRestores(p)
  BY <1>11 DEF StartRestores, vars, checkout, updater, thread, parent, intake, services, bounds
<1>12. CASE \E p \in Platforms : StartServices(p)
  <2>1. PICK p \in Platforms : StartServices(p)
    BY <1>12
  <2>2. daemon' = [daemon EXCEPT ![p] = p \in Daemons] /\ start' = [start EXCEPT ![p] = "up"]
    BY <2>1 DEF StartServices, ServicesStarted
  <2>3. UNCHANGED <<main, upd, halt, gate>> /\ start[p] = "restoring"
    BY <2>1 DEF StartServices, updater, parent
  <2>4. p \in Daemons /\ ~gate[p] => sched' = [sched EXCEPT ![p] = "on"]
    BY <2>1 DEF StartServices
  <2>5. ~(p \in Daemons /\ ~gate[p]) => sched' = sched
    BY <2>1 DEF StartServices
  <2>6. p \in Daemons => daemon'[p]
    BY ZenonT(60), <2>2, Zenon
  <2>7. \A q \in Platforms \ {p} : daemon'[q] = daemon[q] /\ start'[q] = start[q] /\ sched'[q] = sched[q]
    BY <2>2, <2>4, <2>5
  <2>8. start'[p] = "up" /\ (p \in Daemons /\ ~gate[p] => sched'[p] = "on")
    BY <2>2, <2>4
  <2>9. ASSUME NEW q \in Platforms
        PROVE  /\ halt'[q] # "no" => upd' \in {"stop", "gone"}
               /\ daemon'[q] => start'[q] = "up"
               /\ start'[q] = "up" /\ q \in Daemons /\ halt'[q] = "no"
                    => daemon'[q] /\ (gate'[q] \/ sched'[q] = "on")
    BY <2>3, <2>6, <2>7, <2>8
  <2>10. QED
    BY <2>3, <2>9
<1>13. CASE \E p \in Platforms : StartFails(p)
  BY <1>13 DEF StartFails, Faulty, vars, checkout, updater, thread, parent, intake, services, bounds
<1>14. CASE \E p \in Platforms : StartCancelled(p)
  BY <1>14 DEF StartCancelled, vars, checkout, updater, thread, parent, intake, services, bounds
<1>15. CASE \E p \in Platforms : HaltBegins(p)
  BY <1>15 DEF HaltBegins, Stopping, vars, checkout, updater, thread, parent, intake, services, bounds
<1>16. CASE \E p \in Platforms : HaltEnds(p)
  BY <1>16 DEF HaltEnds, vars, checkout, updater, thread, parent, intake, services, bounds
<1>17. CASE OperatorMoves
  BY <1>17 DEF OperatorMoves, vars, checkout, updater, thread, parent, intake, services, bounds
<1>18. CASE OriginAdvances
  BY <1>18 DEF OriginAdvances, vars, checkout, updater, thread, parent, intake, services, bounds
<1>19. CASE PullSkipped
  BY <1>19 DEF PullSkipped, SkipOutcome, SeesHeadMoved, SeesHeadSame, Faulty, vars, checkout,
    updater, thread, parent, intake, services, bounds
<1>20. CASE GitPulls
  BY <1>20 DEF GitPulls, SeesHeadSame, Faulty, vars, checkout, updater, thread, parent, intake,
    services, bounds
<1>21. CASE PullSettles
  BY <1>21 DEF PullSettles, PullOutcome, Faulty, vars, checkout, updater, thread, parent, intake,
    services, bounds
<1>22. CASE InstallEnds
  BY <1>22 DEF InstallEnds, vars, checkout, updater, thread, parent, intake, services, bounds
<1>23. CASE CheckBegins
  BY <1>23 DEF CheckBegins, Cancelled, vars, checkout, updater, thread, parent, intake, services, bounds
<1>24. CASE CheckReturns
  BY <1>24 DEF CheckReturns, SeesHeadMoved, SeesHeadSame, Faulty, vars, checkout, updater, thread,
    parent, intake, services, bounds
<1>25. CASE UpdaterCancelled
  BY <1>25 DEF UpdaterCancelled, Cancelled, vars, checkout, updater, thread, parent, intake, services, bounds
<1>26. CASE IdleCancelled
  BY <1>26 DEF IdleCancelled, Cancelled, vars, checkout, updater, thread, parent, intake, services, bounds
<1>27. CASE IdleSeen
  BY <1>27 DEF IdleSeen, Cancelled, vars, checkout, updater, thread, parent, intake, services, bounds
<1>28. CASE GateCloses
  BY <1>28 DEF GateCloses, vars, checkout, updater, thread, parent, intake, services, bounds
<1>29. CASE SchedulerJoined
  BY <1>29 DEF SchedulerJoined, Cancelled, vars, checkout, updater, thread, parent, intake, services, bounds
<1>30. CASE LooksAgain
  BY <1>30 DEF LooksAgain, AnyActive, HasActiveTurns, Refused, vars, checkout, updater, thread,
    parent, intake, services, bounds
<1>31. CASE Releases
  BY <1>31 DEF Releases, Reopens, Woken, vars, checkout, updater, thread, parent, intake, services, bounds
<1>32. CASE ReleaseReturns
  BY <1>32 DEF ReleaseReturns, Cancelled, vars, checkout, updater, thread, parent, intake, services, bounds
<1>33. CASE PullReturns
  BY <1>33 DEF PullReturns, AfterPull, Cancelled, vars, checkout, updater, thread, parent, intake,
    services, bounds
<1>34. CASE InstallReturns
  BY <1>34 DEF InstallReturns, Cancelled, vars, checkout, updater, thread, parent, intake, services, bounds
<1>35. CASE StartsJoined
  BY <1>35 DEF StartsJoined, Cancelled, vars, checkout, updater, thread, parent, intake, services, bounds
<1>36. CASE Notified
  BY <1>36 DEF Notified, Cancelled, vars, checkout, updater, thread, parent, intake, services, bounds
<1>37. CASE Reexecutes
  BY <1>37 DEF Reexecutes, Cancelled, vars, checkout, updater, thread, parent, intake, services, bounds
<1>38. CASE Signalled
  BY <1>38 DEF Signalled, vars, checkout, updater, thread, parent, intake, services, bounds
<1>39. CASE CancelsUpdater
  BY <1>39 DEF CancelsUpdater, Settled, vars, checkout, updater, thread, parent, intake, services, bounds
<1>40. CASE StopsPlatforms
  BY <1>40 DEF StopsPlatforms, Settled, vars, checkout, updater, thread, parent, intake, services, bounds
<1>41. CASE Exits
  BY <1>41 DEF Exits, vars, checkout, updater, thread, parent, intake, services, bounds
<1>42. QED
  BY <1>1, <1>2, <1>3, <1>4, <1>5, <1>6, <1>7, <1>8, <1>9, <1>10, <1>11, <1>12, <1>13, <1>14, <1>15,
    <1>16, <1>17, <1>18, <1>19, <1>20, <1>21, <1>22, <1>23, <1>24, <1>25, <1>26, <1>27, <1>28,
    <1>29, <1>30, <1>31, <1>32, <1>33, <1>34, <1>35, <1>36, <1>37, <1>38, <1>39, <1>40, <1>41
  DEF Next, PlatformStep, WorkerStep, UpdaterStep, MainStep

\* Nothing that an update would cut off begins behind a closed gate.
LEMMA QuietStep ==
  ASSUME HandoffAssumption, HandoffInv, [Next]_vars
  PROVE  HandoffIsQuiet'
<1> USE HandoffAssumption DEF Platforms, HandoffAssumption, HandoffInv, TypeOK, GateInv, HandoffIsQuiet, Confirmed, HasActiveTurns, AnyActive
<1>1. CASE UNCHANGED vars
  BY <1>1 DEF vars, checkout, updater, thread, parent, intake, services, bounds
<1>2. CASE \E p \in Platforms : Accept(p)
  BY <1>2 DEF Accept, Woken, vars, checkout, updater, thread, parent, intake, services, bounds
<1>3. CASE \E p \in Platforms : SchedulerAdmits(p)
  BY <1>3 DEF SchedulerAdmits, Woken, vars, checkout, updater, thread, parent, intake, services, bounds
<1>4. CASE \E p \in Platforms : SchedulerEnds(p)
  BY <1>4 DEF SchedulerEnds, vars, checkout, updater, thread, parent, intake, services, bounds
<1>5. CASE \E p \in Platforms : ConsumerLooks(p)
  BY <1>5 DEF ConsumerLooks, MayStart, vars, checkout, updater, thread, parent, intake, services, bounds
<1>6. CASE \E p \in Platforms : TurnEnds(p)
  BY <1>6 DEF TurnEnds, vars, checkout, updater, thread, parent, intake, services, bounds
<1>7. CASE \E p \in Platforms : OtherBegins(p)
  BY <1>7 DEF OtherBegins, vars, checkout, updater, thread, parent, intake, services, bounds
<1>8. CASE \E p \in Platforms : OtherEnds(p)
  BY <1>8 DEF OtherEnds, vars, checkout, updater, thread, parent, intake, services, bounds
<1>9. CASE \E p \in Platforms : StartBegins(p)
  BY <1>9 DEF StartBegins, vars, checkout, updater, thread, parent, intake, services, bounds
<1>10. CASE \E p \in Platforms : StartNotReady(p)
  BY <1>10 DEF StartNotReady, Faulty, vars, checkout, updater, thread, parent, intake, services, bounds
<1>11. CASE \E p \in Platforms : StartRestores(p)
  BY <1>11 DEF StartRestores, vars, checkout, updater, thread, parent, intake, services, bounds
<1>12. CASE \E p \in Platforms : StartServices(p)
  BY <1>12 DEF StartServices, Woken, ServicesStarted, vars, checkout, updater, thread, parent,
    intake, services, bounds
<1>13. CASE \E p \in Platforms : StartFails(p)
  BY <1>13 DEF StartFails, Faulty, vars, checkout, updater, thread, parent, intake, services, bounds
<1>14. CASE \E p \in Platforms : StartCancelled(p)
  BY <1>14 DEF StartCancelled, vars, checkout, updater, thread, parent, intake, services, bounds
<1>15. CASE \E p \in Platforms : HaltBegins(p)
  BY <1>15 DEF HaltBegins, Stopping, vars, checkout, updater, thread, parent, intake, services, bounds
<1>16. CASE \E p \in Platforms : HaltEnds(p)
  BY <1>16 DEF HaltEnds, vars, checkout, updater, thread, parent, intake, services, bounds
<1>17. CASE OperatorMoves
  BY <1>17 DEF OperatorMoves, vars, checkout, updater, thread, parent, intake, services, bounds
<1>18. CASE OriginAdvances
  BY <1>18 DEF OriginAdvances, vars, checkout, updater, thread, parent, intake, services, bounds
<1>19. CASE PullSkipped
  BY <1>19 DEF PullSkipped, SkipOutcome, SeesHeadMoved, SeesHeadSame, Faulty, vars, checkout,
    updater, thread, parent, intake, services, bounds
<1>20. CASE GitPulls
  BY <1>20 DEF GitPulls, SeesHeadSame, Faulty, vars, checkout, updater, thread, parent, intake,
    services, bounds
<1>21. CASE PullSettles
  BY <1>21 DEF PullSettles, PullOutcome, Faulty, vars, checkout, updater, thread, parent, intake,
    services, bounds
<1>22. CASE InstallEnds
  BY <1>22 DEF InstallEnds, vars, checkout, updater, thread, parent, intake, services, bounds
<1>23. CASE CheckBegins
  BY <1>23 DEF CheckBegins, Cancelled, vars, checkout, updater, thread, parent, intake, services, bounds
<1>24. CASE CheckReturns
  BY <1>24 DEF CheckReturns, SeesHeadMoved, SeesHeadSame, Faulty, vars, checkout, updater, thread,
    parent, intake, services, bounds
<1>25. CASE UpdaterCancelled
  BY <1>25 DEF UpdaterCancelled, Cancelled, vars, checkout, updater, thread, parent, intake, services, bounds
<1>26. CASE IdleCancelled
  BY <1>26 DEF IdleCancelled, Cancelled, vars, checkout, updater, thread, parent, intake, services, bounds
<1>27. CASE IdleSeen
  BY <1>27 DEF IdleSeen, Cancelled, vars, checkout, updater, thread, parent, intake, services, bounds
<1>28. CASE GateCloses
  BY <1>28 DEF GateCloses, vars, checkout, updater, thread, parent, intake, services, bounds
<1>29. CASE SchedulerJoined
  BY <1>29 DEF SchedulerJoined, Cancelled, vars, checkout, updater, thread, parent, intake, services, bounds
<1>30. CASE LooksAgain
  BY <1>30 DEF LooksAgain, AnyActive, HasActiveTurns, Refused, vars, checkout, updater, thread,
    parent, intake, services, bounds
<1>31. CASE Releases
  BY <1>31 DEF Releases, Reopens, Woken, vars, checkout, updater, thread, parent, intake, services, bounds
<1>32. CASE ReleaseReturns
  BY <1>32 DEF ReleaseReturns, Cancelled, vars, checkout, updater, thread, parent, intake, services, bounds
<1>33. CASE PullReturns
  BY <1>33 DEF PullReturns, AfterPull, Cancelled, vars, checkout, updater, thread, parent, intake,
    services, bounds
<1>34. CASE InstallReturns
  BY <1>34 DEF InstallReturns, Cancelled, vars, checkout, updater, thread, parent, intake, services, bounds
<1>35. CASE StartsJoined
  BY <1>35 DEF StartsJoined, Cancelled, vars, checkout, updater, thread, parent, intake, services, bounds
<1>36. CASE Notified
  BY <1>36 DEF Notified, Cancelled, vars, checkout, updater, thread, parent, intake, services, bounds
<1>37. CASE Reexecutes
  BY <1>37 DEF Reexecutes, Cancelled, vars, checkout, updater, thread, parent, intake, services, bounds
<1>38. CASE Signalled
  BY <1>38 DEF Signalled, vars, checkout, updater, thread, parent, intake, services, bounds
<1>39. CASE CancelsUpdater
  BY <1>39 DEF CancelsUpdater, Settled, vars, checkout, updater, thread, parent, intake, services, bounds
<1>40. CASE StopsPlatforms
  BY <1>40 DEF StopsPlatforms, Settled, vars, checkout, updater, thread, parent, intake, services, bounds
<1>41. CASE Exits
  BY <1>41 DEF Exits, vars, checkout, updater, thread, parent, intake, services, bounds
<1>42. QED
  BY <1>1, <1>2, <1>3, <1>4, <1>5, <1>6, <1>7, <1>8, <1>9, <1>10, <1>11, <1>12, <1>13, <1>14, <1>15,
    <1>16, <1>17, <1>18, <1>19, <1>20, <1>21, <1>22, <1>23, <1>24, <1>25, <1>26, <1>27, <1>28,
    <1>29, <1>30, <1>31, <1>32, <1>33, <1>34, <1>35, <1>36, <1>37, <1>38, <1>39, <1>40, <1>41
  DEF Next, PlatformStep, WorkerStep, UpdaterStep, MainStep

\* What the pull changed stays behind the gates.
LEMMA PullStep ==
  ASSUME HandoffAssumption, HandoffInv, [Next]_vars
  PROVE  PullInv'
<1> USE HandoffAssumption DEF Platforms, HandoffAssumption, HandoffInv, TypeOK, GateInv, HandoffIsQuiet, PullInv, Confirmed
<1>1. CASE UNCHANGED vars
  BY <1>1 DEF vars, checkout, updater, thread, parent, intake, services, bounds
<1>2. CASE \E p \in Platforms : Accept(p)
  BY <1>2 DEF Accept, Woken, vars, checkout, updater, thread, parent, intake, services, bounds
<1>3. CASE \E p \in Platforms : SchedulerAdmits(p)
  BY <1>3 DEF SchedulerAdmits, Woken, vars, checkout, updater, thread, parent, intake, services, bounds
<1>4. CASE \E p \in Platforms : SchedulerEnds(p)
  BY <1>4 DEF SchedulerEnds, vars, checkout, updater, thread, parent, intake, services, bounds
<1>5. CASE \E p \in Platforms : ConsumerLooks(p)
  BY <1>5 DEF ConsumerLooks, MayStart, vars, checkout, updater, thread, parent, intake, services, bounds
<1>6. CASE \E p \in Platforms : TurnEnds(p)
  BY <1>6 DEF TurnEnds, vars, checkout, updater, thread, parent, intake, services, bounds
<1>7. CASE \E p \in Platforms : OtherBegins(p)
  BY <1>7 DEF OtherBegins, vars, checkout, updater, thread, parent, intake, services, bounds
<1>8. CASE \E p \in Platforms : OtherEnds(p)
  BY <1>8 DEF OtherEnds, vars, checkout, updater, thread, parent, intake, services, bounds
<1>9. CASE \E p \in Platforms : StartBegins(p)
  BY <1>9 DEF StartBegins, vars, checkout, updater, thread, parent, intake, services, bounds
<1>10. CASE \E p \in Platforms : StartNotReady(p)
  BY <1>10 DEF StartNotReady, Faulty, vars, checkout, updater, thread, parent, intake, services, bounds
<1>11. CASE \E p \in Platforms : StartRestores(p)
  BY <1>11 DEF StartRestores, vars, checkout, updater, thread, parent, intake, services, bounds
<1>12. CASE \E p \in Platforms : StartServices(p)
  BY <1>12 DEF StartServices, Woken, ServicesStarted, vars, checkout, updater, thread, parent,
    intake, services, bounds
<1>13. CASE \E p \in Platforms : StartFails(p)
  BY <1>13 DEF StartFails, Faulty, vars, checkout, updater, thread, parent, intake, services, bounds
<1>14. CASE \E p \in Platforms : StartCancelled(p)
  BY <1>14 DEF StartCancelled, vars, checkout, updater, thread, parent, intake, services, bounds
<1>15. CASE \E p \in Platforms : HaltBegins(p)
  BY <1>15 DEF HaltBegins, Stopping, vars, checkout, updater, thread, parent, intake, services, bounds
<1>16. CASE \E p \in Platforms : HaltEnds(p)
  BY <1>16 DEF HaltEnds, vars, checkout, updater, thread, parent, intake, services, bounds
<1>17. CASE OperatorMoves
  BY <1>17 DEF OperatorMoves, vars, checkout, updater, thread, parent, intake, services, bounds
<1>18. CASE OriginAdvances
  BY <1>18 DEF OriginAdvances, vars, checkout, updater, thread, parent, intake, services, bounds
<1>19. CASE PullSkipped
  BY <1>19 DEF PullSkipped, SkipOutcome, SeesHeadMoved, SeesHeadSame, Faulty, vars, checkout,
    updater, thread, parent, intake, services, bounds
<1>20. CASE GitPulls
  BY <1>20 DEF GitPulls, SeesHeadSame, Faulty, vars, checkout, updater, thread, parent, intake,
    services, bounds
<1>21. CASE PullSettles
  BY <1>21 DEF PullSettles, PullOutcome, Faulty, vars, checkout, updater, thread, parent, intake,
    services, bounds
<1>22. CASE InstallEnds
  BY <1>22 DEF InstallEnds, vars, checkout, updater, thread, parent, intake, services, bounds
<1>23. CASE CheckBegins
  BY <1>23 DEF CheckBegins, Cancelled, vars, checkout, updater, thread, parent, intake, services, bounds
<1>24. CASE CheckReturns
  BY <1>24 DEF CheckReturns, SeesHeadMoved, SeesHeadSame, Faulty, vars, checkout, updater, thread,
    parent, intake, services, bounds
<1>25. CASE UpdaterCancelled
  BY <1>25 DEF UpdaterCancelled, Cancelled, vars, checkout, updater, thread, parent, intake, services, bounds
<1>26. CASE IdleCancelled
  BY <1>26 DEF IdleCancelled, Cancelled, vars, checkout, updater, thread, parent, intake, services, bounds
<1>27. CASE IdleSeen
  BY <1>27 DEF IdleSeen, Cancelled, vars, checkout, updater, thread, parent, intake, services, bounds
<1>28. CASE GateCloses
  BY <1>28 DEF GateCloses, vars, checkout, updater, thread, parent, intake, services, bounds
<1>29. CASE SchedulerJoined
  BY <1>29 DEF SchedulerJoined, Cancelled, vars, checkout, updater, thread, parent, intake, services, bounds
<1>30. CASE LooksAgain
  BY <1>30 DEF LooksAgain, AnyActive, HasActiveTurns, Refused, vars, checkout, updater, thread,
    parent, intake, services, bounds
<1>31. CASE Releases
  BY <1>31 DEF Releases, Reopens, Woken, vars, checkout, updater, thread, parent, intake, services, bounds
<1>32. CASE ReleaseReturns
  BY <1>32 DEF ReleaseReturns, Cancelled, vars, checkout, updater, thread, parent, intake, services, bounds
<1>33. CASE PullReturns
  BY <1>33 DEF PullReturns, AfterPull, Cancelled, vars, checkout, updater, thread, parent, intake,
    services, bounds
<1>34. CASE InstallReturns
  BY <1>34 DEF InstallReturns, Cancelled, vars, checkout, updater, thread, parent, intake, services, bounds
<1>35. CASE StartsJoined
  BY <1>35 DEF StartsJoined, Cancelled, vars, checkout, updater, thread, parent, intake, services, bounds
<1>36. CASE Notified
  BY <1>36 DEF Notified, Cancelled, vars, checkout, updater, thread, parent, intake, services, bounds
<1>37. CASE Reexecutes
  BY <1>37 DEF Reexecutes, Cancelled, vars, checkout, updater, thread, parent, intake, services, bounds
<1>38. CASE Signalled
  BY <1>38 DEF Signalled, vars, checkout, updater, thread, parent, intake, services, bounds
<1>39. CASE CancelsUpdater
  BY <1>39 DEF CancelsUpdater, Settled, vars, checkout, updater, thread, parent, intake, services, bounds
<1>40. CASE StopsPlatforms
  BY <1>40 DEF StopsPlatforms, Settled, vars, checkout, updater, thread, parent, intake, services, bounds
<1>41. CASE Exits
  BY <1>41 DEF Exits, vars, checkout, updater, thread, parent, intake, services, bounds
<1>42. QED
  BY <1>1, <1>2, <1>3, <1>4, <1>5, <1>6, <1>7, <1>8, <1>9, <1>10, <1>11, <1>12, <1>13, <1>14, <1>15,
    <1>16, <1>17, <1>18, <1>19, <1>20, <1>21, <1>22, <1>23, <1>24, <1>25, <1>26, <1>27, <1>28,
    <1>29, <1>30, <1>31, <1>32, <1>33, <1>34, <1>35, <1>36, <1>37, <1>38, <1>39, <1>40, <1>41
  DEF Next, PlatformStep, WorkerStep, UpdaterStep, MainStep

\* An open gate and a platform that is not being stopped have a scheduler.
LEMMA IntakeFollows ==
  ASSUME HandoffAssumption, TypeOK, GateInv, ServiceInv
  PROVE  IntakeOpen
BY DEF TypeOK, GateInv, ServiceInv, IntakeOpen, Confirmed, Platforms, HandoffAssumption

LEMMA InvInit == ASSUME HandoffAssumption, Init PROVE HandoffInv
<1>1. TypeOK
  <2>1. daemon \in [Platforms -> BOOLEAN] /\ gate \in [Platforms -> BOOLEAN]
    <3>1. \A p \in Platforms : (p \in Started \cap Daemons) \in BOOLEAN
      BY SMT
    <3>2. QED
      BY <3>1, Zenon DEF Init
  <2>2. stopping \in [Platforms -> BOOLEAN]
    BY ZenonT(60) DEF Init
  <2>3. prep \in 0..N
    BY DEF Init, HandoffAssumption
  <2>4. queue \in [Platforms -> Nat] /\ start \in [Platforms -> {"waiting", "up"}]
    BY DEF Init
  <2>5. QED
    BY <2>1, <2>2, <2>3, <2>4 DEF Init, TypeOK, Confirmed
<1>2. GateInv /\ ServiceInv /\ PullInv /\ HandoffIsQuiet
  BY DEF Init, GateInv, ServiceInv, PullInv, HandoffIsQuiet, HandoffAssumption, Confirmed, Platforms
<1>3. QED
  BY <1>1, <1>2, IntakeFollows DEF HandoffInv

LEMMA InvStep == ASSUME HandoffAssumption, HandoffInv, [Next]_vars PROVE HandoffInv'
<1>1. TypeOK' /\ GateInv' /\ ServiceInv'
  BY TypeStep, GateStep, ServiceStep
<1>2. IntakeOpen'
  BY <1>1, IntakeFollows DEF TypeOK, GateInv, ServiceInv, IntakeOpen, Confirmed, Platforms, HandoffAssumption
<1>3. QED
  BY <1>1, <1>2, QuietStep, PullStep DEF HandoffInv

\* HandoffInv holds in every reachable state: gates, services and the worker
\* are where the step of the update says.
THEOREM HandoffCorrect == Spec => []HandoffInv
<1> USE HandoffAssumption
<1>1. Init => HandoffInv
  BY InvInit
<1>2. HandoffInv /\ [Next]_vars => HandoffInv'
  BY InvStep
<1>3. QED
  BY <1>1, <1>2, PTL DEF Spec

\* From the second look on an update cuts off no turn and no /bg launch.
THEOREM UpdateIsQuiet == Spec => []HandoffIsQuiet
<1>1. HandoffInv => HandoffIsQuiet
  BY DEF HandoffInv
<1>2. QED
  BY <1>1, HandoffCorrect, PTL

\* After an aborted handoff every platform takes work and fires schedules.
THEOREM IntakeReopens == Spec => []IntakeOpen
<1>1. HandoffInv => IntakeOpen
  BY DEF HandoffInv
<1>2. QED
  BY <1>1, HandoffCorrect, PTL

\* No turn of the old process starts on the code its own pull brought.
THEOREM PulledCodeRunsNoTurn == Spec => NoTurnOnPulledCode
<1>1. HandoffInv /\ [Next]_vars =>
        [\A p \in Platforms : consumer[p] # "turn" /\ consumer'[p] = "turn" => ~pulled]_vars
  <2> SUFFICES ASSUME HandoffInv, [Next]_vars
               PROVE  \/ \A p \in Platforms : consumer[p] # "turn" /\ consumer'[p] = "turn" => ~pulled
                      \/ UNCHANGED vars
    OBVIOUS
  <2>1. HandoffInv'
    BY HandoffAssumption, InvStep
  <2>2. pulled => pulled'
    BY ZenonT(60) DEF Next, PlatformStep, WorkerStep, UpdaterStep, MainStep, HandoffInv, TypeOK,
      vars, checkout, updater, thread, parent, intake, services, bounds, Accept, SchedulerAdmits,
      SchedulerEnds, ConsumerLooks, TurnEnds, OtherBegins, OtherEnds, StartBegins, StartNotReady,
      StartRestores, StartServices, StartFails, StartCancelled, HaltBegins, HaltEnds, OperatorMoves,
      OriginAdvances, PullSkipped, GitPulls, PullSettles, InstallEnds, CheckBegins, CheckReturns,
      UpdaterCancelled, IdleCancelled, IdleSeen, GateCloses, SchedulerJoined, LooksAgain, Releases,
      ReleaseReturns, PullReturns, InstallReturns, StartsJoined, Notified, Reexecutes, Signalled,
      CancelsUpdater, StopsPlatforms, Exits, Reopens, Faulty, AfterPull
  <2>3. QED
    BY <2>1, <2>2 DEF HandoffInv, PullInv
<1>2. QED
  BY <1>1, HandoffCorrect, PTL DEF Spec, NoTurnOnPulledCode
=============================================================================
