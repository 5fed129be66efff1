---------------------------- MODULE DetachedProofs ----------------------------
(***************************************************************************)
(* What the bot promises of background tasks, for every number of launches, *)
(* stops, failures and restarts: DetachedInv is inductive, the safety       *)
(* properties of DetachedTasks follow from it, and the ledger implements    *)
(* TaskNotices.  One lemma per part of the invariant, with one step per     *)
(* action that can disturb it.                                              *)
(***************************************************************************)
EXTENDS DetachedTasks, TLAPS

\* The launches keep their type.
LEMMA KeepsLaunches ==
  ASSUME TypeOK, [Next]_vars
  PROVE  LaunchesOK'
<1>1. ASSUME NEW l \in Launches, NEW k \in Kinds, LaunchBegins(l, k)
      PROVE  LaunchesOK'
  BY <1>1 DEF LaunchBegins, LaunchesOK, TypeOK, StopOK, At, Running, Over,
    launching
<1>2. ASSUME NEW l \in Launches, LaunchStarts(l)
      PROVE  LaunchesOK'
  BY <1>2 DEF LaunchStarts, Goto, Ends, Settled, TurnFree, RunLockFree,
    LaunchesOK, TypeOK, StopOK, At, Running, Over, launching
<1>3. ASSUME NEW l \in Launches, HandshakeReturns(l)
      PROVE  LaunchesOK'
  BY <1>3 DEF HandshakeReturns, Goto, LaunchesOK, TypeOK, StopOK, At, Running,
    Over, launching
<1>4. ASSUME NEW l \in Launches, HandshakeFails(l)
      PROVE  LaunchesOK'
  BY <1>4 DEF HandshakeFails, Ends, Fault, LaunchesOK, TypeOK, StopOK, At,
    Running, Over, launching
<1>5. ASSUME NEW l \in Launches, LaunchLogs(l)
      PROVE  LaunchesOK'
  BY <1>5 DEF LaunchLogs, Goto, Fault, LaunchesOK, TypeOK, StopOK, At,
    Running, Over, launching
<1>6. ASSUME NEW l \in Launches, LaunchUnclaimed(l)
      PROVE  LaunchesOK'
  BY <1>6 DEF LaunchUnclaimed, Ends, Fault, ProviderStops, LaunchesOK, TypeOK,
    StopOK, At, Running, Over, launching
<1>7. ASSUME NEW l \in Launches, Validates(l)
      PROVE  LaunchesOK'
  BY <1>7 DEF Validates, Goto, Ends, Fault, GivesUp, Overtaken, LaunchesOK,
    TypeOK, StopOK, At, Running, Over, launching
<1>8. ASSUME NEW l \in Launches, Admits(l)
      PROVE  LaunchesOK'
  BY <1>8 DEF Admits, Goto, Ends, Fault, GivesUp, Writable, Overtaken,
    AdmissionFree, LaunchesOK, TypeOK, StopOK, At, Running, Over, launching
<1>9. ASSUME NEW l \in Launches, Registered(l)
      PROVE  LaunchesOK'
  BY <1>9 DEF Registered, Goto, Ends, GivesUp, LaunchesOK, TypeOK, StopOK, At,
    Running, Over, launching
<1>10. ASSUME NEW l \in Launches, Acknowledges(l)
      PROVE  LaunchesOK'
  BY <1>10 DEF Acknowledges, Goto, Ends, Fault, LaunchesOK, TypeOK, StopOK,
    At, Running, Over, launching
<1>11. ASSUME NEW l \in Launches, AckReturns(l)
      PROVE  LaunchesOK'
  BY <1>11 DEF AckReturns, Goto, Ends, LaunchesOK, TypeOK, StopOK, At,
    Running, Over, launching
<1>12. ASSUME NEW l \in Launches, Unverified(l)
      PROVE  LaunchesOK'
  BY <1>12 DEF Unverified, Goto, Ends, GivesUp, LaunchesOK, TypeOK, StopOK,
    At, Running, Over, launching
<1>13. ASSUME NEW l \in Launches, Cleanup(l)
      PROVE  LaunchesOK'
  BY <1>13 DEF Cleanup, Goto, Ends, Fault, CleansUp, ProviderStops,
    LaunchesOK, TypeOK, StopOK, At, Running, Over, launching
<1>14. ASSUME NEW l \in Launches, Forgets(l)
      PROVE  LaunchesOK'
  BY <1>14 DEF Forgets, Ends, Fault, Removes, Charges, LaunchesOK, TypeOK,
    StopOK, At, Running, Over, launching
<1>15. ASSUME NEW l \in Launches, ProviderStarts(l)
      PROVE  LaunchesOK'
  BY <1>15 DEF ProviderStarts, LaunchesOK, TypeOK, StopOK, At, Running, Over,
    launching
<1>16. ASSUME NEW l \in Launches, ProviderMoves(l)
      PROVE  LaunchesOK'
  BY <1>16 DEF ProviderMoves, LaunchesOK, TypeOK, StopOK, At, Running, Over,
    launching
<1>17. CASE StopSignals
  BY <1>17 DEF StopSignals, KillsLaunches, SignalsDelivery, LaunchesOK,
    TypeOK, StopOK, At, Running, Over, launching
<1>18. ASSUME NEW l \in Launches, StopStops(l)
      PROVE  LaunchesOK'
  BY <1>18 DEF StopStops, ProviderStops, Fault, LaunchesOK, TypeOK, StopOK,
    At, Running, Over, launching
<1>19. CASE Shutdown
  BY <1>19 DEF Shutdown, KillsLaunches, LaunchesOK, TypeOK, StopOK, At,
    Running, Over, launching
<1>20. CASE Restart
  BY <1>20 DEF Restart, PassFails, Slips, Settled, Falses, Zeroes, LaunchesOK,
    TypeOK, StopOK, At, Running, Over, launching
<1>21. CASE UNCHANGED <<provider, pc, kind, killed, lgen>>
  BY <1>21 DEF LaunchesOK, TypeOK, StopOK, At, Running, Over
<1> QED
  BY <1>1, <1>2, <1>3, <1>4, <1>5, <1>6, <1>7, <1>8, <1>9, <1>10, <1>11,
    <1>12, <1>13, <1>14, <1>15, <1>16, <1>17, <1>18, <1>19, <1>20, <1>21 DEF
    Next, LaunchStep, PollStep, StopStep, ReplyOwed, ReplySent, PollBegins,
    NextRecord, PollEnds, PollTakes, PollAsks, Proceed, Fault, PollClears,
    PassFails, PollStages, Stages, PollOpens, DeliveryReads, DeliverySends,
    Out, SendFails, DeliveryEnds, DeliveryRecords, Removes, Slips,
    DeliveryCancelled, StopLists, StopFails, StopDrops, StopEnds, vars,
    launching, ledger, polling, stopping, history, endings, bounds

\* What is staged or told is in the ledger.
LEMMA KeepsLedger ==
  ASSUME TypeOK, [Next]_vars
  PROVE  LedgerOK'
<1>1. ASSUME NEW l \in Launches, Admits(l)
      PROVE  LedgerOK'
  BY <1>1 DEF Admits, Goto, Ends, Fault, GivesUp, Writable, Overtaken,
    AdmissionFree, LedgerOK, TypeOK, ledger
<1>2. ASSUME NEW l \in Launches, Forgets(l)
      PROVE  LedgerOK'
  BY <1>2 DEF Forgets, Ends, Fault, Removes, Charges, LedgerOK, TypeOK, ledger
<1>3. CASE PollClears
  BY <1>3 DEF PollClears, NextRecord, PassFails, Fault, LedgerOK, TypeOK,
    ledger
<1>4. CASE PollStages
  BY <1>4 DEF PollStages, Stages, Proceed, PassFails, Fault, LedgerOK, TypeOK,
    ledger
<1>5. CASE DeliveryEnds
  BY <1>5 DEF DeliveryEnds, DeliveryRecords, Removes, Slips, PassFails,
    NextRecord, Fault, LedgerOK, TypeOK, ledger
<1>6. ASSUME NEW l \in Launches, StopDrops(l)
      PROVE  LedgerOK'
  BY <1>6 DEF StopDrops, Removes, Fault, LedgerOK, TypeOK, ledger
<1>7. CASE UNCHANGED <<records, staged, told>>
  BY <1>7 DEF LedgerOK, TypeOK
<1> QED
  BY <1>1, <1>2, <1>3, <1>4, <1>5, <1>6, <1>7 DEF Next, LaunchStep, PollStep,
    StopStep, LaunchBegins, LaunchStarts, Goto, Ends, HandshakeReturns,
    HandshakeFails, Fault, LaunchLogs, LaunchUnclaimed, ProviderStops,
    Validates, GivesUp, Registered, Acknowledges, AckReturns, Unverified,
    Cleanup, CleansUp, ProviderStarts, ProviderMoves, ReplyOwed, ReplySent,
    PollBegins, NextRecord, PollEnds, PollTakes, PollAsks, Proceed, PollOpens,
    DeliveryReads, DeliverySends, Out, SendFails, DeliveryCancelled, Slips,
    StopSignals, StopLists, StopFails, StopStops, StopEnds, Shutdown, Restart,
    PassFails, vars, launching, ledger, polling, stopping, history, endings, bounds

\* The poll keeps its type.
LEMMA KeepsPoll ==
  ASSUME TypeOK, [Next]_vars
  PROVE  PollOK'
<1>1. CASE PollBegins
  <2>1. ASSUME NEW l \in records
        PROVE  <<l, l \in staged>> \in Launches \X BOOLEAN
    <3>1. (l \in staged) \in BOOLEAN
      OBVIOUS
    <3>2. l \in Launches
      BY <2>1 DEF TypeOK, LedgerOK
    <3> QED
      BY <3>1, <3>2
  <2>2. todo' \subseteq Launches \X BOOLEAN
    BY <1>1, <2>1 DEF PollBegins, Listed
  <2> QED
    BY <1>1, <2>2 DEF PollBegins, NextRecord, PollOK, TypeOK, InDelivery
<1>2. CASE PollEnds
  BY <1>2 DEF PollEnds, PollOK, LedgerOK, TypeOK, InDelivery, polling
<1>3. ASSUME NEW e \in todo, PollTakes(e)
      PROVE  PollOK'
  BY <1>3 DEF PollTakes, PollOK, LedgerOK, TypeOK, InDelivery, polling
<1>4. CASE PollAsks
  BY <1>4 DEF PollAsks, NextRecord, Proceed, Fault, PollOK, LedgerOK, TypeOK,
    InDelivery, polling
<1>5. CASE PollClears
  BY <1>5 DEF PollClears, NextRecord, PassFails, Fault, PollOK, LedgerOK,
    TypeOK, InDelivery, polling
<1>6. CASE PollStages
  BY <1>6 DEF PollStages, Stages, Proceed, PassFails, Fault, PollOK, LedgerOK,
    TypeOK, InDelivery, polling
<1>7. CASE PollOpens
  BY <1>7 DEF PollOpens, NoticesAllowed, Proceed, NextRecord, PollOK,
    LedgerOK, TypeOK, InDelivery, polling
<1>8. CASE DeliveryReads
  BY <1>8 DEF DeliveryReads, StillWanted, Proceed, NextRecord, PollOK,
    LedgerOK, TypeOK, InDelivery, polling
<1>9. CASE DeliverySends
  BY <1>9 DEF DeliverySends, Out, Proceed, SendFails, NextRecord, Fault,
    PollOK, LedgerOK, TypeOK, InDelivery, polling
<1>10. CASE DeliveryEnds
  BY <1>10 DEF DeliveryEnds, DeliveryRecords, Removes, Slips, PassFails,
    NextRecord, Fault, PollOK, LedgerOK, TypeOK, InDelivery, polling
<1>11. CASE DeliveryCancelled
  BY <1>11 DEF DeliveryCancelled, NextRecord, Slips, PollOK, LedgerOK, TypeOK,
    InDelivery, polling
<1>12. CASE StopSignals
  BY <1>12 DEF StopSignals, KillsLaunches, SignalsDelivery, PollOK, LedgerOK,
    TypeOK, InDelivery, polling
<1>13. CASE Restart
  BY <1>13 DEF Restart, PassFails, Slips, Settled, Falses, Zeroes, PollOK,
    LedgerOK, TypeOK, InDelivery, polling
<1>14. CASE UNCHANGED <<poll, todo, cur, notice, dkilled>>
  BY <1>14 DEF PollOK, LedgerOK, TypeOK, InDelivery
<1> QED
  BY <1>1, <1>2, <1>3, <1>4, <1>5, <1>6, <1>7, <1>8, <1>9, <1>10, <1>11,
    <1>12, <1>13, <1>14 DEF Next, LaunchStep, PollStep, StopStep,
    LaunchBegins, LaunchStarts, Goto, Ends, HandshakeReturns, HandshakeFails,
    Fault, LaunchLogs, LaunchUnclaimed, ProviderStops, Validates, GivesUp,
    Admits, Registered, Acknowledges, AckReturns, Unverified, Cleanup,
    CleansUp, Forgets, Removes, Charges, ProviderStarts, ProviderMoves,
    ReplyOwed, ReplySent, StopLists, StopFails, StopStops, StopDrops,
    StopEnds, Shutdown, vars, launching, ledger, polling, stopping, history, endings,
    bounds

\* /stop keeps its type.
LEMMA KeepsStop ==
  ASSUME TypeOK, [Next]_vars
  PROVE  StopOK'
<1>1. CASE StopSignals
  BY <1>1 DEF StopSignals, KillsLaunches, SignalsDelivery, StopOK, LedgerOK,
    TypeOK, stopping
<1>2. CASE StopLists
  BY <1>2 DEF StopLists, AdmissionFree, LaunchesSettled, StopOK, LedgerOK,
    TypeOK, stopping
<1>3. CASE StopFails
  BY <1>3 DEF StopFails, AdmissionFree, LaunchesSettled, Fault, StopOK,
    LedgerOK, TypeOK, stopping
<1>4. ASSUME NEW l \in Launches, StopStops(l)
      PROVE  StopOK'
  BY <1>4 DEF StopStops, ProviderStops, Fault, StopOK, LedgerOK, TypeOK,
    stopping
<1>5. ASSUME NEW l \in Launches, StopDrops(l)
      PROVE  StopOK'
  BY <1>5 DEF StopDrops, Removes, Fault, StopOK, LedgerOK, TypeOK, stopping
<1>6. CASE StopEnds
  BY <1>6 DEF StopEnds, StopOK, LedgerOK, TypeOK, stopping
<1>7. CASE Restart
  BY <1>7 DEF Restart, PassFails, Slips, Settled, Falses, Zeroes, StopOK,
    LedgerOK, TypeOK, stopping
<1>8. CASE UNCHANGED <<gen, stop, toStop, toDrop>>
  BY <1>8 DEF StopOK, LedgerOK, TypeOK
<1> QED
  BY <1>1, <1>2, <1>3, <1>4, <1>5, <1>6, <1>7, <1>8 DEF Next, LaunchStep,
    PollStep, StopStep, LaunchBegins, LaunchStarts, Goto, Ends,
    HandshakeReturns, HandshakeFails, Fault, LaunchLogs, LaunchUnclaimed,
    ProviderStops, Validates, GivesUp, Admits, Registered, Acknowledges,
    AckReturns, Unverified, Cleanup, CleansUp, Forgets, Removes, Charges,
    ProviderStarts, ProviderMoves, ReplyOwed, ReplySent, PollBegins,
    NextRecord, PollEnds, PollTakes, PollAsks, Proceed, PollClears, PassFails,
    PollStages, Stages, PollOpens, DeliveryReads, DeliverySends, Out,
    SendFails, DeliveryEnds, DeliveryRecords, Slips, DeliveryCancelled,
    Shutdown, vars, launching, ledger, polling, stopping, history, endings, bounds

\* The history variables keep their type.
LEMMA KeepsHistory ==
  ASSUME TypeOK, [Next]_vars
  PROVE  HistoryOK'
<1>1. ASSUME NEW l \in Launches, HandshakeFails(l)
      PROVE  HistoryOK'
  BY <1>1 DEF HandshakeFails, Ends, Fault, HistoryOK, StopOK, TypeOK, history, endings
<1>2. ASSUME NEW l \in Launches, LaunchUnclaimed(l)
      PROVE  HistoryOK'
  BY <1>2 DEF LaunchUnclaimed, Ends, Fault, ProviderStops, HistoryOK, StopOK,
    TypeOK, history, endings
<1>3. ASSUME NEW l \in Launches, Validates(l)
      PROVE  HistoryOK'
  BY <1>3 DEF Validates, Goto, Ends, Fault, GivesUp, Overtaken, HistoryOK,
    StopOK, TypeOK, history, endings
<1>4. ASSUME NEW l \in Launches, Admits(l)
      PROVE  HistoryOK'
  BY <1>4 DEF Admits, Goto, Ends, Fault, GivesUp, Writable, Overtaken,
    AdmissionFree, HistoryOK, StopOK, TypeOK, history, endings
<1>5. ASSUME NEW l \in Launches, Registered(l)
      PROVE  HistoryOK'
  BY <1>5 DEF Registered, Goto, Ends, GivesUp, HistoryOK, StopOK, TypeOK,
    history, endings
<1>6. ASSUME NEW l \in Launches, Acknowledges(l)
      PROVE  HistoryOK'
  BY <1>6 DEF Acknowledges, Goto, Ends, Fault, HistoryOK, StopOK, TypeOK,
    history, endings
<1>7. ASSUME NEW l \in Launches, Unverified(l)
      PROVE  HistoryOK'
  BY <1>7 DEF Unverified, Goto, Ends, GivesUp, HistoryOK, StopOK, TypeOK,
    history, endings
<1>8. ASSUME NEW l \in Launches, Cleanup(l)
      PROVE  HistoryOK'
  BY <1>8 DEF Cleanup, Goto, Ends, Fault, CleansUp, ProviderStops, HistoryOK,
    StopOK, TypeOK, history, endings
<1>9. ASSUME NEW l \in Launches, Forgets(l)
      PROVE  HistoryOK'
  BY <1>9 DEF Forgets, Ends, Fault, Removes, Charges, HistoryOK, StopOK,
    TypeOK, history, endings
<1>10. CASE DeliverySends
  BY <1>10 DEF DeliverySends, Out, Proceed, SendFails, NextRecord, Fault,
    HistoryOK, StopOK, TypeOK, history, endings
<1>11. CASE DeliveryEnds
  BY <1>11 DEF DeliveryEnds, DeliveryRecords, Removes, Slips, PassFails,
    NextRecord, Fault, HistoryOK, StopOK, TypeOK, history, endings
<1>12. CASE DeliveryCancelled
  BY <1>12 DEF DeliveryCancelled, NextRecord, Slips, HistoryOK, StopOK,
    TypeOK, history, endings
<1>13. CASE StopFails
  BY <1>13 DEF StopFails, AdmissionFree, LaunchesSettled, Fault, HistoryOK,
    StopOK, TypeOK, LedgerOK, history, endings
<1>14. ASSUME NEW l \in Launches, StopStops(l)
      PROVE  HistoryOK'
  BY <1>14 DEF StopStops, ProviderStops, Fault, HistoryOK, StopOK, TypeOK,
    history, endings
<1>15. ASSUME NEW l \in Launches, StopDrops(l)
      PROVE  HistoryOK'
  BY <1>15 DEF StopDrops, Removes, Fault, HistoryOK, StopOK, TypeOK, history, endings
<1>16. CASE Restart
  BY <1>16 DEF Restart, PassFails, Slips, AtWork, Settled, Falses, Zeroes, HistoryOK,
    StopOK, TypeOK, history, endings
<1>17. CASE StopSignals
  BY <1>17 DEF StopSignals, AtWork, HistoryOK, TypeOK
<1>18. CASE Shutdown
  BY <1>18 DEF Shutdown, AtWork, HistoryOK, TypeOK
<1>19. CASE UNCHANGED <<sends, slips, dismissed, shed, kept, disowned, acked, endings>>
  BY <1>19 DEF HistoryOK, StopOK, TypeOK, endings
<1> QED
  BY <1>1, <1>2, <1>3, <1>4, <1>5, <1>6, <1>7, <1>8, <1>9, <1>10, <1>11,
    <1>12, <1>13, <1>14, <1>15, <1>16, <1>17, <1>18, <1>19 DEF Next, LaunchStep, PollStep,
    StopStep, LaunchBegins, LaunchStarts, Goto, Ends, HandshakeReturns,
    LaunchLogs, Fault, AckReturns, ProviderStarts, ProviderMoves, ReplyOwed,
    ReplySent, PollBegins, NextRecord, PollEnds, PollTakes, PollAsks, Proceed,
    PollClears, PassFails, PollStages, Stages, PollOpens, DeliveryReads,
    StopLists, StopEnds, vars, launching, ledger,
    polling, stopping, history, endings, bounds

\* The bounds hold.
LEMMA KeepsBounds ==
  ASSUME TypeOK, [Next]_vars
  PROVE  BoundsOK'
<1>1. ASSUME NEW l \in Launches, HandshakeFails(l)
      PROVE  BoundsOK'
  BY <1>1, DetachedAssumption DEF HandshakeFails, Ends, Fault, BoundsOK,
    TypeOK, bounds
<1>2. ASSUME NEW l \in Launches, LaunchLogs(l)
      PROVE  BoundsOK'
  BY <1>2, DetachedAssumption DEF LaunchLogs, Goto, Fault, BoundsOK, TypeOK,
    bounds
<1>3. ASSUME NEW l \in Launches, LaunchUnclaimed(l)
      PROVE  BoundsOK'
  BY <1>3, DetachedAssumption DEF LaunchUnclaimed, Ends, Fault, ProviderStops,
    BoundsOK, TypeOK, bounds
<1>4. ASSUME NEW l \in Launches, Validates(l)
      PROVE  BoundsOK'
  BY <1>4, DetachedAssumption DEF Validates, Goto, Ends, Fault, GivesUp,
    Overtaken, BoundsOK, TypeOK, bounds
<1>5. ASSUME NEW l \in Launches, Admits(l)
      PROVE  BoundsOK'
  BY <1>5, DetachedAssumption DEF Admits, Goto, Ends, Fault, GivesUp,
    Writable, Overtaken, AdmissionFree, BoundsOK, TypeOK, bounds
<1>6. ASSUME NEW l \in Launches, Acknowledges(l)
      PROVE  BoundsOK'
  BY <1>6, DetachedAssumption DEF Acknowledges, Goto, Ends, Fault, BoundsOK,
    TypeOK, bounds
<1>7. ASSUME NEW l \in Launches, Cleanup(l)
      PROVE  BoundsOK'
  BY <1>7, DetachedAssumption DEF Cleanup, Goto, Ends, Fault, CleansUp,
    ProviderStops, BoundsOK, TypeOK, bounds
<1>8. ASSUME NEW l \in Launches, Forgets(l)
      PROVE  BoundsOK'
  BY <1>8, DetachedAssumption DEF Forgets, Ends, Fault, Removes, Charges,
    BoundsOK, TypeOK, bounds
<1>9. ASSUME NEW l \in Launches, ProviderMoves(l)
      PROVE  BoundsOK'
  BY <1>9, DetachedAssumption DEF ProviderMoves, BoundsOK, TypeOK, bounds
<1>10. CASE ReplyOwed
  BY <1>10, DetachedAssumption DEF ReplyOwed, BoundsOK, TypeOK, bounds
<1>11. CASE PollAsks
  BY <1>11, DetachedAssumption DEF PollAsks, NextRecord, Proceed, Fault,
    BoundsOK, TypeOK, bounds
<1>12. CASE PollClears
  BY <1>12, DetachedAssumption DEF PollClears, NextRecord, PassFails, Fault,
    BoundsOK, TypeOK, bounds
<1>13. CASE PollStages
  BY <1>13, DetachedAssumption DEF PollStages, Stages, Proceed, PassFails,
    Fault, BoundsOK, TypeOK, bounds
<1>14. CASE DeliverySends
  BY <1>14, DetachedAssumption DEF DeliverySends, Out, Proceed, SendFails,
    NextRecord, Fault, BoundsOK, TypeOK, bounds
<1>15. CASE DeliveryEnds
  BY <1>15, DetachedAssumption DEF DeliveryEnds, DeliveryRecords, Removes,
    Slips, PassFails, NextRecord, Fault, BoundsOK, TypeOK, bounds
<1>16. CASE StopSignals
  BY <1>16, DetachedAssumption DEF StopSignals, KillsLaunches,
    SignalsDelivery, BoundsOK, TypeOK, bounds
<1>17. CASE StopFails
  BY <1>17, DetachedAssumption DEF StopFails, AdmissionFree, LaunchesSettled,
    Fault, BoundsOK, TypeOK, bounds
<1>18. ASSUME NEW l \in Launches, StopStops(l)
      PROVE  BoundsOK'
  BY <1>18, DetachedAssumption DEF StopStops, ProviderStops, Fault, BoundsOK,
    TypeOK, bounds
<1>19. ASSUME NEW l \in Launches, StopDrops(l)
      PROVE  BoundsOK'
  BY <1>19, DetachedAssumption DEF StopDrops, Removes, Fault, BoundsOK,
    TypeOK, bounds
<1>20. CASE Restart
  BY <1>20, DetachedAssumption DEF Restart, PassFails, Slips, Settled, Falses,
    Zeroes, BoundsOK, TypeOK, bounds
<1>21. CASE UNCHANGED <<stops, faults, restarts, blocks, owes>>
  BY <1>21 DEF BoundsOK, TypeOK
<1> QED
  BY <1>1, <1>2, <1>3, <1>4, <1>5, <1>6, <1>7, <1>8, <1>9, <1>10, <1>11,
    <1>12, <1>13, <1>14, <1>15, <1>16, <1>17, <1>18, <1>19, <1>20, <1>21 DEF
    Next, LaunchStep, PollStep, StopStep, LaunchBegins, LaunchStarts, Goto,
    Ends, HandshakeReturns, Registered, GivesUp, AckReturns, Unverified,
    ProviderStarts, ReplySent, PollBegins, NextRecord, PollEnds, PollTakes,
    PollOpens, Proceed, DeliveryReads, DeliveryCancelled, Slips, StopLists,
    StopEnds, Shutdown, vars, launching, ledger, polling, stopping, history, endings,
    bounds

\* One step keeps every variable's type.
LEMMA TypeStep ==
  ASSUME TypeOK, [Next]_vars
  PROVE  TypeOK'
<1>1. /\ LaunchesOK' /\ LedgerOK' /\ PollOK' /\ StopOK' /\ HistoryOK' /\ BoundsOK'
  BY KeepsLaunches, KeepsLedger, KeepsPoll, KeepsStop, KeepsHistory, KeepsBounds
<1>2. owed' \in BOOLEAN /\ closing' \in BOOLEAN
  BY ZenonT(60) DEF TypeOK, Next, LaunchStep, PollStep, StopStep, LaunchBegins, LaunchStarts,
    HandshakeReturns, HandshakeFails, LaunchLogs, LaunchUnclaimed, Validates,
    Admits, Registered, Acknowledges, AckReturns, Unverified, Cleanup, Forgets,
    ProviderStarts, ProviderMoves, ReplyOwed, ReplySent, PollBegins, PollEnds,
    PollTakes, PollAsks, PollClears, PollStages, PollOpens, DeliveryReads,
    DeliverySends, DeliveryEnds, DeliveryCancelled, StopSignals, StopLists,
    StopFails, StopStops, StopDrops, StopEnds, Shutdown, Restart, vars
<1> QED
  BY <1>1, <1>2 DEF TypeOK

\* A task that the provider knows stays known, and one that is over stays over.
LEMMA ProviderForward ==
  ASSUME TypeOK, NEW l \in Launches,
         ProviderStops(l) \/ ProviderMoves(l) \/ UNCHANGED provider
  PROVE  /\ \A m \in Launches : /\ provider[m] # "none" <=> provider'[m] # "none"
                                /\ provider[m] \in Over => provider'[m] \in Over
         /\ ProviderStops(l) /\ provider[l] # "none" => provider'[l] \in Over
<1>1. provider \in [Launches -> Running \cup Over \cup {"none"}]
  BY DEF TypeOK, LaunchesOK
<1>2. CASE ProviderStops(l)
  BY <1>1, <1>2 DEF ProviderStops, Running, Over
<1>3. CASE ProviderMoves(l) /\ ~ProviderStops(l)
  BY <1>1, <1>3 DEF ProviderMoves, Running, Over
<1>4. CASE UNCHANGED provider /\ ~ProviderStops(l)
  BY <1>4
<1> QED
  BY <1>2, <1>3, <1>4

\* Where each launch, record and notice is.
LEMMA KeepsProviderInv ==
  ASSUME DetachedInv, [Next]_vars
  PROVE  ProviderInv'
<1>1. ASSUME NEW l \in Launches, NEW k \in Kinds, LaunchBegins(l, k)
      PROVE  ProviderInv'
  <2>1. provider[l] = "none"
    BY <1>1 DEF LaunchBegins, DetachedInv, ProviderInv
  <2>2. /\ l \notin records \cup toStop \cup staged \cup toDrop
        /\ \A e \in todo : e[1] # l
        /\ Checking => cur # l
        /\ poll = "stage" \/ (poll \in InDelivery \cup {"open"} /\ notice = "result") => cur # l
    BY <2>1 DEF DetachedInv, ProviderInv, Over
  <2>3. \A m \in Launches : m # l => provider'[m] = provider[m] /\ pc'[m] = pc[m]
    BY <1>1 DEF LaunchBegins, DetachedInv, TypeOK, LaunchesOK
  <2>4. \/ pc'[l] = "validate" /\ provider'[l] = "running"
        \/ pc'[l] = "queue" /\ provider'[l] = "none"
    BY <1>1, <2>1 DEF LaunchBegins, DetachedInv, TypeOK, LaunchesOK
  <2>5. UNCHANGED <<ledger, polling, stopping>>
    BY <1>1 DEF LaunchBegins
  <2> QED
    BY <2>2, <2>3, <2>4, <2>5 DEF DetachedInv, TypeOK, LaunchesOK, LedgerOK,
      PollOK, StopOK, ProviderInv, DeliveryInv, Checking, Identified, At,
      InDelivery, launching, ledger, polling, stopping
<1>2. ASSUME NEW l \in Launches, LaunchStarts(l)
      PROVE  ProviderInv'
  BY <1>2 DEF LaunchStarts, Goto, Ends, Settled, TurnFree, RunLockFree,
    DetachedInv, TypeOK, LaunchesOK, LedgerOK, PollOK, StopOK, HistoryOK,
    ProviderInv, Checking, Identified, At, InDelivery, Running, Over,
    launching, ledger, polling, stopping
<1>3. ASSUME NEW l \in Launches, HandshakeReturns(l)
      PROVE  ProviderInv'
  BY <1>3 DEF HandshakeReturns, Goto, DetachedInv, TypeOK, LaunchesOK,
    LedgerOK, PollOK, StopOK, HistoryOK, ProviderInv, Checking, Identified,
    At, InDelivery, Running, Over, launching, ledger, polling, stopping
<1>4. ASSUME NEW l \in Launches, HandshakeFails(l)
      PROVE  ProviderInv'
  BY <1>4 DEF HandshakeFails, Ends, Fault, DetachedInv, TypeOK, LaunchesOK,
    LedgerOK, PollOK, StopOK, HistoryOK, ProviderInv, Checking, Identified,
    At, InDelivery, Running, Over, launching, ledger, polling, stopping
<1>5. ASSUME NEW l \in Launches, LaunchLogs(l)
      PROVE  ProviderInv'
  BY <1>5 DEF LaunchLogs, Goto, Fault, DetachedInv, TypeOK, LaunchesOK,
    LedgerOK, PollOK, StopOK, HistoryOK, ProviderInv, Checking, Identified,
    At, InDelivery, Running, Over, launching, ledger, polling, stopping
<1>6. ASSUME NEW l \in Launches, LaunchUnclaimed(l)
      PROVE  ProviderInv'
  <2>1. ProviderStops(l) \/ UNCHANGED provider
    BY <1>6 DEF LaunchUnclaimed
  <2>2. provider' = provider \/ (provider[l] # "none" => provider'[l] \in Over)
    BY <2>1, ProviderForward DEF DetachedInv
  <2>3. \A m \in Launches : /\ provider[m] # "none" <=> provider'[m] # "none"
                            /\ provider[m] \in Over => provider'[m] \in Over
    BY <2>1, ProviderForward DEF DetachedInv
  <2> QED
    BY <1>6, <2>2, <2>3 DEF LaunchUnclaimed, Ends, DetachedInv, TypeOK,
      LaunchesOK, LedgerOK, PollOK, StopOK, ProviderInv, DeliveryInv,
      Checking, Identified, At, InDelivery, launching, ledger, polling,
      stopping
<1>7. ASSUME NEW l \in Launches, Validates(l)
      PROVE  ProviderInv'
  BY <1>7 DEF Validates, Goto, Ends, Fault, GivesUp, Overtaken, DetachedInv,
    TypeOK, LaunchesOK, LedgerOK, PollOK, StopOK, HistoryOK, ProviderInv,
    Checking, Identified, At, InDelivery, Running, Over, launching, ledger,
    polling, stopping
<1>8. ASSUME NEW l \in Launches, Admits(l)
      PROVE  ProviderInv'
  BY <1>8 DEF Admits, Goto, Ends, Fault, GivesUp, Writable, Overtaken,
    AdmissionFree, DetachedInv, TypeOK, LaunchesOK, LedgerOK, PollOK, StopOK,
    HistoryOK, ProviderInv, Checking, Identified, At, InDelivery, Running,
    Over, launching, ledger, polling, stopping
<1>9. ASSUME NEW l \in Launches, Registered(l)
      PROVE  ProviderInv'
  BY <1>9 DEF Registered, Goto, Ends, GivesUp, DetachedInv, TypeOK,
    LaunchesOK, LedgerOK, PollOK, StopOK, HistoryOK, ProviderInv, Checking,
    Identified, At, InDelivery, Running, Over, launching, ledger, polling,
    stopping
<1>10. ASSUME NEW l \in Launches, Acknowledges(l)
      PROVE  ProviderInv'
  BY <1>10 DEF Acknowledges, Goto, Ends, Fault, DetachedInv, TypeOK,
    LaunchesOK, LedgerOK, PollOK, StopOK, HistoryOK, ProviderInv, Checking,
    Identified, At, InDelivery, Running, Over, launching, ledger, polling,
    stopping
<1>11. ASSUME NEW l \in Launches, AckReturns(l)
      PROVE  ProviderInv'
  BY <1>11 DEF AckReturns, Goto, Ends, DetachedInv, TypeOK, LaunchesOK,
    LedgerOK, PollOK, StopOK, HistoryOK, ProviderInv, Checking, Identified,
    At, InDelivery, Running, Over, launching, ledger, polling, stopping
<1>12. ASSUME NEW l \in Launches, Unverified(l)
      PROVE  ProviderInv'
  BY <1>12 DEF Unverified, Goto, Ends, GivesUp, DetachedInv, TypeOK,
    LaunchesOK, LedgerOK, PollOK, StopOK, HistoryOK, ProviderInv, Checking,
    Identified, At, InDelivery, Running, Over, launching, ledger, polling,
    stopping
<1>13. ASSUME NEW l \in Launches, Cleanup(l)
      PROVE  ProviderInv'
  <2>1. ProviderStops(l) \/ UNCHANGED provider
    BY <1>13 DEF Cleanup, CleansUp
  <2>2. provider' = provider \/ (provider[l] # "none" => provider'[l] \in Over)
    BY <2>1, ProviderForward DEF DetachedInv
  <2>3. \A m \in Launches : /\ provider[m] # "none" <=> provider'[m] # "none"
                            /\ provider[m] \in Over => provider'[m] \in Over
    BY <2>1, ProviderForward DEF DetachedInv
  <2>4. \/ pc' = [pc EXCEPT ![l] = "forget"] /\ provider'[l] \in Over
        \/ pc' = [pc EXCEPT ![l] = "done"]
    BY <1>13, ProviderForward
    DEF Cleanup, CleansUp, Goto, Ends, DetachedInv, ProviderInv, Identified, At
  <2>5. UNCHANGED <<ledger, polling, stopping>>
    BY <1>13 DEF Cleanup
  <2>6. \A m \in Launches : \/ pc'[m] = pc[m]
                            \/ pc'[m] = "done"
                            \/ pc'[m] = "forget" /\ m = l /\ provider'[l] \in Over
    BY <2>4 DEF DetachedInv, TypeOK, LaunchesOK
  <2> QED
    BY <1>13, <2>3, <2>5, <2>6 DEF Cleanup, DetachedInv, TypeOK, LaunchesOK,
      LedgerOK, PollOK, StopOK, ProviderInv, DeliveryInv, Checking,
      Identified, At, InDelivery, launching, ledger, polling, stopping
<1>14. ASSUME NEW l \in Launches, Forgets(l)
      PROVE  ProviderInv'
  BY <1>14 DEF Forgets, Ends, Fault, Removes, Charges, DetachedInv, TypeOK,
    LaunchesOK, LedgerOK, PollOK, StopOK, HistoryOK, ProviderInv, Checking,
    Identified, At, InDelivery, Running, Over, launching, ledger, polling,
    stopping
<1>15. ASSUME NEW l \in Launches, ProviderStarts(l)
      PROVE  ProviderInv'
  BY <1>15 DEF ProviderStarts, DetachedInv, TypeOK, LaunchesOK, LedgerOK,
    PollOK, StopOK, HistoryOK, ProviderInv, Checking, Identified, At,
    InDelivery, Running, Over, launching, ledger, polling, stopping
<1>16. ASSUME NEW l \in Launches, ProviderMoves(l)
      PROVE  ProviderInv'
  <2>1. \A m \in Launches : /\ provider[m] # "none" <=> provider'[m] # "none"
                            /\ provider[m] \in Over => provider'[m] \in Over
    BY <1>16, ProviderForward DEF DetachedInv
  <2> QED
    BY <1>16, <2>1 DEF ProviderMoves, history, endings, bounds, DetachedInv, TypeOK,
      LaunchesOK, LedgerOK, PollOK, StopOK, ProviderInv, DeliveryInv,
      Checking, Identified, At, InDelivery, launching, ledger, polling,
      stopping
<1>17. CASE PollBegins
  <2>1. ASSUME NEW e \in Listed
        PROVE  provider[e[1]] # "none" /\ (e[2] => provider[e[1]] \in Over)
    <3>1. PICK l \in records : e = <<l, l \in staged>>
      BY <2>1 DEF Listed
    <3>2. e[1] = l /\ (e[2] => l \in staged)
      BY <3>1
    <3> QED
      BY <3>1, <3>2 DEF DetachedInv, ProviderInv
  <2>2. poll' = "next" /\ todo' = Listed /\ UNCHANGED <<provider, launching, ledger, stopping>>
    BY <1>17 DEF PollBegins, NextRecord
  <2> QED
    BY <2>1, <2>2 DEF DetachedInv, ProviderInv, Checking, InDelivery,
      launching, ledger, stopping
<1>18. CASE PollEnds
  BY <1>18 DEF PollEnds, DetachedInv, TypeOK, LaunchesOK, LedgerOK, PollOK,
    StopOK, HistoryOK, ProviderInv, Checking, Identified, At, InDelivery,
    Running, Over, launching, ledger, polling, stopping
<1>19. ASSUME NEW e \in todo, PollTakes(e)
      PROVE  ProviderInv'
  BY <1>19 DEF PollTakes, DetachedInv, TypeOK, LaunchesOK, LedgerOK, PollOK,
    StopOK, HistoryOK, ProviderInv, Checking, Identified, At, InDelivery,
    Running, Over, launching, ledger, polling, stopping
<1>20. CASE PollAsks
  BY <1>20 DEF PollAsks, NextRecord, Proceed, Fault, DetachedInv, TypeOK,
    LaunchesOK, LedgerOK, PollOK, StopOK, HistoryOK, ProviderInv, Checking,
    Identified, At, InDelivery, Running, Over, launching, ledger, polling,
    stopping
<1>21. CASE PollClears
  BY <1>21 DEF PollClears, NextRecord, PassFails, Fault, DetachedInv, TypeOK,
    LaunchesOK, LedgerOK, PollOK, StopOK, HistoryOK, ProviderInv, Checking,
    Identified, At, InDelivery, Running, Over, launching, ledger, polling,
    stopping
<1>22. CASE PollStages
  BY <1>22 DEF PollStages, Stages, Proceed, PassFails, Fault, DetachedInv,
    TypeOK, LaunchesOK, LedgerOK, PollOK, StopOK, HistoryOK, ProviderInv,
    Checking, Identified, At, InDelivery, Running, Over, launching, ledger,
    polling, stopping
<1>23. CASE PollOpens
  BY <1>23 DEF PollOpens, NoticesAllowed, Proceed, NextRecord, DetachedInv,
    TypeOK, LaunchesOK, LedgerOK, PollOK, StopOK, HistoryOK, ProviderInv,
    Checking, Identified, At, InDelivery, Running, Over, launching, ledger,
    polling, stopping
<1>24. CASE DeliveryReads
  BY <1>24 DEF DeliveryReads, StillWanted, Proceed, NextRecord, DetachedInv,
    TypeOK, LaunchesOK, LedgerOK, PollOK, StopOK, HistoryOK, ProviderInv,
    Checking, Identified, At, InDelivery, Running, Over, launching, ledger,
    polling, stopping
<1>25. CASE DeliverySends
  BY <1>25 DEF DeliverySends, Out, Proceed, SendFails, NextRecord, Fault,
    DetachedInv, TypeOK, LaunchesOK, LedgerOK, PollOK, StopOK, HistoryOK,
    ProviderInv, Checking, Identified, At, InDelivery, Running, Over,
    launching, ledger, polling, stopping
<1>26. CASE DeliveryEnds
  BY <1>26 DEF DeliveryEnds, DeliveryRecords, Removes, Slips, PassFails,
    NextRecord, Fault, DetachedInv, TypeOK, LaunchesOK, LedgerOK, PollOK,
    StopOK, HistoryOK, ProviderInv, Checking, Identified, At, InDelivery,
    Running, Over, launching, ledger, polling, stopping
<1>27. CASE DeliveryCancelled
  BY <1>27 DEF DeliveryCancelled, NextRecord, Slips, DetachedInv, TypeOK,
    LaunchesOK, LedgerOK, PollOK, StopOK, HistoryOK, ProviderInv, Checking,
    Identified, At, InDelivery, Running, Over, launching, ledger, polling,
    stopping
<1>28. CASE StopLists
  BY <1>28 DEF StopLists, AdmissionFree, LaunchesSettled, DetachedInv, TypeOK,
    LaunchesOK, LedgerOK, PollOK, StopOK, HistoryOK, ProviderInv, Checking,
    Identified, At, InDelivery, Running, Over, launching, ledger, polling,
    stopping
<1>29. ASSUME NEW l \in Launches, StopStops(l)
      PROVE  ProviderInv'
  <2>1. ProviderStops(l) \/ UNCHANGED provider
    BY <1>29 DEF StopStops
  <2>2. provider' = provider \/ (provider[l] # "none" => provider'[l] \in Over)
    BY <2>1, ProviderForward DEF DetachedInv
  <2>3. \A m \in Launches : /\ provider[m] # "none" <=> provider'[m] # "none"
                            /\ provider[m] \in Over => provider'[m] \in Over
    BY <2>1, ProviderForward DEF DetachedInv
  <2>4. /\ toStop' \subseteq toStop /\ l \in toStop
        /\ toDrop' = toDrop \/ (toDrop' = toDrop \cup {l} /\ provider'[l] \in Over)
    BY <1>29, ProviderForward DEF StopStops, DetachedInv, ProviderInv
  <2>5. UNCHANGED <<launching, ledger, polling>>
    BY <1>29 DEF StopStops
  <2> QED
    BY <2>3, <2>4, <2>5 DEF DetachedInv, TypeOK, LaunchesOK, LedgerOK, PollOK,
      StopOK, ProviderInv, DeliveryInv, Checking, Identified, At, InDelivery,
      launching, ledger, polling, stopping
<1>30. ASSUME NEW l \in Launches, StopDrops(l)
      PROVE  ProviderInv'
  BY <1>30 DEF StopDrops, Removes, Fault, DetachedInv, TypeOK, LaunchesOK,
    LedgerOK, PollOK, StopOK, HistoryOK, ProviderInv, Checking, Identified,
    At, InDelivery, Running, Over, launching, ledger, polling, stopping
<1>31. CASE Restart
  BY <1>31 DEF Restart, PassFails, Slips, Settled, Falses, Zeroes,
    DetachedInv, TypeOK, LaunchesOK, LedgerOK, PollOK, StopOK, HistoryOK,
    ProviderInv, Checking, Identified, At, InDelivery, Running, Over,
    launching, ledger, polling, stopping
<1>32. CASE UNCHANGED <<provider, pc, records, staged, toStop, toDrop, todo, poll, cur, notice>>
  BY <1>32 DEF DetachedInv, TypeOK, LaunchesOK, LedgerOK, PollOK, StopOK,
    HistoryOK, ProviderInv, Checking, Identified, At, InDelivery, Running,
    Over
<1> QED
  BY <1>1, <1>2, <1>3, <1>4, <1>5, <1>6, <1>7, <1>8, <1>9, <1>10, <1>11,
    <1>12, <1>13, <1>14, <1>15, <1>16, <1>17, <1>18, <1>19, <1>20, <1>21,
    <1>22, <1>23, <1>24, <1>25, <1>26, <1>27, <1>28, <1>29, <1>30, <1>31,
    <1>32 DEF Next, LaunchStep, PollStep, StopStep, ReplyOwed, ReplySent,
    StopSignals, StopFails, Fault, StopEnds, Shutdown, vars, launching,
    ledger, polling, stopping, history, endings, bounds

\* What is gone from the ledger is accounted for.
LEMMA KeepsRecordInv ==
  ASSUME DetachedInv, [Next]_vars
  PROVE  RecordInv'
<1>1. ASSUME NEW l \in Launches, NEW k \in Kinds, LaunchBegins(l, k)
      PROVE  RecordInv'
  BY <1>1 DEF LaunchBegins, DetachedInv, TypeOK, LaunchesOK, LedgerOK, PollOK,
    StopOK, HistoryOK, ProviderInv, RecordInv, DeliveryInv, StopInv, Checking,
    Identified, Unrecorded, At, InDelivery, Running, Over, launching, ledger,
    history, endings
<1>2. ASSUME NEW l \in Launches, LaunchStarts(l)
      PROVE  RecordInv'
  BY <1>2 DEF LaunchStarts, Goto, Ends, Settled, TurnFree, RunLockFree,
    DetachedInv, TypeOK, LaunchesOK, LedgerOK, PollOK, StopOK, HistoryOK,
    ProviderInv, RecordInv, DeliveryInv, StopInv, Checking, Identified,
    Unrecorded, At, InDelivery, Running, Over, launching, ledger, history, endings
<1>3. ASSUME NEW l \in Launches, HandshakeReturns(l)
      PROVE  RecordInv'
  BY <1>3 DEF HandshakeReturns, Goto, DetachedInv, TypeOK, LaunchesOK,
    LedgerOK, PollOK, StopOK, HistoryOK, ProviderInv, RecordInv, DeliveryInv,
    StopInv, Checking, Identified, Unrecorded, At, InDelivery, Running, Over,
    launching, ledger, history, endings
<1>4. ASSUME NEW l \in Launches, HandshakeFails(l)
      PROVE  RecordInv'
  BY <1>4 DEF HandshakeFails, Ends, Fault, DetachedInv, TypeOK, LaunchesOK,
    LedgerOK, PollOK, StopOK, HistoryOK, ProviderInv, RecordInv, DeliveryInv,
    StopInv, Checking, Identified, Unrecorded, At, InDelivery, Running, Over,
    launching, ledger, history, endings
<1>5. ASSUME NEW l \in Launches, LaunchLogs(l)
      PROVE  RecordInv'
  BY <1>5 DEF LaunchLogs, Goto, Fault, DetachedInv, TypeOK, LaunchesOK,
    LedgerOK, PollOK, StopOK, HistoryOK, ProviderInv, RecordInv, DeliveryInv,
    StopInv, Checking, Identified, Unrecorded, At, InDelivery, Running, Over,
    launching, ledger, history, endings
<1>6. ASSUME NEW l \in Launches, LaunchUnclaimed(l)
      PROVE  RecordInv'
  BY <1>6 DEF LaunchUnclaimed, Ends, Fault, ProviderStops, DetachedInv,
    TypeOK, LaunchesOK, LedgerOK, PollOK, StopOK, HistoryOK, ProviderInv,
    RecordInv, DeliveryInv, StopInv, Checking, Identified, Unrecorded, At,
    InDelivery, Running, Over, launching, ledger, history, endings
<1>7. ASSUME NEW l \in Launches, Validates(l)
      PROVE  RecordInv'
  BY <1>7 DEF CancelInv, AtWork, Settled, Validates, Goto, Ends, Fault, GivesUp, Overtaken, DetachedInv,
    TypeOK, LaunchesOK, LedgerOK, PollOK, StopOK, HistoryOK, ProviderInv,
    RecordInv, DeliveryInv, StopInv, Checking, Identified, Unrecorded, At,
    InDelivery, Running, Over, launching, ledger, history, endings
<1>8. ASSUME NEW l \in Launches, Admits(l)
      PROVE  RecordInv'
  BY <1>8 DEF CancelInv, AtWork, Settled, Admits, Goto, Ends, Fault, GivesUp, Writable, Overtaken,
    AdmissionFree, DetachedInv, TypeOK, LaunchesOK, LedgerOK, PollOK, StopOK,
    HistoryOK, ProviderInv, RecordInv, DeliveryInv, StopInv, Checking,
    Identified, Unrecorded, At, InDelivery, Running, Over, launching, ledger,
    history, endings
<1>9. ASSUME NEW l \in Launches, Registered(l)
      PROVE  RecordInv'
  BY <1>9 DEF CancelInv, AtWork, Settled, Overtaken, Registered, Goto, Ends, GivesUp, DetachedInv, TypeOK,
    LaunchesOK, LedgerOK, PollOK, StopOK, HistoryOK, ProviderInv, RecordInv,
    DeliveryInv, StopInv, Checking, Identified, Unrecorded, At, InDelivery,
    Running, Over, launching, ledger, history, endings
<1>10. ASSUME NEW l \in Launches, Acknowledges(l)
      PROVE  RecordInv'
  BY <1>10 DEF Acknowledges, Goto, Ends, Fault, DetachedInv, TypeOK,
    LaunchesOK, LedgerOK, PollOK, StopOK, HistoryOK, ProviderInv, RecordInv,
    DeliveryInv, StopInv, Checking, Identified, Unrecorded, At, InDelivery,
    Running, Over, launching, ledger, history, endings
<1>11. ASSUME NEW l \in Launches, AckReturns(l)
      PROVE  RecordInv'
  BY <1>11 DEF AckReturns, Goto, Ends, DetachedInv, TypeOK, LaunchesOK,
    LedgerOK, PollOK, StopOK, HistoryOK, ProviderInv, RecordInv, DeliveryInv,
    StopInv, Checking, Identified, Unrecorded, At, InDelivery, Running, Over,
    launching, ledger, history, endings
<1>12. ASSUME NEW l \in Launches, Unverified(l)
      PROVE  RecordInv'
  BY <1>12 DEF CancelInv, AtWork, Settled, Overtaken, Unverified, Goto, Ends, GivesUp, DetachedInv, TypeOK,
    LaunchesOK, LedgerOK, PollOK, StopOK, HistoryOK, ProviderInv, RecordInv,
    DeliveryInv, StopInv, Checking, Identified, Unrecorded, At, InDelivery,
    Running, Over, launching, ledger, history, endings
<1>13. ASSUME NEW l \in Launches, Cleanup(l)
      PROVE  RecordInv'
  BY <1>13 DEF Cleanup, Goto, Ends, Fault, CleansUp, ProviderStops,
    DetachedInv, TypeOK, LaunchesOK, LedgerOK, PollOK, StopOK, HistoryOK,
    ProviderInv, RecordInv, DeliveryInv, StopInv, Checking, Identified,
    Unrecorded, At, InDelivery, Running, Over, launching, ledger, history, endings
<1>14. ASSUME NEW l \in Launches, Forgets(l)
      PROVE  RecordInv'
  BY <1>14 DEF Forgets, Ends, Fault, Removes, Charges, DetachedInv, TypeOK,
    LaunchesOK, LedgerOK, PollOK, StopOK, HistoryOK, ProviderInv, RecordInv,
    DeliveryInv, StopInv, Checking, Identified, Unrecorded, At, InDelivery,
    Running, Over, launching, ledger, history, endings
<1>15. ASSUME NEW l \in Launches, ProviderStarts(l)
      PROVE  RecordInv'
  BY <1>15 DEF ProviderStarts, DetachedInv, TypeOK, LaunchesOK, LedgerOK,
    PollOK, StopOK, HistoryOK, ProviderInv, RecordInv, DeliveryInv, StopInv,
    Checking, Identified, Unrecorded, At, InDelivery, Running, Over,
    launching, ledger, history, endings
<1>16. ASSUME NEW l \in Launches, ProviderMoves(l)
      PROVE  RecordInv'
  BY <1>16 DEF ProviderMoves, DetachedInv, TypeOK, LaunchesOK, LedgerOK,
    PollOK, StopOK, HistoryOK, ProviderInv, RecordInv, DeliveryInv, StopInv,
    Checking, Identified, Unrecorded, At, InDelivery, Running, Over,
    launching, ledger, history, endings
<1>17. CASE PollStages
  BY <1>17 DEF PollStages, Stages, Proceed, PassFails, Fault, DetachedInv,
    TypeOK, LaunchesOK, LedgerOK, PollOK, StopOK, HistoryOK, ProviderInv,
    RecordInv, DeliveryInv, StopInv, Checking, Identified, Unrecorded, At,
    InDelivery, Running, Over, launching, ledger, history, endings
<1>18. CASE DeliverySends
  BY <1>18 DEF DeliverySends, Out, Proceed, SendFails, NextRecord, Fault,
    DetachedInv, TypeOK, LaunchesOK, LedgerOK, PollOK, StopOK, HistoryOK,
    ProviderInv, RecordInv, DeliveryInv, StopInv, Checking, Identified,
    Unrecorded, At, InDelivery, Running, Over, launching, ledger, history, endings
<1>19. CASE DeliveryEnds
  BY <1>19 DEF DeliveryEnds, DeliveryRecords, Removes, Slips, PassFails,
    NextRecord, Fault, DetachedInv, TypeOK, LaunchesOK, LedgerOK, PollOK,
    StopOK, HistoryOK, ProviderInv, RecordInv, DeliveryInv, StopInv, Checking,
    Identified, Unrecorded, At, InDelivery, Running, Over, launching, ledger,
    history, endings
<1>20. CASE StopFails
  BY <1>20 DEF StopFails, AdmissionFree, LaunchesSettled, Fault, DetachedInv,
    TypeOK, LaunchesOK, LedgerOK, PollOK, StopOK, HistoryOK, ProviderInv,
    RecordInv, DeliveryInv, StopInv, Checking, Identified, Unrecorded, At,
    InDelivery, Running, Over, launching, ledger, history, endings
<1>21. ASSUME NEW l \in Launches, StopStops(l)
      PROVE  RecordInv'
  BY <1>21 DEF StopStops, ProviderStops, Fault, DetachedInv, TypeOK,
    LaunchesOK, LedgerOK, PollOK, StopOK, HistoryOK, ProviderInv, RecordInv,
    DeliveryInv, StopInv, Checking, Identified, Unrecorded, At, InDelivery,
    Running, Over, launching, ledger, history, endings
<1>22. ASSUME NEW l \in Launches, StopDrops(l)
      PROVE  RecordInv'
  BY <1>22 DEF StopDrops, Removes, Fault, DetachedInv, TypeOK, LaunchesOK,
    LedgerOK, PollOK, StopOK, HistoryOK, ProviderInv, RecordInv, DeliveryInv,
    StopInv, Checking, Identified, Unrecorded, At, InDelivery, Running, Over,
    launching, ledger, history, endings
<1>23. CASE Restart
  BY <1>23 DEF Restart, PassFails, Slips, AtWork, Settled, Falses, Zeroes,
    DetachedInv, TypeOK, LaunchesOK, LedgerOK, PollOK, StopOK, HistoryOK,
    ProviderInv, RecordInv, DeliveryInv, StopInv, Checking, Identified,
    Unrecorded, At, InDelivery, Running, Over, launching, ledger, history, endings
<1>24. CASE StopSignals \/ Shutdown
  BY <1>24 DEF StopSignals, Shutdown, DetachedInv, RecordInv, ledger
<1>25. CASE UNCHANGED <<provider, pc, kind, records, staged, dismissed, shed, sends, kept, disowned,
                        acked, endings>>
  BY <1>25 DEF endings, DetachedInv, TypeOK, LaunchesOK, LedgerOK, PollOK, StopOK,
    HistoryOK, ProviderInv, RecordInv, DeliveryInv, StopInv, Checking,
    Identified, Unrecorded, At, InDelivery, Running, Over
<1> QED
  BY <1>1, <1>2, <1>3, <1>4, <1>5, <1>6, <1>7, <1>8, <1>9, <1>10, <1>11,
    <1>12, <1>13, <1>14, <1>15, <1>16, <1>17, <1>18, <1>19, <1>20, <1>21,
    <1>22, <1>23, <1>24, <1>25 DEF Next, LaunchStep, PollStep, StopStep, ReplyOwed,
    ReplySent, PollBegins, NextRecord, PollEnds, PollTakes, PollAsks, Proceed,
    Fault, PollClears, PassFails, PollOpens, DeliveryReads, DeliveryCancelled,
    Slips, StopLists, StopEnds, vars, launching,
    ledger, polling, stopping, history, endings, bounds

\* A launch is cancelled by whoever met it at work.
LEMMA KeepsCancelInv ==
  ASSUME DetachedInv, [Next]_vars
  PROVE  CancelInv'
<1>0. /\ pc \in [Launches -> At] /\ killed \in [Launches -> BOOLEAN]
      /\ kind \in [Launches -> Kinds \cup {None}] /\ lgen \in [Launches -> Nat] /\ gen \in Nat
      /\ acked \subseteq Launches /\ shed \subseteq Launches
  BY DEF DetachedInv, TypeOK, LaunchesOK, StopOK, HistoryOK
<1>1. ASSUME NEW l \in Launches, NEW k \in Kinds, LaunchBegins(l, k)
      PROVE  CancelInv'
  BY <1>0, <1>1 DEF LaunchBegins, DetachedInv, RecordInv, CancelInv, AtWork, Settled, Overtaken,
    Unrecorded, stopping, history, endings
<1>2. ASSUME NEW l \in Launches, LaunchStarts(l)
      PROVE  CancelInv'
  BY <1>0, <1>2 DEF LaunchStarts, Goto, Ends, DetachedInv, RecordInv, CancelInv,
    AtWork, Settled, Overtaken, Unrecorded, stopping, history, endings
<1>3. ASSUME NEW l \in Launches, HandshakeReturns(l)
      PROVE  CancelInv'
  BY <1>0, <1>3 DEF HandshakeReturns, Goto, DetachedInv, RecordInv, CancelInv,
    AtWork, Settled, Overtaken, Unrecorded, stopping, history, endings
<1>4. ASSUME NEW l \in Launches, HandshakeFails(l)
      PROVE  CancelInv'
  BY <1>0, <1>4 DEF HandshakeFails, Ends, Fault, DetachedInv, RecordInv, CancelInv,
    AtWork, Settled, Overtaken, Unrecorded, stopping, history, endings
<1>5. ASSUME NEW l \in Launches, LaunchLogs(l)
      PROVE  CancelInv'
  BY <1>0, <1>5 DEF LaunchLogs, Goto, Fault, DetachedInv, RecordInv, CancelInv,
    AtWork, Settled, Overtaken, Unrecorded, stopping, history, endings
<1>6. ASSUME NEW l \in Launches, LaunchUnclaimed(l)
      PROVE  CancelInv'
  BY <1>0, <1>6 DEF LaunchUnclaimed, Ends, DetachedInv, RecordInv, CancelInv,
    AtWork, Settled, Overtaken, Unrecorded, stopping, history, endings
<1>7. ASSUME NEW l \in Launches, Validates(l)
      PROVE  CancelInv'
  BY <1>0, <1>7 DEF Validates, Goto, Ends, GivesUp, DetachedInv, RecordInv, CancelInv,
    AtWork, Settled, Overtaken, Unrecorded, stopping, history, endings
<1>8. ASSUME NEW l \in Launches, Admits(l)
      PROVE  CancelInv'
  BY <1>0, <1>8 DEF Admits, Goto, Ends, GivesUp, Writable, DetachedInv, RecordInv, CancelInv,
    AtWork, Settled, Overtaken, Unrecorded, stopping, history, endings
<1>9. ASSUME NEW l \in Launches, Registered(l)
      PROVE  CancelInv'
  BY <1>0, <1>9 DEF Registered, Goto, Ends, GivesUp, DetachedInv, RecordInv, CancelInv,
    AtWork, Settled, Overtaken, Unrecorded, stopping, history, endings
<1>10. ASSUME NEW l \in Launches, Acknowledges(l)
      PROVE  CancelInv'
  BY <1>0, <1>10 DEF Acknowledges, Goto, Ends, DetachedInv, RecordInv, CancelInv,
    AtWork, Settled, Overtaken, Unrecorded, stopping, history, endings
<1>11. ASSUME NEW l \in Launches, AckReturns(l)
      PROVE  CancelInv'
  BY <1>0, <1>11 DEF AckReturns, Goto, Ends, DetachedInv, RecordInv, CancelInv,
    AtWork, Settled, Overtaken, Unrecorded, stopping, history, endings
<1>12. ASSUME NEW l \in Launches, Unverified(l)
      PROVE  CancelInv'
  BY <1>0, <1>12 DEF Unverified, Goto, Ends, GivesUp, DetachedInv, RecordInv, CancelInv,
    AtWork, Settled, Overtaken, Unrecorded, stopping, history, endings
<1>13. ASSUME NEW l \in Launches, Cleanup(l)
      PROVE  CancelInv'
  BY <1>0, <1>13 DEF Cleanup, Goto, Ends, CleansUp, DetachedInv, RecordInv, CancelInv,
    AtWork, Settled, Overtaken, Unrecorded, stopping, history, endings
<1>14. ASSUME NEW l \in Launches, Forgets(l)
      PROVE  CancelInv'
  BY <1>0, <1>14 DEF Forgets, Ends, Charges, DetachedInv, RecordInv, CancelInv,
    AtWork, Settled, Overtaken, Unrecorded, stopping, history, endings
<1>15. CASE StopSignals
  BY <1>0, <1>15 DEF StopSignals, KillsLaunches, DetachedInv, CancelInv, AtWork, Settled, Overtaken
<1>16. CASE Shutdown
  BY <1>0, <1>16 DEF Shutdown, KillsLaunches, stopping, DetachedInv, CancelInv, AtWork, Settled, Overtaken
<1>17. CASE Restart
  BY <1>0, <1>17 DEF Restart, Falses, Zeroes, DetachedInv, CancelInv, AtWork, Settled, Overtaken
<1>18. CASE UNCHANGED <<pc, kind, killed, lgen, gen, shed, acked, interrupted, cutOff>>
  BY <1>18 DEF DetachedInv, CancelInv, AtWork, Settled, Overtaken
<1> QED
  BY <1>1, <1>2, <1>3, <1>4, <1>5, <1>6, <1>7, <1>8, <1>9, <1>10, <1>11, <1>12, <1>13, <1>14, <1>15, <1>16, <1>17, <1>18 DEF
    Next, LaunchStep, PollStep, StopStep, ProviderStarts, ProviderMoves, ReplyOwed,
    ReplySent, PollBegins, PollEnds, PollTakes, PollAsks, PollClears, PollStages,
    PollOpens, DeliveryReads, DeliverySends, DeliveryEnds, DeliveryCancelled,
    StopLists, StopFails, StopStops, StopDrops, StopEnds, vars, launching,
    stopping, history, endings

\* What the delivery holds, and what it has counted.
LEMMA KeepsDeliveryInv ==
  ASSUME DetachedInv, [Next]_vars
  PROVE  DeliveryInv'
<1>1. ASSUME NEW l \in Launches, Admits(l)
      PROVE  DeliveryInv'
  BY <1>1 DEF Admits, Goto, Ends, Fault, GivesUp, Writable, Overtaken,
    AdmissionFree, DetachedInv, TypeOK, LaunchesOK, LedgerOK, PollOK, StopOK,
    HistoryOK, DeliveryInv, RecordInv, StopInv, SentOnce, Checking,
    Unrecorded, InDelivery, ledger, polling, history, endings
<1>2. ASSUME NEW l \in Launches, Forgets(l)
      PROVE  DeliveryInv'
  BY <1>2 DEF Forgets, Ends, Fault, Removes, Charges, DetachedInv, TypeOK,
    LaunchesOK, LedgerOK, PollOK, StopOK, HistoryOK, DeliveryInv, RecordInv,
    StopInv, SentOnce, Checking, Unrecorded, InDelivery, ledger, polling,
    history, endings
<1>3. CASE PollBegins
  BY <1>3 DEF PollBegins, NextRecord, Listed, DetachedInv, TypeOK, LaunchesOK,
    LedgerOK, PollOK, StopOK, HistoryOK, DeliveryInv, RecordInv, StopInv,
    SentOnce, Checking, Unrecorded, InDelivery, ledger, polling, history, endings
<1>4. CASE PollEnds
  BY <1>4 DEF PollEnds, DetachedInv, TypeOK, LaunchesOK, LedgerOK, PollOK,
    StopOK, HistoryOK, DeliveryInv, RecordInv, StopInv, SentOnce, Checking,
    Unrecorded, InDelivery, ledger, polling, history, endings
<1>5. ASSUME NEW e \in todo, PollTakes(e)
      PROVE  DeliveryInv'
  BY <1>5 DEF PollTakes, DetachedInv, TypeOK, LaunchesOK, LedgerOK, PollOK,
    StopOK, HistoryOK, DeliveryInv, RecordInv, StopInv, SentOnce, Checking,
    Unrecorded, InDelivery, ledger, polling, history, endings
<1>6. CASE PollAsks
  BY <1>6 DEF PollAsks, NextRecord, Proceed, Fault, DetachedInv, TypeOK,
    LaunchesOK, LedgerOK, PollOK, StopOK, HistoryOK, DeliveryInv, RecordInv,
    StopInv, SentOnce, Checking, Unrecorded, InDelivery, ledger, polling,
    history, endings
<1>7. CASE PollClears
  BY <1>7 DEF PollClears, NextRecord, PassFails, Fault, DetachedInv, TypeOK,
    LaunchesOK, LedgerOK, PollOK, StopOK, HistoryOK, DeliveryInv, RecordInv,
    StopInv, SentOnce, Checking, Unrecorded, InDelivery, ledger, polling,
    history, endings
<1>8. CASE PollStages
  BY <1>8 DEF PollStages, Stages, Proceed, PassFails, Fault, DetachedInv,
    TypeOK, LaunchesOK, LedgerOK, PollOK, StopOK, HistoryOK, DeliveryInv,
    RecordInv, StopInv, SentOnce, Checking, Unrecorded, InDelivery, ledger,
    polling, history, endings
<1>9. CASE PollOpens
  BY <1>9 DEF PollOpens, NoticesAllowed, Proceed, NextRecord, DetachedInv,
    TypeOK, LaunchesOK, LedgerOK, PollOK, StopOK, HistoryOK, DeliveryInv,
    RecordInv, StopInv, SentOnce, Checking, Unrecorded, InDelivery, ledger,
    polling, history, endings
<1>10. CASE DeliveryReads
  BY <1>10 DEF DeliveryReads, StillWanted, Proceed, NextRecord, DetachedInv,
    TypeOK, LaunchesOK, LedgerOK, PollOK, StopOK, HistoryOK, DeliveryInv,
    RecordInv, StopInv, SentOnce, Checking, Unrecorded, InDelivery, ledger,
    polling, history, endings
<1>11. CASE DeliverySends
  BY <1>11 DEF DeliverySends, Out, Proceed, SendFails, NextRecord, Fault,
    DetachedInv, TypeOK, LaunchesOK, LedgerOK, PollOK, StopOK, HistoryOK,
    DeliveryInv, RecordInv, StopInv, SentOnce, Checking, Unrecorded,
    InDelivery, ledger, polling, history, endings
<1>12. CASE DeliveryEnds
  BY <1>12 DEF DeliveryEnds, DeliveryRecords, Removes, Slips, PassFails,
    NextRecord, Fault, DetachedInv, TypeOK, LaunchesOK, LedgerOK, PollOK,
    StopOK, HistoryOK, DeliveryInv, RecordInv, StopInv, SentOnce, Checking,
    Unrecorded, InDelivery, ledger, polling, history, endings
<1>13. CASE DeliveryCancelled
  BY <1>13 DEF DeliveryCancelled, NextRecord, Slips, DetachedInv, TypeOK,
    LaunchesOK, LedgerOK, PollOK, StopOK, HistoryOK, DeliveryInv, RecordInv,
    StopInv, SentOnce, Checking, Unrecorded, InDelivery, ledger, polling,
    history, endings
<1>14. ASSUME NEW l \in Launches, StopDrops(l)
      PROVE  DeliveryInv'
  BY <1>14 DEF StopDrops, Removes, Fault, DetachedInv, TypeOK, LaunchesOK,
    LedgerOK, PollOK, StopOK, HistoryOK, DeliveryInv, RecordInv, StopInv,
    SentOnce, Checking, Unrecorded, InDelivery, ledger, polling, history, endings
<1>15. CASE Restart
  BY <1>15 DEF Restart, PassFails, Slips, Settled, Falses, Zeroes,
    DetachedInv, TypeOK, LaunchesOK, LedgerOK, PollOK, StopOK, HistoryOK,
    DeliveryInv, RecordInv, StopInv, SentOnce, Checking, Unrecorded,
    InDelivery, ledger, polling, history, endings
<1>16. CASE UNCHANGED <<poll, cur, notice, records, dismissed, shed, sends, slips>>
  BY <1>16 DEF DetachedInv, TypeOK, LaunchesOK, LedgerOK, PollOK, StopOK,
    HistoryOK, DeliveryInv, RecordInv, StopInv, SentOnce, Checking,
    Unrecorded, InDelivery
<1> QED
  BY <1>1, <1>2, <1>3, <1>4, <1>5, <1>6, <1>7, <1>8, <1>9, <1>10, <1>11,
    <1>12, <1>13, <1>14, <1>15, <1>16 DEF Next, LaunchStep, PollStep,
    StopStep, LaunchBegins, LaunchStarts, Goto, Ends, HandshakeReturns,
    HandshakeFails, Fault, LaunchLogs, LaunchUnclaimed, ProviderStops,
    Validates, GivesUp, Registered, Acknowledges, AckReturns, Unverified,
    Cleanup, CleansUp, ProviderStarts, ProviderMoves, ReplyOwed, ReplySent,
    StopSignals, StopLists, StopFails, StopStops, StopEnds, Shutdown, vars,
    launching, ledger, polling, stopping, history, endings, bounds

\* A /stop silences the delivery and leaves nothing that is older.
LEMMA KeepsStopInv ==
  ASSUME DetachedInv, [Next]_vars
  PROVE  StopInv'
<1>1. ASSUME NEW l \in Launches, NEW k \in Kinds, LaunchBegins(l, k)
      PROVE  StopInv'
  BY <1>1 DEF LaunchBegins, DetachedInv, TypeOK, LaunchesOK, LedgerOK, PollOK,
    StopOK, HistoryOK, DeliveryInv, RecordInv, StopInv, Checking, Unrecorded,
    InDelivery, launching, ledger, polling, stopping, history, endings
<1>2. ASSUME NEW l \in Launches, LaunchStarts(l)
      PROVE  StopInv'
  BY <1>2 DEF LaunchStarts, Goto, Ends, Settled, TurnFree, RunLockFree,
    DetachedInv, TypeOK, LaunchesOK, LedgerOK, PollOK, StopOK, HistoryOK,
    DeliveryInv, RecordInv, StopInv, Checking, Unrecorded, InDelivery,
    launching, ledger, polling, stopping, history, endings
<1>3. ASSUME NEW l \in Launches, HandshakeReturns(l)
      PROVE  StopInv'
  BY <1>3 DEF HandshakeReturns, Goto, DetachedInv, TypeOK, LaunchesOK,
    LedgerOK, PollOK, StopOK, HistoryOK, DeliveryInv, RecordInv, StopInv,
    Checking, Unrecorded, InDelivery, launching, ledger, polling, stopping,
    history, endings
<1>4. ASSUME NEW l \in Launches, HandshakeFails(l)
      PROVE  StopInv'
  BY <1>4 DEF HandshakeFails, Ends, Fault, DetachedInv, TypeOK, LaunchesOK,
    LedgerOK, PollOK, StopOK, HistoryOK, DeliveryInv, RecordInv, StopInv,
    Checking, Unrecorded, InDelivery, launching, ledger, polling, stopping,
    history, endings
<1>5. ASSUME NEW l \in Launches, LaunchLogs(l)
      PROVE  StopInv'
  BY <1>5 DEF LaunchLogs, Goto, Fault, DetachedInv, TypeOK, LaunchesOK,
    LedgerOK, PollOK, StopOK, HistoryOK, DeliveryInv, RecordInv, StopInv,
    Checking, Unrecorded, InDelivery, launching, ledger, polling, stopping,
    history, endings
<1>6. ASSUME NEW l \in Launches, LaunchUnclaimed(l)
      PROVE  StopInv'
  BY <1>6 DEF LaunchUnclaimed, Ends, Fault, ProviderStops, DetachedInv,
    TypeOK, LaunchesOK, LedgerOK, PollOK, StopOK, HistoryOK, DeliveryInv,
    RecordInv, StopInv, Checking, Unrecorded, InDelivery, launching, ledger,
    polling, stopping, history, endings
<1>7. ASSUME NEW l \in Launches, Validates(l)
      PROVE  StopInv'
  BY <1>7 DEF Validates, Goto, Ends, Fault, GivesUp, Overtaken, DetachedInv,
    TypeOK, LaunchesOK, LedgerOK, PollOK, StopOK, HistoryOK, DeliveryInv,
    RecordInv, StopInv, Checking, Unrecorded, InDelivery, launching, ledger,
    polling, stopping, history, endings
<1>8. ASSUME NEW l \in Launches, Admits(l)
      PROVE  StopInv'
  BY <1>8 DEF Admits, Goto, Ends, Fault, GivesUp, Writable, Overtaken,
    AdmissionFree, DetachedInv, TypeOK, LaunchesOK, LedgerOK, PollOK, StopOK,
    HistoryOK, DeliveryInv, RecordInv, StopInv, Checking, Unrecorded,
    InDelivery, launching, ledger, polling, stopping, history, endings
<1>9. ASSUME NEW l \in Launches, Registered(l)
      PROVE  StopInv'
  BY <1>9 DEF Registered, Goto, Ends, GivesUp, DetachedInv, TypeOK,
    LaunchesOK, LedgerOK, PollOK, StopOK, HistoryOK, DeliveryInv, RecordInv,
    StopInv, Checking, Unrecorded, InDelivery, launching, ledger, polling,
    stopping, history, endings
<1>10. ASSUME NEW l \in Launches, Acknowledges(l)
      PROVE  StopInv'
  BY <1>10 DEF Acknowledges, Goto, Ends, Fault, DetachedInv, TypeOK,
    LaunchesOK, LedgerOK, PollOK, StopOK, HistoryOK, DeliveryInv, RecordInv,
    StopInv, Checking, Unrecorded, InDelivery, launching, ledger, polling,
    stopping, history, endings
<1>11. ASSUME NEW l \in Launches, AckReturns(l)
      PROVE  StopInv'
  BY <1>11 DEF AckReturns, Goto, Ends, DetachedInv, TypeOK, LaunchesOK,
    LedgerOK, PollOK, StopOK, HistoryOK, DeliveryInv, RecordInv, StopInv,
    Checking, Unrecorded, InDelivery, launching, ledger, polling, stopping,
    history, endings
<1>12. ASSUME NEW l \in Launches, Unverified(l)
      PROVE  StopInv'
  BY <1>12 DEF Unverified, Goto, Ends, GivesUp, DetachedInv, TypeOK,
    LaunchesOK, LedgerOK, PollOK, StopOK, HistoryOK, DeliveryInv, RecordInv,
    StopInv, Checking, Unrecorded, InDelivery, launching, ledger, polling,
    stopping, history, endings
<1>13. ASSUME NEW l \in Launches, Cleanup(l)
      PROVE  StopInv'
  BY <1>13 DEF Cleanup, Goto, Ends, Fault, CleansUp, ProviderStops,
    DetachedInv, TypeOK, LaunchesOK, LedgerOK, PollOK, StopOK, HistoryOK,
    DeliveryInv, RecordInv, StopInv, Checking, Unrecorded, InDelivery,
    launching, ledger, polling, stopping, history, endings
<1>14. ASSUME NEW l \in Launches, Forgets(l)
      PROVE  StopInv'
  BY <1>14 DEF Forgets, Ends, Fault, Removes, Charges, DetachedInv, TypeOK,
    LaunchesOK, LedgerOK, PollOK, StopOK, HistoryOK, DeliveryInv, RecordInv,
    StopInv, Checking, Unrecorded, InDelivery, launching, ledger, polling,
    stopping, history, endings
<1>15. CASE PollBegins
  BY <1>15 DEF PollBegins, NextRecord, Listed, DetachedInv, TypeOK,
    LaunchesOK, LedgerOK, PollOK, StopOK, HistoryOK, DeliveryInv, RecordInv,
    StopInv, Checking, Unrecorded, InDelivery, launching, ledger, polling,
    stopping, history, endings
<1>16. CASE PollEnds
  BY <1>16 DEF PollEnds, DetachedInv, TypeOK, LaunchesOK, LedgerOK, PollOK,
    StopOK, HistoryOK, DeliveryInv, RecordInv, StopInv, Checking, Unrecorded,
    InDelivery, launching, ledger, polling, stopping, history, endings
<1>17. ASSUME NEW e \in todo, PollTakes(e)
      PROVE  StopInv'
  BY <1>17 DEF PollTakes, DetachedInv, TypeOK, LaunchesOK, LedgerOK, PollOK,
    StopOK, HistoryOK, DeliveryInv, RecordInv, StopInv, Checking, Unrecorded,
    InDelivery, launching, ledger, polling, stopping, history, endings
<1>18. CASE PollAsks
  BY <1>18 DEF PollAsks, NextRecord, Proceed, Fault, DetachedInv, TypeOK,
    LaunchesOK, LedgerOK, PollOK, StopOK, HistoryOK, DeliveryInv, RecordInv,
    StopInv, Checking, Unrecorded, InDelivery, launching, ledger, polling,
    stopping, history, endings
<1>19. CASE PollClears
  BY <1>19 DEF PollClears, NextRecord, PassFails, Fault, DetachedInv, TypeOK,
    LaunchesOK, LedgerOK, PollOK, StopOK, HistoryOK, DeliveryInv, RecordInv,
    StopInv, Checking, Unrecorded, InDelivery, launching, ledger, polling,
    stopping, history, endings
<1>20. CASE PollStages
  BY <1>20 DEF PollStages, Stages, Proceed, PassFails, Fault, DetachedInv,
    TypeOK, LaunchesOK, LedgerOK, PollOK, StopOK, HistoryOK, DeliveryInv,
    RecordInv, StopInv, Checking, Unrecorded, InDelivery, launching, ledger,
    polling, stopping, history, endings
<1>21. CASE PollOpens
  BY <1>21 DEF PollOpens, NoticesAllowed, Proceed, NextRecord, DetachedInv,
    TypeOK, LaunchesOK, LedgerOK, PollOK, StopOK, HistoryOK, DeliveryInv,
    RecordInv, StopInv, Checking, Unrecorded, InDelivery, launching, ledger,
    polling, stopping, history, endings
<1>22. CASE DeliveryReads
  BY <1>22 DEF DeliveryReads, StillWanted, Proceed, NextRecord, DetachedInv,
    TypeOK, LaunchesOK, LedgerOK, PollOK, StopOK, HistoryOK, DeliveryInv,
    RecordInv, StopInv, Checking, Unrecorded, InDelivery, launching, ledger,
    polling, stopping, history, endings
<1>23. CASE DeliverySends
  BY <1>23 DEF DeliverySends, Out, Proceed, SendFails, NextRecord, Fault,
    DetachedInv, TypeOK, LaunchesOK, LedgerOK, PollOK, StopOK, HistoryOK,
    DeliveryInv, RecordInv, StopInv, Checking, Unrecorded, InDelivery,
    launching, ledger, polling, stopping, history, endings
<1>24. CASE DeliveryEnds
  BY <1>24 DEF DeliveryEnds, DeliveryRecords, Removes, Slips, PassFails,
    NextRecord, Fault, DetachedInv, TypeOK, LaunchesOK, LedgerOK, PollOK,
    StopOK, HistoryOK, DeliveryInv, RecordInv, StopInv, Checking, Unrecorded,
    InDelivery, launching, ledger, polling, stopping, history, endings
<1>25. CASE DeliveryCancelled
  BY <1>25 DEF DeliveryCancelled, NextRecord, Slips, DetachedInv, TypeOK,
    LaunchesOK, LedgerOK, PollOK, StopOK, HistoryOK, DeliveryInv, RecordInv,
    StopInv, Checking, Unrecorded, InDelivery, launching, ledger, polling,
    stopping, history, endings
<1>26. CASE StopSignals
  BY <1>26 DEF StopSignals, KillsLaunches, SignalsDelivery, DetachedInv,
    TypeOK, LaunchesOK, LedgerOK, PollOK, StopOK, HistoryOK, DeliveryInv,
    RecordInv, StopInv, Checking, Unrecorded, InDelivery, launching, ledger,
    polling, stopping, history, endings
<1>27. CASE StopLists
  BY <1>27 DEF StopLists, AdmissionFree, LaunchesSettled, DetachedInv, TypeOK,
    LaunchesOK, LedgerOK, PollOK, StopOK, HistoryOK, DeliveryInv, RecordInv,
    StopInv, Checking, Unrecorded, InDelivery, launching, ledger, polling,
    stopping, history, endings
<1>28. CASE StopFails
  BY <1>28 DEF StopFails, AdmissionFree, LaunchesSettled, Fault, DetachedInv,
    TypeOK, LaunchesOK, LedgerOK, PollOK, StopOK, HistoryOK, DeliveryInv,
    RecordInv, StopInv, Checking, Unrecorded, InDelivery, launching, ledger,
    polling, stopping, history, endings
<1>29. ASSUME NEW l \in Launches, StopStops(l)
      PROVE  StopInv'
  BY <1>29 DEF StopStops, ProviderStops, Fault, DetachedInv, TypeOK,
    LaunchesOK, LedgerOK, PollOK, StopOK, HistoryOK, DeliveryInv, RecordInv,
    StopInv, Checking, Unrecorded, InDelivery, launching, ledger, polling,
    stopping, history, endings
<1>30. ASSUME NEW l \in Launches, StopDrops(l)
      PROVE  StopInv'
  BY <1>30 DEF StopDrops, Removes, Fault, DetachedInv, TypeOK, LaunchesOK,
    LedgerOK, PollOK, StopOK, HistoryOK, DeliveryInv, RecordInv, StopInv,
    Checking, Unrecorded, InDelivery, launching, ledger, polling, stopping,
    history, endings
<1>31. CASE StopEnds
  BY <1>31 DEF StopEnds, DetachedInv, TypeOK, LaunchesOK, LedgerOK, PollOK,
    StopOK, HistoryOK, DeliveryInv, RecordInv, StopInv, Checking, Unrecorded,
    InDelivery, launching, ledger, polling, stopping, history, endings
<1>32. CASE Restart
  BY <1>32 DEF Restart, PassFails, Slips, Settled, Falses, Zeroes,
    DetachedInv, TypeOK, LaunchesOK, LedgerOK, PollOK, StopOK, HistoryOK,
    DeliveryInv, RecordInv, StopInv, Checking, Unrecorded, InDelivery,
    launching, ledger, polling, stopping, history, endings
<1>33. CASE UNCHANGED <<poll, dkilled, stop, cur, dismissed, kept, pc, records, lgen, gen, toStop, toDrop>>
  BY SMTT(30), <1>33 DEF DetachedInv, TypeOK, LaunchesOK, LedgerOK, PollOK, StopOK,
    HistoryOK, DeliveryInv, RecordInv, StopInv, Checking, Unrecorded,
    InDelivery
<1> QED
  BY <1>1, <1>2, <1>3, <1>4, <1>5, <1>6, <1>7, <1>8, <1>9, <1>10, <1>11,
    <1>12, <1>13, <1>14, <1>15, <1>16, <1>17, <1>18, <1>19, <1>20, <1>21,
    <1>22, <1>23, <1>24, <1>25, <1>26, <1>27, <1>28, <1>29, <1>30, <1>31,
    <1>32, <1>33 DEF Next, LaunchStep, PollStep, StopStep, ProviderStarts,
    ProviderMoves, ReplyOwed, ReplySent, Shutdown, vars, launching, ledger,
    polling, stopping, history, endings, bounds

\* A result is sent once for every removal that did not happen.
LEMMA KeepsSentOnce ==
  ASSUME DetachedInv, [Next]_vars
  PROVE  SentOnce'
<1>1. CASE DeliverySends
  BY <1>1 DEF DeliverySends, Out, Proceed, SendFails, NextRecord, Fault,
    DetachedInv, TypeOK, LaunchesOK, LedgerOK, PollOK, StopOK, HistoryOK,
    DeliveryInv, SentOnce, Checking, InDelivery, history, endings
<1>2. CASE DeliveryEnds
  BY <1>2 DEF DeliveryEnds, DeliveryRecords, Removes, Slips, PassFails,
    NextRecord, Fault, DetachedInv, TypeOK, LaunchesOK, LedgerOK, PollOK,
    StopOK, HistoryOK, DeliveryInv, SentOnce, Checking, InDelivery, history, endings
<1>3. CASE DeliveryCancelled
  BY <1>3 DEF DeliveryCancelled, NextRecord, Slips, DetachedInv, TypeOK,
    LaunchesOK, LedgerOK, PollOK, StopOK, HistoryOK, DeliveryInv, SentOnce,
    Checking, InDelivery, history, endings
<1>4. CASE Restart
  BY <1>4 DEF Restart, PassFails, Slips, Settled, Falses, Zeroes, DetachedInv,
    TypeOK, LaunchesOK, LedgerOK, PollOK, StopOK, HistoryOK, DeliveryInv,
    SentOnce, Checking, InDelivery, history, endings
<1>5. CASE UNCHANGED <<sends, slips>>
  BY <1>5 DEF DetachedInv, TypeOK, LaunchesOK, LedgerOK, PollOK, StopOK,
    HistoryOK, DeliveryInv, SentOnce, Checking, InDelivery
<1> QED
  BY <1>1, <1>2, <1>3, <1>4, <1>5 DEF Next, LaunchStep, PollStep, StopStep,
    LaunchBegins, LaunchStarts, Goto, Ends, HandshakeReturns, HandshakeFails,
    Fault, LaunchLogs, LaunchUnclaimed, ProviderStops, Validates, GivesUp,
    Admits, Registered, Acknowledges, AckReturns, Unverified, Cleanup,
    CleansUp, Forgets, Removes, Charges, ProviderStarts, ProviderMoves,
    ReplyOwed, ReplySent, PollBegins, NextRecord, PollEnds, PollTakes,
    PollAsks, Proceed, PollClears, PassFails, PollStages, Stages, PollOpens,
    DeliveryReads, StopSignals, StopLists, StopFails, StopStops, StopDrops,
    StopEnds, Shutdown, vars, launching, ledger, polling, stopping, history, endings,
    bounds

\* DetachedInv is inductive.
LEMMA InvStep ==
  ASSUME DetachedInv, [Next]_vars
  PROVE  DetachedInv'
<1>1. TypeOK'
  BY TypeStep DEF DetachedInv
<1> QED
  BY <1>1, KeepsProviderInv, KeepsRecordInv, KeepsCancelInv, KeepsDeliveryInv,
    KeepsStopInv, KeepsSentOnce DEF DetachedInv

\* It holds at the start.
LEMMA InvInit ==
  ASSUME Init
  PROVE  DetachedInv
<1>1. TypeOK
  <2>1. LaunchesOK
    BY DEF Init, LaunchesOK, Zeroes, Falses, At
  <2>2. LedgerOK /\ StopOK /\ HistoryOK
    BY DEF Init, LedgerOK, StopOK, HistoryOK, Zeroes
  <2>3. PollOK
    BY DEF Init, PollOK
  <2>4. BoundsOK
    BY DetachedAssumption DEF Init, BoundsOK
  <2> QED
    BY <2>1, <2>2, <2>3, <2>4 DEF Init, TypeOK
<1>2. ProviderInv /\ RecordInv
  BY DEF Init, ProviderInv, RecordInv, Identified, Unrecorded, Checking, InDelivery, Zeroes
<1>3. DeliveryInv /\ StopInv /\ SentOnce
  BY DEF Init, DeliveryInv, StopInv, SentOnce, Checking, InDelivery, Zeroes
<1>4. CancelInv
  BY DEF Init, CancelInv, AtWork, Settled, Zeroes, Falses
<1> QED
  BY <1>1, <1>2, <1>3, <1>4 DEF DetachedInv

\* The invariant of background tasks holds, however their launches, the poll,
\* /stop, failures and restarts interleave (backends_bot/base.py).
THEOREM DetachedAlways == Spec => []DetachedInv
<1>1. Init => DetachedInv
  BY InvInit
<1>2. DetachedInv /\ [Next]_vars => DetachedInv'
  BY InvStep
<1> QED
  BY <1>1, <1>2, PTL DEF Spec

\* Every variable keeps its type.
THEOREM DetachedTypes == Spec => []TypeOK
<1>1. DetachedInv => TypeOK
  BY DEF DetachedInv
<1> QED
  BY <1>1, DetachedAlways, PTL

\* Of the tasks whose launch is over, those the bot gives up in silence, running
\* and in no record, are exactly of one sort: found by the foreground run, with a
\* registration that a /stop or a shutdown met (_launch_result_detached_tasks).
\* Any other is in the ledger, or the provider or the file refused, or it was
\* told or logged, or the process had no id for it.  And a promised result is
\* awaited, was sent or was withdrawn by a /stop, except that of a /bg whose
\* message was on its way when a shutdown met it (_cleanup_cancelled_detached_launch).
THEOREM TasksAccounted == Spec => []Accounted
<1>1. DetachedInv => RunsKnown
  BY DEF DetachedInv, RecordInv, RunsKnown
<1>2. DetachedInv => PromisesHold
  <2> SUFFICES ASSUME DetachedInv, NEW l \in acked
               PROVE  \/ l \in records \cup dismissed \/ sends[l] > 0
                      \/ kind[l] = "bg" /\ l \in shed \cap cutOff
    BY DEF PromisesHold
  <2> QED
    BY DEF DetachedInv, TypeOK, HistoryOK, RecordInv, CancelInv
<1> QED
  BY <1>1, <1>2, DetachedAlways, PTL DEF Accounted

\* A /stop leaves no record that is older than itself, but for refusals
\* (_cancel_detached_tasks_locked, the generation check in
\* _register_detached_task).
THEOREM StopForgets == Spec => []StopForgetsAll
<1>1. DetachedInv => StopForgetsAll
  BY DEF DetachedInv, StopInv, StopForgetsAll
<1> QED
  BY <1>1, DetachedAlways, PTL

\* The two together: but for those exceptions the ledger knows what is the
\* bot's, and it lists nothing that an unrefused /stop should have removed.
THEOREM LedgerTrue == Spec => []LedgerIsTrue
<1>1. Accounted /\ StopForgetsAll => LedgerIsTrue
  BY DEF LedgerIsTrue
<1> QED
  BY <1>1, TasksAccounted, StopForgets, PTL

\* A result is sent again only when its record could not be removed after it
\* was sent (_deliver_detached_task).
THEOREM ResultSentOnce == Spec => []SentOnce
<1>1. DetachedInv => SentOnce
  BY SMTT(30) DEF DetachedInv
<1> QED
  BY <1>1, DetachedAlways, PTL

\* One step begins no notice during a /stop, and sends no withdrawn result.
LEMMA SilentStep ==
  ASSUME DetachedInv, [Next]_vars
  PROVE  /\ poll' = "sending" /\ poll # "sending" => stop = "idle"
         /\ \A l \in dismissed \ kept : sends'[l] = sends[l]
<1>1. CASE DeliveryReads
  BY <1>1 DEF DeliveryReads, NextRecord, Proceed, history, endings, DetachedInv, StopInv, InDelivery,
    TypeOK, StopOK
<1>2. CASE DeliverySends
  <2>1. cur \notin dismissed \ kept /\ poll = "sending"
    BY <1>2 DEF DeliverySends, DetachedInv, StopInv
  <2>2. dismissed \subseteq Launches /\ sends \in [Launches -> Nat]
    BY DEF DetachedInv, TypeOK, HistoryOK
  <2> QED
    BY <1>2, <2>1, <2>2 DEF DeliverySends, Out
<1>3. CASE UNCHANGED sends /\ (poll' = poll \/ poll' # "sending")
  BY <1>3
<1> QED
  BY <1>1, <1>2, <1>3 DEF Next, LaunchStep, PollStep, StopStep, LaunchBegins,
    LaunchStarts, Goto, Ends, Settled, TurnFree, RunLockFree,
    HandshakeReturns, HandshakeFails, Fault, LaunchLogs, LaunchUnclaimed,
    ProviderStops, Validates, GivesUp, Overtaken, Admits, Writable,
    AdmissionFree, Registered, Acknowledges, AckReturns, Unverified, Cleanup,
    CleansUp, Forgets, Removes, Charges, ProviderStarts, ProviderMoves,
    ReplyOwed, ReplySent, PollBegins, NextRecord, Listed, PollEnds, PollTakes,
    PollAsks, Proceed, PollClears, PassFails, PollStages, Stages, PollOpens,
    NoticesAllowed, DeliveryEnds, DeliveryRecords, Slips, DeliveryCancelled,
    StopSignals, KillsLaunches, SignalsDelivery, StopLists, LaunchesSettled,
    StopFails, StopStops, StopDrops, StopEnds, Shutdown, Restart, Falses,
    Zeroes, vars, launching, ledger, polling, stopping, history, endings, bounds

\* No notice is begun while /stop is at work, and the result of a task that
\* /stop removed is not sent (_run_detached_delivery, _cancel_user_work).
THEOREM StopIsSilent == Spec => StopSilences
<1>1. DetachedInv /\ [Next]_vars =>
        [/\ poll' = "sending" /\ poll # "sending" => stop = "idle"
         /\ \A l \in dismissed \ kept : sends'[l] = sends[l]]_vars
  BY SilentStep
<1> QED
  BY <1>1, DetachedAlways, PTL DEF Spec, StopSilences

\* A step that moves one task along TaskNotices.
LEMMA PhaseMoves ==
  ASSUME NEW m \in Launches,
         \A x \in Launches : x # m => TaskPhase'[x] = TaskPhase[x],
         \/ TaskPhase'[m] = TaskPhase[m]
         \/ TaskPhase[m] = "new" /\ TaskPhase'[m] = "tracked"
         \/ TaskPhase[m] = "tracked" /\ TaskPhase'[m] = "told"
         \/ TaskPhase[m] = "told" /\ TaskPhase'[m] = "closed"
         \/ TaskPhase[m] \in {"tracked", "told"} /\ TaskPhase'[m] = "withdrawn"
  PROVE  [Abstract!NoticesNext]_TaskPhase
<1>1. TaskPhase' = [TaskPhase EXCEPT ![m] = TaskPhase'[m]]
  BY DEF TaskPhase
<1>2. CASE TaskPhase'[m] = TaskPhase[m]
  BY <1>2 DEF TaskPhase
<1>3. CASE TaskPhase[m] = "new" /\ TaskPhase'[m] = "tracked"
  BY <1>1, <1>3 DEF Abstract!NoticesNext, Abstract!Track, Abstract!Moves
<1>4. CASE TaskPhase[m] = "tracked" /\ TaskPhase'[m] = "told"
  BY <1>1, <1>4 DEF Abstract!NoticesNext, Abstract!Tell, Abstract!Moves
<1>5. CASE TaskPhase[m] = "told" /\ TaskPhase'[m] = "closed"
  BY <1>1, <1>5 DEF Abstract!NoticesNext, Abstract!Close, Abstract!Moves
<1>6. CASE TaskPhase[m] \in {"tracked", "told"} /\ TaskPhase'[m] = "withdrawn"
  BY <1>1, <1>6 DEF Abstract!NoticesNext, Abstract!Withdraw, Abstract!Moves
<1> QED
  BY <1>2, <1>3, <1>4, <1>5, <1>6

\* Every step moves at most one task.
LEMMA NoticesStep ==
  ASSUME DetachedInv, [Next]_vars
  PROVE  [Abstract!NoticesNext]_TaskPhase
<1> DEFINE G == [Abstract!NoticesNext]_TaskPhase
<1>0. /\ sends \in [Launches -> Nat] /\ records \subseteq Launches
      /\ records \cap (dismissed \cup shed) = {}
  BY DEF DetachedInv, TypeOK, HistoryOK, LedgerOK, RecordInv
<1>1. ASSUME NEW l \in Launches, Admits(l)
      PROVE  G
  <2>1. l \notin records \cup dismissed \cup shed /\ sends[l] = 0
    BY <1>1 DEF Admits, DetachedInv, RecordInv, Unrecorded
  <2>2. /\ records' = records \cup {l} \/ records' = records
        /\ UNCHANGED <<sends, dismissed, shed>>
    BY <1>1 DEF Admits, history
  <2>3. \A x \in Launches : x # l => TaskPhase'[x] = TaskPhase[x]
    BY <2>2 DEF TaskPhase
  <2>4. TaskPhase[l] = "new" /\ TaskPhase'[l] \in {"new", "tracked"}
    BY <1>0, <2>1, <2>2 DEF TaskPhase
  <2> QED
    BY <2>3, <2>4, PhaseMoves
<1>2. ASSUME NEW l \in Launches, Forgets(l) \/ StopDrops(l)
      PROVE  G
  <2>1. /\ UNCHANGED sends
        /\ \/ UNCHANGED <<records, dismissed, shed>>
           \/ l \in records /\ records' = records \ {l} /\ dismissed' \cup shed' = dismissed \cup shed \cup {l}
    BY <1>2 DEF Forgets, StopDrops, Removes, Charges, ledger
  <2>2. \A x \in Launches : x # l => TaskPhase'[x] = TaskPhase[x]
    BY <2>1 DEF TaskPhase
  <2>3. \/ TaskPhase'[l] = TaskPhase[l]
        \/ TaskPhase[l] \in {"tracked", "told"} /\ TaskPhase'[l] = "withdrawn"
    BY <1>0, <2>1 DEF TaskPhase
  <2> QED
    BY <2>2, <2>3, PhaseMoves
<1>3. CASE DeliverySends /\ sends' # sends
  <2>1. /\ cur \in Launches /\ sends' = [sends EXCEPT ![cur] = @ + 1]
        /\ cur \in records \cup dismissed \cup shed
        /\ UNCHANGED <<records, dismissed, shed>>
    BY <1>3 DEF DeliverySends, Out, Proceed, SendFails, NextRecord, ledger,
      DetachedInv, DeliveryInv, Checking
  <2>2. \A x \in Launches : x # cur => TaskPhase'[x] = TaskPhase[x]
    BY <1>0, <2>1 DEF TaskPhase
  <2>3. \/ TaskPhase'[cur] = TaskPhase[cur]
        \/ TaskPhase[cur] = "tracked" /\ TaskPhase'[cur] = "told"
    BY <1>0, <2>1 DEF TaskPhase
  <2> QED
    BY <2>1, <2>2, <2>3, PhaseMoves
<1>4. CASE DeliveryEnds /\ records' # records
  <2>1. /\ cur \in Launches /\ cur \in records /\ records' = records \ {cur} /\ sends[cur] > 0
        /\ UNCHANGED <<sends, dismissed, shed>>
    BY <1>0, <1>4 DEF DeliveryEnds, DeliveryRecords, Removes, ledger, DetachedInv, DeliveryInv
  <2>2. \A x \in Launches : x # cur => TaskPhase'[x] = TaskPhase[x]
    BY <2>1 DEF TaskPhase
  <2>3. TaskPhase[cur] = "told" /\ TaskPhase'[cur] = "closed"
    BY <1>0, <2>1 DEF TaskPhase
  <2> QED
    BY <2>1, <2>2, <2>3, PhaseMoves
<1>5. CASE UNCHANGED <<records, dismissed, shed, sends>>
  BY <1>5 DEF TaskPhase
<1> QED
  BY ZenonT(60), <1>1, <1>2, <1>3, <1>4, <1>5 DEF Next, LaunchStep, PollStep, StopStep,
    LaunchBegins, LaunchStarts, Goto, Ends, Settled, TurnFree, RunLockFree,
    HandshakeReturns, HandshakeFails, Fault, LaunchLogs, LaunchUnclaimed,
    ProviderStops, Validates, GivesUp, Overtaken, Registered, Acknowledges,
    AckReturns, Unverified, Cleanup, CleansUp, ProviderStarts, ProviderMoves,
    ReplyOwed, ReplySent, PollBegins, NextRecord, Listed, PollEnds, PollTakes,
    PollAsks, Proceed, PollClears, PassFails, PollStages, Stages, PollOpens,
    NoticesAllowed, DeliveryReads, StillWanted, DeliverySends, Out, SendFails,
    DeliveryEnds, DeliveryRecords, Removes, Slips, DeliveryCancelled,
    StopSignals, KillsLaunches, SignalsDelivery, StopLists, AdmissionFree,
    LaunchesSettled, StopFails, StopStops, StopEnds, Shutdown, Restart,
    Falses, Zeroes, vars, launching, ledger, polling, stopping, history, endings,
    bounds

\* The ledger implements TaskNotices (_register_detached_task,
\* _deliver_detached_task, _cancel_detached_tasks).
THEOREM NoticesKept == Spec => KeepsNotices
<1>1. Init => Abstract!NoticesInit
  BY DEF Init, Abstract!NoticesInit, TaskPhase, Zeroes
<1>2. DetachedInv /\ [Next]_vars => [Abstract!NoticesNext]_TaskPhase
  BY NoticesStep
<1> QED
  BY <1>1, <1>2, DetachedAlways, PTL DEF Spec, KeepsNotices, Abstract!Notices
===============================================================================
