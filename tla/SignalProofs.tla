---------------------------- MODULE SignalProofs ----------------------------
(***************************************************************************)
(* The invariant of SignalClient: what the bot sends is posted once and    *)
(* never taken for a request, and the connection is accounted for, for any *)
(* number of messages, requests, losses and restarts.                      *)
(***************************************************************************)
EXTENDS SignalClient, TLAPS

\* A notification of a transport that is gone is still one.
LEMMA Marked ==
  ASSUME NEW M, NEW t \in [msg : M, current : BOOLEAN, sub : Nat]
  PROVE  [t EXCEPT !.current = FALSE] \in [msg : M, current : BOOLEAN, sub : Nat]
BY ZenonT(60)

\* Who a lost connection, or an error of its own, reaches.
Raising(S) == \A c \in S : pc[c] \in {"open", "wait", "sub"}

\* The reader sees the end, or a request times out, or a connection is refused:
\* callers S are told, and unless it is theirs alone the transport is gone.
Loss(S, drop) ==
  /\ Raising(S) /\ Raises(S, drop) /\ faults' \in 0..MaxFaults /\ UNCHANGED <<copies, jmem, own, acks>>
  /\ IF drop
     THEN /\ Quiet /\ Pending \subseteq S
          /\ link' = FALSE /\ sub' = 0 /\ subscribed' = FALSE /\ ready' = FALSE /\ offered' = 0 /\ dsubs' = {}
          /\ tasks' = {[t EXCEPT !.current = FALSE] : t \in tasks}
     ELSE UNCHANGED <<link, sub, subscribed, ready, offered, dsubs, tasks>>

LEMMA Losses ==
  ASSUME SignalAssumption, TypeOK, StreamEnds \/ \E c \in Callers : TimesOut(c) \/ OpenFails(c)
  PROVE  \E S \in SUBSET Callers, drop \in BOOLEAN : Loss(S, drop)
<1>1. ASSUME NEW S \in SUBSET Callers, Raising(S), Fault, Disconnects(S)
      PROVE  Loss(S \cup Pending, TRUE) /\ S \cup Pending \in SUBSET Callers
  BY <1>1, SignalAssumption
  DEF SignalAssumption, TypeOK, Loss, Raising, Raises, Fault, Pending, journal, Disconnects
<1>2. ASSUME NEW c \in Callers, pc[c] \in {"open", "wait", "sub"}, Fault, Raises({c}, FALSE),
             UNCHANGED <<link, sub, subscribed, ready, offered, dsubs, tasks>>
      PROVE  Loss({c}, FALSE) /\ {c} \in SUBSET Callers
  BY <1>2, SignalAssumption DEF SignalAssumption, TypeOK, Loss, Raising, Raises, Fault, journal
<1>3. CASE StreamEnds
  BY <1>1, <1>3 DEF StreamEnds, Raising
<1>4. CASE \E c \in Callers : TimesOut(c)
  <2>1. PICK c \in Callers : TimesOut(c)
    BY <1>4
  <2>2. CASE pc[c] = "wait" /\ Disconnects({c})
    BY <1>1, <2>1, <2>2 DEF TimesOut, Raising
  <2>3. CASE /\ pc[c] \in {"sub", "wait"} /\ Raises({c}, FALSE)
             /\ UNCHANGED <<link, sub, subscribed, ready, offered, dsubs, tasks>>
    BY <1>2, <2>1, <2>3 DEF TimesOut
  <2>4. QED
    BY <2>1, <2>2, <2>3 DEF TimesOut
<1>5. CASE \E c \in Callers : OpenFails(c)
  BY <1>2, <1>5 DEF OpenFails
<1>6. QED
  BY <1>3, <1>4, <1>5

\* What becomes of the callers.
LEMMA Raised ==
  ASSUME SignalAssumption, TypeOK, NEW S \in SUBSET Callers, NEW drop \in BOOLEAN, Raising(S),
         Raises(S, drop)
  PROVE  /\ pc' \in [Callers -> Places] /\ answer' \in [Callers -> {"none", "ok", "throttled", "error"}]
         /\ again' \subseteq Callers /\ life' \in Lives
         /\ lock' = (IF lock \in S THEN NoOne ELSE lock)
         /\ sending' = sending \/ (sending' = NoOne /\ sending \in S)
         /\ \A c \in S : pc'[c] \in {"idle", "connect", "done"} /\ answer'[c] = "none"
         /\ \A m \in S \cap Out : pc'[m] = "done"
         /\ \A c \in Callers \ S : answer'[c] = answer[c] /\ (c # Recon => pc'[c] = pc[c])
         /\ pc'[Recon] = IF Recon \in S \/ (drop /\ started /\ ~Stopping /\ pc[Recon] = "idle")
                         THEN "connect" ELSE pc[Recon]
         /\ (Main \notin S => pc'[Main] = pc[Main]) /\ (Main \notin S \/ pc'[Main] = "connect" => life' = life)
         /\ Main \in S /\ life' # life => pc'[Main] = "idle" /\ life' = (IF life = "unsub" THEN "close" ELSE "halt")
         /\ Main \in S /\ life' = life => pc'[Main] = "connect" \/ life = "halt"
         /\ UNCHANGED <<tries, started, account, journal, seen, taken, wire, posted, copies, starts>>
<1> USE SignalAssumption DEF SignalAssumption, TypeOK, Callers, Out, Places, Lives, Raising, Raises,
        AfterError, Ended, Retries
<1>1. pc' \in [Callers -> Places] /\ answer' \in [Callers -> {"none", "ok", "throttled", "error"}]
  OBVIOUS
<1>2. again' \subseteq Callers /\ life' \in Lives
  OBVIOUS
<1>3. /\ lock' = (IF lock \in S THEN NoOne ELSE lock)
      /\ sending' = sending \/ (sending' = NoOne /\ sending \in S)
  OBVIOUS
<1>4. /\ \A c \in S : pc'[c] \in {"idle", "connect", "done"} /\ answer'[c] = "none"
      /\ \A m \in S \cap Out : pc'[m] = "done"
  OBVIOUS
<1>5. \A c \in Callers \ S : answer'[c] = answer[c] /\ (c # Recon => pc'[c] = pc[c])
  OBVIOUS
<1>6. pc'[Recon] = IF Recon \in S \/ (drop /\ started /\ ~Stopping /\ pc[Recon] = "idle")
                  THEN "connect" ELSE pc[Recon]
  OBVIOUS
<1>7. /\ (Main \notin S => pc'[Main] = pc[Main]) /\ (Main \notin S \/ pc'[Main] = "connect" => life' = life)
      /\ Main \in S /\ life' # life => pc'[Main] = "idle" /\ life' = (IF life = "unsub" THEN "close" ELSE "halt")
      /\ Main \in S /\ life' = life => pc'[Main] = "connect" \/ life = "halt"
  BY SMTT(30) DEF Main, Recon
<1>8. QED
  BY <1>1, <1>2, <1>3, <1>4, <1>5, <1>6, <1>7

\* Every step keeps the types.
LEMMA TypeStep ==
  ASSUME SignalAssumption, StoreInv, [Next]_vars
  PROVE  TypeOK'
<1> USE SignalAssumption DEF SignalAssumption, StoreInv, TypeOK, Callers, Out, Places, Lives, Messages
<1>1. CASE UNCHANGED vars
  BY <1>1 DEF vars, rpc, receiving, journal, daemon, inbox
<1>2. CASE \E c \in Callers : Connects(c)
  BY <1>2 DEF Connects, ConnectRest, Subscribing, Requests, Free, Resubscribes, vars, rpc,
    receiving, journal, daemon, inbox
<1>3. CASE \E c \in Callers : Opened(c)
  BY <1>3 DEF Opened, ConnectRest, Subscribing, Requests, Free, Resubscribes, vars, rpc, receiving,
    journal, daemon, inbox
<1>4. CASE \E c \in Callers : Reads(c)
  BY <1>4 DEF Reads, vars, rpc, receiving, journal, daemon, inbox
<1>5. CASE \E c \in Callers : Resubscribed(c)
  BY <1>5 DEF Resubscribed, Requests, Free, DaemonReady, vars, rpc, receiving, journal, daemon, inbox
<1>6. CASE MainReturns
  <2>1. started' \in BOOLEAN /\ subscribed' \in BOOLEAN /\ ready' \in BOOLEAN
    BY <1>6, Zenon DEF MainReturns, vars, rpc, receiving, journal, daemon, inbox
  <2>2. sub' \in Nat /\ life' \in Lives /\ pc' \in [Callers -> Places]
    BY <1>6 DEF MainReturns, vars, rpc, receiving, journal, daemon, inbox
  <2>3. QED
    BY <1>6, <2>1, <2>2 DEF MainReturns, vars, rpc, receiving, journal, daemon, inbox
<1>7. CASE ServicesUp
  BY <1>7 DEF ServicesUp, vars, rpc, receiving, journal, daemon, inbox
<1>8. CASE Halted
  BY ZenonT(60), <1>8 DEF Halted, vars, rpc, receiving, journal, daemon, inbox
<1>9. CASE Closes
  <2>1. jdisk' \subseteq {"text", "timestamp"} \X Out /\ jmem' \subseteq jdisk'
    BY <1>9 DEF Closes, Gone, Stamps, vars, rpc, receiving, journal, daemon, inbox
  <2>2. pc' \in [Callers -> Places] /\ answer' \in [Callers -> {"none", "ok", "throttled", "error"}]
    BY <1>9 DEF Closes, Gone, Stamps, vars, rpc, receiving, journal, daemon, inbox
  <2>3. QED
    BY <1>9, <2>1, <2>2 DEF Closes, Gone, Stamps, vars, rpc, receiving, journal, daemon, inbox
<1>10. CASE \E m \in Out : Journalled(m)
  BY <1>10 DEF Journalled, Remembers, Unstarted, vars, rpc, receiving, journal, daemon, inbox
<1>11. CASE \E m \in Out : TakesSlot(m)
  BY <1>11 DEF TakesSlot, Unstarted, vars, rpc, receiving, journal, daemon, inbox
<1>12. CASE \E m \in Out : SendReturns(m)
  BY <1>12 DEF SendReturns, Unstarted, vars, rpc, receiving, journal, daemon, inbox
<1>13. CASE \E m \in Out : AckSaved(m)
  BY <1>13 DEF AckSaved, Remembers, Unstarted, vars, rpc, receiving, journal, daemon, inbox
<1>14. CASE \E c \in Calls : CallReturns(c)
  BY <1>14 DEF CallReturns, Unstarted, vars, rpc, receiving, journal, daemon, inbox
<1>15. CASE \E t \in tasks : Handles(t)
  BY <1>15 DEF Handles, Current, Echo, vars, rpc, receiving, journal, daemon, inbox
<1>16. CASE Crashes
  <2>1. jdisk' = jdisk /\ jmem' = {}
    BY <1>16 DEF Crashes, Gone, Fault, vars, rpc, receiving, journal, daemon, inbox
  <2>2. pc' \in [Callers -> Places] /\ answer' \in [Callers -> {"none", "ok", "throttled", "error"}]
    BY <1>16 DEF Crashes, Gone, Fault, vars, rpc, receiving, journal, daemon, inbox
  <2>3. taken' \in [Messages -> Nat]
    BY <1>16 DEF Crashes, Gone, Fault, vars, rpc, receiving, journal, daemon, inbox
  <2>4. faults' \in 0..MaxFaults
    BY <1>16 DEF Crashes, Gone, Fault, vars, rpc, receiving, journal, daemon, inbox
  <2>5. QED
    BY <1>16, <2>1, <2>2, <2>3, <2>4 DEF Crashes, Gone, Fault, vars, rpc, receiving, journal, daemon, inbox
<1>17. CASE StreamEnds \/ \E c \in Callers : TimesOut(c) \/ OpenFails(c)
  <2>1. PICK S \in SUBSET Callers, drop \in BOOLEAN : Loss(S, drop)
    BY <1>17, Losses DEF StoreInv
  <2>2. tasks' \subseteq [msg : Messages, current : BOOLEAN, sub : Nat]
    <3>1. \A t \in tasks : [t EXCEPT !.current = FALSE] \in [msg : Messages, current : BOOLEAN, sub : Nat]
      BY Marked
    <3>2. QED
      BY <2>1, <3>1 DEF Loss
  <2>3. link' \in BOOLEAN /\ subscribed' \in BOOLEAN /\ ready' \in BOOLEAN
    BY <2>1, Zenon DEF Loss
  <2>4. sub' \in Nat /\ offered' \in Nat /\ dsubs' \subseteq Nat
    BY <2>1 DEF Loss
  <2>5. QED
    BY <2>1, <2>2, <2>3, <2>4, Raised DEF Loss, inbox, journal, daemon
<1>18. CASE \E c \in Callers : Refuses(c)
  BY <1>18 DEF Refuses, Fault, vars, rpc, receiving, journal, daemon, inbox
<1>19. CASE \E m \in Out : JournalFails(m)
  BY <1>19 DEF JournalFails, Unstarted, Fault, vars, rpc, receiving, journal, daemon, inbox
<1>20. CASE \E m \in Out : Cancelled(m)
  BY <1>20 DEF Cancelled, Remembers, Free, Unstarted, Fault, vars, rpc, receiving, journal, daemon, inbox
<1>21. CASE Starts
  BY <1>21 DEF Starts, vars, rpc, receiving, journal, daemon, inbox
<1>22. CASE Stop
  BY ZenonT(60), <1>22 DEF Stop, vars, rpc, receiving, journal, daemon, inbox
<1>23. CASE \E c \in Callers : Sends(c)
  BY <1>23 DEF Sends, Unstarted, vars, rpc, receiving, journal, daemon, inbox
<1>24. CASE \E c \in Callers : Answers(c)
  <2>1. \/ UNCHANGED <<offered, dsubs>>
        \/ offered' = offered + 1 /\ dsubs' = dsubs \cup {offered'}
    BY <1>24 DEF Answers
  <2>2. answer' \in [Callers -> {"none", "ok", "throttled", "error"}]
    BY <1>24 DEF Answers, vars, rpc, receiving, journal, daemon, inbox
  <2>3. UNCHANGED <<life, rpc, link, receiving, account, journal, inbox, wire, posted, copies, faults, starts>>
    BY <1>24 DEF Answers
  <2>4. offered' \in Nat
    BY <2>1
  <2>5. dsubs' \subseteq Nat
    BY <2>1, <2>4
  <2>6. QED
    BY <2>2, <2>3, <2>4, <2>5 DEF rpc, receiving, journal, inbox
<1>25. CASE \E m \in Out : Posts(m)
  BY <1>25 DEF Posts, vars, rpc, receiving, journal, daemon, inbox
<1>26. CASE \E x \in Messages : Notifies(x)
  <2>1. PICK x \in Messages, s \in dsubs :
          Notifies(x) /\ tasks' = tasks \cup {[msg |-> x, current |-> TRUE, sub |-> s]}
    BY <1>26 DEF Notifies
  <2>2. [msg |-> x, current |-> TRUE, sub |-> s] \in [msg : Messages, current : BOOLEAN, sub : Nat]
    OBVIOUS
  <2>3. copies' \in 0..MaxCopies
    BY <2>1 DEF Notifies
  <2>4. UNCHANGED <<life, rpc, link, receiving, account, journal, seen, taken, answer, offered,
                    dsubs, wire, posted, faults, starts>>
    BY <2>1 DEF Notifies
  <2>5. tasks' \subseteq [msg : Messages, current : BOOLEAN, sub : Nat]
    BY <2>1, <2>2
  <2>6. QED
    BY <2>3, <2>4, <2>5 DEF rpc, receiving, journal
<1>27. QED
  BY <1>1, <1>2, <1>3, <1>4, <1>5, <1>6, <1>7, <1>8, <1>9, <1>10, <1>11, <1>12, <1>13, <1>14, <1>15,
    <1>16, <1>17, <1>18, <1>19, <1>20, <1>21, <1>22, <1>23, <1>24, <1>25, <1>26
  DEF Next, Client, Trouble, Runs

\* Every step leaves the locks with who holds them, and answers with who waits.
LEMMA CallerStep ==
  ASSUME SignalAssumption, StoreInv, [Next]_vars
  PROVE  CallerInv'
<1> USE SignalAssumption DEF SignalAssumption, StoreInv, TypeOK, Callers, Out, CallerInv, Places
<1>1. CASE UNCHANGED vars
  BY <1>1 DEF vars, rpc, receiving, journal, daemon, inbox
<1>2. CASE \E c \in Callers : Connects(c)
  BY <1>2 DEF Connects, ConnectRest, Subscribing, Requests, Free, Resubscribes, vars, rpc,
    receiving, journal, daemon, inbox
<1>3. CASE \E c \in Callers : Opened(c)
  BY <1>3 DEF Opened, ConnectRest, Subscribing, Requests, Free, Resubscribes, vars, rpc, receiving,
    journal, daemon, inbox
<1>4. CASE \E c \in Callers : Reads(c)
  BY <1>4 DEF Reads, vars, rpc, receiving, journal, daemon, inbox
<1>5. CASE \E c \in Callers : Resubscribed(c)
  BY <1>5 DEF Resubscribed, Requests, Free, DaemonReady, vars, rpc, receiving, journal, daemon, inbox
<1>6. CASE MainReturns
  BY <1>6 DEF MainReturns, vars, rpc, receiving, journal, daemon, inbox
<1>7. CASE ServicesUp
  BY <1>7 DEF ServicesUp, vars, rpc, receiving, journal, daemon, inbox
<1>8. CASE Halted
  BY <1>8 DEF Halted, vars, rpc, receiving, journal, daemon, inbox
<1>9. CASE Closes
  BY <1>9 DEF Closes, Gone, Stamps, vars, rpc, receiving, journal, daemon, inbox
<1>10. CASE \E m \in Out : Journalled(m)
  BY <1>10 DEF Journalled, Remembers, Unstarted, vars, rpc, receiving, journal, daemon, inbox
<1>11. CASE \E m \in Out : TakesSlot(m)
  BY <1>11 DEF TakesSlot, Unstarted, vars, rpc, receiving, journal, daemon, inbox
<1>12. CASE \E m \in Out : SendReturns(m)
  BY <1>12 DEF SendReturns, Unstarted, vars, rpc, receiving, journal, daemon, inbox
<1>13. CASE \E m \in Out : AckSaved(m)
  BY <1>13 DEF AckSaved, Remembers, Unstarted, vars, rpc, receiving, journal, daemon, inbox
<1>14. CASE \E c \in Calls : CallReturns(c)
  BY <1>14 DEF CallReturns, Unstarted, vars, rpc, receiving, journal, daemon, inbox
<1>15. CASE \E t \in tasks : Handles(t)
  BY <1>15 DEF Handles, Current, Echo, vars, rpc, receiving, journal, daemon, inbox
<1>16. CASE Crashes
  BY <1>16 DEF Crashes, Gone, Fault, vars, rpc, receiving, journal, daemon, inbox
<1>17. CASE StreamEnds \/ \E c \in Callers : TimesOut(c) \/ OpenFails(c)
  <2>1. PICK S \in SUBSET Callers, drop \in BOOLEAN : Loss(S, drop)
    BY <1>17, Losses DEF StoreInv
  <2>2. QED
    BY <2>1, Raised DEF Loss, Raising, inbox, journal, daemon
<1>18. CASE \E c \in Callers : Refuses(c)
  BY <1>18 DEF Refuses, Fault, vars, rpc, receiving, journal, daemon, inbox
<1>19. CASE \E m \in Out : JournalFails(m)
  BY <1>19 DEF JournalFails, Unstarted, Fault, vars, rpc, receiving, journal, daemon, inbox
<1>20. CASE \E m \in Out : Cancelled(m)
  BY <1>20 DEF Cancelled, Remembers, Free, Unstarted, Fault, vars, rpc, receiving, journal, daemon, inbox
<1>21. CASE Starts
  BY <1>21 DEF Starts, vars, rpc, receiving, journal, daemon, inbox
<1>22. CASE Stop
  BY <1>22 DEF Stop, vars, rpc, receiving, journal, daemon, inbox
<1>23. CASE \E c \in Callers : Sends(c)
  BY <1>23 DEF Sends, Unstarted, vars, rpc, receiving, journal, daemon, inbox
<1>24. CASE \E c \in Callers : Answers(c)
  BY <1>24 DEF Answers, vars, rpc, receiving, journal, daemon, inbox
<1>25. CASE \E m \in Out : Posts(m)
  BY <1>25 DEF Posts, vars, rpc, receiving, journal, daemon, inbox
<1>26. CASE \E x \in Messages : Notifies(x)
  BY <1>26 DEF Notifies, Stopping, vars, rpc, receiving, journal, daemon, inbox
<1>27. QED
  BY <1>1, <1>2, <1>3, <1>4, <1>5, <1>6, <1>7, <1>8, <1>9, <1>10, <1>11, <1>12, <1>13, <1>14, <1>15,
    <1>16, <1>17, <1>18, <1>19, <1>20, <1>21, <1>22, <1>23, <1>24, <1>25, <1>26
  DEF Next, Client, Trouble, Runs

\* Every step keeps account of what the daemon may still post.
LEMMA SendStep ==
  ASSUME SignalAssumption, StoreInv, [Next]_vars
  PROVE  SendInv'
<1> USE SignalAssumption DEF SignalAssumption, StoreInv, TypeOK, Callers, Out, CallerInv, SendInv, Places, Messages
<1>1. CASE UNCHANGED vars
  BY <1>1 DEF vars, rpc, receiving, journal, daemon, inbox
<1>2. CASE \E c \in Callers : Connects(c)
  BY <1>2 DEF Connects, ConnectRest, Subscribing, Requests, Free, Resubscribes, vars, rpc,
    receiving, journal, daemon, inbox
<1>3. CASE \E c \in Callers : Opened(c)
  BY <1>3 DEF Opened, ConnectRest, Subscribing, Requests, Free, Resubscribes, vars, rpc, receiving,
    journal, daemon, inbox
<1>4. CASE \E c \in Callers : Reads(c)
  BY <1>4 DEF Reads, vars, rpc, receiving, journal, daemon, inbox
<1>5. CASE \E c \in Callers : Resubscribed(c)
  BY <1>5 DEF Resubscribed, Requests, Free, DaemonReady, vars, rpc, receiving, journal, daemon, inbox
<1>6. CASE MainReturns
  BY <1>6 DEF MainReturns, vars, rpc, receiving, journal, daemon, inbox
<1>7. CASE ServicesUp
  BY <1>7 DEF ServicesUp, vars, rpc, receiving, journal, daemon, inbox
<1>8. CASE Halted
  BY <1>8 DEF Halted, vars, rpc, receiving, journal, daemon, inbox
<1>9. CASE Closes
  BY <1>9 DEF Closes, Gone, Stamps, vars, rpc, receiving, journal, daemon, inbox
<1>10. CASE \E m \in Out : Journalled(m)
  BY <1>10 DEF Journalled, Remembers, Unstarted, vars, rpc, receiving, journal, daemon, inbox
<1>11. CASE \E m \in Out : TakesSlot(m)
  BY <1>11 DEF TakesSlot, Unstarted, vars, rpc, receiving, journal, daemon, inbox
<1>12. CASE \E m \in Out : SendReturns(m)
  BY <1>12 DEF SendReturns, Unstarted, vars, rpc, receiving, journal, daemon, inbox
<1>13. CASE \E m \in Out : AckSaved(m)
  BY <1>13 DEF AckSaved, Remembers, Unstarted, vars, rpc, receiving, journal, daemon, inbox
<1>14. CASE \E c \in Calls : CallReturns(c)
  BY <1>14 DEF CallReturns, Unstarted, vars, rpc, receiving, journal, daemon, inbox
<1>15. CASE \E t \in tasks : Handles(t)
  BY <1>15 DEF Handles, Current, Echo, vars, rpc, receiving, journal, daemon, inbox
<1>16. CASE Crashes
  BY <1>16 DEF Crashes, Gone, Fault, vars, rpc, receiving, journal, daemon, inbox
<1>17. CASE StreamEnds \/ \E c \in Callers : TimesOut(c) \/ OpenFails(c)
  <2>1. PICK S \in SUBSET Callers, drop \in BOOLEAN : Loss(S, drop)
    BY <1>17, Losses DEF StoreInv
  <2>2. QED
    BY <2>1, Raised DEF Loss, Raising, inbox, journal, daemon
<1>18. CASE \E c \in Callers : Refuses(c)
  BY <1>18 DEF Refuses, Fault, vars, rpc, receiving, journal, daemon, inbox
<1>19. CASE \E m \in Out : JournalFails(m)
  BY <1>19 DEF JournalFails, Unstarted, Fault, vars, rpc, receiving, journal, daemon, inbox
<1>20. CASE \E m \in Out : Cancelled(m)
  BY <1>20 DEF Cancelled, Remembers, Free, Unstarted, Fault, vars, rpc, receiving, journal, daemon, inbox
<1>21. CASE Starts
  BY <1>21 DEF Starts, vars, rpc, receiving, journal, daemon, inbox
<1>22. CASE Stop
  BY <1>22 DEF Stop, vars, rpc, receiving, journal, daemon, inbox
<1>23. CASE \E c \in Callers : Sends(c)
  BY <1>23 DEF Sends, Unstarted, vars, rpc, receiving, journal, daemon, inbox
<1>24. CASE \E c \in Callers : Answers(c)
  BY <1>24 DEF Answers, vars, rpc, receiving, journal, daemon, inbox
<1>25. CASE \E m \in Out : Posts(m)
  BY <1>25 DEF Posts, vars, rpc, receiving, journal, daemon, inbox
<1>26. CASE \E x \in Messages : Notifies(x)
  BY <1>26 DEF Notifies, Stopping, vars, rpc, receiving, journal, daemon, inbox
<1>27. QED
  BY <1>1, <1>2, <1>3, <1>4, <1>5, <1>6, <1>7, <1>8, <1>9, <1>10, <1>11, <1>12, <1>13, <1>14, <1>15,
    <1>16, <1>17, <1>18, <1>19, <1>20, <1>21, <1>22, <1>23, <1>24, <1>25, <1>26
  DEF Next, Client, Trouble, Runs

\* Every step keeps account of what was read and taken.
LEMMA InboxStep ==
  ASSUME SignalAssumption, StoreInv, [Next]_vars
  PROVE  InboxInv'
<1> USE SignalAssumption DEF SignalAssumption, StoreInv, TypeOK, Callers, Out, InboxInv, Messages
<1>1. CASE UNCHANGED vars
  BY <1>1 DEF vars, rpc, receiving, journal, daemon, inbox
<1>2. CASE \E c \in Callers : Connects(c)
  BY <1>2 DEF Connects, ConnectRest, Subscribing, Requests, Free, Resubscribes, vars, rpc,
    receiving, journal, daemon, inbox
<1>3. CASE \E c \in Callers : Opened(c)
  BY <1>3 DEF Opened, ConnectRest, Subscribing, Requests, Free, Resubscribes, vars, rpc, receiving,
    journal, daemon, inbox
<1>4. CASE \E c \in Callers : Reads(c)
  BY <1>4 DEF Reads, vars, rpc, receiving, journal, daemon, inbox
<1>5. CASE \E c \in Callers : Resubscribed(c)
  BY <1>5 DEF Resubscribed, Requests, Free, DaemonReady, vars, rpc, receiving, journal, daemon, inbox
<1>6. CASE MainReturns
  BY <1>6 DEF MainReturns, vars, rpc, receiving, journal, daemon, inbox
<1>7. CASE ServicesUp
  BY <1>7 DEF ServicesUp, vars, rpc, receiving, journal, daemon, inbox
<1>8. CASE Halted
  BY <1>8 DEF Halted, vars, rpc, receiving, journal, daemon, inbox
<1>9. CASE Closes
  BY <1>9 DEF Closes, Gone, Stamps, vars, rpc, receiving, journal, daemon, inbox
<1>10. CASE \E m \in Out : Journalled(m)
  BY <1>10 DEF Journalled, Remembers, Unstarted, vars, rpc, receiving, journal, daemon, inbox
<1>11. CASE \E m \in Out : TakesSlot(m)
  BY <1>11 DEF TakesSlot, Unstarted, vars, rpc, receiving, journal, daemon, inbox
<1>12. CASE \E m \in Out : SendReturns(m)
  BY <1>12 DEF SendReturns, Unstarted, vars, rpc, receiving, journal, daemon, inbox
<1>13. CASE \E m \in Out : AckSaved(m)
  BY <1>13 DEF AckSaved, Remembers, Unstarted, vars, rpc, receiving, journal, daemon, inbox
<1>14. CASE \E c \in Calls : CallReturns(c)
  BY <1>14 DEF CallReturns, Unstarted, vars, rpc, receiving, journal, daemon, inbox
<1>15. CASE \E t \in tasks : Handles(t)
  BY <1>15 DEF Handles, Current, Echo, vars, rpc, receiving, journal, daemon, inbox
<1>16. CASE Crashes
  BY <1>16 DEF Crashes, Gone, Fault, vars, rpc, receiving, journal, daemon, inbox
<1>17. CASE StreamEnds \/ \E c \in Callers : TimesOut(c) \/ OpenFails(c)
  <2>1. PICK S \in SUBSET Callers, drop \in BOOLEAN : Loss(S, drop)
    BY <1>17, Losses DEF StoreInv
  <2>2. \A t \in tasks' : \E u \in tasks : t.msg = u.msg
    BY <2>1 DEF Loss
  <2>3. QED
    BY SMTT(30), <2>1, <2>2, Raised DEF Loss, Raising, CallerInv, inbox, journal, daemon
<1>18. CASE \E c \in Callers : Refuses(c)
  BY <1>18 DEF Refuses, Fault, vars, rpc, receiving, journal, daemon, inbox
<1>19. CASE \E m \in Out : JournalFails(m)
  BY <1>19 DEF JournalFails, Unstarted, Fault, vars, rpc, receiving, journal, daemon, inbox
<1>20. CASE \E m \in Out : Cancelled(m)
  BY <1>20 DEF Cancelled, Remembers, Free, Unstarted, Fault, vars, rpc, receiving, journal, daemon, inbox
<1>21. CASE Starts
  BY <1>21 DEF Starts, vars, rpc, receiving, journal, daemon, inbox
<1>22. CASE Stop
  BY <1>22 DEF Stop, vars, rpc, receiving, journal, daemon, inbox
<1>23. CASE \E c \in Callers : Sends(c)
  BY <1>23 DEF Sends, Unstarted, vars, rpc, receiving, journal, daemon, inbox
<1>24. CASE \E c \in Callers : Answers(c)
  BY <1>24 DEF Answers, vars, rpc, receiving, journal, daemon, inbox
<1>25. CASE \E m \in Out : Posts(m)
  BY <1>25 DEF Posts, vars, rpc, receiving, journal, daemon, inbox
<1>26. CASE \E x \in Messages : Notifies(x)
  BY <1>26 DEF Notifies, Stopping, vars, rpc, receiving, journal, daemon, inbox
<1>27. QED
  BY <1>1, <1>2, <1>3, <1>4, <1>5, <1>6, <1>7, <1>8, <1>9, <1>10, <1>11, <1>12, <1>13, <1>14, <1>15,
    <1>16, <1>17, <1>18, <1>19, <1>20, <1>21, <1>22, <1>23, <1>24, <1>25, <1>26
  DEF Next, Client, Trouble, Runs

\* No step posts or takes a message again.
LEMMA OnceStep ==
  ASSUME SignalAssumption, StoreInv, [Next]_vars
  PROVE  MessagesOnce'
<1> USE SignalAssumption DEF SignalAssumption, StoreInv, TypeOK, Callers, Out, CallerInv, SendInv, InboxInv, MessagesOnce, Messages
<1>1. CASE UNCHANGED vars
  BY <1>1 DEF vars, rpc, receiving, journal, daemon, inbox
<1>2. CASE \E c \in Callers : Connects(c)
  BY <1>2 DEF Connects, ConnectRest, Subscribing, Requests, Free, Resubscribes, vars, rpc,
    receiving, journal, daemon, inbox
<1>3. CASE \E c \in Callers : Opened(c)
  BY <1>3 DEF Opened, ConnectRest, Subscribing, Requests, Free, Resubscribes, vars, rpc, receiving,
    journal, daemon, inbox
<1>4. CASE \E c \in Callers : Reads(c)
  BY <1>4 DEF Reads, vars, rpc, receiving, journal, daemon, inbox
<1>5. CASE \E c \in Callers : Resubscribed(c)
  BY <1>5 DEF Resubscribed, Requests, Free, DaemonReady, vars, rpc, receiving, journal, daemon, inbox
<1>6. CASE MainReturns
  BY <1>6 DEF MainReturns, vars, rpc, receiving, journal, daemon, inbox
<1>7. CASE ServicesUp
  BY <1>7 DEF ServicesUp, vars, rpc, receiving, journal, daemon, inbox
<1>8. CASE Halted
  BY <1>8 DEF Halted, vars, rpc, receiving, journal, daemon, inbox
<1>9. CASE Closes
  BY <1>9 DEF Closes, Gone, Stamps, vars, rpc, receiving, journal, daemon, inbox
<1>10. CASE \E m \in Out : Journalled(m)
  BY <1>10 DEF Journalled, Remembers, Unstarted, vars, rpc, receiving, journal, daemon, inbox
<1>11. CASE \E m \in Out : TakesSlot(m)
  BY <1>11 DEF TakesSlot, Unstarted, vars, rpc, receiving, journal, daemon, inbox
<1>12. CASE \E m \in Out : SendReturns(m)
  BY <1>12 DEF SendReturns, Unstarted, vars, rpc, receiving, journal, daemon, inbox
<1>13. CASE \E m \in Out : AckSaved(m)
  BY <1>13 DEF AckSaved, Remembers, Unstarted, vars, rpc, receiving, journal, daemon, inbox
<1>14. CASE \E c \in Calls : CallReturns(c)
  BY <1>14 DEF CallReturns, Unstarted, vars, rpc, receiving, journal, daemon, inbox
<1>15. CASE \E t \in tasks : Handles(t)
  <2>1. PICK t \in tasks : Handles(t)
    BY <1>15
  <2>2. t.msg \in Messages /\ UNCHANGED posted /\ jmem = jdisk
    BY <2>1 DEF Handles, Current, Echo, vars, rpc, receiving, journal, daemon, inbox
  <2>3. CASE taken' = taken
    BY <2>2, <2>3
  <2>4. CASE taken' = [taken EXCEPT ![t.msg] = @ + 1] /\ t.msg \notin seen /\ ~Echo(t.msg)
    <3>1. t.msg \notin Texts
      BY <2>2, <2>4 DEF Echo
    <3>2. t.msg \in Inbound => taken[t.msg] = 0
      BY <2>4
    <3>3. QED
      BY <2>2, <2>4, <3>1, <3>2
  <2>5. QED
    BY <2>1, <2>3, <2>4 DEF Handles, Current, Echo, vars, rpc, receiving, journal, daemon, inbox
<1>16. CASE Crashes
  BY <1>16 DEF Crashes, Gone, Fault, vars, rpc, receiving, journal, daemon, inbox
<1>17. CASE StreamEnds \/ \E c \in Callers : TimesOut(c) \/ OpenFails(c)
  <2>1. PICK S \in SUBSET Callers, drop \in BOOLEAN : Loss(S, drop)
    BY <1>17, Losses DEF StoreInv
  <2>2. QED
    BY <2>1, Raised DEF Loss, Raising, inbox, journal, daemon
<1>18. CASE \E c \in Callers : Refuses(c)
  BY <1>18 DEF Refuses, Fault, vars, rpc, receiving, journal, daemon, inbox
<1>19. CASE \E m \in Out : JournalFails(m)
  BY <1>19 DEF JournalFails, Unstarted, Fault, vars, rpc, receiving, journal, daemon, inbox
<1>20. CASE \E m \in Out : Cancelled(m)
  BY <1>20 DEF Cancelled, Remembers, Free, Unstarted, Fault, vars, rpc, receiving, journal, daemon, inbox
<1>21. CASE Starts
  BY <1>21 DEF Starts, vars, rpc, receiving, journal, daemon, inbox
<1>22. CASE Stop
  BY <1>22 DEF Stop, vars, rpc, receiving, journal, daemon, inbox
<1>23. CASE \E c \in Callers : Sends(c)
  BY <1>23 DEF Sends, Unstarted, vars, rpc, receiving, journal, daemon, inbox
<1>24. CASE \E c \in Callers : Answers(c)
  BY <1>24 DEF Answers, vars, rpc, receiving, journal, daemon, inbox
<1>25. CASE \E m \in Out : Posts(m)
  BY <1>25 DEF Posts, vars, rpc, receiving, journal, daemon, inbox
<1>26. CASE \E x \in Messages : Notifies(x)
  BY SMTT(30), <1>26 DEF Notifies, Stopping, vars, rpc, receiving, journal, daemon, inbox
<1>27. QED
  BY <1>1, <1>2, <1>3, <1>4, <1>5, <1>6, <1>7, <1>8, <1>9, <1>10, <1>11, <1>12, <1>13, <1>14, <1>15,
    <1>16, <1>17, <1>18, <1>19, <1>20, <1>21, <1>22, <1>23, <1>24, <1>25, <1>26
  DEF Next, Client, Trouble, Runs

\* Every step keeps account of the connection, when who was answered runs first.
LEMMA WakeStep ==
  ASSUME SignalAssumption, StoreInv, WakeInv, ~LateWake, [Next]_vars
  PROVE  WakeInv'
<1> USE SignalAssumption DEF SignalAssumption, StoreInv, TypeOK, Callers, Out, CallerInv, WakeInv, LinkInv, Places, Lives, Stopping
<1>1. CASE UNCHANGED vars
  BY <1>1 DEF vars, rpc, receiving, journal, daemon, inbox
<1>2. CASE \E c \in Callers : Connects(c)
  BY <1>2 DEF Connects, ConnectRest, Subscribing, Requests, Free, Resubscribes, vars, rpc,
    receiving, journal, daemon, inbox
<1>3. CASE \E c \in Callers : Opened(c)
  BY <1>3 DEF Opened, ConnectRest, Subscribing, Requests, Free, Resubscribes, vars, rpc, receiving,
    journal, daemon, inbox
<1>4. CASE \E c \in Callers : Reads(c)
  BY <1>4 DEF Reads, vars, rpc, receiving, journal, daemon, inbox
<1>5. CASE \E c \in Callers : Resubscribed(c)
  BY <1>5 DEF Resubscribed, Requests, Free, DaemonReady, vars, rpc, receiving, journal, daemon, inbox
<1>6. CASE MainReturns
  BY <1>6 DEF MainReturns, vars, rpc, receiving, journal, daemon, inbox
<1>7. CASE ServicesUp
  BY <1>7 DEF ServicesUp, vars, rpc, receiving, journal, daemon, inbox
<1>8. CASE Halted
  BY <1>8 DEF Halted, vars, rpc, receiving, journal, daemon, inbox
<1>9. CASE Closes
  BY <1>9 DEF Closes, Gone, Stamps, vars, rpc, receiving, journal, daemon, inbox
<1>10. CASE \E m \in Out : Journalled(m)
  BY <1>10 DEF Journalled, Remembers, Unstarted, vars, rpc, receiving, journal, daemon, inbox
<1>11. CASE \E m \in Out : TakesSlot(m)
  BY <1>11 DEF TakesSlot, Unstarted, vars, rpc, receiving, journal, daemon, inbox
<1>12. CASE \E m \in Out : SendReturns(m)
  BY <1>12 DEF SendReturns, Unstarted, vars, rpc, receiving, journal, daemon, inbox
<1>13. CASE \E m \in Out : AckSaved(m)
  BY <1>13 DEF AckSaved, Remembers, Unstarted, vars, rpc, receiving, journal, daemon, inbox
<1>14. CASE \E c \in Calls : CallReturns(c)
  BY <1>14 DEF CallReturns, Unstarted, vars, rpc, receiving, journal, daemon, inbox
<1>15. CASE \E t \in tasks : Handles(t)
  BY <1>15 DEF Handles, Current, Echo, vars, rpc, receiving, journal, daemon, inbox
<1>16. CASE Crashes
  BY <1>16 DEF Crashes, Gone, Fault, vars, rpc, receiving, journal, daemon, inbox
<1>17. CASE StreamEnds \/ \E c \in Callers : TimesOut(c) \/ OpenFails(c)
  <2>1. PICK S \in SUBSET Callers, drop \in BOOLEAN : Loss(S, drop)
    BY <1>17, Losses DEF StoreInv
  <2>2. \A c \in Callers : pc'[c] \in {"sub", "subwoken", "wait", "woken"} =>
          c \notin S /\ pc'[c] = pc[c] /\ answer'[c] = answer[c] /\ ~drop
    BY <2>1, Raised DEF Loss, Pending, Quiet
  <2>3. UNCHANGED <<link, sub, subscribed, ready, offered, dsubs>> \/ (drop /\ ~link' /\ ~subscribed' /\ ~ready')
    BY <2>1, Raised DEF Loss
  <2>4. life' # life => Main \in S /\ pc'[Main] = "idle" /\ life' = (IF life = "unsub" THEN "close" ELSE "halt")
    BY <2>1, Raised DEF Loss
  <2>5. started' = started /\ answer'[Main] \in {"none", answer[Main]}
    BY <2>1, Raised DEF Loss
  <2>6. LinkInv'
    BY <2>1, <2>3, <2>4, <2>5, Raised DEF Loss, Raising
  <2>7. QED
    BY <2>1, <2>2, <2>3, <2>4, <2>5, <2>6, Raised DEF Loss, Raising
<1>18. CASE \E c \in Callers : Refuses(c)
  BY <1>18 DEF Refuses, Fault, vars, rpc, receiving, journal, daemon, inbox
<1>19. CASE \E m \in Out : JournalFails(m)
  BY <1>19 DEF JournalFails, Unstarted, Fault, vars, rpc, receiving, journal, daemon, inbox
<1>20. CASE \E m \in Out : Cancelled(m)
  BY <1>20 DEF Cancelled, Remembers, Free, Unstarted, Fault, vars, rpc, receiving, journal, daemon, inbox
<1>21. CASE Starts
  BY <1>21 DEF Starts, vars, rpc, receiving, journal, daemon, inbox
<1>22. CASE Stop
  BY <1>22 DEF Stop, vars, rpc, receiving, journal, daemon, inbox
<1>23. CASE \E c \in Callers : Sends(c)
  BY <1>23 DEF Sends, Unstarted, vars, rpc, receiving, journal, daemon, inbox
<1>24. CASE \E c \in Callers : Answers(c)
  BY <1>24 DEF Answers, vars, rpc, receiving, journal, daemon, inbox
<1>25. CASE \E m \in Out : Posts(m)
  BY <1>25 DEF Posts, vars, rpc, receiving, journal, daemon, inbox
<1>26. CASE \E x \in Messages : Notifies(x)
  BY <1>26 DEF Notifies, vars, rpc, receiving, journal, daemon, inbox
<1>27. QED
  BY <1>1, <1>2, <1>3, <1>4, <1>5, <1>6, <1>7, <1>8, <1>9, <1>10, <1>11, <1>12, <1>13, <1>14, <1>15,
    <1>16, <1>17, <1>18, <1>19, <1>20, <1>21, <1>22, <1>23, <1>24, <1>25, <1>26
  DEF Next, Client, Trouble, Runs

\* A platform that was never started satisfies it.
LEMMA InitInv ==
  ASSUME SignalAssumption, Init
  PROVE  StoreInv /\ WakeInv
<1> USE SignalAssumption DEF SignalAssumption, Init, Callers, Out
<1>1. TypeOK
  <2>1. link \in BOOLEAN /\ started \in BOOLEAN /\ subscribed \in BOOLEAN /\ ready \in BOOLEAN
    BY ZenonT(60)
  <2>2. QED
    BY <2>1 DEF TypeOK, Lives, Places, Messages
<1>2. CallerInv /\ SendInv /\ InboxInv
  BY DEF CallerInv, SendInv, InboxInv, Messages
<1>3. MessagesOnce
  BY DEF MessagesOnce, Messages
<1>4. WakeInv
  BY DEF WakeInv, LinkInv, Stopping
<1>5. QED
  BY <1>1, <1>2, <1>3, <1>4 DEF StoreInv

\* The part that does not depend on which of two ready callbacks runs first.
THEOREM StoreCorrect == Spec => []StoreInv
<1>1. Init => StoreInv
  BY InitInv, SignalAssumption
<1>2. StoreInv /\ [Next]_vars => StoreInv'
  BY TypeStep, CallerStep, SendStep, InboxStep, OnceStep, SignalAssumption DEF StoreInv
<1>3. QED
  BY <1>1, <1>2, PTL DEF Spec

\* A send is posted once, the bot never takes a text of its own for a request,
\* and a process takes a person's message once, whatever is lost, repeated,
\* cancelled or restarted, and whether or not LateWake.
THEOREM NothingTwice == Spec => []MessagesOnce
<1>1. StoreInv => MessagesOnce
  BY DEF StoreInv
<1>2. QED
  BY <1>1, StoreCorrect, PTL

\* And with the answers that have arrived handled before the end of the stream,
\* a started bot receives, or its reconnect task is at work on that.
THEOREM SignalCorrect == Spec => []SignalInv
<1>1. Init => SignalInv
  BY InitInv, SignalAssumption DEF SignalInv
<1>2. SignalInv /\ [Next]_vars => SignalInv'
  <2> SUFFICES ASSUME SignalInv, [Next]_vars PROVE SignalInv'
    OBVIOUS
  <2>1. StoreInv'
    BY TypeStep, CallerStep, SendStep, InboxStep, OnceStep, SignalAssumption DEF StoreInv, SignalInv
  <2>2. LateWake \/ WakeInv'
    BY WakeStep, SignalAssumption DEF SignalInv
  <2>3. QED
    BY <2>1, <2>2 DEF SignalInv
<1>3. QED
  BY <1>1, <1>2, PTL DEF Spec

\* In particular a platform that is up lets notifications in exactly while it is
\* subscribed, and one that is not subscribed is reconnecting.
THEOREM LinkKept ==
  ASSUME ~LateWake
  PROVE  Spec => []LinkInv
<1>1. SignalInv => LinkInv
  BY DEF SignalInv, WakeInv
<1>2. QED
  BY <1>1, SignalCorrect, PTL
=============================================================================
