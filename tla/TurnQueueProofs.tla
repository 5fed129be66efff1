---------------------------- MODULE TurnQueueProofs ----------------------------
(***************************************************************************)
(* What the queue promises, for every number of requests, chats, /stop      *)
(* invocations, failures and restarts: QueueInv is inductive, and the       *)
(* properties of TurnQueue.tla follow from it.  First what a step writes    *)
(* (Writes_...), then how each part of the state moves (...Moves), then one *)
(* lemma per conjunct of the invariant (Keeps...), then the theorems.       *)
(***************************************************************************)
EXTENDS TurnQueue, SequenceTheorems, FiniteSetTheorems, WellFoundedInduction, TLAPS

-----------------------------------------------------------------------------
(* What the edits of a queue return: queues without repetitions, with the  *)
(* identities one expects.                                                 *)

\* Filtering an identity out leaves the others, each of them once.
LEMMA WithoutFilters ==
  ASSUME NEW S, NEW s \in Seq(S), NoRepeat(s), NEW j
  PROVE  /\ Without(s, j) \in Seq(S) /\ NoRepeat(Without(s, j))
         /\ ToSet(Without(s, j)) = ToSet(s) \ {j}
<1>1. PICK n \in Nat : n = Len(s) /\ DOMAIN s = 1..n
  BY LenProperties
<1>2. CASE ~\E i \in 1..n : s[i] = j
  BY <1>1, <1>2 DEF Without, ToSet
<1>3. CASE \E i \in 1..n : s[i] = j
  <2>1. PICK k \in 1..n : s[k] = j /\ Without(s, j) = [i \in 1..n - 1 |-> IF i < k THEN s[i] ELSE s[i + 1]]
    BY <1>1, <1>3 DEF Without
  <2>2. PICK w : w = Without(s, j)
    OBVIOUS
  <2>3. /\ DOMAIN w = 1..n - 1 /\ n - 1 \in Nat
        /\ \A i \in 1..n - 1 : w[i] = IF i < k THEN s[i] ELSE s[i + 1]
    BY <2>1, <2>2
  <2>4. w \in Seq(S) /\ Len(w) = n - 1
    <3>1. \A i \in 1..n - 1 : w[i] \in S
      BY <1>1, <2>3, ElementOfSeq
    <3>2. w \in [1..n - 1 -> S]
      BY <2>1, <2>2, <2>3, <3>1
    <3>3. QED
      BY <2>3, <3>2
  <2>5. \A i, l \in 1..n : s[i] = s[l] => i = l
    BY <1>1 DEF NoRepeat
  <2>6. NoRepeat(w)
    <3>1. ASSUME NEW a \in 1..n - 1, NEW b \in 1..n - 1, w[a] = w[b] PROVE a = b
      <4>1. PICK c \in 1..n : w[a] = s[c] /\ c = IF a < k THEN a ELSE a + 1
        BY <2>3
      <4>2. PICK d \in 1..n : w[b] = s[d] /\ d = IF b < k THEN b ELSE b + 1
        BY <2>3
      <4>3. c = d
        BY <2>5, <3>1, <4>1, <4>2
      <4>4. QED
        BY <4>1, <4>2, <4>3
    <3>2. QED
      BY <2>4, <3>1 DEF NoRepeat
  <2>7. ToSet(w) = {w[i] : i \in 1..n - 1} /\ ToSet(s) = {s[i] : i \in 1..n}
    BY <1>1, <2>3 DEF ToSet
  <2>8. ASSUME NEW x \in ToSet(w) PROVE x \in ToSet(s) \ {j}
    BY SMTT(30), <2>1, <2>3, <2>5, <2>7
  <2>9. ASSUME NEW i \in 1..n, s[i] # j PROVE s[i] \in ToSet(w)
    <3>1. CASE i < k
      BY <2>3, <2>7, <3>1
    <3>2. CASE i > k
      <4>1. i - 1 \in 1..n - 1 /\ w[i - 1] = s[i]
        BY <2>3, <3>2
      <4>2. QED
        BY <2>7, <4>1
    <3>3. QED
      BY <2>1, <2>9, <3>1, <3>2
  <2>10. ToSet(w) \subseteq ToSet(s) \ {j}
    BY <2>8
  <2>11. ASSUME NEW x \in ToSet(s), x # j  PROVE x \in ToSet(w)
    <3>1. PICK i \in 1..n : x = s[i]
      BY <2>7
    <3>2. QED
      BY <2>9, <2>11, <3>1
  <2>12. ToSet(w) = ToSet(s) \ {j}
    BY <2>10, <2>11
  <2>13. QED
    BY <2>2, <2>4, <2>6, <2>12
<1>4. QED
  BY <1>1, <1>2, <1>3

\* A queue with an identity it does not hold put first, or last.
LEMMA NewFirst ==
  ASSUME NEW S, NEW s \in Seq(S), NoRepeat(s), NEW j \in S, j \notin ToSet(s)
  PROVE  /\ <<j>> \o s \in Seq(S) /\ NoRepeat(<<j>> \o s)
         /\ ToSet(<<j>> \o s) = ToSet(s) \cup {j}
<1>1. PICK n \in Nat : n = Len(s) /\ DOMAIN s = 1..n
  BY LenProperties
<1>2. PICK w : w = <<j>> \o s
  OBVIOUS
<1>3. /\ w \in Seq(S) /\ Len(w) = n + 1
      /\ \A i \in 1..(n + 1) : w[i] = IF i = 1 THEN j ELSE s[i - 1]
  BY <1>1, <1>2
<1>4. DOMAIN w = 1..(n + 1)
  BY <1>3, LenProperties
<1>5. \A i \in 1..n : s[i] # j
  BY <1>1 DEF ToSet
<1>6. NoRepeat(w)
  BY <1>1, <1>3, <1>5 DEF NoRepeat
<1>7. ASSUME NEW x \in ToSet(w)  PROVE x \in ToSet(s) \cup {j}
  BY <1>1, <1>3, <1>4 DEF ToSet
<1>8. ASSUME NEW x \in ToSet(s) \cup {j}  PROVE x \in ToSet(w)
  <2>1. CASE x = j
    <3>1. 1 \in 1..(n + 1) /\ w[1] = x
      BY <2>1, <1>1, <1>3
    <3> QED
      BY <3>1, <1>4 DEF ToSet
  <2>2. CASE x \in ToSet(s)
    <3>1. PICK i \in 1..n : s[i] = x
      BY <2>2, <1>1 DEF ToSet
    <3>2. i + 1 \in 1..(n + 1) /\ w[i + 1] = x
      BY <3>1, <1>1, <1>3
    <3> QED
      BY <3>2, <1>4 DEF ToSet
  <2> QED
    BY <2>1, <2>2
<1> QED
  BY <1>2, <1>3, <1>6, <1>7, <1>8

LEMMA NewLast ==
  ASSUME NEW S, NEW s \in Seq(S), NoRepeat(s), NEW j \in S, j \notin ToSet(s)
  PROVE  /\ Append(s, j) \in Seq(S) /\ NoRepeat(Append(s, j))
         /\ ToSet(Append(s, j)) = ToSet(s) \cup {j}
<1>1. PICK n \in Nat : n = Len(s) /\ DOMAIN s = 1..n
  BY LenProperties
<1>2. PICK w : w = Append(s, j)
  OBVIOUS
<1>3. /\ w \in Seq(S) /\ Len(w) = n + 1
      /\ \A i \in 1..(n + 1) : w[i] = IF i = n + 1 THEN j ELSE s[i]
  BY <1>1, <1>2
<1>4. DOMAIN w = 1..(n + 1)
  BY <1>3, LenProperties
<1>5. \A i \in 1..n : s[i] # j
  BY <1>1 DEF ToSet
<1>6. NoRepeat(w)
  BY <1>1, <1>3, <1>5 DEF NoRepeat
<1>7. ASSUME NEW x \in ToSet(w)  PROVE x \in ToSet(s) \cup {j}
  BY <1>1, <1>3, <1>4 DEF ToSet
<1>8. ASSUME NEW x \in ToSet(s) \cup {j}  PROVE x \in ToSet(w)
  <2>1. CASE x = j
    <3>1. n + 1 \in 1..(n + 1) /\ w[n + 1] = x
      BY <2>1, <1>1, <1>3
    <3> QED
      BY <3>1, <1>4 DEF ToSet
  <2>2. CASE x \in ToSet(s)
    <3>1. PICK i \in 1..n : s[i] = x
      BY <2>2, <1>1 DEF ToSet
    <3>2. i \in 1..(n + 1) /\ w[i] = x
      BY <3>1, <1>1, <1>3, <1>5
    <3> QED
      BY <3>2, <1>4 DEF ToSet
  <2> QED
    BY <2>1, <2>2
<1> QED
  BY <1>2, <1>3, <1>6, <1>7, <1>8

\* The queue operations of the bot, from the three facts above.
LEMMA PutFirstPuts ==
  ASSUME NEW S, NEW s \in Seq(S), NoRepeat(s), NEW j \in S
  PROVE  /\ PutFirst(s, j) \in Seq(S) /\ NoRepeat(PutFirst(s, j))
         /\ ToSet(PutFirst(s, j)) = ToSet(s) \cup {j}
<1>1. /\ Without(s, j) \in Seq(S) /\ NoRepeat(Without(s, j))
      /\ ToSet(Without(s, j)) = ToSet(s) \ {j}
  BY WithoutFilters
<1>2. j \notin ToSet(Without(s, j))
  BY <1>1
<1>3. /\ <<j>> \o Without(s, j) \in Seq(S) /\ NoRepeat(<<j>> \o Without(s, j))
      /\ ToSet(<<j>> \o Without(s, j)) = ToSet(Without(s, j)) \cup {j}
  BY <1>1, <1>2, NewFirst
<1> QED
  BY <1>1, <1>3 DEF PutFirst

LEMMA PromotedKeeps ==
  ASSUME NEW S, NEW s \in Seq(S), NoRepeat(s), NEW j \in S
  PROVE  /\ Promoted(s, j) \in Seq(S) /\ NoRepeat(Promoted(s, j))
         /\ ToSet(Promoted(s, j)) = ToSet(s)
<1>1. /\ PutFirst(s, j) \in Seq(S) /\ NoRepeat(PutFirst(s, j))
      /\ ToSet(PutFirst(s, j)) = ToSet(s) \cup {j}
  BY PutFirstPuts
<1> QED
  BY <1>1 DEF Promoted

LEMMA EnqueuedAdds ==
  ASSUME NEW S, NEW s \in Seq(S), NoRepeat(s), NEW j \in S
  PROVE  /\ Enqueued(s, j) \in Seq(S) /\ NoRepeat(Enqueued(s, j))
         /\ ToSet(Enqueued(s, j)) = ToSet(s) \cup {j}
BY NewLast DEF Enqueued

\* A set of natural numbers that is not empty has a smallest element.
LEMMA LeastNumber ==
  ASSUME NEW T, T \subseteq Nat, T # {}
  PROVE  \E x \in T : \A y \in T : ~(y < x)
<1> DEFINE R == {ss \in Nat \X Nat : ss[1] < ss[2]}
<1>1. IsWellFoundedOn(R, Nat)
  BY NatLessThanWellFounded DEF OpToRel
<1>2. \E x \in T : \A y \in T : ~(<<y, x>> \in R)
  <2> HIDE DEF R
  <2> QED
    BY <1>1, WFMin
<1> QED
  BY <1>2

\* The first identity of a set that a queue holds.
LEMMA FirstInHeld ==
  ASSUME NEW S, NEW s \in Seq(S), NEW T, T \subseteq ToSet(s), T # {}
  PROVE  FirstIn(s, T) \in T
<1> DEFINE I == {i \in 1..Len(s) : s[i] \in T}
<1>1. Len(s) \in Nat /\ DOMAIN s = 1..Len(s)
  BY LenProperties
<1>2. I # {} /\ I \subseteq Nat
  BY <1>1 DEF ToSet
<1>3. \E i \in I : \A k \in I : ~(k < i)
  <2> HIDE DEF I
  <2> QED
    BY <1>2, LeastNumber
<1>4. \E i \in 1..Len(s) : s[i] \in T /\ \A k \in 1..(i - 1) : s[k] \notin T
  BY <1>1, <1>3
<1> QED
  BY <1>4 DEF FirstIn
-----------------------------------------------------------------------------
\* What the edits of the two queues give, for every request.
LEMMA QueueEdits ==
  ASSUME TypeOK, NEW j \in Jobs
  PROVE  /\ Without(disk, j) \in Seq(Jobs) /\ NoRepeat(Without(disk, j))
         /\ ToSet(Without(disk, j)) = ToSet(disk) \ {j}
         /\ Without(mem, j) \in Seq(Jobs) /\ NoRepeat(Without(mem, j))
         /\ ToSet(Without(mem, j)) = ToSet(mem) \ {j}
         /\ Promoted(disk, j) \in Seq(Jobs) /\ NoRepeat(Promoted(disk, j))
         /\ ToSet(Promoted(disk, j)) = ToSet(disk)
         /\ Promoted(mem, j) \in Seq(Jobs) /\ NoRepeat(Promoted(mem, j))
         /\ ToSet(Promoted(mem, j)) = ToSet(mem)
         /\ PutFirst(mem, j) \in Seq(Jobs) /\ NoRepeat(PutFirst(mem, j))
         /\ ToSet(PutFirst(mem, j)) = ToSet(mem) \cup {j}
         /\ Enqueued(mem, j) \in Seq(Jobs) /\ NoRepeat(Enqueued(mem, j))
         /\ ToSet(Enqueued(mem, j)) = ToSet(mem) \cup {j}
         /\ Promoted(Enqueued(mem, j), j) \in Seq(Jobs)
         /\ NoRepeat(Promoted(Enqueued(mem, j), j))
         /\ ToSet(Promoted(Enqueued(mem, j), j)) = ToSet(mem) \cup {j}
         /\ j \notin ToSet(disk) => /\ Append(disk, j) \in Seq(Jobs)
                                    /\ NoRepeat(Append(disk, j))
                                    /\ ToSet(Append(disk, j)) = ToSet(disk) \cup {j}
<1>1. /\ disk \in Seq(Jobs) /\ NoRepeat(disk)
      /\ mem \in Seq(Jobs) /\ NoRepeat(mem)
  BY DEF TypeOK, QueuesOK
<1>2. /\ Without(disk, j) \in Seq(Jobs) /\ NoRepeat(Without(disk, j))
      /\ ToSet(Without(disk, j)) = ToSet(disk) \ {j}
  BY <1>1, WithoutFilters
<1>3. /\ Without(mem, j) \in Seq(Jobs) /\ NoRepeat(Without(mem, j))
      /\ ToSet(Without(mem, j)) = ToSet(mem) \ {j}
  BY <1>1, WithoutFilters
<1>4. /\ Promoted(disk, j) \in Seq(Jobs) /\ NoRepeat(Promoted(disk, j))
      /\ ToSet(Promoted(disk, j)) = ToSet(disk)
  BY <1>1, PromotedKeeps
<1>5. /\ Promoted(mem, j) \in Seq(Jobs) /\ NoRepeat(Promoted(mem, j))
      /\ ToSet(Promoted(mem, j)) = ToSet(mem)
  BY <1>1, PromotedKeeps
<1>6. /\ PutFirst(mem, j) \in Seq(Jobs) /\ NoRepeat(PutFirst(mem, j))
      /\ ToSet(PutFirst(mem, j)) = ToSet(mem) \cup {j}
  BY <1>1, PutFirstPuts
<1>7. /\ Enqueued(mem, j) \in Seq(Jobs) /\ NoRepeat(Enqueued(mem, j))
      /\ ToSet(Enqueued(mem, j)) = ToSet(mem) \cup {j}
  BY <1>1, EnqueuedAdds
<1>8. /\ Promoted(Enqueued(mem, j), j) \in Seq(Jobs)
      /\ NoRepeat(Promoted(Enqueued(mem, j), j))
      /\ ToSet(Promoted(Enqueued(mem, j), j)) = ToSet(mem) \cup {j}
  BY <1>7, PromotedKeeps
<1>9. ASSUME j \notin ToSet(disk)
      PROVE  /\ Append(disk, j) \in Seq(Jobs) /\ NoRepeat(Append(disk, j))
             /\ ToSet(Append(disk, j)) = ToSet(disk) \cup {j}
  BY <1>1, <1>9, NewLast
<1> QED
  BY <1>2, <1>3, <1>4, <1>5, <1>6, <1>7, <1>8, <1>9

\* What the consumer pops is waiting in memory.
LEMMA PopTakesWaiting ==
  ASSUME TypeOK, Runnable # {}
  PROVE  FirstIn(mem, Runnable) \in Runnable /\ FirstIn(mem, Runnable) \in InMem
<1>1. Runnable \subseteq ToSet(mem) /\ mem \in Seq(Jobs)
  BY DEF Runnable, InMem, TypeOK, QueuesOK
<1>2. FirstIn(mem, Runnable) \in Runnable
  BY <1>1, FirstInHeld
<1> QED
  BY <1>1, <1>2 DEF InMem

\* The members of the two queues are requests.
LEMMA MembersAreJobs ==
  ASSUME TypeOK
  PROVE  OnDisk \subseteq Jobs /\ InMem \subseteq Jobs /\ (disk # <<>> => Head(disk) \in OnDisk)
<1>1. disk \in Seq(Jobs) /\ mem \in Seq(Jobs)
  BY DEF TypeOK, QueuesOK
<1>2. /\ DOMAIN disk = 1..Len(disk) /\ \A i \in 1..Len(disk) : disk[i] \in Jobs
      /\ DOMAIN mem = 1..Len(mem) /\ \A i \in 1..Len(mem) : mem[i] \in Jobs
  BY <1>1, LenProperties, ElementOfSeq
<1>3. disk # <<>> => 1 \in 1..Len(disk) /\ Head(disk) = disk[1]
  BY SMTT(30), <1>1, HeadTailProperties, EmptySeq
<1> QED
  BY <1>2, <1>3 DEF OnDisk, InMem, ToSet

\* The only steps that write senders.
LEMMA Writes_senders ==
  ASSUME [Next]_vars
  PROVE
    \/ senders' = senders
    \/ (\E m \in Jobs : Arrive(m) \/ Guide(m) \/ Admit(m)
                        \/ Publish(m) \/ PersistPromote(m) \/ Ack(m))
    \/ Restart
BY ZenonT(60) DEF Next, SenderStep, ConsumerStep, FailureStep, DeliveryStep, StopStep,
  DrainEnds, Pop, Load, SaveRunning, PinSession, Work, SaveMore, SaveBlocked,
  SaveWaiting, Notice, Retain, Stage, Delivered, Complete, Cancelled,
  FailSave, FailRetain, FailNotice, WorkspaceLost, TurnFails, ConsumerDies,
  PollReply, RetryClaims, RetryWakes, BeginUpdate, CancelUpdate,
  DeliveryLocks, DeliveryDiscards, DeliveryInput, DeliverySend,
  DeliveryRemoves, DeliveryFails, StopAtOnce, StopBegins, StopSettled,
  StopClears, StopClearsReplies, durable, flags, senders, stopping, retry,
  history, bounds, Goto, Saves, NextTurn, Fault, consumer, StartDrain, vars

\* The only steps that write ckpt.
LEMMA Writes_ckpt ==
  ASSUME [Next]_vars
  PROVE
    \/ ckpt' = ckpt \/ (\E m \in Jobs : Guide(m)) \/ Pop \/ SaveRunning
    \/ PinSession \/ SaveMore \/ SaveBlocked \/ SaveWaiting \/ Complete \/ FailSave
    \/ WorkspaceLost \/ RetryClaims
    \/ (\E d \in Deliverer : DeliveryInput(d))
    \/ (\E s \in Stops : StopClears(s))
BY ZenonT(60) DEF Next, SenderStep, ConsumerStep, FailureStep, DeliveryStep, StopStep,
  Arrive, Admit, Publish, PersistPromote, Ack, DrainEnds, Load, Work, Notice,
  Retain, Stage, Delivered, Cancelled, FailRetain, FailNotice, TurnFails,
  ConsumerDies, PollReply, RetryWakes, BeginUpdate, CancelUpdate, Restart,
  DeliveryLocks, DeliveryDiscards, DeliverySend, DeliveryRemoves, DeliveryFails, StopAtOnce,
  StopBegins, StopSettled, StopClearsReplies, Leaves, durable, flags,
  consumer, stopping, retry, history, bounds, Sender, StartDrain, senders,
  Goto, NextTurn, Fault, vars

\* The only steps that write paused.
LEMMA Writes_paused ==
  ASSUME [Next]_vars
  PROVE
    \/ paused' = paused \/ (\E m \in Jobs : Guide(m)) \/ Load \/ Work \/ SaveBlocked
    \/ Stage \/ Delivered \/ WorkspaceLost \/ TurnFails \/ RetryClaims \/ Restart
    \/ (\E s \in Stops : StopClears(s))
BY ZenonT(60) DEF Next, SenderStep, ConsumerStep, FailureStep, DeliveryStep, StopStep,
  Arrive, Admit, Publish, PersistPromote, Ack, DrainEnds, Pop, SaveRunning,
  PinSession, SaveMore, SaveWaiting, Notice, Retain, Complete, Cancelled,
  FailSave, FailRetain, FailNotice, ConsumerDies, PollReply, RetryWakes,
  BeginUpdate, CancelUpdate, DeliveryLocks, DeliveryDiscards, DeliveryInput,
  DeliverySend, DeliveryRemoves, DeliveryFails, StopAtOnce, StopBegins,
  StopSettled, StopClearsReplies, Leaves, durable, flags, consumer, stopping,
  retry, history, bounds, Sender, StartDrain, senders, Saves, Goto, NextTurn,
  Fault, vars

\* The only steps that write awaiting.
LEMMA Writes_awaiting ==
  ASSUME [Next]_vars
  PROVE
    \/ awaiting' = awaiting \/ (\E m \in Jobs : Guide(m) \/ Publish(m)) \/ Restart
    \/ (\E d \in Deliverer : DeliverySend(d))
    \/ (\E s \in Stops : StopAtOnce(s) \/ StopSettled(s))
BY DEF Next, SenderStep, ConsumerStep, FailureStep, DeliveryStep, StopStep,
  Arrive, Admit, PersistPromote, Ack, DrainEnds, Pop, Load, SaveRunning,
  PinSession, Work, SaveMore, SaveBlocked, SaveWaiting, Notice, Retain,
  Stage, Delivered, Complete, Cancelled, FailSave, FailRetain, FailNotice,
  WorkspaceLost, TurnFails, ConsumerDies, PollReply, RetryClaims, RetryWakes,
  BeginUpdate, CancelUpdate, DeliveryLocks, DeliveryDiscards, DeliveryInput,
  DeliveryRemoves, DeliveryFails, StopBegins, StopClears, StopClearsReplies,
  Leaves, durable, flags, consumer, stopping, retry, history, bounds, Sender,
  StartDrain, senders, Goto, Saves, NextTurn, Fault, vars

\* The only steps that write con.
LEMMA Writes_con ==
  ASSUME [Next]_vars
  PROVE
    \/ con' = con \/ (\E m \in Jobs : Guide(m) \/ Ack(m)) \/ DrainEnds \/ Pop
    \/ Load \/ SaveRunning \/ PinSession \/ Work \/ SaveMore \/ SaveBlocked
    \/ SaveWaiting \/ Notice \/ Retain \/ Stage \/ Delivered \/ Complete
    \/ Cancelled \/ FailSave \/ FailRetain \/ FailNotice \/ WorkspaceLost
    \/ TurnFails \/ ConsumerDies \/ RetryWakes \/ CancelUpdate \/ Restart
    \/ (\E d \in Deliverer : DeliveryRemoves(d))
BY ZenonT(60) DEF Next, SenderStep, ConsumerStep, FailureStep, DeliveryStep, StopStep,
  Arrive, Admit, Publish, PersistPromote, PollReply, RetryClaims,
  BeginUpdate, DeliveryLocks, DeliveryDiscards, DeliveryInput, DeliverySend,
  DeliveryFails, StopAtOnce, StopBegins, StopSettled, StopClears,
  StopClearsReplies, Leaves, durable, flags, consumer, stopping, retry,
  history, bounds, Sender, senders, Fault, vars

\* The only steps that write request.
LEMMA Writes_request ==
  ASSUME [Next]_vars
  PROVE
    \/ request' = request \/ (\E m \in Jobs : Guide(m) \/ Ack(m)) \/ DrainEnds
    \/ PinSession \/ Cancelled \/ ConsumerDies \/ RetryWakes \/ CancelUpdate
    \/ Restart \/ (\E d \in Deliverer : DeliveryRemoves(d))
BY ZenonT(60) DEF Next, SenderStep, ConsumerStep, FailureStep, DeliveryStep, StopStep,
  Arrive, Admit, Publish, PersistPromote, Pop, Load, SaveRunning, Work,
  SaveMore, SaveBlocked, SaveWaiting, Notice, Retain, Stage, Delivered,
  Complete, FailSave, FailRetain, FailNotice, WorkspaceLost, TurnFails,
  PollReply, RetryClaims, BeginUpdate, DeliveryLocks, DeliveryDiscards,
  DeliveryInput, DeliverySend, DeliveryFails, StopAtOnce, StopBegins,
  StopSettled, StopClears, StopClearsReplies, Leaves, durable, flags,
  consumer, stopping, retry, history, bounds, Sender, senders, Goto, Saves,
  NextTurn, Fault, vars

\* The only steps that write disk.
LEMMA Writes_disk ==
  ASSUME [Next]_vars
  PROVE
    \/ disk' = disk \/ (\E m \in Jobs : Admit(m) \/ PersistPromote(m)) \/ Pop
    \/ SaveRunning \/ PinSession \/ SaveMore \/ SaveBlocked \/ SaveWaiting
    \/ Complete \/ FailSave \/ WorkspaceLost
    \/ (\E d \in Deliverer : DeliveryInput(d))
    \/ (\E s \in Stops : StopClears(s))
BY ZenonT(60) DEF Next, SenderStep, ConsumerStep, FailureStep, DeliveryStep, StopStep,
  Arrive, Guide, Publish, Ack, DrainEnds, Load, Work, Notice, Retain, Stage,
  Delivered, Cancelled, FailRetain, FailNotice, TurnFails, ConsumerDies,
  PollReply, RetryClaims, RetryWakes, BeginUpdate, CancelUpdate, Restart,
  DeliveryLocks, DeliveryDiscards, DeliverySend, DeliveryRemoves, DeliveryFails, StopAtOnce,
  StopBegins, StopSettled, StopClearsReplies, Leaves, durable, flags,
  consumer, stopping, retry, history, bounds, StartDrain, Sender, senders,
  Goto, NextTurn, Fault, vars

\* The only steps that write accepted.
LEMMA Writes_accepted ==
  ASSUME [Next]_vars
  PROVE
    \/ accepted' = accepted \/ (\E m \in Jobs : Admit(m))
BY ZenonT(60) DEF Next, SenderStep, ConsumerStep, FailureStep, DeliveryStep, StopStep,
  Arrive, Guide, Publish, PersistPromote, Ack, DrainEnds, Pop, Load,
  SaveRunning, PinSession, Work, SaveMore, SaveBlocked, SaveWaiting, Notice,
  Retain, Stage, Delivered, Complete, Cancelled, FailSave, FailRetain,
  FailNotice, WorkspaceLost, TurnFails, ConsumerDies, PollReply, RetryClaims,
  RetryWakes, BeginUpdate, CancelUpdate, Restart, DeliveryLocks,
  DeliveryDiscards, DeliveryInput, DeliverySend, DeliveryRemoves,
  DeliveryFails, StopAtOnce, StopBegins, StopSettled, StopClears,
  StopClearsReplies, Leaves, durable, flags, consumer, stopping, retry,
  history, bounds, StartDrain, Sender, senders, Goto, Saves, NextTurn, Fault,
  vars

\* The only steps that write mem.
LEMMA Writes_mem ==
  ASSUME [Next]_vars
  PROVE
    \/ mem' = mem \/ (\E m \in Jobs : Publish(m)) \/ Pop \/ Retain \/ FailRetain
    \/ RetryWakes \/ Restart
    \/ (\E d \in Deliverer : DeliveryInput(d))
    \/ (\E s \in Stops : StopAtOnce(s) \/ StopSettled(s))
BY ZenonT(60) DEF Next, SenderStep, ConsumerStep, FailureStep, DeliveryStep, StopStep,
  Arrive, Guide, Admit, PersistPromote, Ack, DrainEnds, Load, SaveRunning,
  PinSession, Work, SaveMore, SaveBlocked, SaveWaiting, Notice, Stage,
  Delivered, Complete, Cancelled, FailSave, FailNotice, WorkspaceLost,
  TurnFails, ConsumerDies, PollReply, RetryClaims, BeginUpdate, CancelUpdate,
  DeliveryLocks, DeliveryDiscards, DeliverySend, DeliveryRemoves, DeliveryFails, StopBegins,
  StopClears, StopClearsReplies, Leaves, durable, flags, consumer, stopping,
  retry, history, bounds, StartDrain, Sender, senders, Goto, Saves, NextTurn,
  Fault, vars

\* The only steps that write cur.
LEMMA Writes_cur ==
  ASSUME [Next]_vars
  PROVE
    \/ cur' = cur \/ DrainEnds \/ Pop \/ PinSession \/ Retain \/ Complete
    \/ Cancelled \/ FailNotice \/ ConsumerDies \/ Restart
BY ZenonT(60) DEF Next, SenderStep, ConsumerStep, FailureStep, DeliveryStep, StopStep,
  Arrive, Guide, Admit, Publish, PersistPromote, Ack, Load, SaveRunning,
  Work, SaveMore, SaveBlocked, SaveWaiting, Notice, Stage, Delivered,
  FailSave, FailRetain, WorkspaceLost, TurnFails, PollReply, RetryClaims,
  RetryWakes, BeginUpdate, CancelUpdate, DeliveryLocks, DeliveryDiscards,
  DeliveryInput, DeliverySend, DeliveryRemoves, DeliveryFails, StopAtOnce,
  StopBegins, StopSettled, StopClears, StopClearsReplies, Leaves, durable,
  flags, consumer, stopping, retry, history, bounds, StartDrain, Sender,
  Goto, senders, Saves, Fault, vars

\* The only steps that write killed.
LEMMA Writes_killed ==
  ASSUME [Next]_vars
  PROVE
    \/ killed' = killed \/ DrainEnds \/ PinSession \/ Retain \/ Complete
    \/ Cancelled \/ FailNotice \/ ConsumerDies \/ Restart
    \/ (\E s \in Stops : StopAtOnce(s) \/ StopBegins(s))
BY ZenonT(60) DEF Next, SenderStep, ConsumerStep, FailureStep, DeliveryStep, StopStep,
  Arrive, Guide, Admit, Publish, PersistPromote, Ack, Pop, Load, SaveRunning,
  Work, SaveMore, SaveBlocked, SaveWaiting, Notice, Stage, Delivered,
  FailSave, FailRetain, WorkspaceLost, TurnFails, PollReply, RetryClaims,
  RetryWakes, BeginUpdate, CancelUpdate, DeliveryLocks, DeliveryDiscards,
  DeliveryInput, DeliverySend, DeliveryRemoves, DeliveryFails, StopSettled,
  StopClears, StopClearsReplies, Leaves, durable, flags, consumer, stopping,
  retry, history, bounds, StartDrain, Sender, senders, Goto, Saves, Fault,
  vars

\* The only steps that write outcome.
LEMMA Writes_outcome ==
  ASSUME [Next]_vars
  PROVE
    \/ outcome' = outcome \/ Pop
    \/ (\E d \in Deliverer : DeliveryDiscards(d) \/ DeliveryRemoves(d))
    \/ (\E s \in Stops : StopClears(s) \/ StopClearsReplies(s))
BY ZenonT(60) DEF Next, SenderStep, ConsumerStep, FailureStep, DeliveryStep, StopStep,
  Arrive, Guide, Admit, Publish, PersistPromote, Ack, DrainEnds, Load,
  SaveRunning, PinSession, Work, SaveMore, SaveBlocked, SaveWaiting, Notice,
  Retain, Stage, Delivered, Complete, Cancelled, FailSave, FailRetain,
  FailNotice, WorkspaceLost, TurnFails, ConsumerDies, PollReply, RetryClaims,
  RetryWakes, BeginUpdate, CancelUpdate, Restart, DeliveryLocks,
  DeliveryInput, DeliverySend, DeliveryFails, StopAtOnce, StopBegins,
  StopSettled, Leaves, durable, flags, consumer, stopping, retry, history,
  bounds, StartDrain, Sender, senders, Goto, Saves, NextTurn, Fault, vars

\* The only steps that write bounds.
LEMMA Writes_bounds ==
  ASSUME [Next]_vars
  PROVE
    \/ bounds' = bounds \/ Work \/ FailSave \/ FailRetain \/ WorkspaceLost
    \/ TurnFails \/ ConsumerDies \/ BeginUpdate \/ Restart
    \/ (\E d \in Deliverer : DeliveryFails(d))
BY ZenonT(60) DEF Next, SenderStep, ConsumerStep, FailureStep, DeliveryStep, StopStep,
  Arrive, Guide, Admit, Publish, PersistPromote, Ack, DrainEnds, Pop, Load,
  SaveRunning, PinSession, SaveMore, SaveBlocked, SaveWaiting, Notice,
  Retain, Stage, Delivered, Complete, Cancelled, FailNotice, PollReply,
  RetryClaims, RetryWakes, CancelUpdate, DeliveryLocks, DeliveryDiscards,
  DeliveryInput, DeliverySend, DeliveryRemoves, StopAtOnce, StopBegins,
  StopSettled, StopClears, StopClearsReplies, Leaves, durable, flags,
  consumer, stopping, retry, history, bounds, StartDrain, Sender, senders,
  Goto, Saves, NextTurn, vars

\* The only steps that write ledger.
LEMMA Writes_ledger ==
  ASSUME [Next]_vars
  PROVE
    \/ ledger' = ledger \/ Stage
    \/ (\E d \in Deliverer : DeliveryDiscards(d) \/ DeliveryRemoves(d))
    \/ (\E s \in Stops : StopClearsReplies(s))
BY ZenonT(60) DEF Next, SenderStep, ConsumerStep, FailureStep, DeliveryStep, StopStep,
  Arrive, Guide, Admit, Publish, PersistPromote, Ack, DrainEnds, Pop, Load,
  SaveRunning, PinSession, Work, SaveMore, SaveBlocked, SaveWaiting, Notice,
  Retain, Delivered, Complete, Cancelled, FailSave, FailRetain, FailNotice,
  WorkspaceLost, TurnFails, ConsumerDies, PollReply, RetryClaims, RetryWakes,
  BeginUpdate, CancelUpdate, Restart, DeliveryLocks, DeliveryInput,
  DeliverySend, DeliveryFails, StopAtOnce, StopBegins, StopSettled,
  StopClears, Leaves, durable, flags, consumer, stopping, retry, history,
  bounds, StartDrain, Sender, senders, Goto, Saves, NextTurn, Fault, vars

\* The only steps that write pending.
LEMMA Writes_pending ==
  ASSUME [Next]_vars
  PROVE
    \/ pending' = pending \/ Stage \/ Restart
    \/ (\E d \in Deliverer : DeliveryDiscards(d) \/ DeliveryRemoves(d))
    \/ (\E s \in Stops : StopClearsReplies(s))
BY ZenonT(60) DEF Next, SenderStep, ConsumerStep, FailureStep, DeliveryStep, StopStep,
  Arrive, Guide, Admit, Publish, PersistPromote, Ack, DrainEnds, Pop, Load,
  SaveRunning, PinSession, Work, SaveMore, SaveBlocked, SaveWaiting, Notice,
  Retain, Delivered, Complete, Cancelled, FailSave, FailRetain, FailNotice,
  WorkspaceLost, TurnFails, ConsumerDies, PollReply, RetryClaims, RetryWakes,
  BeginUpdate, CancelUpdate, DeliveryLocks, DeliveryInput, DeliverySend,
  DeliveryFails, StopAtOnce, StopBegins, StopSettled, StopClears, Leaves,
  durable, flags, consumer, stopping, retry, history, bounds, StartDrain,
  Sender, senders, Goto, Saves, NextTurn, Fault, vars

\* The only steps that write dlv.
LEMMA Writes_dlv ==
  ASSUME [Next]_vars
  PROVE
    \/ dlv' = dlv \/ Stage \/ PollReply \/ Restart
    \/ (\E d \in Deliverer : DeliveryLocks(d) \/ DeliveryDiscards(d) \/ DeliveryInput(d)
                        \/ DeliverySend(d) \/ DeliveryRemoves(d) \/ DeliveryFails(d))
    \/ (\E s \in Stops : StopAtOnce(s) \/ StopBegins(s))
BY SMTT(30) DEF Next, SenderStep, ConsumerStep, FailureStep, DeliveryStep, StopStep,
  Arrive, Guide, Admit, Publish, PersistPromote, Ack, DrainEnds, Pop, Load,
  SaveRunning, PinSession, Work, SaveMore, SaveBlocked, SaveWaiting, Notice,
  Retain, Delivered, Complete, Cancelled, FailSave, FailRetain, FailNotice,
  WorkspaceLost, TurnFails, ConsumerDies, RetryClaims, RetryWakes,
  BeginUpdate, CancelUpdate, StopSettled, StopClears, StopClearsReplies,
  Leaves, durable, flags, consumer, stopping, retry, history, bounds,
  StartDrain, Sender, senders, Goto, Saves, NextTurn, Fault, vars

\* The only steps that write answered.
LEMMA Writes_answered ==
  ASSUME [Next]_vars
  PROVE
    \/ answered' = answered \/ Stage
BY ZenonT(60) DEF Next, SenderStep, ConsumerStep, FailureStep, DeliveryStep, StopStep,
  Arrive, Guide, Admit, Publish, PersistPromote, Ack, DrainEnds, Pop, Load,
  SaveRunning, PinSession, Work, SaveMore, SaveBlocked, SaveWaiting, Notice,
  Retain, Delivered, Complete, Cancelled, FailSave, FailRetain, FailNotice,
  WorkspaceLost, TurnFails, ConsumerDies, PollReply, RetryClaims, RetryWakes,
  BeginUpdate, CancelUpdate, Restart, DeliveryLocks, DeliveryDiscards,
  DeliveryInput, DeliverySend, DeliveryRemoves, DeliveryFails, StopAtOnce,
  StopBegins, StopSettled, StopClears, StopClearsReplies, Leaves, durable,
  flags, consumer, stopping, retry, history, bounds, StartDrain, Sender,
  senders, Goto, Saves, NextTurn, Fault, vars

\* The only steps that write retry.
LEMMA Writes_retry ==
  ASSUME [Next]_vars
  PROVE
    \/ retry' = retry \/ RetryClaims \/ RetryWakes \/ Restart
BY ZenonT(60) DEF Next, SenderStep, ConsumerStep, FailureStep, DeliveryStep, StopStep,
  Arrive, Guide, Admit, Publish, PersistPromote, Ack, DrainEnds, Pop, Load,
  SaveRunning, PinSession, Work, SaveMore, SaveBlocked, SaveWaiting, Notice,
  Retain, Stage, Delivered, Complete, Cancelled, FailSave, FailRetain,
  FailNotice, WorkspaceLost, TurnFails, ConsumerDies, PollReply, BeginUpdate,
  CancelUpdate, DeliveryLocks, DeliveryDiscards, DeliveryInput, DeliverySend,
  DeliveryRemoves, DeliveryFails, StopAtOnce, StopBegins, StopSettled,
  StopClears, StopClearsReplies, Leaves, durable, flags, consumer, stopping,
  retry, history, bounds, StartDrain, Sender, senders, Goto, Saves, NextTurn,
  Fault, vars

\* The only steps that write restarting.
LEMMA Writes_restarting ==
  ASSUME [Next]_vars
  PROVE
    \/ restarting' = restarting \/ BeginUpdate \/ CancelUpdate \/ Restart
BY ZenonT(60) DEF Next, SenderStep, ConsumerStep, FailureStep, DeliveryStep, StopStep,
  Arrive, Guide, Admit, Publish, PersistPromote, Ack, DrainEnds, Pop, Load,
  SaveRunning, PinSession, Work, SaveMore, SaveBlocked, SaveWaiting, Notice,
  Retain, Stage, Delivered, Complete, Cancelled, FailSave, FailRetain,
  FailNotice, WorkspaceLost, TurnFails, ConsumerDies, PollReply, RetryClaims,
  RetryWakes, DeliveryLocks, DeliveryDiscards, DeliveryInput, DeliverySend,
  DeliveryRemoves, DeliveryFails, StopAtOnce, StopBegins, StopSettled,
  StopClears, StopClearsReplies, Leaves, durable, flags, consumer, stopping,
  retry, history, bounds, StartDrain, Sender, senders, Goto, Saves, NextTurn,
  Fault, vars

\* The only steps that write stopping.
LEMMA Writes_stopping ==
  ASSUME [Next]_vars
  PROVE
    \/ stopping' = stopping \/ Restart
    \/ (\E s \in Stops : StopAtOnce(s) \/ StopBegins(s) \/ StopSettled(s)
                        \/ StopClears(s) \/ StopClearsReplies(s))
BY ZenonT(60) DEF Next, SenderStep, ConsumerStep, FailureStep, DeliveryStep, StopStep,
  Arrive, Guide, Admit, Publish, PersistPromote, Ack, DrainEnds, Pop, Load,
  SaveRunning, PinSession, Work, SaveMore, SaveBlocked, SaveWaiting, Notice,
  Retain, Stage, Delivered, Complete, Cancelled, FailSave, FailRetain,
  FailNotice, WorkspaceLost, TurnFails, ConsumerDies, PollReply, RetryClaims,
  RetryWakes, BeginUpdate, CancelUpdate, DeliveryLocks, DeliveryDiscards,
  DeliveryInput, DeliverySend, DeliveryRemoves, DeliveryFails, Leaves,
  durable, flags, consumer, stopping, retry, history, bounds, StartDrain,
  Sender, senders, Goto, Saves, NextTurn, Fault, vars

\* The only steps that write stop.
LEMMA Writes_stop ==
  ASSUME [Next]_vars
  PROVE
    \/ stop' = stop \/ Restart
    \/ (\E s \in Stops : StopAtOnce(s) \/ StopBegins(s) \/ StopSettled(s)
                        \/ StopClears(s) \/ StopClearsReplies(s))
BY ZenonT(60) DEF Next, SenderStep, ConsumerStep, FailureStep, DeliveryStep, StopStep,
  Arrive, Guide, Admit, Publish, PersistPromote, Ack, DrainEnds, Pop, Load,
  SaveRunning, PinSession, Work, SaveMore, SaveBlocked, SaveWaiting, Notice,
  Retain, Stage, Delivered, Complete, Cancelled, FailSave, FailRetain,
  FailNotice, WorkspaceLost, TurnFails, ConsumerDies, PollReply, RetryClaims,
  RetryWakes, BeginUpdate, CancelUpdate, DeliveryLocks, DeliveryDiscards,
  DeliveryInput, DeliverySend, DeliveryRemoves, DeliveryFails, Leaves,
  durable, flags, consumer, stopping, retry, history, bounds, StartDrain,
  Sender, senders, Goto, Saves, NextTurn, Fault, vars

\* The only steps that write auth.
LEMMA Writes_auth ==
  ASSUME [Next]_vars
  PROVE
    \/ auth' = auth \/ Restart
BY ZenonT(60) DEF Next, SenderStep, ConsumerStep, FailureStep, DeliveryStep, StopStep,
  Arrive, Guide, Admit, Publish, PersistPromote, Ack, DrainEnds, Pop, Load,
  SaveRunning, PinSession, Work, SaveMore, SaveBlocked, SaveWaiting, Notice,
  Retain, Stage, Delivered, Complete, Cancelled, FailSave, FailRetain,
  FailNotice, WorkspaceLost, TurnFails, ConsumerDies, PollReply, RetryClaims,
  RetryWakes, BeginUpdate, CancelUpdate, DeliveryLocks, DeliveryDiscards,
  DeliveryInput, DeliverySend, DeliveryRemoves, DeliveryFails, StopAtOnce,
  StopBegins, StopSettled, StopClears, StopClearsReplies, Leaves, durable,
  flags, consumer, stopping, retry, history, bounds, StartDrain, Sender,
  senders, Goto, Saves, NextTurn, Fault, vars

\* The empty queue.
LEMMA EmptyQueue == <<>> \in Seq(Jobs) /\ NoRepeat(<<>>) /\ ToSet(<<>>) = {}
<1>1. <<>> \in Seq(Jobs) /\ Len(<<>>) = 0 /\ DOMAIN <<>> = 1..Len(<<>>)
  BY EmptySeq, LenProperties
<1> QED
  BY <1>1 DEF NoRepeat, ToSet

\* What a step may do to the set of queued requests.
LEMMA DiskMoves ==
  ASSUME QueueInv, [Next]_vars
  PROVE  /\ disk' \in Seq(Jobs) /\ NoRepeat(disk')
         /\ \/ OnDisk' = OnDisk
            \/ \E m \in Jobs : Admit(m) /\ snd'[m] = "committed" /\ OnDisk' = OnDisk \cup {m}
            \/ Pop /\ OnDisk' = OnDisk \ {FirstIn(mem, Runnable)}
            \/ Complete /\ OnDisk' = OnDisk \ {cur}
            \/ \E d \in Deliverer : /\ DeliveryInput(d)
                                    /\ OnDisk' = OnDisk \ {dlv[d].job}
            \/ \E s \in Stops : StopClears(s) /\ disk' = <<>>
<1>0. TypeOK /\ disk \in Seq(Jobs) /\ NoRepeat(disk)
  BY DEF QueueInv, TypeOK, QueuesOK
<1> DEFINE Typed == disk' \in Seq(Jobs) /\ NoRepeat(disk')
<1>1. CASE disk' = disk
  BY <1>0, <1>1 DEF OnDisk
<1>2. ASSUME NEW m \in Jobs, Admit(m)
      PROVE  Typed /\ (OnDisk' = OnDisk \/ (snd'[m] = "committed" /\ OnDisk' = OnDisk \cup {m}))
  <2>1. m \notin ToSet(disk) /\ snd \in [Jobs -> SenderAt]
    BY <1>2 DEF Admit, QueueInv, TypeOK, SendersOK, NotYetAdmitted, Unadmitted, OnDisk
  <2>2. \/ disk' = disk
        \/ disk' = Append(disk, m) /\ snd'[m] = "committed"
    BY <1>2, <2>1 DEF Admit, Sender
  <2>3. m \notin ToSet(disk) => /\ Append(disk, m) \in Seq(Jobs) /\ NoRepeat(Append(disk, m))
                                /\ ToSet(Append(disk, m)) = ToSet(disk) \cup {m}
    BY <1>0, QueueEdits
  <2> QED
    BY <1>0, <2>1, <2>2, <2>3 DEF OnDisk
<1>3. ASSUME NEW m \in Jobs, PersistPromote(m)  PROVE Typed /\ OnDisk' = OnDisk
  <2>1. disk' = Promoted(disk, m)
    BY <1>3 DEF PersistPromote
  <2> QED
    BY <1>0, <2>1, QueueEdits DEF OnDisk
<1>4. ASSUME Pop
      PROVE  Typed /\ (OnDisk' = OnDisk \/ OnDisk' = OnDisk \ {FirstIn(mem, Runnable)})
  <2>1. FirstIn(mem, Runnable) \in Jobs
    BY <1>0, <1>4, PopTakesWaiting, MembersAreJobs DEF Pop
  <2>2. disk' = disk \/ disk' = Without(disk, FirstIn(mem, Runnable))
    BY <1>4 DEF Pop, PersistComplete, durable
  <2> QED
    BY <1>0, <2>1, <2>2, QueueEdits DEF OnDisk
<1>5. ASSUME \/ SaveRunning \/ PinSession \/ SaveMore \/ SaveBlocked \/ SaveWaiting
             \/ FailSave \/ WorkspaceLost
      PROVE  Typed /\ OnDisk' = OnDisk
  <2>1. ASSUME NEW state, NEW next, NEW missing, Saves(state, next, missing)
        PROVE  disk' = disk \/ (cur \in OnDisk /\ disk' = Promoted(disk, cur))
    BY <2>1 DEF Saves, SaveCheckpoint
  <2>4. disk' = disk \/ (cur \in OnDisk /\ disk' = Promoted(disk, cur))
    <3>1. CASE SaveRunning \/ SaveMore \/ SaveBlocked \/ SaveWaiting
      BY <2>1, <3>1, Zenon DEF SaveRunning, SaveMore, SaveBlocked, SaveWaiting
    <3>2. CASE PinSession
      BY <3>2 DEF PinSession, SaveCheckpoint, Goto, ConsumerEnds
    <3>3. CASE FailSave
      BY <3>3 DEF FailSave, SaveCheckpoint, Goto, Fault
    <3>4. CASE WorkspaceLost
      BY <3>4 DEF WorkspaceLost, SaveCheckpoint, Goto, Fault
    <3> QED
      BY <1>5, <3>1, <3>2, <3>3, <3>4
  <2>2. cur \in OnDisk => cur \in Jobs
    BY <1>0, MembersAreJobs
  <2> QED
    BY <1>0, <2>2, <2>4, QueueEdits DEF OnDisk
<1>6. ASSUME Complete  PROVE Typed /\ OnDisk' = OnDisk \ {cur}
  <2>1. disk' = Without(disk, cur) /\ cur \in Jobs
    BY <1>6 DEF Complete, PersistComplete, At, QueueInv, TurnHasJob, TurnAt
  <2> QED
    BY <1>0, <2>1, QueueEdits DEF OnDisk
<1>7. ASSUME NEW d \in Deliverer, DeliveryInput(d)
      PROVE  Typed /\ OnDisk' = OnDisk \ {dlv[d].job}
  <2>1. disk' = Without(disk, dlv[d].job)
    BY <1>7 DEF DeliveryInput, PersistComplete
  <2>2. dlv[d].job \in ledger
    BY <1>7 DEF DeliveryInput, Delivering, QueueInv, DeliversStaged, InTransit
  <2>3. dlv[d].job \in Jobs
    BY <1>0, <2>2 DEF TypeOK, QueuesOK
  <2> QED
    BY <1>0, <2>1, <2>3, QueueEdits DEF OnDisk
<1>8. ASSUME NEW s \in Stops, StopClears(s)  PROVE Typed /\ disk' = <<>>
  <2>1. disk' = <<>>
    BY <1>8 DEF StopClears, ClearPersistentQueue
  <2> QED
    BY <2>1, EmptyQueue
<1> QED
  BY <1>1, <1>2, <1>3, <1>4, <1>5, <1>6, <1>7, <1>8, Writes_disk

\* What a step may add to the requests in memory.
LEMMA MemoryMoves ==
  ASSUME QueueInv, [Next]_vars
  PROVE  /\ mem' \in Seq(Jobs) /\ NoRepeat(mem')
         /\ \/ InMem' \subseteq InMem
            \/ \E m \in Jobs : Publish(m) /\ snd[m] = "committed"
                               /\ snd'[m] \in {"promote", "ack"} /\ InMem' = InMem \cup {m}
            \/ Retain /\ cur \in OnDisk /\ InMem' = InMem \cup {cur}
            \/ FailRetain /\ cur \in OnDisk /\ InMem' = InMem \cup {cur}
            \/ RetryWakes /\ claim \in OnDisk /\ InMem' = InMem \cup {claim}
            \/ Restart /\ InMem' = OnDisk
<1>0. TypeOK /\ mem \in Seq(Jobs) /\ NoRepeat(mem)
  BY DEF QueueInv, TypeOK, QueuesOK
<1> DEFINE Typed == mem' \in Seq(Jobs) /\ NoRepeat(mem')
<1>1. CASE mem' = mem
  BY <1>0, <1>1 DEF InMem
<1>2. ASSUME NEW m \in Jobs, Publish(m)
      PROVE  Typed /\ \/ InMem' \subseteq InMem
                      \/ /\ snd[m] = "committed" /\ snd'[m] \in {"promote", "ack"}
                         /\ InMem' = InMem \cup {m}
  <2>1. snd \in [Jobs -> SenderAt]
    BY <1>0 DEF TypeOK, SendersOK
  <2>2. CASE mem' = mem
    BY <1>0, <2>2 DEF InMem
  <2>3. CASE mem' # mem
    <3>1. /\ snd[m] = "committed" /\ snd'[m] \in {"promote", "ack"}
          /\ mem' \in {mem, Promoted(mem, m), Enqueued(mem, m), Promoted(Enqueued(mem, m), m)}
      BY <1>2, <2>1, <2>3 DEF Publish, Sender
    <3> QED
      BY <1>0, <3>1, QueueEdits DEF InMem
  <2> QED
    BY <2>2, <2>3
<1>3. ASSUME Pop  PROVE Typed /\ InMem' \subseteq InMem
  <2>1. FirstIn(mem, Runnable) \in Jobs /\ mem' = Without(mem, FirstIn(mem, Runnable))
    BY <1>0, <1>3, PopTakesWaiting, MembersAreJobs DEF Pop
  <2> QED
    BY <1>0, <2>1, QueueEdits DEF InMem
<1>4. ASSUME Retain \/ FailRetain
      PROVE  Typed /\ (InMem' \subseteq InMem \/ (cur \in OnDisk /\ InMem' = InMem \cup {cur}))
  <2>1. mem' = mem \/ (cur \in OnDisk /\ mem' = PutFirst(mem, cur))
    BY <1>4 DEF Retain, NextTurn, FailRetain, Goto, Fault
  <2>2. cur \in OnDisk => cur \in Jobs
    BY <1>0, MembersAreJobs
  <2>3. CASE cur \in OnDisk /\ mem' = PutFirst(mem, cur)
    BY <1>0, <2>2, <2>3, QueueEdits DEF InMem
  <2> QED
    BY <1>0, <2>1, <2>3 DEF InMem
<1>5. ASSUME RetryWakes
      PROVE  Typed /\ (InMem' \subseteq InMem \/ (claim \in OnDisk /\ InMem' = InMem \cup {claim}))
  <2>1. mem' = mem \/ (claim \in OnDisk /\ mem' = PutFirst(mem, claim))
    BY <1>5 DEF RetryWakes, StartDrain
  <2>2. claim \in OnDisk => claim \in Jobs
    BY <1>0, MembersAreJobs
  <2>3. CASE claim \in OnDisk /\ mem' = PutFirst(mem, claim)
    BY <1>0, <2>2, <2>3, QueueEdits DEF InMem
  <2> QED
    BY <1>0, <2>1, <2>3 DEF InMem
<1>6. ASSUME Restart  PROVE Typed /\ InMem' = OnDisk
  BY <1>0, <1>6 DEF Restart, InMem, OnDisk, TypeOK, QueuesOK
<1>7. ASSUME NEW d \in Deliverer, DeliveryInput(d)
      PROVE  Typed /\ InMem' \subseteq InMem
  <2>1. mem' = Without(mem, dlv[d].job)
    BY <1>7 DEF DeliveryInput
  <2>2. dlv[d].job \in ledger
    BY <1>7 DEF DeliveryInput, Delivering, QueueInv, DeliversStaged, InTransit
  <2>3. dlv[d].job \in Jobs
    BY <1>0, <2>2 DEF TypeOK, QueuesOK
  <2> QED
    BY <1>0, <2>1, <2>3, QueueEdits DEF InMem
<1>8. ASSUME NEW s \in Stops, StopAtOnce(s) \/ StopSettled(s)
      PROVE  Typed /\ InMem' \subseteq InMem
  <2>1. mem' = <<>>
    BY <1>8 DEF StopAtOnce, StopSettled, StopDrains
  <2> QED
    BY <2>1, EmptyQueue DEF InMem
<1> QED
  BY <1>1, <1>2, <1>3, <1>4, <1>5, <1>6, <1>7, <1>8, Writes_mem

\* A request only moves forward, and becomes committed under the admission lock.
LEMMA SenderMoves ==
  ASSUME QueueInv, [Next]_vars, NEW k \in Jobs
  PROVE  /\ snd'[k] \in Unadmitted => snd[k] \in Unadmitted
         /\ snd'[k] \in Unpublished => snd[k] \in Unpublished
         /\ snd'[k] = "committed" => \/ snd[k] = "committed"
                                     \/ Admit(k) /\ snd[k] = "admit" /\ AdmissionFree
<1> DEFINE Forward ==
      /\ snd'[k] \in Unadmitted => snd[k] \in Unadmitted
      /\ snd'[k] \in Unpublished => snd[k] \in Unpublished
      /\ snd'[k] = "committed" => \/ snd[k] = "committed"
                                  \/ Admit(k) /\ snd[k] = "admit" /\ AdmissionFree
<1>0. snd \in [Jobs -> SenderAt]
  BY DEF QueueInv, TypeOK, SendersOK
<1>1. CASE senders' = senders
  BY <1>1 DEF senders
<1>2. ASSUME NEW m \in Jobs, Arrive(m)  PROVE Forward
  BY <1>0, <1>2 DEF Arrive, Leaves, Unadmitted, Unpublished
<1>3. ASSUME NEW m \in Jobs, Guide(m)  PROVE Forward
  BY <1>0, <1>3 DEF Guide, Leaves, Sender, Unadmitted, Unpublished
<1>4. ASSUME NEW m \in Jobs, Admit(m)  PROVE Forward
  <2>1. /\ snd[m] = "admit" /\ AdmissionFree
        /\ \E pc \in {"done", "committed"} : snd' = [snd EXCEPT ![m] = pc]
    BY <1>4 DEF Admit, Leaves, Sender
  <2> QED
    BY <1>0, <1>4, <2>1 DEF Unadmitted, Unpublished
<1>5. ASSUME NEW m \in Jobs, Publish(m)  PROVE Forward
  <2>1. \E pc \in {"done", "promote", "ack"} : snd' = [snd EXCEPT ![m] = pc]
    BY <1>5 DEF Publish, Leaves, Sender
  <2> QED
    BY <1>0, <2>1 DEF Unadmitted, Unpublished
<1>6. ASSUME NEW m \in Jobs, PersistPromote(m) \/ Ack(m)  PROVE Forward
  <2>1. \E pc \in {"done", "ack"} : snd' = [snd EXCEPT ![m] = pc]
    BY <1>6 DEF PersistPromote, Ack, Leaves, Sender
  <2> QED
    BY <1>0, <2>1 DEF Unadmitted, Unpublished
<1>7. ASSUME Restart  PROVE Forward
  BY <1>0, <1>7 DEF Restart, Unadmitted, Unpublished
<1> QED
  BY <1>1, <1>2, <1>3, <1>4, <1>5, <1>6, <1>7, Writes_senders

\* A turn keeps its job, and leaves the part before its answer by staging it.
LEMMA TurnMoves ==
  ASSUME QueueInv, [Next]_vars
  PROVE  \/ con' \notin TurnAt
         \/ Pop /\ cur' = FirstIn(mem, Runnable)
         \/ Stage /\ con = "stage" /\ con' \in {"deliver", "complete"} /\ cur' = cur
         \/ /\ con \in TurnAt /\ cur' = cur /\ (con' \in PreStage <=> con \in PreStage)
            /\ con = "failNotice" => con' = "failNotice"
<1> DEFINE Stays == /\ con \in TurnAt /\ cur' = cur /\ (con' \in PreStage <=> con \in PreStage)
                    /\ con = "failNotice" => con' = "failNotice"
           Ends == con' \notin TurnAt
<1>1. CASE con' = con /\ cur' = cur
  BY <1>1
<1>2. ASSUME NEW m \in Jobs, Guide(m) \/ Ack(m)  PROVE Ends \/ Stays
  <2>1. cur' = cur /\ con' \in {con, "loop"}
    BY <1>2 DEF Guide, Ack, StartDrain, Leaves, Sender
  <2> QED
    BY <2>1 DEF TurnAt
<1>3. ASSUME DrainEnds \/ Retain \/ Complete \/ Cancelled \/ FailNotice \/ ConsumerDies  PROVE Ends
  <2>1. con' \in {"loop", "off"}
    BY <1>3 DEF DrainEnds, Retain, Complete, Cancelled, FailNotice, ConsumerDies,
                ConsumerEnds, NextTurn
  <2> QED
    BY <2>1 DEF TurnAt
<1>4. ASSUME Pop  PROVE Ends \/ cur' = FirstIn(mem, Runnable)
  BY <1>4 DEF Pop, At, TurnAt
<1>5. ASSUME Load \/ SaveRunning \/ PinSession \/ Work \/ SaveMore \/ SaveBlocked
             \/ SaveWaiting \/ Notice \/ FailSave \/ FailRetain \/ WorkspaceLost
             \/ TurnFails
      PROVE  Ends \/ Stays
  <2>1. ASSUME NEW state, NEW next \in PreStage, NEW missing \in PreStage,
               Saves(state, next, missing)
        PROVE  cur' = cur /\ con' \in PreStage
    BY <2>1 DEF Saves, Goto
  <2>2. CASE SaveRunning \/ SaveMore \/ SaveBlocked \/ SaveWaiting
    BY <2>1, <2>2 DEF SaveRunning, SaveMore, SaveBlocked, SaveWaiting, At, PreStage, TurnAt
  <2>3. CASE PinSession
    BY <2>3 DEF PinSession, ConsumerEnds, Goto, At, PreStage, TurnAt
  <2>4. CASE Load \/ Work \/ Notice
    BY <2>4 DEF Load, Work, Notice, Goto, At, PreStage, TurnAt
  <2>5. CASE FailSave \/ FailRetain \/ WorkspaceLost \/ TurnFails
    BY <2>5 DEF FailSave, FailRetain, WorkspaceLost, TurnFails, Goto, At, PreStage, TurnAt
  <2> QED
    BY <1>5, <2>2, <2>3, <2>4, <2>5
<1>6. ASSUME Stage  PROVE con = "stage" /\ con' \in {"deliver", "complete"} /\ cur' = cur
  BY <1>6 DEF Stage, Goto, At
<1>7. ASSUME Delivered  PROVE Stays
  BY <1>7 DEF Delivered, Goto, At, PreStage, TurnAt
<1>8. ASSUME RetryWakes \/ CancelUpdate  PROVE Ends \/ Stays
  <2>1. cur' = cur /\ con' \in {con, "loop"}
    BY <1>8 DEF RetryWakes, CancelUpdate, StartDrain
  <2> QED
    BY <2>1 DEF TurnAt
<1>9. ASSUME Restart  PROVE Ends
  BY <1>9 DEF Restart, TurnAt
<1>10. ASSUME NEW d \in Deliverer, DeliveryRemoves(d)  PROVE Ends \/ Stays
  <2>1. cur' = cur /\ con' \in {con, "loop"}
    BY <1>10 DEF DeliveryRemoves, StartDrain
  <2> QED
    BY <2>1 DEF TurnAt
<1> QED
  BY <1>1, <1>2, <1>3, <1>4, <1>5, <1>6, <1>7, <1>8, <1>9, <1>10, Writes_con, Writes_cur

\* A request that has left keeps its outcome open only while nothing happens to it.
LEMMA OutcomeMoves ==
  ASSUME QueueInv, [Next]_vars, NEW j \in Jobs
  PROVE  outcome'[j] = outcome[j] \/ (outcome'[j] # "open" /\ j \in OnDisk \cup ledger)
<1> DEFINE Kept == outcome'[j] = outcome[j] \/ (outcome'[j] # "open" /\ j \in OnDisk \cup ledger)
<1>0. outcome \in [Jobs -> Outcomes]
  BY DEF QueueInv, TypeOK, HistoryOK
<1>1. CASE outcome' = outcome
  BY <1>1
<1>2. ASSUME Pop  PROVE Kept
  BY <1>0, <1>2 DEF Pop
<1>3. ASSUME NEW d \in Deliverer, DeliveryDiscards(d) \/ DeliveryRemoves(d)  PROVE Kept
  BY <1>0, <1>3 DEF DeliveryDiscards, DeliveryRemoves, RemoveRecord
<1>4. ASSUME NEW s \in Stops, StopClears(s) \/ StopClearsReplies(s)  PROVE Kept
  BY <1>0, <1>4 DEF StopClears, StopClearsReplies
<1> QED
  BY <1>1, <1>2, <1>3, <1>4, Writes_outcome

\* No step puts a request in the queue file before its admission.
LEMMA KeepsNotYetAdmitted ==
  ASSUME QueueInv, [Next]_vars
  PROVE  NotYetAdmitted'
<1> SUFFICES ASSUME NEW k \in Jobs, snd'[k] \in Unadmitted
             PROVE  k \notin OnDisk' /\ k \notin accepted' /\ outcome'[k] = "open"
  BY DEF NotYetAdmitted, Unadmitted
<1>1. /\ snd[k] \in Unadmitted /\ k \notin OnDisk /\ k \notin accepted
      /\ outcome[k] = "open" /\ k \notin answered /\ k \notin ledger
  BY SenderMoves DEF QueueInv, NotYetAdmitted, NotYetPublished, Unpublished, HoldMirrorsLedger
<1>2. k \notin OnDisk'
  BY <1>1, DiskMoves, EmptyQueue DEF Unadmitted, OnDisk
<1>3. k \notin accepted'
  <2>1. ASSUME NEW m \in Jobs, Admit(m)
        PROVE  accepted' = accepted \/ (accepted' = accepted \cup {m} /\ snd'[m] = "committed")
    BY <2>1 DEF Admit, Sender, QueueInv, TypeOK, SendersOK
  <2> QED
    BY <1>1, <2>1, Writes_accepted DEF Unadmitted
<1> QED
  BY <1>1, <1>2, <1>3, OutcomeMoves

\* No step brings a request to memory, or answers it, before it is published.
LEMMA KeepsNotYetPublished ==
  ASSUME QueueInv, [Next]_vars
  PROVE  NotYetPublished'
<1> SUFFICES ASSUME NEW k \in Jobs, snd'[k] \in Unpublished
             PROVE  k \notin InMem' /\ k \notin answered'
  BY DEF NotYetPublished, Unpublished, Unadmitted
<1>1. snd[k] \in Unpublished /\ k \notin InMem /\ k \notin answered
  BY SenderMoves DEF QueueInv, NotYetPublished
<1>2. con \in TurnAt => k # cur
  BY <1>1 DEF QueueInv, TurnHasJob
<1>3. k \notin OnDisk \/ snd[k] = "committed"
  BY <1>1 DEF QueueInv, NotYetAdmitted, Unpublished
<1>4. k \notin InMem'
  <2>1. CASE (Retain \/ FailRetain) /\ InMem' = InMem \cup {cur}
    BY <2>1, <1>1, <1>2 DEF Retain, FailRetain, At, TurnAt
  <2>2. CASE RetryWakes /\ claim \in OnDisk /\ InMem' = InMem \cup {claim}
    BY <2>2, <1>1, <1>3 DEF RetryWakes, QueueInv, OneAdmission
  <2>3. CASE Restart /\ InMem' = OnDisk
    <3>1. snd[k] \in Unadmitted
      BY <2>3 DEF Restart, Unpublished, Unadmitted
    <3> QED
      BY <2>3, <3>1 DEF QueueInv, NotYetAdmitted
  <2>4. ASSUME NEW m \in Jobs, snd'[m] \in {"promote", "ack"}  PROVE k # m
    BY <2>4 DEF Unpublished, Unadmitted
  <2> QED
    BY <1>1, <2>1, <2>2, <2>3, <2>4, MemoryMoves
<1>5. k \notin answered'
  <2>1. CASE Stage
    BY <2>1, <1>1, <1>2 DEF Stage, At, TurnAt
  <2> QED
    BY <1>1, <2>1, Writes_answered
<1> QED
  BY <1>4, <1>5

\* No step gives the admission lock a second holder.
LEMMA KeepsOneAdmission ==
  ASSUME QueueInv, [Next]_vars
  PROVE  OneAdmission'
<1>1. \A m \in Jobs : snd'[m] = "committed" =>
        snd[m] = "committed" \/ (Admit(m) /\ snd[m] = "admit" /\ AdmissionFree)
  BY SenderMoves
<1>2. stop \in [Stops -> StopAt] /\ snd \in [Jobs -> SenderAt]
  BY DEF QueueInv, TypeOK, StoppingOK, SendersOK
<1>3. ASSUME NEW m \in Jobs, Admit(m), AdmissionFree, snd[m] = "admit"  PROVE OneAdmission'
  <2>1. claim' = claim /\ stop' = stop /\ claim = NoJob /\ ~Clearing
    BY <1>3 DEF Admit, AdmissionFree, Clearing, retry, stopping
  <2>2. \A k \in Jobs : snd'[k] = "committed" => k = m
    BY <1>2, <1>3 DEF Admit, Leaves, Sender, AdmissionFree
  <2> QED
    BY <2>1, <2>2 DEF OneAdmission, Clearing, QueueInv
<1> DEFINE NoNewCommit == \A m \in Jobs : snd'[m] = "committed" => snd[m] = "committed"
<1>4. CASE NoNewCommit /\ retry' = retry /\ stop' = stop
  BY <1>4 DEF QueueInv, OneAdmission, Clearing, retry
<1>5. ASSUME NoNewCommit, RetryClaims  PROVE OneAdmission'
  <2>1. stop' = stop /\ (\A m \in Jobs : snd[m] # "committed") /\ ~Clearing
    BY <1>5 DEF RetryClaims, AdmissionFree, Clearing, stopping
  <2> QED
    BY <1>5, <2>1 DEF OneAdmission, Clearing, QueueInv
<1>6. ASSUME NoNewCommit, RetryWakes  PROVE OneAdmission'
  <2>1. stop' = stop /\ claim' = NoJob
    BY <1>6 DEF RetryWakes, stopping
  <2> QED
    BY <1>6, <2>1 DEF OneAdmission, Clearing, QueueInv
<1>7. ASSUME Restart  PROVE OneAdmission'
  BY <1>2, <1>7 DEF Restart, OneAdmission, Clearing
<1>8. ASSUME NoNewCommit, NEW s \in Stops, StopAtOnce(s) \/ StopSettled(s)  PROVE OneAdmission'
  <2>1. /\ claim' = NoJob /\ AdmissionFree /\ stop' = [stop EXCEPT ![s] = "clear"]
        /\ \A m \in Jobs : snd[m] # "committed"
    BY <1>8 DEF StopAtOnce, StopSettled, AdmissionFree, retry
  <2>2. \A t \in Stops : stop'[t] \in {"clear", "replies"} => t = s
    BY <1>2, <2>1 DEF AdmissionFree
  <2> QED
    BY <1>8, <2>1, <2>2 DEF OneAdmission
<1>9. ASSUME NoNewCommit, NEW s \in Stops, StopBegins(s) \/ StopClears(s) \/ StopClearsReplies(s)
      PROVE  OneAdmission'
  <2>1. claim' = claim /\ \A t \in Stops : stop'[t] \in {"clear", "replies"}
                                          => stop[t] \in {"clear", "replies"}
    BY <1>2, <1>9 DEF StopBegins, StopClears, StopClearsReplies, retry
  <2> QED
    BY <1>9, <2>1 DEF OneAdmission, Clearing, QueueInv
<1> QED
  BY <1>1, <1>3, <1>4, <1>5, <1>6, <1>7, <1>8, <1>9, Writes_retry, Writes_stop

\* No step fills the queue file while /stop discards replies.
LEMMA KeepsFileClearedFirst ==
  ASSUME QueueInv, [Next]_vars
  PROVE  FileClearedFirst'
<1>0. stop \in [Stops -> StopAt]
  BY DEF QueueInv, TypeOK, StoppingOK
<1> SUFFICES ASSUME NEW s \in Stops, stop'[s] = "replies"  PROVE OnDisk' = {}
  BY DEF FileClearedFirst
<1>1. CASE stop[s] = "replies"
  <2>1. OnDisk = {} /\ Clearing
    BY <1>1 DEF QueueInv, FileClearedFirst, Clearing
  <2>2. ASSUME NEW m \in Jobs, Admit(m), snd'[m] = "committed"  PROVE FALSE
    <3>1. snd[m] = "admit" /\ AdmissionFree
      BY <2>2 DEF Admit
    <3> QED
      BY <2>1, <3>1 DEF AdmissionFree, Clearing
  <2> QED
    BY <2>1, <2>2, DiskMoves, EmptyQueue DEF OnDisk
<1>2. CASE stop[s] # "replies"
  <2>1. \E t \in Stops : StopClears(t)
    <3>1. CASE stop' = stop
      BY <1>2, <3>1
    <3>2. CASE Restart
      BY <1>0, <3>2 DEF Restart
    <3>3. ASSUME NEW t \in Stops, StopAtOnce(t) \/ StopBegins(t) \/ StopSettled(t)
                                  \/ StopClearsReplies(t)
          PROVE  FALSE
      BY <1>0, <1>2, <3>3 DEF StopAtOnce, StopBegins, StopSettled, StopClearsReplies
    <3> QED
      BY <3>1, <3>2, <3>3, Writes_stop
  <2>2. disk' = <<>>
    BY <2>1 DEF StopClears, ClearPersistentQueue
  <2> QED
    BY <2>2, EmptyQueue DEF OnDisk
<1> QED
  BY <1>1, <1>2

\* Who is clearing: /stop has emptied the memory when it begins.
LEMMA ClearingMoves ==
  ASSUME QueueInv, [Next]_vars
  PROVE  Clearing' => \/ Clearing /\ ~Restart
                      \/ mem' = <<>> /\ answered' = answered
<1>0. stop \in [Stops -> StopAt]
  BY DEF QueueInv, TypeOK, StoppingOK
<1> DEFINE Moves == Clearing' => \/ Clearing /\ ~Restart
                                 \/ mem' = <<>> /\ answered' = answered
<1>1. CASE Restart
  BY <1>0, <1>1 DEF Restart, Clearing
<1>2. CASE stop' = stop /\ ~Restart
  BY <1>2 DEF Clearing
<1>3. ASSUME NEW s \in Stops, StopAtOnce(s) \/ StopSettled(s)  PROVE Moves
  BY <1>3 DEF StopAtOnce, StopSettled, StopDrains, history
<1>4. ASSUME NEW s \in Stops, StopBegins(s) \/ StopClears(s) \/ StopClearsReplies(s), ~Restart
      PROVE  Moves
  BY <1>0, <1>4 DEF StopBegins, StopClears, StopClearsReplies, Clearing
<1> QED
  BY <1>1, <1>2, <1>3, <1>4, Writes_stop

\* A popped job is out of memory.
LEMMA PopLeavesMemory ==
  ASSUME QueueInv, Pop
  PROVE  /\ FirstIn(mem, Runnable) \in Jobs /\ FirstIn(mem, Runnable) \in InMem
         /\ FirstIn(mem, Runnable) \notin InMem'
<1>0. TypeOK
  BY DEF QueueInv
<1>1. FirstIn(mem, Runnable) \in Jobs /\ FirstIn(mem, Runnable) \in InMem
      /\ mem' = Without(mem, FirstIn(mem, Runnable))
  BY <1>0, PopTakesWaiting, MembersAreJobs DEF Pop
<1> QED
  BY <1>0, <1>1, QueueEdits DEF InMem

\* No step brings answered work back to memory while /stop clears.
LEMMA KeepsMemoryStaysClear ==
  ASSUME QueueInv, [Next]_vars
  PROVE  MemoryStaysClear'
<1> SUFFICES ASSUME Clearing'
             PROVE  /\ InMem' \cap answered' = {}
                    /\ con' \in TurnAt \ {"failNotice"} => cur' \notin InMem'
  BY DEF MemoryStaysClear, TurnAt
<1> DEFINE Clear == /\ InMem' \cap answered' = {}
                    /\ con' \in TurnAt \ {"failNotice"} => cur' \notin InMem'
<1>1. CASE mem' = <<>>
  BY <1>1, EmptyQueue DEF InMem
<1>2. ASSUME Clearing, ~Restart  PROVE Clear
  <2>1. /\ InMem \cap answered = {}
        /\ con \in TurnAt \ {"failNotice"} => cur \notin InMem
        /\ con \in PreStage => cur \notin answered
        /\ \A m \in Jobs : snd[m] # "committed"
        /\ claim = NoJob
    BY <1>2 DEF QueueInv, MemoryStaysClear, TurnOwesNothing, OneAdmission
  <2>2. answered' = answered \/ (con = "stage" /\ answered' = answered \cup {cur})
    BY Writes_answered DEF Stage, At
  <2>3. CASE InMem' \subseteq InMem
    <3>1. InMem' \cap answered' = {}
      BY <2>1, <2>2, <2>3 DEF TurnAt
    <3>2. ASSUME con' \in TurnAt \ {"failNotice"}  PROVE cur' \notin InMem'
      <4>1. CASE Pop /\ cur' = FirstIn(mem, Runnable)
        BY <4>1, PopLeavesMemory
      <4>2. CASE con \in TurnAt \ {"failNotice"} /\ cur' = cur
        BY <2>1, <2>3, <4>2
      <4> QED
        BY <3>2, <4>1, <4>2, TurnMoves DEF TurnAt
    <3> QED
      BY <3>1, <3>2
  <2>4. CASE (Retain \/ FailRetain) /\ InMem' = InMem \cup {cur}
    <3>1. con \in PreStage /\ con # "stage" /\ con' \in {"loop", "failNotice"}
      BY <2>4 DEF Retain, FailRetain, At, NextTurn, Goto, PreStage, TurnAt
    <3> QED
      BY <2>1, <2>2, <2>4, <3>1 DEF TurnAt
  <2>5. CASE RetryWakes
    BY <2>1, <2>5 DEF RetryWakes
  <2> QED
    BY <1>2, <2>1, <2>3, <2>4, <2>5, MemoryMoves
<1> QED
  BY <1>1, <1>2, ClearingMoves

\* Every turn is for a published request.
LEMMA KeepsTurnHasJob ==
  ASSUME QueueInv, [Next]_vars
  PROVE  TurnHasJob'
<1> SUFFICES ASSUME con' \in TurnAt  PROVE cur' \in Jobs /\ snd'[cur'] \notin Unpublished
  BY DEF TurnHasJob, TurnAt, Unpublished, Unadmitted
<1>1. cur' \in Jobs /\ snd[cur'] \notin Unpublished
  <2>1. CASE Pop /\ cur' = FirstIn(mem, Runnable)
    BY <2>1, PopLeavesMemory DEF QueueInv, NotYetPublished
  <2>2. CASE con \in TurnAt /\ cur' = cur
    BY <2>2 DEF QueueInv, TurnHasJob
  <2> QED
    BY <2>1, <2>2, TurnMoves DEF TurnAt
<1> QED
  BY <1>1, SenderMoves

\* A turn only starts, and only goes on, while no reply is owed.
LEMMA KeepsTurnOwesNothing ==
  ASSUME QueueInv, [Next]_vars
  PROVE  TurnOwesNothing'
<1> SUFFICES ASSUME con' \in PreStage  PROVE ledger' = {} /\ cur' \notin answered'
  BY DEF TurnOwesNothing, PreStage, TurnAt
<1>1. ~Stage
  BY DEF Stage, Goto, PreStage, TurnAt
<1>2. ledger = {} /\ cur' \notin answered
  <2>1. CASE Pop /\ cur' = FirstIn(mem, Runnable)
    <3>1. ledger = {}
      BY <2>1 DEF Pop, Held, QueueInv, HoldMirrorsLedger
    <3> QED
      BY <2>1, <3>1, PopLeavesMemory DEF QueueInv, AnswersConsumed
  <2>2. CASE con \in PreStage /\ cur' = cur
    BY <2>2 DEF QueueInv, TurnOwesNothing
  <2> QED
    BY <1>1, <2>1, <2>2, TurnMoves DEF PreStage, TurnAt
<1>3. answered' = answered
  BY <1>1, Writes_answered
<1>4. ledger' \subseteq ledger
  BY <1>1, Writes_ledger DEF DeliveryDiscards, DeliveryRemoves, RemoveRecord, StopClearsReplies
<1> QED
  BY <1>2, <1>3, <1>4

\* A turn only passes its staging with an answer.
LEMMA KeepsTurnAnswered ==
  ASSUME QueueInv, [Next]_vars
  PROVE  TurnAnswered'
<1> SUFFICES ASSUME con' \in TurnAt \ PreStage  PROVE cur' \in answered'
  BY DEF TurnAnswered, PreStage, TurnAt
<1>1. CASE Stage
  BY <1>1 DEF Stage, Goto
<1>2. CASE ~Stage
  <2>1. ~(Pop /\ cur' = FirstIn(mem, Runnable))
    BY DEF Pop, At, PreStage, TurnAt
  <2>2. con \in TurnAt \ PreStage /\ cur' = cur
    BY <1>2, <2>1, TurnMoves
  <2> QED
    BY <1>2, <2>2, Writes_answered DEF QueueInv, TurnAnswered
<1> QED
  BY <1>1, <1>2

\* How the ledger changes.
LEMMA LedgerMoves ==
  ASSUME QueueInv, [Next]_vars
  PROVE  \/ ledger' = ledger /\ answered' = answered
         \/ /\ Stage /\ ledger = {} /\ ledger' = {cur} /\ answered' = answered \cup {cur}
            /\ cur \in Jobs /\ disk' = disk /\ mem' = mem /\ outcome' = outcome
         \/ /\ answered' = answered /\ \E d \in Deliverer :
                 /\ DeliveryDiscards(d) \/ DeliveryRemoves(d)
                 /\ dlv[d].job \in ledger /\ ledger' = ledger \ {dlv[d].job}
                 /\ outcome'[dlv[d].job] # "open"
         \/ /\ answered' = answered /\ ledger' = {}
            /\ \A j \in ledger : outcome'[j] # "open"
            /\ \E s \in Stops : StopClearsReplies(s) /\ stop[s] = "replies"
<1>0. outcome \in [Jobs -> Outcomes] /\ ledger \subseteq Jobs
  BY DEF QueueInv, TypeOK, HistoryOK, QueuesOK
<1>1. ASSUME Stage
      PROVE  /\ ledger = {} /\ ledger' = {cur} /\ answered' = answered \cup {cur}
             /\ cur \in Jobs /\ disk' = disk /\ mem' = mem /\ outcome' = outcome
  BY <1>1 DEF Stage, At, QueueInv, TurnOwesNothing, TurnHasJob, PreStage, TurnAt
<1>2. ASSUME NEW d \in Deliverer, DeliveryDiscards(d) \/ DeliveryRemoves(d)
      PROVE  /\ answered' = answered
             /\ dlv[d].job \in ledger /\ ledger' = ledger \ {dlv[d].job}
             /\ outcome'[dlv[d].job] # "open"
  <2>1. dlv[d].job \in ledger
    BY <1>2 DEF DeliveryDiscards, DeliveryRemoves, Delivering, QueueInv, DeliversStaged, InTransit
  <2>2. answered' = answered
    BY <1>2 DEF DeliveryDiscards, DeliveryRemoves
  <2> QED
    BY <1>0, <1>2, <2>1, <2>2 DEF DeliveryDiscards, DeliveryRemoves, RemoveRecord
<1>3. ASSUME NEW s \in Stops, StopClearsReplies(s)
      PROVE  /\ answered' = answered /\ ledger' = {} /\ stop[s] = "replies"
             /\ \A j \in ledger : outcome'[j] # "open"
  BY <1>0, <1>3 DEF StopClearsReplies
<1>4. CASE ledger' = ledger
  BY <1>1, <1>4, Writes_answered
<1> QED
  BY <1>1, <1>2, <1>3, <1>4, Writes_ledger

\* The ledger and the owner's hold change together.
LEMMA KeepsHoldMirrorsLedger ==
  ASSUME QueueInv, [Next]_vars
  PROVE  HoldMirrorsLedger'
<1>1. ledger \subseteq answered /\ (pending <=> ledger # {})
  BY DEF QueueInv, HoldMirrorsLedger
<1>2. ledger' \subseteq answered'
  BY <1>1, LedgerMoves
<1>3. pending' <=> ledger' # {}
  <2>1. CASE UNCHANGED <<pending, ledger>>
    BY <1>1, <2>1
  <2>2. CASE Stage
    BY <1>1, <2>2 DEF Stage
  <2>3. CASE Restart
    BY <2>3 DEF Restart, durable
  <2>4. ASSUME NEW d \in Deliverer, DeliveryDiscards(d) \/ DeliveryRemoves(d)
        PROVE  pending' <=> ledger' # {}
    BY <1>1, <2>4 DEF DeliveryDiscards, DeliveryRemoves, RemoveRecord
  <2>5. ASSUME NEW s \in Stops, StopClearsReplies(s)  PROVE pending' <=> ledger' # {}
    BY <2>5 DEF StopClearsReplies
  <2> QED
    BY <2>1, <2>2, <2>3, <2>4, <2>5, Writes_pending, Writes_ledger
<1> QED
  BY <1>2, <1>3 DEF HoldMirrorsLedger

\* A reply is only staged in an empty ledger.
LEMMA KeepsOneStagedReply ==
  ASSUME QueueInv, [Next]_vars
  PROVE  OneStagedReply'
BY LedgerMoves DEF QueueInv, OneStagedReply

\* An answer only leaves the ledger with an outcome.
LEMMA KeepsAnswersAccounted ==
  ASSUME QueueInv, [Next]_vars
  PROVE  AnswersAccounted'
<1> SUFFICES ASSUME NEW j \in answered'  PROVE j \in ledger' \/ outcome'[j] # "open"
  BY DEF AnswersAccounted
<1>1. answered \subseteq Jobs
  BY DEF QueueInv, TypeOK, HistoryOK
<1>2. CASE j \in ledger
  BY <1>2, LedgerMoves
<1>3. CASE j \notin answered
  BY <1>3, LedgerMoves
<1>4. CASE j \in answered \ ledger
  BY <1>1, <1>4, OutcomeMoves DEF QueueInv, AnswersAccounted
<1> QED
  BY <1>2, <1>3, <1>4

\* An answer only leaves the ledger when its request is consumed.
LEMMA KeepsAnswersConsumed ==
  ASSUME QueueInv, [Next]_vars
  PROVE  AnswersConsumed'
<1> SUFFICES ASSUME NEW j \in answered', j \in OnDisk' \/ j \in InMem'  PROVE j \in ledger'
  BY DEF AnswersConsumed
<1>1. ledger \subseteq answered /\ \A m \in Jobs : snd[m] \in Unpublished => m \notin answered
  BY DEF QueueInv, HoldMirrorsLedger, NotYetPublished
<1>2. ASSUME j \in answered  PROVE j \in OnDisk \/ j \in InMem
  <2>1. ASSUME NEW m \in Jobs, Admit(m) \/ snd[m] = "committed"  PROVE j # m
    BY <1>1, <1>2, <2>1 DEF Admit, Unpublished, Unadmitted
  <2>2. j \in OnDisk' => j \in OnDisk
    BY <2>1, DiskMoves, EmptyQueue DEF OnDisk
  <2>3. j \in InMem' => j \in InMem \/ j \in OnDisk
    BY <2>1, MemoryMoves
  <2> QED
    BY <2>2, <2>3
<1>3. CASE j \notin answered
  BY <1>3, LedgerMoves
<1>4. CASE j \in answered
  <2>1. j \in ledger
    BY <1>2, <1>4 DEF QueueInv, AnswersConsumed
  <2>3. ASSUME NEW d \in Deliverer, DeliveryDiscards(d) \/ DeliveryRemoves(d), j = dlv[d].job
        PROVE  FALSE
    BY <1>2, <1>4, <2>3 DEF DeliveryDiscards, DeliveryRemoves, Delivering, QueueInv, DeliversConsumed
  <2>4. ASSUME NEW s \in Stops, StopClearsReplies(s)  PROVE FALSE
    <3>1. stop[s] = "replies"
      BY <2>4 DEF StopClearsReplies
    <3>2. OnDisk = {} /\ InMem \cap answered = {}
      BY <3>1 DEF QueueInv, FileClearedFirst, MemoryStaysClear, Clearing
    <3> QED
      BY <1>2, <1>4, <3>2
  <2> QED
    BY <2>1, <2>3, <2>4, LedgerMoves
<1> QED
  BY <1>3, <1>4

\* A request gets its outcome when it leaves the queue file or later.
LEMMA KeepsQueuedIsOpen ==
  ASSUME QueueInv, [Next]_vars
  PROVE  QueuedIsOpen'
<1> SUFFICES ASSUME NEW j \in OnDisk'  PROVE outcome'[j] = "open"
  BY DEF QueuedIsOpen
<1>0. TypeOK /\ outcome \in [Jobs -> Outcomes]
  BY DEF QueueInv, TypeOK, HistoryOK
<1>1. j \in Jobs /\ outcome[j] = "open"
  <2>1. CASE j \in OnDisk
    BY <1>0, <2>1, MembersAreJobs DEF QueueInv, QueuedIsOpen
  <2>2. CASE j \notin OnDisk
    <3>1. PICK m \in Jobs : Admit(m) /\ j = m
      BY <2>2, DiskMoves, EmptyQueue DEF OnDisk
    <3> QED
      BY <3>1 DEF Admit, QueueInv, NotYetAdmitted, Unadmitted
  <2> QED
    BY <2>1, <2>2
<1>2. CASE outcome' = outcome
  BY <1>1, <1>2
<1>3. ASSUME Pop  PROVE outcome'[j] = "open"
  <2>1. CASE outcome' = outcome
    BY <1>1, <2>1
  <2>2. CASE outcome' # outcome
    <3>1. disk' = Without(disk, FirstIn(mem, Runnable))
          /\ \E how \in Outcomes : outcome' = [outcome EXCEPT ![FirstIn(mem, Runnable)] = how]
      BY <1>0, <1>3, <2>2, PopLeavesMemory DEF Pop, PersistComplete, Outcomes
    <3>2. j # FirstIn(mem, Runnable)
      BY <1>0, <1>3, <3>1, PopLeavesMemory, QueueEdits DEF OnDisk
    <3> QED
      BY <1>0, <1>1, <3>1, <3>2
  <2> QED
    BY <2>1, <2>2
<1>4. ASSUME NEW d \in Deliverer, DeliveryDiscards(d) \/ DeliveryRemoves(d)
      PROVE  outcome'[j] = "open"
  <2>1. dlv[d].job \in ledger /\ dlv[d].job \in Jobs
    BY <1>0, <1>4 DEF DeliveryDiscards, DeliveryRemoves, Delivering, QueueInv, DeliversStaged,
                InTransit, TypeOK, QueuesOK
  <2>2. dlv[d].job \notin OnDisk'
    BY <1>4 DEF DeliveryDiscards, DeliveryRemoves, Delivering, QueueInv, DeliversConsumed, OnDisk
  <2>3. \E how \in Outcomes : outcome' = [outcome EXCEPT ![dlv[d].job] = how]
    BY <1>0, <1>4, <2>1 DEF DeliveryDiscards, DeliveryRemoves, RemoveRecord, Outcomes
  <2> QED
    BY <1>0, <1>1, <2>2, <2>3
<1>5. ASSUME NEW s \in Stops, StopClears(s)  PROVE FALSE
  BY <1>5, EmptyQueue DEF StopClears, ClearPersistentQueue, OnDisk
<1>6. ASSUME NEW s \in Stops, StopClearsReplies(s)  PROVE FALSE
  BY <1>6 DEF StopClearsReplies, QueueInv, FileClearedFirst, OnDisk
<1> QED
  BY <1>2, <1>3, <1>4, <1>5, <1>6, Writes_outcome

\* How a delivery moves.
LEMMA DeliveryMoves ==
  ASSUME QueueInv, [Next]_vars, NEW d \in Deliverer, dlv'[d].at \in InTransit
  PROVE  /\ dlv'[d].job = dlv[d].job
         /\ \/ dlv'[d] = dlv[d] /\ ~DeliverySend(d)
            \/ /\ DeliveryLocks(d) /\ dlv'[d].at = "input" /\ dlv[d].job \in ledger
               /\ \A e \in Deliverer : dlv[e].at \notin InTransit
               /\ \A e \in Deliverer \ {d} : dlv'[e] = dlv[e]
            \/ DeliveryInput(d) /\ dlv[d].at = "input" /\ dlv'[d].at \in {"send", "discard"}
            \/ DeliverySend(d) /\ dlv[d].at = "send" /\ dlv'[d].at = "remove"
<1> DEFINE Moves ==
      /\ dlv'[d].job = dlv[d].job
      /\ \/ dlv'[d] = dlv[d] /\ ~DeliverySend(d)
         \/ /\ DeliveryLocks(d) /\ dlv'[d].at = "input" /\ dlv[d].job \in ledger
            /\ \A e \in Deliverer : dlv[e].at \notin InTransit
            /\ \A e \in Deliverer \ {d} : dlv'[e] = dlv[e]
         \/ DeliveryInput(d) /\ dlv[d].at = "input" /\ dlv'[d].at \in {"send", "discard"}
         \/ DeliverySend(d) /\ dlv[d].at = "send" /\ dlv'[d].at = "remove"
<1>0. dlv \in [Deliverer -> [at : DeliveryAt, job : Jobs \cup {NoJob}]] /\ Off.at = "off"
  BY DEF QueueInv, TypeOK, DeliveriesOK, Off
<1>1. CASE dlv' = dlv
  BY ZenonT(60), <1>0, <1>1 DEF DeliverySend, Delivering, DeliveryGoes
<1>2. CASE Stage \/ PollReply
  <2>1. dlv'[d] = dlv[d] \/ dlv'[d].at = "lock"
    BY <1>0, <1>2 DEF Stage, PollReply
  <2>2. dlv'[d] = dlv[d] => ~DeliverySend(d)
    BY <1>0 DEF DeliverySend, Delivering, DeliveryGoes
  <2> QED
    BY <2>1, <2>2 DEF InTransit
<1>4. CASE Restart
  BY <1>0, <1>4 DEF Restart, InTransit
<1>5. ASSUME NEW s \in Stops, StopAtOnce(s) \/ StopBegins(s)  PROVE Moves
  BY <1>0, <1>5 DEF StopAtOnce, StopBegins, StopSignals, InTransit
<1>6. ASSUME NEW e \in Deliverer, e # d,
             DeliveryLocks(e) \/ DeliveryDiscards(e) \/ DeliveryInput(e) \/ DeliverySend(e)
             \/ DeliveryRemoves(e) \/ DeliveryFails(e)
      PROVE  dlv'[d] = dlv[d] /\ ~DeliverySend(d)
  <2>1. dlv'[d] = dlv[d]
    BY <1>0, <1>6 DEF DeliveryLocks, DeliveryDiscards, DeliveryInput, DeliverySend,
                DeliveryRemoves, DeliveryFails, DeliveryGoes, DeliveryEnds
  <2> QED
    BY <1>0, <2>1 DEF DeliverySend, Delivering, DeliveryGoes
<1>7. CASE DeliveryLocks(d)
  BY <1>0, <1>7 DEF DeliveryLocks, Delivering, DeliveryGoes, DeliveryEnds, InTransit
<1>8. CASE DeliveryInput(d) \/ DeliverySend(d)
  BY <1>0, <1>8 DEF DeliveryInput, DeliverySend, Delivering, DeliveryGoes, InTransit
<1>9. CASE DeliveryDiscards(d) \/ DeliveryRemoves(d) \/ DeliveryFails(d)
  BY <1>0, <1>9 DEF DeliveryDiscards, DeliveryRemoves, DeliveryFails, DeliveryEnds, InTransit
<1> QED
  BY <1>1, <1>2, <1>4, <1>5, <1>6, <1>7, <1>8, <1>9, Writes_dlv

\* The delivery lock admits one delivery.
LEMMA KeepsOneDelivery ==
  ASSUME QueueInv, [Next]_vars
  PROVE  OneDelivery'
<1> SUFFICES ASSUME NEW d \in Deliverer, NEW e \in Deliverer,
                    dlv'[d].at \in InTransit, dlv'[e].at \in InTransit, d # e
             PROVE  FALSE
  BY DEF OneDelivery, InTransit
<1>1. ~(DeliveryLocks(d) /\ dlv'[d].at = "input" /\ (\A x \in Deliverer : dlv[x].at \notin InTransit)
        /\ (\A x \in Deliverer \ {d} : dlv'[x] = dlv[x]))
  BY DEF InTransit
<1>2. ~(DeliveryLocks(e) /\ dlv'[e].at = "input" /\ (\A x \in Deliverer : dlv[x].at \notin InTransit)
        /\ (\A x \in Deliverer \ {e} : dlv'[x] = dlv[x]))
  BY DEF InTransit
<1>3. dlv[d].at \in InTransit
  BY <1>1, DeliveryMoves DEF InTransit
<1>4. dlv[e].at \in InTransit
  BY <1>2, DeliveryMoves DEF InTransit
<1> QED
  BY <1>3, <1>4 DEF QueueInv, OneDelivery

\* A delivery keeps the record it is about.
LEMMA KeepsDeliversStaged ==
  ASSUME QueueInv, [Next]_vars
  PROVE  DeliversStaged'
<1> SUFFICES ASSUME NEW d \in Deliverer, dlv'[d].at \in InTransit  PROVE dlv'[d].job \in ledger'
  BY DEF DeliversStaged, InTransit
<1>0. dlv \in [Deliverer -> [at : DeliveryAt, job : Jobs \cup {NoJob}]] /\ Off.at = "off"
  BY DEF QueueInv, TypeOK, DeliveriesOK, Off
<1>1. dlv'[d].job = dlv[d].job /\ dlv[d].job \in ledger
  BY DeliveryMoves DEF QueueInv, DeliversStaged, InTransit
<1>2. ASSUME NEW e \in Deliverer, DeliveryDiscards(e) \/ DeliveryRemoves(e)  PROVE FALSE
  <2>1. dlv' = [dlv EXCEPT ![e] = Off]
    BY <1>2 DEF DeliveryDiscards, DeliveryRemoves, DeliveryEnds
  <2>2. e # d /\ dlv[d].at \in InTransit
    BY <1>0, <2>1 DEF InTransit
  <2> QED
    BY <1>2, <2>2 DEF DeliveryDiscards, DeliveryRemoves, Delivering, InTransit, QueueInv, OneDelivery
<1>3. ASSUME NEW s \in Stops, StopClearsReplies(s)  PROVE FALSE
  <2>1. Cancelling /\ dlv' = dlv
    BY <1>3 DEF StopClearsReplies, Cancelling
  <2> QED
    BY <1>0, <2>1 DEF QueueInv, StopEndsDeliveries, InTransit
<1> QED
  BY <1>1, <1>2, <1>3, LedgerMoves

\* What is being sent is no longer queued, and is not queued again.
LEMMA KeepsDeliversConsumed ==
  ASSUME QueueInv, [Next]_vars
  PROVE  DeliversConsumed'
<1> SUFFICES ASSUME NEW d \in Deliverer, dlv'[d].at \in {"send", "remove", "discard"}
             PROVE  dlv'[d].job \notin OnDisk' /\ dlv'[d].job \notin InMem'
  BY DEF DeliversConsumed
<1>0. TypeOK /\ dlv'[d].at \in InTransit
  BY DEF QueueInv, InTransit
<1>1. dlv'[d].job = dlv[d].job
  BY <1>0, DeliveryMoves
<1>2. CASE DeliveryInput(d)
  <2>1. dlv[d].job \in Jobs
    BY <1>2 DEF DeliveryInput, Delivering, QueueInv, DeliversStaged, InTransit, TypeOK, QueuesOK
  <2> QED
    BY <1>0, <1>1, <1>2, <2>1, QueueEdits DEF DeliveryInput, PersistComplete, OnDisk, InMem
<1>3. CASE ~DeliveryInput(d)
  <2>1. dlv[d].at \in {"send", "remove", "discard"}
    BY <1>0, <1>3, DeliveryMoves
  <2>2. /\ dlv[d].job \notin OnDisk /\ dlv[d].job \notin InMem
        /\ dlv[d].job \in answered
    BY <2>1 DEF QueueInv, DeliversConsumed, DeliversStaged, HoldMirrorsLedger, InTransit
  <2>3. ASSUME NEW m \in Jobs, Admit(m) \/ snd[m] = "committed"  PROVE dlv[d].job # m
    BY <2>2, <2>3 DEF Admit, QueueInv, NotYetPublished, Unpublished, Unadmitted
  <2>4. dlv[d].job \notin OnDisk'
    BY <2>2, <2>3, DiskMoves, EmptyQueue DEF OnDisk
  <2>5. dlv[d].job \notin InMem'
    BY <2>2, <2>3, MemoryMoves
  <2> QED
    BY <1>1, <2>4, <2>5
<1> QED
  BY <1>2, <1>3

\* No delivery starts while /stop is at work.
LEMMA KeepsStopEndsDeliveries ==
  ASSUME QueueInv, [Next]_vars
  PROVE  StopEndsDeliveries'
<1> SUFFICES ASSUME Cancelling'  PROVE \A d \in Deliverer : dlv'[d] = Off
  BY DEF StopEndsDeliveries
<1>0. stop \in [Stops -> StopAt] /\ Off.at = "off"
  BY DEF QueueInv, TypeOK, StoppingOK, Off
<1>1. ASSUME NEW s \in Stops, StopAtOnce(s) \/ StopBegins(s)  PROVE \A d \in Deliverer : dlv'[d] = Off
  BY <1>1 DEF StopAtOnce, StopBegins, StopSignals
<1>2. ~Restart
  BY <1>0 DEF Restart, Cancelling
<1>3. ASSUME \A s \in Stops : ~StopAtOnce(s) /\ ~StopBegins(s)  PROVE Cancelling
  <2>1. CASE stop' = stop
    BY <2>1 DEF Cancelling
  <2>2. ASSUME NEW s \in Stops, StopSettled(s) \/ StopClears(s) \/ StopClearsReplies(s)
        PROVE  Cancelling
    BY <2>2 DEF StopSettled, StopClears, StopClearsReplies, Cancelling
  <2> QED
    BY <1>2, <1>3, <2>1, <2>2, Writes_stop
<1>4. ASSUME Cancelling  PROVE \A d \in Deliverer : dlv[d] = Off
  BY <1>4 DEF QueueInv, StopEndsDeliveries
<1>5. ASSUME Cancelling, \A s \in Stops : ~StopAtOnce(s) /\ ~StopBegins(s)  PROVE dlv' = dlv
  <2>1. CASE Stage
    BY <1>5, <2>1 DEF Stage
  <2>2. ASSUME PollReply  PROVE FALSE
    BY <1>5, <2>2 DEF PollReply
  <2>3. ASSUME NEW d \in Deliverer,
               DeliveryLocks(d) \/ DeliveryDiscards(d) \/ DeliveryInput(d) \/ DeliverySend(d)
               \/ DeliveryRemoves(d) \/ DeliveryFails(d)
        PROVE  FALSE
    <3>1. dlv[d].at # "off"
      BY <2>3 DEF DeliveryLocks, DeliveryDiscards, DeliveryInput, DeliverySend,
                  DeliveryRemoves, DeliveryFails, Delivering, InTransit
    <3> QED
      BY <1>0, <1>4, <1>5, <3>1
  <2> QED
    BY <1>2, <1>5, <2>1, <2>2, <2>3, Writes_dlv
<1> QED
  BY <1>1, <1>3, <1>4, <1>5

\* No step loses an accepted request.
LEMMA KeepsAcceptedAccounted ==
  ASSUME QueueInv, [Next]_vars
  PROVE  AcceptedAccounted'
<1> SUFFICES ASSUME NEW j \in accepted'  PROVE j \in OnDisk' \/ j \in ledger' \/ outcome'[j] # "open"
  BY DEF AcceptedAccounted
<1> DEFINE Accounted == j \in OnDisk' \/ j \in ledger' \/ outcome'[j] # "open"
<1>0. TypeOK /\ accepted \subseteq Jobs /\ outcome \in [Jobs -> Outcomes] /\ snd \in [Jobs -> SenderAt]
  BY DEF QueueInv, TypeOK, HistoryOK, SendersOK
<1>1. CASE j \in answered'
  BY <1>1, KeepsAnswersAccounted DEF AnswersAccounted
<1>2. CASE j \notin accepted
  <2>1. PICK m \in Jobs : Admit(m)
    BY <1>2, Writes_accepted
  <2>2. j = m /\ disk' = Append(disk, m)
    BY <1>2, <2>1 DEF Admit, Leaves
  <2>3. m \notin OnDisk
    BY <1>0, <2>1 DEF Admit, QueueInv, NotYetAdmitted, Unadmitted
  <2> QED
    BY <1>0, <2>2, <2>3, QueueEdits DEF OnDisk
<1>3. CASE j \in accepted /\ j \notin answered'
  <2>1. j \in Jobs /\ j \notin answered /\ j \notin ledger
    BY <1>0, <1>3, LedgerMoves DEF QueueInv, HoldMirrorsLedger
  <2>2. j \in OnDisk \/ outcome[j] # "open"
    BY <1>3, <2>1 DEF QueueInv, AcceptedAccounted
  <2>3. CASE outcome[j] # "open"
    BY <2>1, <2>3, OutcomeMoves
  <2>4. CASE j \in OnDisk
    <3>1. ASSUME Pop, OnDisk' = OnDisk \ {FirstIn(mem, Runnable)}  PROVE Accounted
      <4>1. CASE disk' = disk
        BY <2>4, <4>1 DEF OnDisk
      <4>2. CASE disk' # disk
        <5>1. outcome' = [outcome EXCEPT ![FirstIn(mem, Runnable)] =
                            IF FirstIn(mem, Runnable) \in OnDisk THEN "dropped" ELSE @]
          BY <3>1, <4>2 DEF Pop, durable
        <5> QED
          BY <1>0, <2>1, <2>4, <3>1, <5>1
      <4> QED
        BY <4>1, <4>2
    <3>2. ASSUME Complete  PROVE cur # j
      BY <2>1, <3>2 DEF Complete, At, QueueInv, TurnAnswered, PreStage, TurnAt
    <3>3. ASSUME NEW d \in Deliverer, DeliveryInput(d)  PROVE dlv[d].job # j
      BY <2>1, <3>3 DEF DeliveryInput, Delivering, QueueInv, DeliversStaged, InTransit
    <3>4. ASSUME NEW s \in Stops, StopClears(s)  PROVE Accounted
      BY <1>0, <2>1, <2>4, <3>4 DEF StopClears
    <3> QED
      BY <2>4, <3>1, <3>2, <3>3, <3>4, DiskMoves
  <2> QED
    BY <2>2, <2>3, <2>4
<1> QED
  BY <1>1, <1>2, <1>3

\* The type invariant, part by part.
\* Flags are Booleans.
LEMMA KeepsFlagsOK ==
  ASSUME QueueInv, [Next]_vars
  PROVE  FlagsOK'
<1>1. CASE UNCHANGED <<paused, awaiting, pending>>
  BY <1>1 DEF QueueInv, TypeOK, FlagsOK
<1>2. ASSUME NEW m \in Jobs, Guide(m)  PROVE FlagsOK'
  BY <1>2
  DEF QueueInv, TypeOK, Guide, FlagsOK
<1>3. ASSUME NEW m \in Jobs, Publish(m)  PROVE FlagsOK'
  BY <1>3
  DEF QueueInv, TypeOK, Publish, FlagsOK
<1>4. ASSUME Load  PROVE FlagsOK'
  BY <1>4
  DEF QueueInv, TypeOK, Load, FlagsOK
<1>5. ASSUME Work  PROVE FlagsOK'
  BY <1>5
  DEF QueueInv, TypeOK, Work, FlagsOK
<1>6. ASSUME SaveBlocked  PROVE FlagsOK'
  BY <1>6
  DEF QueueInv, TypeOK, SaveBlocked, FlagsOK, Saves
<1>7. ASSUME Stage  PROVE FlagsOK'
  BY <1>7
  DEF QueueInv, TypeOK, Stage, FlagsOK
<1>8. ASSUME Delivered  PROVE FlagsOK'
  BY <1>8
  DEF QueueInv, TypeOK, Delivered, FlagsOK
<1>9. ASSUME WorkspaceLost  PROVE FlagsOK'
  BY <1>9
  DEF QueueInv, TypeOK, WorkspaceLost, FlagsOK
<1>10. ASSUME TurnFails  PROVE FlagsOK'
  BY <1>10
  DEF QueueInv, TypeOK, TurnFails, FlagsOK
<1>11. ASSUME RetryClaims  PROVE FlagsOK'
  BY <1>11
  DEF QueueInv, TypeOK, RetryClaims, FlagsOK
<1>12. ASSUME Restart  PROVE FlagsOK'
  BY <1>12
  DEF QueueInv, TypeOK, Restart, FlagsOK
<1>13. ASSUME NEW d \in Deliverer, DeliveryDiscards(d)  PROVE FlagsOK'
  BY <1>13
  DEF QueueInv, TypeOK, DeliveryDiscards, FlagsOK, RemoveRecord
<1>14. ASSUME NEW d \in Deliverer, DeliverySend(d)  PROVE FlagsOK'
  BY <1>14
  DEF QueueInv, TypeOK, DeliverySend, FlagsOK
<1>15. ASSUME NEW d \in Deliverer, DeliveryRemoves(d)  PROVE FlagsOK'
  BY <1>15
  DEF QueueInv, TypeOK, DeliveryRemoves, FlagsOK, RemoveRecord
<1>16. ASSUME NEW s \in Stops, StopAtOnce(s)  PROVE FlagsOK'
  BY <1>16
  DEF QueueInv, TypeOK, StopAtOnce, FlagsOK, StopDrains
<1>17. ASSUME NEW s \in Stops, StopSettled(s)  PROVE FlagsOK'
  BY <1>17
  DEF QueueInv, TypeOK, StopSettled, FlagsOK, StopDrains
<1>18. ASSUME NEW s \in Stops, StopClears(s)  PROVE FlagsOK'
  BY <1>18
  DEF QueueInv, TypeOK, StopClears, FlagsOK, ClearPersistentQueue
<1>19. ASSUME NEW s \in Stops, StopClearsReplies(s)  PROVE FlagsOK'
  BY <1>19
  DEF QueueInv, TypeOK, StopClearsReplies, FlagsOK
<1> QED
  BY <1>1, <1>2, <1>3, <1>4, <1>5, <1>6, <1>7, <1>8, <1>9, <1>10, <1>11,
     <1>12, <1>13, <1>14, <1>15, <1>16, <1>17, <1>18, <1>19, Writes_paused,
     Writes_awaiting, Writes_pending

\* The consumer owns at most one request.
LEMMA KeepsConsumerOK ==
  ASSUME QueueInv, [Next]_vars
  PROVE  ConsumerOK'
<1>1. CASE UNCHANGED <<con, cur, killed, request>>
  BY <1>1 DEF QueueInv, TypeOK, ConsumerOK, TurnAt, retry
<1>2. ASSUME NEW m \in Jobs, Guide(m)  PROVE ConsumerOK'
  BY <1>2
  DEF QueueInv, TypeOK, Guide, ConsumerOK, StartDrain, TurnAt
<1>3. ASSUME NEW m \in Jobs, Ack(m)  PROVE ConsumerOK'
  BY <1>3
  DEF QueueInv, TypeOK, Ack, ConsumerOK, StartDrain, TurnAt
<1>4. ASSUME DrainEnds  PROVE ConsumerOK'
  BY <1>4
  DEF QueueInv, TypeOK, DrainEnds, ConsumerOK, ConsumerEnds, TurnAt
<1>5. ASSUME Pop  PROVE ConsumerOK'
  BY <1>5, PopTakesWaiting, MembersAreJobs
  DEF QueueInv, TypeOK, Pop, ConsumerOK, TurnAt, InMem, QueuesOK
<1>6. ASSUME Load  PROVE ConsumerOK'
  BY <1>6
  DEF QueueInv, TypeOK, Load, ConsumerOK, Goto, TurnAt
<1>7. ASSUME SaveRunning  PROVE ConsumerOK'
  BY <1>7
  DEF QueueInv, TypeOK, SaveRunning, ConsumerOK, Saves, TurnAt, Goto
<1>8. ASSUME PinSession  PROVE ConsumerOK'
  BY <1>8
  DEF QueueInv, TypeOK, PinSession, ConsumerOK, Goto, ConsumerEnds, TurnAt
<1>9. ASSUME Work  PROVE ConsumerOK'
  BY <1>9
  DEF QueueInv, TypeOK, Work, ConsumerOK, Goto, TurnAt
<1>10. ASSUME SaveMore  PROVE ConsumerOK'
  BY <1>10
  DEF QueueInv, TypeOK, SaveMore, ConsumerOK, Saves, TurnAt, Goto
<1>11. ASSUME SaveBlocked  PROVE ConsumerOK'
  BY <1>11
  DEF QueueInv, TypeOK, SaveBlocked, ConsumerOK, Saves, TurnAt, Goto
<1>12. ASSUME SaveWaiting  PROVE ConsumerOK'
  BY <1>12
  DEF QueueInv, TypeOK, SaveWaiting, ConsumerOK, Saves, TurnAt, Goto
<1>13. ASSUME Notice  PROVE ConsumerOK'
  BY <1>13
  DEF QueueInv, TypeOK, Notice, ConsumerOK, Goto, TurnAt
<1>14. ASSUME Retain  PROVE ConsumerOK'
  BY <1>14
  DEF QueueInv, TypeOK, Retain, ConsumerOK, NextTurn, TurnAt
<1>15. ASSUME Stage  PROVE ConsumerOK'
  BY <1>15
  DEF QueueInv, TypeOK, Stage, ConsumerOK, Goto, TurnAt
<1>16. ASSUME Delivered  PROVE ConsumerOK'
  BY <1>16
  DEF QueueInv, TypeOK, Delivered, ConsumerOK, Goto, TurnAt
<1>17. ASSUME Complete  PROVE ConsumerOK'
  BY <1>17
  DEF QueueInv, TypeOK, Complete, ConsumerOK, NextTurn, TurnAt
<1>18. ASSUME Cancelled  PROVE ConsumerOK'
  BY <1>18
  DEF QueueInv, TypeOK, Cancelled, ConsumerOK, ConsumerEnds, TurnAt
<1>19. ASSUME FailSave  PROVE ConsumerOK'
  BY <1>19
  DEF QueueInv, TypeOK, FailSave, ConsumerOK, Goto, TurnAt
<1>20. ASSUME FailRetain  PROVE ConsumerOK'
  BY <1>20
  DEF QueueInv, TypeOK, FailRetain, ConsumerOK, Goto, TurnAt
<1>21. ASSUME FailNotice  PROVE ConsumerOK'
  BY <1>21
  DEF QueueInv, TypeOK, FailNotice, ConsumerOK, NextTurn, TurnAt
<1>22. ASSUME WorkspaceLost  PROVE ConsumerOK'
  BY <1>22
  DEF QueueInv, TypeOK, WorkspaceLost, ConsumerOK, Goto, TurnAt
<1>23. ASSUME TurnFails  PROVE ConsumerOK'
  BY <1>23
  DEF QueueInv, TypeOK, TurnFails, ConsumerOK, Goto, TurnAt
<1>24. ASSUME ConsumerDies  PROVE ConsumerOK'
  BY <1>24
  DEF QueueInv, TypeOK, ConsumerDies, ConsumerOK, ConsumerEnds, TurnAt
<1>25. ASSUME RetryWakes  PROVE ConsumerOK'
  BY <1>25
  DEF QueueInv, TypeOK, RetryWakes, ConsumerOK, StartDrain, TurnAt
<1>26. ASSUME CancelUpdate  PROVE ConsumerOK'
  BY <1>26
  DEF QueueInv, TypeOK, CancelUpdate, ConsumerOK, StartDrain, TurnAt
<1>27. ASSUME Restart  PROVE ConsumerOK'
  BY <1>27
  DEF QueueInv, TypeOK, Restart, ConsumerOK, TurnAt
<1>28. ASSUME NEW d \in Deliverer, DeliveryRemoves(d)  PROVE ConsumerOK'
  BY <1>28
  DEF QueueInv, TypeOK, DeliveryRemoves, ConsumerOK, StartDrain, TurnAt
<1>29. ASSUME NEW s \in Stops, StopAtOnce(s)  PROVE ConsumerOK'
  BY <1>29
  DEF QueueInv, TypeOK, StopAtOnce, ConsumerOK, StopSignals, TurnAt
<1>30. ASSUME NEW s \in Stops, StopBegins(s)  PROVE ConsumerOK'
  BY <1>30
  DEF QueueInv, TypeOK, StopBegins, ConsumerOK, StopSignals, TurnAt
<1> QED
  BY <1>1, <1>2, <1>3, <1>4, <1>5, <1>6, <1>7, <1>8, <1>9, <1>10, <1>11,
     <1>12, <1>13, <1>14, <1>15, <1>16, <1>17, <1>18, <1>19, <1>20, <1>21,
     <1>22, <1>23, <1>24, <1>25, <1>26, <1>27, <1>28, <1>29, <1>30,
     Writes_con, Writes_cur, Writes_killed, Writes_request

\* Every handler is somewhere.
LEMMA KeepsSendersOK ==
  ASSUME QueueInv, [Next]_vars
  PROVE  SendersOK'
<1>1. CASE UNCHANGED <<senders>>
  BY <1>1 DEF QueueInv, TypeOK, SendersOK, SenderAt, senders
<1>2. ASSUME NEW m \in Jobs, Arrive(m)  PROVE SendersOK'
  BY <1>2
  DEF QueueInv, TypeOK, Arrive, SendersOK, Leaves, SenderAt, senders,
      StoppingOK
<1>3. ASSUME NEW m \in Jobs, Guide(m)  PROVE SendersOK'
  BY <1>3
  DEF QueueInv, TypeOK, Guide, SendersOK, Leaves, Sender, SenderAt, senders
<1>4. ASSUME NEW m \in Jobs, Admit(m)  PROVE SendersOK'
  BY <1>4
  DEF QueueInv, TypeOK, Admit, SendersOK, Leaves, Sender, SenderAt, senders
<1>5. ASSUME NEW m \in Jobs, Publish(m)  PROVE SendersOK'
  BY <1>5
  DEF QueueInv, TypeOK, Publish, SendersOK, Leaves, Sender, SenderAt,
      senders
<1>6. ASSUME NEW m \in Jobs, PersistPromote(m)  PROVE SendersOK'
  BY <1>6
  DEF QueueInv, TypeOK, PersistPromote, SendersOK, Sender, SenderAt, senders
<1>7. ASSUME NEW m \in Jobs, Ack(m)  PROVE SendersOK'
  BY <1>7
  DEF QueueInv, TypeOK, Ack, SendersOK, Leaves, SenderAt, senders
<1>8. ASSUME Restart  PROVE SendersOK'
  BY <1>8
  DEF QueueInv, TypeOK, Restart, SendersOK, SenderAt, senders
<1> QED
  BY <1>1, <1>2, <1>3, <1>4, <1>5, <1>6, <1>7, <1>8, Writes_senders

\* Every /stop is somewhere.
LEMMA KeepsStoppingOK ==
  ASSUME QueueInv, [Next]_vars
  PROVE  StoppingOK'
<1>1. CASE UNCHANGED <<stopping>>
  BY <1>1 DEF QueueInv, TypeOK, StoppingOK, StopAt, stopping
<1>2. ASSUME Restart  PROVE StoppingOK'
  BY <1>2
  DEF QueueInv, TypeOK, Restart, StoppingOK, StopAt, stopping
<1>3. ASSUME NEW s \in Stops, StopAtOnce(s)  PROVE StoppingOK'
  BY <1>3
  DEF QueueInv, TypeOK, StopAtOnce, StoppingOK, StopSignals, StopAt,
      stopping
<1>4. ASSUME NEW s \in Stops, StopBegins(s)  PROVE StoppingOK'
  BY <1>4
  DEF QueueInv, TypeOK, StopBegins, StoppingOK, StopSignals, StopAt,
      stopping
<1>5. ASSUME NEW s \in Stops, StopSettled(s)  PROVE StoppingOK'
  BY <1>5
  DEF QueueInv, TypeOK, StopSettled, StoppingOK, StopAt, stopping
<1>6. ASSUME NEW s \in Stops, StopClears(s)  PROVE StoppingOK'
  BY <1>6
  DEF QueueInv, TypeOK, StopClears, StoppingOK, StopAt, stopping
<1>7. ASSUME NEW s \in Stops, StopClearsReplies(s)  PROVE StoppingOK'
  BY <1>7
  DEF QueueInv, TypeOK, StopClearsReplies, StoppingOK, StopAt, stopping
<1> QED
  BY <1>1, <1>2, <1>3, <1>4, <1>5, <1>6, <1>7, Writes_stopping

\* Every delivery task has a request.
LEMMA KeepsDeliveriesOK ==
  ASSUME QueueInv, [Next]_vars
  PROVE  DeliveriesOK'
<1>1. CASE UNCHANGED <<dlv>>
  BY <1>1 DEF QueueInv, TypeOK, DeliveriesOK, Deliverer, DeliveryAt
<1>2. ASSUME Stage  PROVE DeliveriesOK'
  BY <1>2
  DEF QueueInv, TypeOK, Stage, DeliveriesOK, At, Deliverer, DeliveryAt,
      TurnHasJob, TurnAt
<1>3. ASSUME PollReply  PROVE DeliveriesOK'
  BY <1>3
  DEF QueueInv, TypeOK, PollReply, DeliveriesOK, Deliverer, DeliveryAt,
      QueuesOK
<1>4. ASSUME Restart  PROVE DeliveriesOK'
  BY <1>4
  DEF QueueInv, TypeOK, Restart, DeliveriesOK, Deliverer, Off, DeliveryAt
<1>5. ASSUME NEW d \in Deliverer, DeliveryLocks(d)  PROVE DeliveriesOK'
  BY <1>5
  DEF QueueInv, TypeOK, DeliveryLocks, DeliveriesOK, Deliverer, DeliveryEnds,
      DeliveryGoes, DeliveryAt, Off
<1>6. ASSUME NEW d \in Deliverer, DeliveryDiscards(d)  PROVE DeliveriesOK'
  BY <1>6
  DEF QueueInv, TypeOK, DeliveryDiscards, DeliveriesOK, Deliverer,
      DeliveryEnds, DeliveryAt, Off
<1>7. ASSUME NEW d \in Deliverer, DeliveryInput(d)  PROVE DeliveriesOK'
  BY <1>7
  DEF QueueInv, TypeOK, DeliveryInput, DeliveriesOK, DeliveryGoes, Deliverer,
      DeliveryAt, Off
<1>8. ASSUME NEW d \in Deliverer, DeliverySend(d)  PROVE DeliveriesOK'
  BY <1>8
  DEF QueueInv, TypeOK, DeliverySend, DeliveriesOK, DeliveryGoes, Deliverer,
      DeliveryAt, Off
<1>9. ASSUME NEW d \in Deliverer, DeliveryRemoves(d)  PROVE DeliveriesOK'
  BY <1>9
  DEF QueueInv, TypeOK, DeliveryRemoves, DeliveriesOK, DeliveryEnds,
      Deliverer, DeliveryAt, Off
<1>10. ASSUME NEW d \in Deliverer, DeliveryFails(d)  PROVE DeliveriesOK'
  BY <1>10
  DEF QueueInv, TypeOK, DeliveryFails, DeliveriesOK, DeliveryEnds, Deliverer,
      DeliveryAt, Off
<1>11. ASSUME NEW s \in Stops, StopAtOnce(s)  PROVE DeliveriesOK'
  BY <1>11
  DEF QueueInv, TypeOK, StopAtOnce, DeliveriesOK, StopSignals, Deliverer,
      DeliveryAt, Off
<1>12. ASSUME NEW s \in Stops, StopBegins(s)  PROVE DeliveriesOK'
  BY <1>12
  DEF QueueInv, TypeOK, StopBegins, DeliveriesOK, StopSignals, Deliverer,
      DeliveryAt, Off
<1> QED
  BY <1>1, <1>2, <1>3, <1>4, <1>5, <1>6, <1>7, <1>8, <1>9, <1>10, <1>11,
     <1>12, Writes_dlv

\* The retry poll claims a request.
LEMMA KeepsRetryOK ==
  ASSUME QueueInv, [Next]_vars
  PROVE  RetryOK'
<1>1. CASE UNCHANGED <<retry>>
  BY <1>1 DEF QueueInv, TypeOK, RetryOK, retry
<1>2. ASSUME RetryClaims  PROVE RetryOK'
  BY <1>2, MembersAreJobs
  DEF QueueInv, TypeOK, RetryClaims, RetryOK, retry, StoppingOK
<1>3. ASSUME RetryWakes  PROVE RetryOK'
  BY <1>3
  DEF QueueInv, TypeOK, RetryWakes, RetryOK, retry
<1>4. ASSUME Restart  PROVE RetryOK'
  BY <1>4
  DEF QueueInv, TypeOK, Restart, RetryOK, retry
<1> QED
  BY <1>1, <1>2, <1>3, <1>4, Writes_retry

\* The gate and the authorized chats.
LEMMA KeepsGateOK ==
  ASSUME QueueInv, [Next]_vars
  PROVE  GateOK'
<1>1. CASE UNCHANGED <<restarting, auth>>
  BY <1>1 DEF QueueInv, TypeOK, GateOK
<1>2. ASSUME BeginUpdate  PROVE GateOK'
  BY <1>2
  DEF QueueInv, TypeOK, BeginUpdate, GateOK
<1>3. ASSUME CancelUpdate  PROVE GateOK'
  BY <1>3
  DEF QueueInv, TypeOK, CancelUpdate, GateOK
<1>4. ASSUME Restart  PROVE GateOK'
  BY <1>4
  DEF QueueInv, TypeOK, Restart, GateOK
<1> QED
  BY <1>1, <1>2, <1>3, <1>4, Writes_restarting, Writes_auth

\* The history.
LEMMA KeepsHistoryOK ==
  ASSUME QueueInv, [Next]_vars
  PROVE  HistoryOK'
<1>1. CASE UNCHANGED <<accepted, answered, outcome>>
  BY <1>1 DEF QueueInv, TypeOK, HistoryOK, Outcomes
<1>2. ASSUME NEW m \in Jobs, Admit(m)  PROVE HistoryOK'
  BY <1>2
  DEF QueueInv, TypeOK, Admit, HistoryOK, Outcomes
<1>3. ASSUME Pop  PROVE HistoryOK'
  BY <1>3
  DEF QueueInv, TypeOK, Pop, HistoryOK, Outcomes
<1>4. ASSUME Stage  PROVE HistoryOK'
  BY <1>4
  DEF QueueInv, TypeOK, Stage, HistoryOK, At, Outcomes, TurnHasJob, TurnAt
<1>5. ASSUME NEW d \in Deliverer, DeliveryDiscards(d)  PROVE HistoryOK'
  BY <1>5
  DEF QueueInv, TypeOK, DeliveryDiscards, HistoryOK, RemoveRecord, Outcomes
<1>6. ASSUME NEW d \in Deliverer, DeliveryRemoves(d)  PROVE HistoryOK'
  BY <1>6
  DEF QueueInv, TypeOK, DeliveryRemoves, HistoryOK, RemoveRecord, Outcomes
<1>7. ASSUME NEW s \in Stops, StopClears(s)  PROVE HistoryOK'
  BY <1>7
  DEF QueueInv, TypeOK, StopClears, HistoryOK, Outcomes
<1>8. ASSUME NEW s \in Stops, StopClearsReplies(s)  PROVE HistoryOK'
  BY <1>8
  DEF QueueInv, TypeOK, StopClearsReplies, HistoryOK, Outcomes
<1> QED
  BY <1>1, <1>2, <1>3, <1>4, <1>5, <1>6, <1>7, <1>8, Writes_accepted,
     Writes_answered, Writes_outcome

\* The counters stay within their bounds.
LEMMA KeepsBoundsOK ==
  ASSUME QueueInv, [Next]_vars
  PROVE  BoundsOK'
<1>1. CASE UNCHANGED <<bounds>>
  BY <1>1 DEF QueueInv, TypeOK, BoundsOK, bounds
<1>2. ASSUME Work  PROVE BoundsOK'
  BY <1>2, TurnQueueAssumption
  DEF QueueInv, TypeOK, Work, BoundsOK, bounds
<1>3. ASSUME FailSave  PROVE BoundsOK'
  BY <1>3, TurnQueueAssumption
  DEF QueueInv, TypeOK, FailSave, BoundsOK, bounds, Fault
<1>4. ASSUME FailRetain  PROVE BoundsOK'
  BY <1>4, TurnQueueAssumption
  DEF QueueInv, TypeOK, FailRetain, BoundsOK, bounds, Fault
<1>5. ASSUME WorkspaceLost  PROVE BoundsOK'
  BY <1>5, TurnQueueAssumption
  DEF QueueInv, TypeOK, WorkspaceLost, BoundsOK, Fault, bounds
<1>6. ASSUME TurnFails  PROVE BoundsOK'
  BY <1>6, TurnQueueAssumption
  DEF QueueInv, TypeOK, TurnFails, BoundsOK, Fault, bounds
<1>7. ASSUME ConsumerDies  PROVE BoundsOK'
  BY <1>7, TurnQueueAssumption
  DEF QueueInv, TypeOK, ConsumerDies, BoundsOK, Fault, bounds
<1>8. ASSUME BeginUpdate  PROVE BoundsOK'
  BY <1>8, TurnQueueAssumption
  DEF QueueInv, TypeOK, BeginUpdate, BoundsOK, bounds
<1>9. ASSUME Restart  PROVE BoundsOK'
  BY <1>9, TurnQueueAssumption
  DEF QueueInv, TypeOK, Restart, BoundsOK, bounds
<1>10. ASSUME NEW d \in Deliverer, DeliveryFails(d)  PROVE BoundsOK'
  BY <1>10, TurnQueueAssumption
  DEF QueueInv, TypeOK, DeliveryFails, BoundsOK, Fault, bounds
<1> QED
  BY <1>1, <1>2, <1>3, <1>4, <1>5, <1>6, <1>7, <1>8, <1>9, <1>10,
     Writes_bounds
\* The checkpoint of every request is in a known state.
LEMMA KeepsCheckpoints ==
  ASSUME QueueInv, [Next]_vars
  PROVE  ckpt' \in [Jobs -> CkptStates]
<1>1. CASE UNCHANGED <<ckpt>>
  BY <1>1 DEF QueueInv, TypeOK, QueuesOK, CkptStates
<1>2. ASSUME NEW m \in Jobs, Guide(m)  PROVE ckpt' \in [Jobs -> CkptStates]
  BY <1>2
  DEF QueueInv, TypeOK, QueuesOK, Guide, CkptStates
<1>3. ASSUME Pop  PROVE ckpt' \in [Jobs -> CkptStates]
  BY <1>3
  DEF QueueInv, TypeOK, QueuesOK, Pop, CkptStates, durable, PersistComplete
<1>4. ASSUME SaveRunning  PROVE ckpt' \in [Jobs -> CkptStates]
  BY <1>4
  DEF QueueInv, TypeOK, QueuesOK, SaveRunning, CkptStates, Saves,
      SaveCheckpoint
<1>5. ASSUME PinSession  PROVE ckpt' \in [Jobs -> CkptStates]
  BY <1>5
  DEF QueueInv, TypeOK, QueuesOK, PinSession, CkptStates, SaveCheckpoint
<1>6. ASSUME SaveMore  PROVE ckpt' \in [Jobs -> CkptStates]
  BY <1>6
  DEF QueueInv, TypeOK, QueuesOK, SaveMore, CkptStates, Saves,
      SaveCheckpoint
<1>7. ASSUME SaveBlocked  PROVE ckpt' \in [Jobs -> CkptStates]
  BY <1>7
  DEF QueueInv, TypeOK, QueuesOK, SaveBlocked, CkptStates, Saves,
      SaveCheckpoint
<1>8. ASSUME SaveWaiting  PROVE ckpt' \in [Jobs -> CkptStates]
  BY <1>8
  DEF QueueInv, TypeOK, QueuesOK, SaveWaiting, CkptStates, Saves,
      SaveCheckpoint
<1>9. ASSUME Complete  PROVE ckpt' \in [Jobs -> CkptStates]
  BY <1>9
  DEF QueueInv, TypeOK, QueuesOK, Complete, CkptStates, PersistComplete
<1>10. ASSUME FailSave  PROVE ckpt' \in [Jobs -> CkptStates]
  BY <1>10
  DEF QueueInv, TypeOK, QueuesOK, FailSave, CkptStates, SaveCheckpoint
<1>11. ASSUME WorkspaceLost  PROVE ckpt' \in [Jobs -> CkptStates]
  BY <1>11
  DEF QueueInv, TypeOK, QueuesOK, WorkspaceLost, CkptStates, SaveCheckpoint
<1>12. ASSUME RetryClaims  PROVE ckpt' \in [Jobs -> CkptStates]
  BY <1>12
  DEF QueueInv, TypeOK, QueuesOK, RetryClaims, CkptStates
<1>13. ASSUME NEW d \in Deliverer, DeliveryDiscards(d)  PROVE ckpt' \in [Jobs -> CkptStates]
  BY <1>13
  DEF QueueInv, TypeOK, QueuesOK, DeliveryDiscards, CkptStates,
      PersistComplete
<1>14. ASSUME NEW d \in Deliverer, DeliveryInput(d)  PROVE ckpt' \in [Jobs -> CkptStates]
  BY <1>14
  DEF QueueInv, TypeOK, QueuesOK, DeliveryInput, CkptStates, PersistComplete
<1>15. ASSUME NEW s \in Stops, StopClears(s)  PROVE ckpt' \in [Jobs -> CkptStates]
  BY <1>15
  DEF QueueInv, TypeOK, QueuesOK, StopClears, CkptStates,
      ClearPersistentQueue
<1> QED
  BY <1>1, <1>2, <1>3, <1>4, <1>5, <1>6, <1>7, <1>8, <1>9, <1>10, <1>11,
     <1>12, <1>13, <1>14, <1>15, Writes_ckpt

\* Every step keeps the types.
LEMMA KeepsTypeOK ==
  ASSUME QueueInv, [Next]_vars
  PROVE  TypeOK'
<1>1. QueuesOK'
  <2>1. ledger' \subseteq Jobs
    BY LedgerMoves DEF QueueInv, TypeOK, QueuesOK
  <2> QED
    BY <2>1, DiskMoves, MemoryMoves, KeepsCheckpoints DEF QueuesOK
<1> QED
  BY <1>1, KeepsFlagsOK, KeepsConsumerOK, KeepsSendersOK, KeepsStoppingOK, KeepsDeliveriesOK,
     KeepsRetryOK, KeepsGateOK, KeepsHistoryOK, KeepsBoundsOK DEF TypeOK

\* The empty queue satisfies the invariant.
LEMMA InitQueueInv == Init => QueueInv
<1> SUFFICES ASSUME Init  PROVE QueueInv
  OBVIOUS
<1>1. OnDisk = {} /\ InMem = {} /\ disk \in Seq(Jobs) /\ NoRepeat(disk)
      /\ mem \in Seq(Jobs) /\ NoRepeat(mem)
  BY EmptyQueue DEF Init, OnDisk, InMem
<1>2. TypeOK
  <2>1. QueuesOK /\ FlagsOK
    BY <1>1 DEF Init, QueuesOK, CkptStates, FlagsOK
  <2>2. ConsumerOK /\ SendersOK /\ StoppingOK
    BY DEF Init, ConsumerOK, SendersOK, SenderAt, StoppingOK, StopAt
  <2>3. DeliveriesOK /\ RetryOK /\ GateOK
    BY DEF Init, DeliveriesOK, Off, DeliveryAt, RetryOK, GateOK
  <2>4. HistoryOK /\ BoundsOK
    BY TurnQueueAssumption DEF Init, HistoryOK, Outcomes, BoundsOK
  <2> QED
    BY <2>1, <2>2, <2>3, <2>4 DEF TypeOK
<1>3. NotYetAdmitted /\ NotYetPublished /\ OneAdmission /\ FileClearedFirst /\ MemoryStaysClear
  BY <1>1 DEF Init, NotYetAdmitted, NotYetPublished, OneAdmission, FileClearedFirst,
     MemoryStaysClear, Clearing
<1>4. TurnHasJob /\ TurnOwesNothing /\ TurnAnswered
  BY DEF Init, TurnHasJob, TurnOwesNothing, TurnAnswered, PreStage, TurnAt
<1>5. HoldMirrorsLedger /\ OneStagedReply /\ AnswersAccounted /\ AnswersConsumed
      /\ QueuedIsOpen /\ AcceptedAccounted
  BY <1>1 DEF Init, HoldMirrorsLedger, OneStagedReply, AnswersAccounted, AnswersConsumed,
     QueuedIsOpen, AcceptedAccounted
<1>6. DeliversStaged /\ DeliversConsumed /\ OneDelivery /\ StopEndsDeliveries
  BY DEF Init, Off, DeliversStaged, DeliversConsumed, OneDelivery, StopEndsDeliveries,
     InTransit, Cancelling
<1> QED
  BY <1>2, <1>3, <1>4, <1>5, <1>6 DEF QueueInv

\* Every step keeps the invariant.
LEMMA KeepsQueueInv == QueueInv /\ [Next]_vars => QueueInv'
<1> SUFFICES ASSUME QueueInv, [Next]_vars  PROVE QueueInv'
  OBVIOUS
<1>1. TypeOK' /\ NotYetAdmitted' /\ NotYetPublished' /\ OneAdmission' /\ FileClearedFirst'
      /\ MemoryStaysClear'
  BY KeepsTypeOK, KeepsNotYetAdmitted, KeepsNotYetPublished, KeepsOneAdmission,
     KeepsFileClearedFirst, KeepsMemoryStaysClear
<1>2. TurnHasJob' /\ TurnOwesNothing' /\ TurnAnswered'
  BY KeepsTurnHasJob, KeepsTurnOwesNothing, KeepsTurnAnswered
<1>3. HoldMirrorsLedger' /\ OneStagedReply' /\ AnswersAccounted' /\ AnswersConsumed'
      /\ QueuedIsOpen' /\ AcceptedAccounted'
  BY KeepsHoldMirrorsLedger, KeepsOneStagedReply, KeepsAnswersAccounted, KeepsAnswersConsumed,
     KeepsQueuedIsOpen, KeepsAcceptedAccounted
<1>4. DeliversStaged' /\ DeliversConsumed' /\ OneDelivery' /\ StopEndsDeliveries'
  BY KeepsDeliversStaged, KeepsDeliversConsumed, KeepsOneDelivery, KeepsStopEndsDeliveries
<1> QED
  BY <1>1, <1>2, <1>3, <1>4 DEF QueueInv

\* The invariant of the queue holds in every reachable state, for any number
\* of requests, chats, /stop invocations, restarts and failures.
THEOREM QueueInvariant == Spec => []QueueInv
BY InitQueueInv, KeepsQueueInv, PTL DEF Spec

\* Every variable keeps its type.
THEOREM TypeCorrect == Spec => []TypeOK
<1>1. QueueInv => TypeOK
  BY DEF QueueInv
<1> QED
  BY <1>1, QueueInvariant, PTL

\* No accepted request is lost by a failure, a /stop or a restart.
THEOREM AcceptedNeverLost == Spec => []AcceptedAccounted
<1>1. QueueInv => AcceptedAccounted
  BY DEF QueueInv
<1> QED
  BY <1>1, QueueInvariant, PTL

\* An owner never has two staged replies.
THEOREM OneReplyAtATime == Spec => []OneStagedReply
<1>1. QueueInv => OneStagedReply
  BY DEF QueueInv
<1> QED
  BY <1>1, QueueInvariant, PTL

\* The agent never runs a job again once its answer is staged.
THEOREM NeverRerun == Spec => NoRerunAfterAnswer
<1>1. ASSUME QueueInv, [Next]_vars, con' = "work", con # "work"  PROVE cur' \notin answered
  <2>1. con' \in TurnAt /\ con' \in PreStage /\ con' # "load"
    BY <1>1 DEF TurnAt, PreStage
  <2>2. ~(Pop /\ cur' = FirstIn(mem, Runnable))
    BY <2>1 DEF Pop, At, TurnAt
  <2>3. ~(Stage /\ con = "stage" /\ con' \in {"deliver", "complete"} /\ cur' = cur)
    BY <2>1 DEF PreStage
  <2>4. con \in PreStage /\ cur' = cur
    BY <1>1, <2>1, <2>2, <2>3, TurnMoves
  <2> QED
    BY <1>1, <2>4 DEF QueueInv, TurnOwesNothing
<1>2. QueueInv /\ [Next]_vars => [con' = "work" /\ con # "work" => cur' \notin answered]_vars
  BY <1>1
<1> QED
  BY <1>2, QueueInvariant, PTL DEF Spec, NoRerunAfterAnswer

\* Where a /stop waits only for the admission lock, it precedes every admission
\* that is still to be made.
LEMMA NoneAdmitted ==
  ASSUME ~SlowStop, QueueInv, NEW m \in Jobs, Admit(m), snd'[m] = "committed"
  PROVE  ~Cancelling
<1>1. sgen[m] = gen
  BY DEF Admit, Leaves, QueueInv, TypeOK, SendersOK
<1> QED
  BY <1>1 DEF Admit, AdmissionFree, StopIsNext, Cancelling

\* A /stop raises the generation before it discards, and nothing is admitted until it is done.
LEMMA KeepsEarlierWork ==
  ASSUME ~SlowStop, QueueInv, PromptStopInv, [Next]_vars
  PROVE  OnlyEarlierWork'
<1>0. /\ TypeOK /\ sgen \in [Jobs -> Nat] /\ gen \in Nat /\ stop \in [Stops -> StopAt]
      /\ OnlyEarlierWork /\ OnDisk \subseteq Jobs /\ ledger \subseteq Jobs
  BY MembersAreJobs DEF QueueInv, TypeOK, SendersOK, StoppingOK, QueuesOK, PromptStopInv
<1>1. CASE Restart
  <2>1. ~Cancelling'
    BY <1>0, <1>1 DEF Restart, Cancelling
  <2>2. \A j \in Jobs : sgen'[j] = 0 /\ gen' = 0
    BY <1>1 DEF Restart
  <2> QED
    BY <2>1, <2>2 DEF OnlyEarlierWork
<1>2. ASSUME NEW m \in Jobs, Arrive(m)  PROVE OnlyEarlierWork'
  <2>1. m \notin OnDisk \cup ledger
    BY <1>2 DEF Arrive, QueueInv, NotYetAdmitted, NotYetPublished, HoldMirrorsLedger,
                Unadmitted, Unpublished
  <2>2. /\ gen' = gen /\ OnDisk' = OnDisk /\ ledger' = ledger /\ stop' = stop
        /\ sgen' = sgen \/ sgen' = [sgen EXCEPT ![m] = gen]
    BY <1>2 DEF Arrive, Leaves, durable, stopping, OnDisk
  <2>3. Cancelling' => Cancelling
    BY <2>2 DEF Cancelling
  <2>4. \A j \in Jobs : sgen'[j] <= gen' /\ (j # m => sgen'[j] = sgen[j])
    BY <1>0, <2>2 DEF OnlyEarlierWork
  <2> QED
    BY <1>0, <2>1, <2>2, <2>3, <2>4 DEF OnlyEarlierWork
<1>3. ASSUME ~Restart, \A m \in Jobs : ~Arrive(m)  PROVE OnlyEarlierWork'
  <2>1. sgen' = sgen
    BY <1>3, Writes_senders DEF senders, Guide, Admit, Publish, PersistPromote, Ack, Leaves, Sender
  <2>2. gen' \in Nat /\ gen <= gen'
    <3>1. ASSUME NEW s \in Stops, StopAtOnce(s) \/ StopBegins(s)  PROVE gen' = gen + 1
      BY <3>1 DEF StopAtOnce, StopBegins, StopSignals
    <3>2. ASSUME NEW s \in Stops, StopSettled(s) \/ StopClears(s) \/ StopClearsReplies(s)
          PROVE  gen' = gen
      BY <3>2 DEF StopSettled, StopClears, StopClearsReplies
    <3>3. gen' = gen \/ gen' = gen + 1
      BY <1>3, <3>1, <3>2, Writes_stopping DEF stopping
    <3> QED
      BY <1>0, <3>3
  <2>3. \A j \in Jobs : sgen'[j] <= gen' /\ (sgen[j] < gen => sgen'[j] < gen')
    BY <1>0, <2>1, <2>2 DEF OnlyEarlierWork
  <2>4. CASE \E s \in Stops : StopAtOnce(s) \/ StopBegins(s)
    <3>1. gen' = gen + 1 /\ \A j \in Jobs : sgen[j] <= gen
      BY <1>0, <2>4 DEF StopAtOnce, StopBegins, StopSignals, OnlyEarlierWork
    <3>2. OnDisk' \subseteq Jobs /\ ledger' \subseteq Jobs
      BY <1>0, <2>4 DEF StopAtOnce, StopBegins, durable, OnDisk
    <3>3. \A j \in Jobs : sgen'[j] < gen'
      BY <1>0, <2>1, <3>1
    <3> QED
      BY <2>3, <3>2, <3>3 DEF OnlyEarlierWork
  <2>5. CASE \A s \in Stops : ~StopAtOnce(s) /\ ~StopBegins(s)
    <3>1. Cancelling' => Cancelling
      <4>1. CASE stop' = stop
        BY <4>1 DEF Cancelling
      <4>2. ASSUME NEW s \in Stops, StopSettled(s) \/ StopClears(s) \/ StopClearsReplies(s)
            PROVE  Cancelling
        BY <4>2 DEF StopSettled, StopClears, StopClearsReplies, Cancelling
      <4> QED
        BY <1>3, <2>5, <4>1, <4>2, Writes_stop
    <3>2. Cancelling => OnDisk' \subseteq OnDisk
      <4>1. ASSUME NEW m \in Jobs, Admit(m), snd'[m] = "committed"  PROVE ~Cancelling
        BY <1>0, <4>1, NoneAdmitted
      <4>2. ASSUME disk' = <<>>  PROVE OnDisk' = {}
        BY <4>2, EmptyQueue DEF OnDisk
      <4> QED
        BY <4>1, <4>2, DiskMoves
    <3>3. ledger' \subseteq OnDisk \cup ledger
      <4>1. Stage => cur \in OnDisk
        BY DEF Stage, At, PromptStopInv
      <4> QED
        BY <4>1, LedgerMoves
    <3> QED
      BY <1>0, <2>3, <3>1, <3>2, <3>3 DEF OnlyEarlierWork
  <2> QED
    BY <2>4, <2>5
<1> QED
  BY <1>1, <1>2, <1>3

\* A turn at the agent was not met by a /stop, and still has its request in
\* the queue file when it answers.
LEMMA KeepsPromptStop ==
  ASSUME ~SlowStop, QueueInv, PromptStopInv, [Next]_vars
  PROVE  PromptStopInv'
<1> DEFINE Answering == {"work", "more", "block", "retry", "stage"}
<1>0. /\ TypeOK /\ stop \in [Stops -> StopAt] /\ outcome \in [Jobs -> Outcomes]
  BY DEF QueueInv, TypeOK, StoppingOK, HistoryOK
<1>2. ASSUME con' \in Answering \cup {"pin"}, ~killed'
      PROVE  /\ con' # "pin" => cur' \in OnDisk'
             /\ \A s \in Stops : stop'[s] \notin {"settle", "clear"}
  <2>1. con' \in PreStage /\ con' \in TurnAt /\ ~Restart
    BY <1>2 DEF PreStage, TurnAt, Restart
  <2>2. con \in PreStage /\ con \in TurnAt /\ cur' = cur /\ ledger = {}
    <3>1. ~(Pop /\ cur' = FirstIn(mem, Runnable))
      BY <1>2 DEF Pop, At
    <3>2. ~(con = "stage" /\ con' \in {"deliver", "complete"})
      BY <1>2
    <3>3. con \in PreStage /\ con \in TurnAt /\ cur' = cur
      BY <2>1, <3>1, <3>2, TurnMoves
    <3> QED
      BY <3>3 DEF QueueInv, TurnOwesNothing
  <2>3. ~killed
    <3>1. ~(DrainEnds \/ Retain \/ Complete \/ Cancelled \/ FailNotice \/ ConsumerDies)
      BY <2>1 DEF DrainEnds, Retain, Complete, Cancelled, FailNotice, ConsumerDies,
                  ConsumerEnds, NextTurn, TurnAt
    <3>2. PinSession => ~killed
      BY DEF PinSession, At
    <3>3. ASSUME NEW s \in Stops, StopAtOnce(s) \/ StopBegins(s)  PROVE killed'
      BY <2>2, <3>3 DEF StopAtOnce, StopBegins, StopSignals, TurnRunning
    <3> QED
      BY <1>2, <2>1, <3>1, <3>2, <3>3, Writes_killed
  <2>4. /\ con' # "pin" => cur \in OnDisk
        /\ \A s \in Stops : stop[s] \notin {"settle", "clear"}
    <3>1. con' = con \/ SaveRunning \/ PinSession \/ con \in Answering
      <4> SUFFICES ASSUME con' # con, con \notin Answering, ~SaveRunning, ~PinSession
                   PROVE  FALSE
        OBVIOUS
      <4>2. ~(DrainEnds \/ Retain \/ Complete \/ Cancelled \/ FailNotice \/ ConsumerDies)
        BY <2>1 DEF DrainEnds, Retain, Complete, Cancelled, FailNotice, ConsumerDies,
                    ConsumerEnds, NextTurn, TurnAt
      <4>3. ASSUME NEW m \in Jobs, Guide(m) \/ Ack(m)  PROVE FALSE
        BY <1>2, <4>3 DEF Guide, Ack, StartDrain, Sender
      <4>4. ~(RetryWakes \/ CancelUpdate)
        BY <1>2 DEF RetryWakes, CancelUpdate, StartDrain
      <4>5. ASSUME NEW d \in Deliverer, DeliveryRemoves(d)  PROVE FALSE
        BY <1>2, <4>5 DEF DeliveryRemoves, StartDrain
      <4>6. ~(Pop \/ Load \/ Work \/ Notice \/ Stage \/ Delivered \/ FailSave \/ FailRetain
              \/ WorkspaceLost \/ TurnFails)
        BY <1>2 DEF Pop, Load, Work, Notice, Stage, Delivered, FailSave, FailRetain,
                    WorkspaceLost, TurnFails, At, Goto
      <4>7. ~(SaveMore \/ SaveBlocked \/ SaveWaiting)
        BY <1>2 DEF SaveMore, SaveBlocked, SaveWaiting, Saves, At, Goto
      <4> QED
        BY <2>1, <4>2, <4>3, <4>4, <4>5, <4>6, <4>7, Writes_con
    <3>2. CASE con' = con \/ con \in Answering
      BY <1>2, <2>3, <3>2 DEF PromptStopInv
    <3>3. CASE SaveRunning
      BY <1>2, <3>3 DEF SaveRunning, Saves, QueueFileFree, QueueFileOpen, StopIsNext, Goto
    <3>4. CASE PinSession
      BY <2>1, <2>3, <3>4 DEF PinSession, At, ConsumerEnds, TurnAt, PromptStopInv
    <3> QED
      BY <3>1, <3>2, <3>3, <3>4
  <2>5. con' # "pin" => cur \in OnDisk'
    <3>1. ~Pop /\ ~Complete
      BY <2>2 DEF Pop, Complete, At, PreStage, TurnAt
    <3>2. ASSUME NEW d \in Deliverer, DeliveryInput(d)  PROVE FALSE
      BY <2>2, <3>2 DEF DeliveryDiscards, DeliveryInput, Delivering, QueueInv, DeliversStaged,
                        InTransit
    <3>3. ASSUME NEW s \in Stops, StopClears(s)  PROVE FALSE
      BY <2>4, <3>3 DEF StopClears
    <3> QED
      BY <2>4, <3>1, <3>2, <3>3, DiskMoves
  <2>6. \A s \in Stops : stop'[s] \notin {"settle", "clear"}
    <3>1. CASE stop' = stop
      BY <2>4, <3>1
    <3>2. ASSUME NEW s \in Stops, StopAtOnce(s) \/ StopBegins(s)  PROVE FALSE
      BY <1>0, <1>2, <2>2, <3>2 DEF StopAtOnce, StopBegins, StopSignals, TurnRunning
    <3>3. ASSUME NEW s \in Stops, StopSettled(s)  PROVE FALSE
      BY <2>4, <3>3 DEF StopSettled
    <3>4. ASSUME NEW s \in Stops, StopClears(s) \/ StopClearsReplies(s)
          PROVE  \A t \in Stops : stop'[t] \notin {"settle", "clear"}
      BY <1>0, <2>4, <3>4 DEF StopClears, StopClearsReplies
    <3> QED
      BY <2>1, <3>1, <3>2, <3>3, <3>4, Writes_stop
  <2> QED
    BY <2>2, <2>5, <2>6
<1>3. \A j \in ledger' : outcome'[j] = "open"
  <2> SUFFICES ASSUME NEW j \in ledger'  PROVE outcome'[j] = "open"
    OBVIOUS
  <2>1. CASE Stage
    <3>1. j = cur /\ cur \in Jobs /\ outcome' = outcome
      BY <2>1 DEF Stage, At, QueueInv, TurnOwesNothing, TurnHasJob, PreStage, TurnAt
    <3>2. cur \in OnDisk
      BY <2>1 DEF Stage, At, PromptStopInv
    <3> QED
      BY <3>1, <3>2 DEF QueueInv, QueuedIsOpen
  <2>2. CASE ~Stage
    <3>1. j \in ledger /\ j \in Jobs /\ outcome[j] = "open"
      BY <1>0, <2>2, LedgerMoves DEF PromptStopInv, TypeOK, QueuesOK
    <3>2. ASSUME Pop  PROVE FALSE
      BY <3>1, <3>2 DEF Pop, Held, QueueInv, HoldMirrorsLedger
    <3>3. ASSUME NEW d \in Deliverer, DeliveryDiscards(d) \/ DeliveryRemoves(d)
          PROVE  outcome'[j] = "open"
      BY <1>0, <3>1, <3>3 DEF DeliveryDiscards, DeliveryRemoves, RemoveRecord
    <3>4. ASSUME NEW s \in Stops, StopClears(s) \/ StopClearsReplies(s)
          PROVE  outcome'[j] = "open"
      BY <1>0, <3>1, <3>4 DEF StopClears, StopClearsReplies
    <3> QED
      BY <3>1, <3>2, <3>3, <3>4, Writes_outcome
  <2> QED
    BY <2>1, <2>2
<1> QED
  BY <1>2, <1>3, KeepsEarlierWork DEF PromptStopInv

\* What a request is to its owner.
LEMMA StatusOf ==
  ASSUME QueueInv, NEW j \in Jobs
  PROVE  /\ outcome[j] # "open" => JobStatus[j] = outcome[j]
         /\ outcome[j] = "open" /\ j \in ledger => JobStatus[j] = "answered"
         /\ outcome[j] = "open" /\ j \notin ledger /\ j \in OnDisk => JobStatus[j] = "accepted"
         /\ outcome[j] = "open" /\ j \notin ledger /\ j \notin OnDisk => JobStatus[j] = "new"
BY DEF JobStatus

\* And after a step.
LEMMA StatusNext ==
  ASSUME QueueInv, [Next]_vars, NEW j \in Jobs
  PROVE  /\ outcome'[j] # "open" => JobStatus'[j] = outcome'[j]
         /\ outcome'[j] = "open" /\ j \in ledger' => JobStatus'[j] = "answered"
         /\ outcome'[j] = "open" /\ j \notin ledger' /\ j \in OnDisk' => JobStatus'[j] = "accepted"
         /\ outcome'[j] = "open" /\ j \notin ledger' /\ j \notin OnDisk' => JobStatus'[j] = "new"
BY DEF JobStatus

\* A step that leaves the outcome, the ledger and the open requests of the
\* queue file alone is no step of the promise.
LEMMA StatusStays ==
  ASSUME QueueInv, [Next]_vars, outcome' = outcome, ledger' = ledger,
         \A j \in Jobs : outcome[j] = "open" /\ j \notin ledger => (j \in OnDisk' <=> j \in OnDisk)
  PROVE  JobStatus' = JobStatus
<1>1. \A j \in Jobs : JobStatus'[j] = JobStatus[j]
  BY StatusOf, StatusNext
<1> QED
  BY <1>1 DEF JobStatus

\* One request changes its status.
LEMMA StatusBecomes ==
  ASSUME QueueInv, [Next]_vars, NEW j \in Jobs, NEW s, JobStatus'[j] = s,
         \A k \in Jobs \ {j} : /\ outcome'[k] = outcome[k] /\ (k \in ledger' <=> k \in ledger)
                               /\ (k \in OnDisk' <=> k \in OnDisk)
  PROVE  JobStatus' = [JobStatus EXCEPT ![j] = s]
<1>1. \A k \in Jobs \ {j} : JobStatus'[k] = JobStatus[k]
  BY StatusOf, StatusNext
<1>2. JobStatus = [k \in Jobs |-> JobStatus[k]] /\ JobStatus' = [k \in Jobs |-> JobStatus'[k]]
  BY DEF JobStatus
<1> QED
  BY <1>1, <1>2

\* Every step of the queue is a step of the promise, or none.
LEMMA QueueStepsKeepPromise ==
  ASSUME QueueInv, PromptStopInv, [Next]_vars
  PROVE  [Abstract!PromiseNext]_JobStatus
<1> DEFINE Kept == Abstract!PromiseNext \/ JobStatus' = JobStatus
<1>0. /\ TypeOK /\ outcome \in [Jobs -> Outcomes] /\ ledger \subseteq Jobs
      /\ \A j \in ledger : outcome[j] = "open"
  BY DEF QueueInv, TypeOK, HistoryOK, QueuesOK, PromptStopInv
<1>1. ASSUME NEW m \in Jobs, Admit(m)  PROVE Kept
  <2>1. ledger' = ledger /\ outcome' = outcome /\ outcome[m] = "open" /\ m \notin OnDisk
        /\ m \notin ledger
    BY <1>1 DEF Admit, QueueInv, NotYetAdmitted, NotYetPublished, Unpublished, Unadmitted,
                HoldMirrorsLedger
  <2>2. CASE disk' = disk
    BY <2>1, <2>2, StatusStays DEF OnDisk
  <2>3. CASE disk' # disk
    <3>1. disk' = Append(disk, m)
      BY <1>1, <2>3 DEF Admit
    <3>2. OnDisk' = OnDisk \cup {m}
      BY <1>0, <2>1, <3>1, QueueEdits DEF OnDisk
    <3>3. JobStatus[m] = "new" /\ JobStatus'[m] = "accepted"
      BY <2>1, <3>2, StatusOf, StatusNext
    <3>4. JobStatus' = [JobStatus EXCEPT ![m] = "accepted"]
      BY <2>1, <3>2, <3>3, StatusBecomes
    <3> QED
      BY <3>3, <3>4 DEF Abstract!PromiseNext, Abstract!Accept, Abstract!Becomes
  <2> QED
    BY <2>2, <2>3
<1>2. ASSUME Stage  PROVE Kept
  <2>1. ledger = {} /\ ledger' = {cur} /\ cur \in Jobs /\ disk' = disk /\ outcome' = outcome
    BY <1>2, LedgerMoves DEF Stage, At, QueueInv, TurnOwesNothing, TurnHasJob, PreStage, TurnAt
  <2>2. cur \in OnDisk /\ outcome[cur] = "open" /\ OnDisk' = OnDisk
    BY <1>2, <2>1 DEF Stage, At, PromptStopInv, QueueInv, QueuedIsOpen, OnDisk
  <2>3. JobStatus[cur] = "accepted" /\ JobStatus'[cur] = "answered"
    BY <2>1, <2>2, StatusOf, StatusNext
  <2>4. \A i \in Jobs : JobStatus[i] # "answered"
    BY <1>0, <2>1, StatusOf DEF Outcomes
  <2>5. JobStatus' = [JobStatus EXCEPT ![cur] = "answered"]
    BY <2>1, <2>2, <2>3, StatusBecomes
  <2> QED
    BY <2>1, <2>3, <2>4, <2>5 DEF Abstract!PromiseNext, Abstract!Answer, Abstract!Becomes
<1>3. ASSUME NEW d \in Deliverer, DeliveryDiscards(d) \/ DeliveryRemoves(d)  PROVE Kept
  <2> DEFINE j == dlv[d].job
  <2>1. j \in ledger /\ j \in Jobs /\ outcome[j] = "open"
    BY <1>0, <1>3 DEF DeliveryDiscards, DeliveryRemoves, Delivering, QueueInv, DeliversStaged,
                      InTransit
  <2>2. ledger' = ledger \ {j} /\ outcome' = [outcome EXCEPT ![j] =
                                    IF DeliveryDiscards(d) THEN "dropped" ELSE "delivered"]
    <3>1. CASE DeliveryDiscards(d)
      BY <2>1, <3>1 DEF DeliveryDiscards, RemoveRecord
    <3>2. CASE ~DeliveryDiscards(d)
      BY <1>3, <2>1, <3>2 DEF DeliveryRemoves, RemoveRecord
    <3> QED
      BY <3>1, <3>2
  <2>3. OnDisk' = OnDisk \/ OnDisk' = OnDisk \ {j}
    BY <1>0, <1>3, <2>1, QueueEdits DEF DeliveryDiscards, DeliveryRemoves, PersistComplete, OnDisk
  <2>4. JobStatus[j] = "answered" /\ JobStatus'[j] = outcome'[j]
        /\ outcome'[j] \in {"dropped", "delivered"}
    BY <1>0, <2>1, <2>2, StatusOf, StatusNext
  <2>5. JobStatus' = [JobStatus EXCEPT ![j] = outcome'[j]]
    BY <1>0, <2>1, <2>2, <2>3, <2>4, StatusBecomes
  <2> HIDE DEF j
  <2> QED
    BY <2>1, <2>4, <2>5 DEF Abstract!PromiseNext, Abstract!Deliver, Abstract!Drop, Abstract!Becomes
<1>4. ASSUME Pop  PROVE Kept
  <2> DEFINE j == FirstIn(mem, Runnable)
  <2>1. ledger = {} /\ ledger' = ledger /\ j \in Jobs
    BY <1>4, PopLeavesMemory DEF Pop, Held, QueueInv, HoldMirrorsLedger, durable
  <2>2. CASE UNCHANGED <<disk, outcome>>
    BY <2>1, <2>2, StatusStays DEF OnDisk
  <2>3. CASE ~UNCHANGED <<disk, outcome>>
    <3>1. /\ disk' = Without(disk, j)
          /\ outcome' = [outcome EXCEPT ![j] = IF j \in OnDisk THEN "dropped" ELSE @]
      BY <1>4, <2>3 DEF Pop, PersistComplete, durable
    <3>2. OnDisk' = OnDisk \ {j}
      BY <1>0, <2>1, <3>1, QueueEdits DEF OnDisk
    <3>3. CASE j \in OnDisk
      <4>1. outcome[j] = "open" /\ outcome'[j] = "dropped"
        BY <1>0, <2>1, <3>1, <3>3 DEF QueueInv, QueuedIsOpen
      <4>2. JobStatus[j] = "accepted" /\ JobStatus'[j] = "dropped"
        BY <2>1, <3>3, <4>1, StatusOf, StatusNext
      <4>3. JobStatus' = [JobStatus EXCEPT ![j] = "dropped"]
        BY <1>0, <2>1, <3>1, <3>2, <4>2, StatusBecomes
      <4> HIDE DEF j
      <4> QED
        BY <2>1, <4>2, <4>3 DEF Abstract!PromiseNext, Abstract!Drop, Abstract!Becomes
    <3>4. CASE j \notin OnDisk
      <4>1. outcome' = outcome
        BY <1>0, <3>1, <3>4
      <4> QED
        BY <2>1, <3>2, <3>4, <4>1, StatusStays
    <3> QED
      BY <3>3, <3>4
  <2> QED
    BY <2>2, <2>3
<1>5. ASSUME NEW s \in Stops, StopClears(s)  PROVE Kept
  <2>1. /\ ledger' = ledger /\ OnDisk' = {}
        /\ outcome' = [j \in Jobs |-> IF j \in OnDisk \ ledger THEN "stopped" ELSE outcome[j]]
        /\ \A j \in OnDisk : outcome[j] = "open"
    BY <1>5, EmptyQueue DEF StopClears, ClearPersistentQueue, OnDisk, QueueInv, QueuedIsOpen
  <2>2. \A j \in Jobs : JobStatus[j] = "accepted" <=> j \in OnDisk \ ledger
    BY <1>0, <2>1, StatusOf DEF Outcomes
  <2>3. \A j \in Jobs : JobStatus'[j] = IF JobStatus[j] = "accepted" THEN "stopped" ELSE JobStatus[j]
    BY <1>0, <2>1, <2>2, StatusOf, StatusNext
  <2>4. JobStatus' = [j \in Jobs |-> IF JobStatus[j] = "accepted" THEN "stopped" ELSE JobStatus[j]]
    BY <2>3 DEF JobStatus
  <2>5. CASE \E j \in Jobs : JobStatus[j] = "accepted"
    BY <2>4, <2>5 DEF Abstract!PromiseNext, Abstract!Discard
  <2>6. CASE \A j \in Jobs : JobStatus[j] # "accepted"
    BY <2>3, <2>6 DEF JobStatus
  <2> QED
    BY <2>5, <2>6
<1>6. ASSUME NEW s \in Stops, StopClearsReplies(s)  PROVE Kept
  <2>1. /\ ledger' = {} /\ OnDisk' = OnDisk
        /\ outcome' = [j \in Jobs |-> IF j \in ledger THEN "stopped" ELSE outcome[j]]
    BY <1>6 DEF StopClearsReplies, OnDisk
  <2>2. \A j \in Jobs : JobStatus[j] = "answered" <=> j \in ledger
    BY <1>0, StatusOf DEF Outcomes
  <2>3. \A j \in Jobs : JobStatus'[j] = IF JobStatus[j] = "answered" THEN "stopped" ELSE JobStatus[j]
    BY <1>0, <2>1, <2>2, StatusOf, StatusNext
  <2>4. JobStatus' = [j \in Jobs |-> IF JobStatus[j] = "answered" THEN "stopped" ELSE JobStatus[j]]
    BY <2>3 DEF JobStatus
  <2>5. CASE \E j \in Jobs : JobStatus[j] = "answered"
    BY <2>4, <2>5 DEF Abstract!PromiseNext, Abstract!Discard
  <2>6. CASE \A j \in Jobs : JobStatus[j] # "answered"
    BY <2>3, <2>6 DEF JobStatus
  <2> QED
    BY <2>5, <2>6
<1>7. ASSUME outcome' = outcome, ledger' = ledger,
             ~Pop, \A m \in Jobs : ~Admit(m),
             \A d \in Deliverer : ~DeliveryDiscards(d), \A s \in Stops : ~StopClears(s)
      PROVE  Kept
  <2>1. ASSUME NEW j \in Jobs, outcome[j] = "open", j \notin ledger
        PROVE  j \in OnDisk' <=> j \in OnDisk
    <3>1. j \notin answered
      BY <2>1 DEF QueueInv, AnswersAccounted
    <3>2. ASSUME Complete  PROVE cur # j
      BY <3>1, <3>2 DEF Complete, At, QueueInv, TurnAnswered, PreStage, TurnAt
    <3>3. ASSUME NEW d \in Deliverer, DeliveryInput(d)  PROVE dlv[d].job # j
      BY <2>1, <3>3 DEF DeliveryInput, Delivering, QueueInv, DeliversStaged, InTransit
    <3> QED
      BY <1>7, <3>2, <3>3, DiskMoves
  <2> QED
    BY <1>7, <2>1, StatusStays
<1> QED
  BY <1>1, <1>2, <1>3, <1>4, <1>5, <1>6, <1>7, Writes_outcome, Writes_ledger

\* The queue starts where the promise starts.
LEMMA InitPromise == Init => Abstract!PromiseInit /\ PromptStopInv
<1> SUFFICES ASSUME Init  PROVE Abstract!PromiseInit /\ PromptStopInv
  OBVIOUS
<1>1. OnDisk = {}
  BY EmptyQueue DEF Init, OnDisk
<1>2. \A j \in Jobs : JobStatus[j] = "new"
  BY <1>1, InitQueueInv, StatusOf DEF Init
<1> QED
  BY <1>2 DEF Init, Abstract!PromiseInit, JobStatus, PromptStopInv, OnlyEarlierWork, Cancelling

\* The strengthened invariant holds when a /stop finds no upload and no task
\* handoff: it may then still wait for an admission, a retry claim or another
\* /stop (_cancel_user_work).
THEOREM PromptStopInvariant ==
  ASSUME ~SlowStop
  PROVE  Spec => []PromptStopInv
<1>1. QueueInv /\ PromptStopInv /\ [Next]_vars => PromptStopInv'
  BY KeepsPromptStop
<1> QED
  BY <1>1, InitPromise, QueueInvariant, PTL DEF Spec

\* The queue implements the promise: an accepted request is answered at most
\* once, one answer at a time, and delivered, stopped or dropped for good.
THEOREM QueueImplementsPromise ==
  ASSUME ~SlowStop
  PROVE  Spec => KeepsPromise
<1>1. QueueInv /\ PromptStopInv /\ [Next]_vars => [Abstract!PromiseNext]_JobStatus
  BY QueueStepsKeepPromise
<1>2. Spec => []PromptStopInv
  BY PromptStopInvariant
<1> QED
  BY <1>1, <1>2, InitPromise, QueueInvariant, PTL DEF Spec, KeepsPromise, Abstract!Promise

\* A /stop that finds no upload and no task handoff discards what came before it
\* for good, and nothing that was requested after it, also while it waits with
\* its generation already raised: for an admission between its commit and its
\* publication, for a retry claim, or for other /stops (_cancel_user_work).
THEOREM StopIsPrecise ==
  ASSUME ~SlowStop
  PROVE  Spec => StopDiscipline
<1> DEFINE Final == \A j \in Jobs : outcome[j] = "stopped" => outcome'[j] = "stopped"
           Spares == \A j \in Jobs : outcome[j] = "open" /\ outcome'[j] = "stopped" => sgen[j] # gen
<1>1. ASSUME QueueInv, PromptStopInv, [Next]_vars  PROVE Final
  <2>1. \A j \in Jobs : outcome[j] = "stopped" => j \notin OnDisk \cup ledger
    BY <1>1 DEF QueueInv, QueuedIsOpen, PromptStopInv
  <2> QED
    BY <1>1, <2>1, OutcomeMoves
<1>2. ASSUME QueueInv, PromptStopInv, [Next]_vars  PROVE Spares
  <2> SUFFICES ASSUME NEW j \in Jobs, outcome[j] = "open", outcome'[j] = "stopped"
               PROVE  sgen[j] # gen
    OBVIOUS
  <2>0. /\ outcome \in [Jobs -> Outcomes] /\ sgen[j] \in Nat /\ gen \in Nat
        /\ Cancelling => \A k \in OnDisk \cup ledger : sgen[k] < gen
    BY <1>2 DEF QueueInv, TypeOK, HistoryOK, SendersOK, StoppingOK, PromptStopInv, OnlyEarlierWork
  <2>1. j \in OnDisk \cup ledger
    BY <1>2, OutcomeMoves
  <2>2. Cancelling
    <3>1. ASSUME Pop  PROVE FALSE
      BY <2>0, <3>1 DEF Pop
    <3>2. ASSUME NEW d \in Deliverer, DeliveryDiscards(d) \/ DeliveryRemoves(d)  PROVE FALSE
      BY <2>0, <3>2 DEF DeliveryDiscards, DeliveryRemoves, RemoveRecord
    <3>3. ASSUME NEW s \in Stops, StopClears(s) \/ StopClearsReplies(s)  PROVE Cancelling
      BY <3>3 DEF StopClears, StopClearsReplies, Cancelling
    <3> QED
      BY <1>2, <3>1, <3>2, <3>3, Writes_outcome
  <2>3. sgen[j] < gen
    BY <2>0, <2>1, <2>2
  <2> QED
    BY <2>0, <2>3
<1>3. QueueInv /\ PromptStopInv /\ [Next]_vars => [Final]_vars /\ [Spares]_vars
  BY <1>1, <1>2
<1>4. Spec => []PromptStopInv
  BY PromptStopInvariant
<1> QED
  BY <1>3, <1>4, QueueInvariant, PTL DEF Spec, StopDiscipline, StoppedIsFinal, StopSparesLaterWork

-----------------------------------------------------------------------------
(* No wake is lost.  The next lemmas are about a bot that nothing disturbs:  *)
(* no operation fails, a /stop finds no upload and no task handoff, no chat  *)
(* loses its authorization, and no answer comes through /inject.             *)

Undisturbed ==
  /\ ~SlowStop /\ MaxFaults = 0 /\ Revocable = {}
  /\ Asks = {} \/ Injects = {}

\* The steps that an undisturbed bot never takes.
LEMMA NothingGoesWrong ==
  ASSUME Undisturbed, QueueInv, WakeInv, [Next]_vars
  PROVE  /\ ~WorkspaceLost /\ ~TurnFails /\ ~ConsumerDies
         /\ ~FailSave /\ ~FailRetain /\ ~FailNotice
         /\ \A d \in Deliverer : ~DeliveryDiscards(d) /\ ~DeliveryFails(d)
<1>1. ~Fault
  BY DEF Fault, Undisturbed, QueueInv, TypeOK, BoundsOK
<1>2. ~WorkspaceLost /\ ~TurnFails /\ ~ConsumerDies
  BY <1>1 DEF WorkspaceLost, TurnFails, ConsumerDies
<1>3. ~FailSave /\ ~FailRetain /\ ~FailNotice
  BY DEF FailSave, FailRetain, FailNotice, At, WakeInv, NothingFails
<1>4. ASSUME NEW d \in Deliverer  PROVE ~DeliveryDiscards(d) /\ ~DeliveryFails(d)
  <2>1. ~DeliveryFails(d)
    BY <1>1 DEF DeliveryFails
  <2>2. ASSUME DeliveryDiscards(d)  PROVE FALSE
    BY <2>2 DEF DeliveryDiscards, Delivering, WakeInv, NothingFails
  <2> QED
    BY <2>1, <2>2
<1> QED
  BY <1>2, <1>3, <1>4

\* When a /stop is at work.
LEMMA CancelMoves ==
  ASSUME QueueInv, [Next]_vars
  PROVE  /\ Cancelling' => /\ ~Restart
                           /\ \/ Cancelling
                              \/ \E s \in Stops : StopAtOnce(s) \/ StopBegins(s)
         /\ Cancelling /\ ~Cancelling' => Restart \/ \E s \in Stops : StopClearsReplies(s)
         /\ \A s \in Stops : StopAtOnce(s) \/ StopBegins(s) => Cancelling'
<1>0. stop \in [Stops -> StopAt]
  BY DEF QueueInv, TypeOK, StoppingOK
<1>1. CASE Restart
  <2>1. ~Cancelling'
    BY <1>0, <1>1 DEF Restart, Cancelling
  <2>2. ASSUME NEW s \in Stops, StopAtOnce(s) \/ StopBegins(s)  PROVE Cancelling'
    BY <1>0, <2>2 DEF StopAtOnce, StopBegins, Cancelling
  <2> QED
    BY <1>1, <2>1, <2>2
<1>2. ASSUME NEW s \in Stops, StopAtOnce(s) \/ StopBegins(s)  PROVE Cancelling'
  BY <1>0, <1>2 DEF StopAtOnce, StopBegins, Cancelling
<1>3. ASSUME NEW s \in Stops, StopSettled(s) \/ StopClears(s)  PROVE Cancelling /\ Cancelling'
  BY <1>0, <1>3 DEF StopSettled, StopClears, Cancelling
<1>4. ASSUME NEW s \in Stops, StopClearsReplies(s)  PROVE Cancelling
  BY <1>4 DEF StopClearsReplies, Cancelling
<1>5. stop' = stop => (Cancelling' <=> Cancelling)
  BY DEF Cancelling
<1> QED
  BY <1>1, <1>2, <1>3, <1>4, <1>5, Writes_stop

\* What the consumer pops it starts.
LEMMA PopStarts ==
  ASSUME QueueInv, WakeInv, Pop
  PROVE  /\ con = "loop" /\ con' = "load" /\ cur' = FirstIn(mem, Runnable)
         /\ ~killed /\ ~killed' /\ cur' \in Jobs /\ cur' \in Runnable /\ cur' \in InMem
         /\ mem' = Without(mem, cur') /\ InMem' = InMem \ {cur'}
         /\ ~paused /\ ~pending /\ ~restarting
         /\ UNCHANGED <<durable, flags, request, senders, stopping, dlv, retry, restarting>>
<1> DEFINE j == FirstIn(mem, Runnable)
<1>0. TypeOK
  BY DEF QueueInv
<1>1. j \in Jobs /\ j \in InMem /\ j \in Runnable
  BY <1>0, PopTakesWaiting, MembersAreJobs DEF Pop
<1>2. ChatOf[j] \in auth
  BY <1>1 DEF WakeInv, NothingFails
<1>3. con' = "load" /\ cur' = j /\ mem' = Without(mem, j) /\ UNCHANGED durable
  BY <1>2 DEF Pop
<1>4. InMem' = InMem \ {j}
  BY <1>0, <1>1, <1>3, QueueEdits DEF InMem
<1> QED
  BY <1>1, <1>3, <1>4 DEF Pop, At, Held

\* A wake reaches the consumer: it looks at the queue now, or after its turn.
LEMMA DrainWakes ==
  ASSUME QueueInv, NEW held \in BOOLEAN, StartDrain(held)
  PROVE  /\ con' = con \/ (con = "off" /\ con' = "loop")
         /\ con # "off" => request' \in {request, TRUE}
         /\ ~held => con' = "loop" \/ (con' \in TurnAt /\ request')
<1>1. con \in TurnAt \cup {"off", "loop"}
  BY DEF QueueInv, TypeOK, ConsumerOK
<1> QED
  BY <1>1 DEF StartDrain

\* How the consumer moves.
LEMMA ConsumerMoves ==
  ASSUME Undisturbed, QueueInv, WakeInv, [Next]_vars
  PROVE  \/ UNCHANGED <<con, cur, killed>> /\ request' \in {request, TRUE}
         \/ con = "off" /\ con' = "loop" /\ UNCHANGED <<cur, killed>>
         \/ DrainEnds
         \/ Pop
         \/ /\ con \in TurnAt /\ con' \in TurnAt /\ ~killed
            /\ UNCHANGED <<cur, killed, request>>
         \/ /\ Retain \/ Complete
            /\ con \in TurnAt /\ con' = "loop" /\ cur' = NoJob /\ ~killed' /\ ~killed
         \/ Cancelled
         \/ \E s \in Stops : StopAtOnce(s) \/ StopBegins(s)
         \/ Restart
<1>1. CASE UNCHANGED <<con, cur, killed, request>>
  BY <1>1
<1> DEFINE Drained == \/ UNCHANGED <<con, cur, killed>> /\ request' \in {request, TRUE}
                      \/ con = "off" /\ con' = "loop" /\ UNCHANGED <<cur, killed>>
           Goes == /\ con \in TurnAt /\ con' \in TurnAt /\ ~killed
                   /\ UNCHANGED <<cur, killed, request>>
<1>2. ASSUME NEW held \in BOOLEAN, StartDrain(held), UNCHANGED <<cur, killed>>  PROVE Drained
  BY <1>2 DEF StartDrain
<1>3. FALSE \in BOOLEAN /\ paused \in BOOLEAN
  BY DEF QueueInv, TypeOK, FlagsOK
<1>4. ASSUME NEW m \in Jobs, Guide(m)  PROVE Drained
  BY <1>1, <1>2, <1>3, <1>4 DEF Guide
<1>5. ASSUME NEW m \in Jobs, Ack(m)  PROVE Drained
  BY <1>1, <1>2, <1>3, <1>5 DEF Ack
<1>6. CASE RetryWakes
  <2>1. UNCHANGED <<con, request>> \/ StartDrain(paused)
    BY <1>6 DEF RetryWakes
  <2> QED
    BY <1>1, <1>2, <1>3, <1>6, <2>1 DEF RetryWakes
<1>7. CASE CancelUpdate
  BY <1>1, <1>2, <1>3, <1>7 DEF CancelUpdate
<1>8. ASSUME NEW d \in Deliverer, DeliveryRemoves(d)  PROVE Drained
  BY <1>1, <1>2, <1>3, <1>8 DEF DeliveryRemoves
<1>9. ASSUME NEW state, NEW next \in TurnAt, NEW missing \in TurnAt, con \in TurnAt, ~killed,
             Saves(state, next, missing)
      PROVE  Goes
  BY <1>9 DEF Saves, Goto
<1>10. CASE SaveRunning \/ SaveMore \/ SaveBlocked \/ SaveWaiting
  BY <1>9, <1>10 DEF SaveRunning, SaveMore, SaveBlocked, SaveWaiting, At, TurnAt
<1>11. CASE Load \/ Work \/ Notice \/ Stage \/ Delivered
  BY <1>11 DEF Load, Work, Notice, Stage, Delivered, At, Goto, TurnAt
<1>12. CASE PinSession
  <2>1. cur \in OnDisk
    BY <1>12 DEF PinSession, At, WakeInv, FileIsKnown
  <2> QED
    BY <1>12, <2>1 DEF PinSession, At, Goto, TurnAt
<1>13. CASE Retain \/ Complete
  BY <1>13 DEF Retain, Complete, At, NextTurn, TurnAt
<1> QED
  BY <1>1, <1>4, <1>5, <1>6, <1>7, <1>8, <1>10, <1>11, <1>12, <1>13, NothingGoesWrong,
     Writes_con, Writes_cur, Writes_killed, Writes_request

\* A queue without members is empty.
LEMMA NoMembers ==
  ASSUME NEW S, NEW s \in Seq(S), ToSet(s) = {}
  PROVE  s = <<>>
<1>1. Len(s) \in Nat /\ DOMAIN s = 1..Len(s)
  BY LenProperties
<1>2. ~(1 \in 1..Len(s))
  BY <1>1 DEF ToSet
<1>3. Len(s) = 0
  BY <1>1, <1>2
<1> QED
  BY <1>3, EmptySeq

\* Only a turn is cancelled, and none fails.
LEMMA KeepsNothingFails ==
  ASSUME Undisturbed, QueueInv, WakeInv, [Next]_vars
  PROVE  NothingFails'
<1>0. killed => TurnRunning
  BY DEF WakeInv, NothingFails
<1>1. killed' => TurnRunning'
  <2>1. CASE \E s \in Stops : StopAtOnce(s) \/ StopBegins(s)
    BY <1>0, <2>1 DEF StopAtOnce, StopBegins, StopSignals, TurnRunning
  <2>2. CASE Pop
    BY <2>2, PopStarts
  <2>3. CASE DrainEnds \/ Cancelled \/ Restart
    BY <2>3 DEF DrainEnds, Cancelled, ConsumerEnds, Restart
  <2> QED
    BY <1>0, <2>1, <2>2, <2>3, ConsumerMoves DEF TurnRunning, TurnAt
<1>2. con' \notin {"failSave", "failRetain", "failNotice"}
  <2> DEFINE Fails == {"failSave", "failRetain", "failNotice"}
  <2>0. con \notin Fails
    BY DEF WakeInv, NothingFails
  <2>1. CASE con' = con
    BY <2>0, <2>1
  <2>2. ASSUME con' = "loop"  PROVE con' \notin Fails
    BY <2>2
  <2>3. ASSUME NEW m \in Jobs, Guide(m) \/ Ack(m)  PROVE con' \notin Fails
    BY <2>0, <2>3 DEF Guide, Ack, StartDrain
  <2>4. CASE RetryWakes \/ CancelUpdate
    BY <2>0, <2>4 DEF RetryWakes, CancelUpdate, StartDrain
  <2>5. ASSUME NEW d \in Deliverer, DeliveryRemoves(d)  PROVE con' \notin Fails
    BY <2>0, <2>5 DEF DeliveryRemoves, StartDrain
  <2>6. CASE DrainEnds \/ Retain \/ Complete \/ Cancelled \/ Restart
    BY <2>6 DEF DrainEnds, Retain, Complete, Cancelled, ConsumerEnds, NextTurn, Restart
  <2>7. CASE Load \/ Work \/ Notice \/ Stage \/ Delivered
    BY <2>7 DEF Load, Work, Notice, Stage, Delivered, Goto
  <2>8. CASE SaveRunning \/ SaveMore \/ SaveBlocked \/ SaveWaiting
    BY <2>8 DEF SaveRunning, SaveMore, SaveBlocked, SaveWaiting, Saves, Goto
  <2>9. CASE PinSession
    BY <2>9 DEF PinSession, Goto, ConsumerEnds
  <2>10. CASE Pop
    BY <2>10, PopStarts
  <2> QED
    BY <2>1, <2>3, <2>4, <2>5, <2>6, <2>7, <2>8, <2>9, <2>10, NothingGoesWrong, Writes_con
<1>3. \A j \in Jobs : ChatOf[j] \in auth'
  <2>1. Restart => auth' = auth
    BY DEF Restart, Undisturbed
  <2> QED
    BY <2>1, Writes_auth DEF WakeInv, NothingFails
<1>4. \A d \in Deliverer : dlv'[d].at # "discard"
  <2>0. dlv \in [Deliverer -> [at : DeliveryAt, job : Jobs \cup {NoJob}]]
        /\ \A d \in Deliverer : dlv[d].at # "discard"
    BY DEF WakeInv, NothingFails, QueueInv, TypeOK, DeliveriesOK
  <2>1. ASSUME NEW d \in Deliverer, DeliveryInput(d)  PROVE dlv' = [dlv EXCEPT ![d].at = "send"]
    <3>1. dlv[d].job \in ledger
      BY <2>1 DEF DeliveryInput, Delivering, QueueInv, DeliversStaged, InTransit
    <3>2. ChatOf[dlv[d].job] \in auth
      BY <3>1 DEF WakeInv, NothingFails, QueueInv, TypeOK, QueuesOK
    <3> QED
      BY <2>1, <3>2 DEF DeliveryInput, DeliveryGoes
  <2>2. ASSUME NEW d \in Deliverer, DeliveryInput(d)  PROVE \A e \in Deliverer : dlv'[e].at # "discard"
    BY <2>0, <2>1, <2>2
  <2>3. ASSUME NEW d \in Deliverer, DeliveryLocks(d) \/ DeliverySend(d) \/ DeliveryRemoves(d)
        PROVE  \A e \in Deliverer : dlv'[e].at # "discard"
    <3>1. \/ dlv' = [dlv EXCEPT ![d] = Off] \/ dlv' = [dlv EXCEPT ![d].at = "input"]
          \/ dlv' = [dlv EXCEPT ![d].at = "remove"]
      BY <2>3 DEF DeliveryLocks, DeliverySend, DeliveryRemoves, DeliveryEnds, DeliveryGoes
    <3> QED
      BY <2>0, <3>1 DEF Off
  <2>4. CASE Stage
    BY <2>0, <2>4 DEF Stage
  <2>5. CASE PollReply
    BY <2>0, <2>5 DEF PollReply
  <2>6. CASE Restart
    BY <2>6 DEF Restart, Off
  <2>7. ASSUME NEW s \in Stops, StopAtOnce(s) \/ StopBegins(s)
        PROVE  \A e \in Deliverer : dlv'[e].at # "discard"
    BY <2>7 DEF StopAtOnce, StopBegins, StopSignals, Off
  <2> QED
    BY <2>0, <2>2, <2>3, <2>4, <2>5, <2>6, <2>7, NothingGoesWrong, Writes_dlv
<1> QED
  BY <1>1, <1>2, <1>3, <1>4 DEF NothingFails

\* A living turn was alive before, or was just popped.
LEMMA TurnLives ==
  ASSUME Undisturbed, QueueInv, WakeInv, [Next]_vars, con' \in TurnAt, ~killed'
  PROVE  /\ ~killed /\ \A s \in Stops : ~StopAtOnce(s) /\ ~StopBegins(s)
         /\ Pop \/ (con \in TurnAt /\ cur' = cur /\ ~Retain /\ ~Complete /\ ~Cancelled)
<1>1. ASSUME NEW s \in Stops, StopAtOnce(s) \/ StopBegins(s)  PROVE FALSE
  BY <1>1 DEF StopAtOnce, StopBegins, StopSignals, TurnRunning
<1>2. ~DrainEnds /\ ~Cancelled /\ ~Restart /\ ~Retain /\ ~Complete
  BY DEF DrainEnds, Cancelled, Restart, Retain, Complete, ConsumerEnds, NextTurn, TurnAt
<1>3. Pop => ~killed
  BY PopStarts
<1>4. \/ UNCHANGED <<con, cur, killed>>
      \/ Pop
      \/ con \in TurnAt /\ ~killed /\ UNCHANGED cur
  BY <1>1, <1>2, ConsumerMoves DEF TurnAt
<1> QED
  BY <1>1, <1>2, <1>3, <1>4

\* Nothing comes back to memory until /stop is done, and what is popped while it
\* is at work does not reach the agent.
LEMMA KeepsStopLeavesNothing ==
  ASSUME Undisturbed, QueueInv, WakeInv, [Next]_vars
  PROVE  StopLeavesNothing'
<1>0. stop \in [Stops -> StopAt] /\ mem' \in Seq(Jobs) /\ ~SlowStop
  BY MemoryMoves DEF QueueInv, TypeOK, StoppingOK, Undisturbed
<1>1. ASSUME Clearing'  PROVE mem' = <<>>
  <2> SUFFICES ASSUME Clearing, ~Restart  PROVE mem' = <<>>
    BY <1>1, ClearingMoves
  <2>1. mem = <<>> /\ InMem = {} /\ claim = NoJob /\ \A m \in Jobs : snd[m] # "committed"
    BY EmptyQueue DEF WakeInv, StopLeavesNothing, InMem, QueueInv, OneAdmission
  <2>2. Retain => OnDisk = {}
    BY <1>0 DEF Retain, RetainReads, QueueFileFree, QueueFileOpen, Clearing, QueueInv,
                FileClearedFirst
  <2>3. InMem' \subseteq InMem
    BY <2>1, <2>2, MemoryMoves, NothingGoesWrong DEF RetryWakes
  <2> QED
    BY <1>0, <2>1, <2>3, NoMembers DEF InMem
<1>2. ASSUME Cancelling', TurnRunning', ~killed'
      PROVE  con' \in {"load", "save", "retain"} /\ (Clearing' => con' # "load")
  <2>1. /\ ~killed /\ (Pop \/ (con \in TurnAt /\ cur' = cur /\ ~Retain /\ ~Complete))
        /\ ~Restart /\ Cancelling
        /\ \A s \in Stops : ~StopAtOnce(s) /\ ~StopBegins(s)
    BY <1>2, TurnLives, CancelMoves DEF TurnRunning
  <2>2. CASE Pop
    <3>1. con' = "load" /\ stop' = stop
      BY <2>2, PopStarts DEF stopping
    <3>2. ~Clearing
      BY <2>2, EmptyQueue DEF Pop, Runnable, InMem, WakeInv, StopLeavesNothing
    <3> QED
      BY <3>1, <3>2 DEF Clearing
  <2>3. CASE ~Pop
    <3>0. con \in {"load", "save", "retain"} /\ (Clearing => con # "load")
      BY <2>1, <2>3 DEF WakeInv, StopLeavesNothing, TurnRunning
    <3>1. CASE con' = con
      <4>1. ASSUME con = "load", Clearing'  PROVE FALSE
        <5>1. stop' # stop
          BY <3>0, <4>1 DEF Clearing
        <5>2. ASSUME NEW s \in Stops, StopSettled(s)  PROVE FALSE
          BY <1>0, <2>1, <4>1, <5>2 DEF StopSettled, StopIsNext, At
        <5>3. ASSUME NEW s \in Stops, StopClears(s) \/ StopClearsReplies(s)  PROVE FALSE
          BY <3>0, <4>1, <5>3 DEF StopClears, StopClearsReplies, Clearing
        <5> QED
          BY <2>1, <5>1, <5>2, <5>3, Writes_stop
      <4> QED
        BY <3>0, <3>1, <4>1
    <3>2. CASE Load
      BY <3>2 DEF Load, Goto
    <3>3. CASE SaveRunning
      <4>1. OnDisk = {}
        BY <1>0, <2>1, <3>3 DEF SaveRunning, Saves, QueueFileFree, QueueFileOpen, StopIsNext,
                                Cancelling, QueueInv, FileClearedFirst
      <4> QED
        BY <3>3, <4>1 DEF SaveRunning, Saves, Goto
    <3>4. ASSUME con' # con, ~Load, ~SaveRunning  PROVE FALSE
      <4>1. con' \in TurnAt /\ con' # "loop"
        BY <1>2 DEF TurnRunning, TurnAt
      <4>2. ASSUME NEW m \in Jobs, Guide(m) \/ Ack(m)  PROVE FALSE
        BY <3>4, <4>1, <4>2 DEF Guide, Ack, StartDrain, Sender
      <4>3. ~RetryWakes /\ ~CancelUpdate
        BY <3>4, <4>1 DEF RetryWakes, CancelUpdate, StartDrain
      <4>4. ASSUME NEW d \in Deliverer, DeliveryRemoves(d)  PROVE FALSE
        BY <3>4, <4>1, <4>4 DEF DeliveryRemoves, StartDrain
      <4>5. ~PinSession /\ ~Work /\ ~Notice /\ ~Stage /\ ~Delivered /\ ~Complete
        BY <3>0 DEF PinSession, Work, Notice, Stage, Delivered, Complete, At
      <4>6. ~SaveMore /\ ~SaveBlocked /\ ~SaveWaiting /\ ~DrainEnds /\ ~Cancelled
        BY <2>1, <3>0 DEF SaveMore, SaveBlocked, SaveWaiting, DrainEnds, Cancelled, At
      <4> QED
        BY <2>1, <2>3, <3>4, <4>2, <4>3, <4>4, <4>5, <4>6, NothingGoesWrong, Writes_con
    <3> QED
      BY <3>1, <3>2, <3>3, <3>4
  <2> QED
    BY <2>2, <2>3
<1> QED
  BY <1>1, <1>2 DEF StopLeavesNothing

\* A job on which the turn writes its checkpoint stays in the queue file until the
\* turn completes it, or a /stop clears the file.
LEMMA TurnStaysOnDisk ==
  ASSUME Undisturbed, QueueInv, WakeInv, [Next]_vars,
         con \in TurnAt, ~killed, ~Complete, ~Clearing, NEW j \in OnDisk, j \notin ledger
  PROVE  j \in OnDisk'
<1>1. ~Pop
  BY DEF Pop, At, TurnAt
<1>2. ASSUME NEW d \in Deliverer, DeliveryInput(d)  PROVE dlv[d].job # j
  BY <1>2 DEF DeliveryInput, Delivering, QueueInv, DeliversStaged, InTransit
<1>3. ASSUME NEW s \in Stops, StopClears(s)  PROVE FALSE
  BY <1>3 DEF StopClears, Clearing
<1> QED
  BY <1>1, <1>2, <1>3, DiskMoves

\* What is in the queue file stays known to somebody.
LEMMA KeepsFileIsKnown ==
  ASSUME Undisturbed, QueueInv, WakeInv, [Next]_vars
  PROVE  FileIsKnown'
<1>0. /\ TypeOK /\ sgen \in [Jobs -> Nat] /\ snd \in [Jobs -> SenderAt] /\ OnDisk \subseteq Jobs
      /\ con \in TurnAt \cup {"off", "loop"} /\ NoJob \notin Jobs /\ stop \in [Stops -> StopAt]
  BY MembersAreJobs, TurnQueueAssumption DEF QueueInv, TypeOK, SendersOK, ConsumerOK, StoppingOK
<1>c. ASSUME ~Cancelling'
      PROVE  /\ \A s \in Stops : ~StopAtOnce(s) /\ ~StopBegins(s)
             /\ Cancelling /\ ~Restart => OnDisk' = {} /\ \A m \in Jobs : snd'[m] # "committed"
  <2>1. ASSUME NEW s \in Stops, StopClearsReplies(s)
        PROVE  OnDisk' = {} /\ \A m \in Jobs : snd'[m] # "committed"
    <3>1. OnDisk = {} /\ Clearing
      BY <2>1 DEF StopClearsReplies, QueueInv, FileClearedFirst, Clearing
    <3> QED
      BY <2>1, <3>1 DEF StopClearsReplies, QueueInv, OneAdmission, OnDisk, senders
  <2> QED
    BY <1>c, <2>1, CancelMoves
<1>1. ASSUME ~Cancelling', NEW m \in Jobs, snd'[m] = "committed"  PROVE sgen'[m] = gen'
  <2>1. snd[m] = "committed" \/ (Admit(m) /\ AdmissionFree)
    BY <1>1, SenderMoves
  <2>2. gen' = gen
    <3>2. ~Restart
      BY <1>0, <1>1 DEF Restart
    <3>3. ASSUME NEW s \in Stops, StopSettled(s) \/ StopClears(s) \/ StopClearsReplies(s)
          PROVE  gen' = gen
      BY <3>3 DEF StopSettled, StopClears, StopClearsReplies
    <3> QED
      BY <1>1, <1>c, <3>2, <3>3, Writes_stopping DEF stopping
  <2>3. sgen'[m] = sgen[m]
    <3>1. ~Restart
      BY <1>0, <1>1 DEF Restart
    <3>2. ASSUME NEW k \in Jobs, Arrive(k)  PROVE sgen'[m] = sgen[m]
      <4>1. m # k
        BY <1>0, <1>1, <3>2 DEF Arrive, Leaves
      <4> QED
        BY <1>0, <3>2, <4>1 DEF Arrive, Leaves
    <3>3. ASSUME NEW k \in Jobs, Guide(k) \/ Admit(k) \/ Publish(k) \/ PersistPromote(k) \/ Ack(k)
          PROVE  sgen' = sgen
      BY <3>3 DEF Guide, Admit, Publish, PersistPromote, Ack, Leaves, Sender
    <3> QED
      BY <3>1, <3>2, <3>3, Writes_senders DEF senders
  <2> QED
    <3>1. ~Cancelling
      BY <1>0, <1>1, <1>c DEF Restart
    <3> QED
      BY <1>0, <1>1, <2>1, <2>2, <2>3, <3>1 DEF WakeInv, FileIsKnown, Admit, Leaves, Sender
<1>2. ASSUME ~TurnRunning'  PROVE cur' = NoJob
  <2>1. con' \notin TurnAt
    BY <1>2 DEF TurnRunning
  <2>2. CASE DrainEnds \/ Cancelled \/ Restart
    BY <2>2 DEF DrainEnds, Cancelled, ConsumerEnds, Restart
  <2>3. CASE \E s \in Stops : StopAtOnce(s) \/ StopBegins(s)
    BY <2>1, <2>3 DEF StopAtOnce, StopBegins, WakeInv, FileIsKnown, TurnRunning
  <2>4. CASE Pop
    BY <2>1, <2>4, PopStarts DEF TurnAt
  <2> QED
    BY <2>1, <2>2, <2>3, <2>4, ConsumerMoves DEF WakeInv, FileIsKnown, TurnRunning, TurnAt
<1>3. ASSUME con' = "pin", ~killed'  PROVE cur' \in OnDisk'
  <2>1. con' \in TurnAt /\ con' \in PreStage
    BY <1>3 DEF TurnAt, PreStage
  <2>2. ~Pop /\ ~Stage /\ ~Complete /\ ~Cancelled
    BY <1>3, <2>1 DEF Pop, Stage, Complete, Cancelled, ConsumerEnds, NextTurn, At, Goto, TurnAt
  <2>3. con \in PreStage /\ cur' = cur /\ con \in TurnAt /\ ~killed
    BY <1>3, <2>1, <2>2, TurnLives, TurnMoves
  <2>4. cur \in OnDisk /\ \A s \in Stops : stop[s] # "clear"
    <3>1. CASE con = "pin"
      BY <2>3, <3>1 DEF WakeInv, FileIsKnown, PromptStopInv
    <3>2. CASE SaveRunning
      BY <1>3, <3>2 DEF SaveRunning, Saves, Goto, QueueFileFree, QueueFileOpen
    <3>3. ASSUME con # "pin", ~SaveRunning  PROVE FALSE
      <4>1. con' # con /\ con' # "loop"
        BY <1>3, <3>3
      <4>2. ASSUME NEW m \in Jobs, Guide(m) \/ Ack(m)  PROVE FALSE
        BY <4>1, <4>2 DEF Guide, Ack, StartDrain
      <4>3. ~RetryWakes /\ ~CancelUpdate
        BY <4>1 DEF RetryWakes, CancelUpdate, StartDrain
      <4>4. ASSUME NEW d \in Deliverer, DeliveryRemoves(d)  PROVE FALSE
        BY <4>1, <4>4 DEF DeliveryRemoves, StartDrain
      <4>5. ~Load /\ ~Work /\ ~Notice /\ ~Delivered /\ ~Retain
        BY <1>3 DEF Load, Work, Notice, Delivered, Retain, NextTurn, Goto
      <4>6. ~SaveMore /\ ~SaveBlocked /\ ~SaveWaiting
        BY <1>3 DEF SaveMore, SaveBlocked, SaveWaiting, Saves, Goto
      <4>7. ~PinSession /\ ~DrainEnds /\ ~Restart
        BY <1>3, <3>3 DEF PinSession, DrainEnds, ConsumerEnds, Restart, At
      <4> QED
        BY <2>2, <3>3, <4>1, <4>2, <4>3, <4>4, <4>5, <4>6, <4>7, NothingGoesWrong, Writes_con
    <3> QED
      BY <3>1, <3>2, <3>3
  <2>5. cur \notin ledger
    BY <2>3 DEF QueueInv, TurnOwesNothing
  <2> QED
    <3>1. ~Clearing
      BY <2>4 DEF Clearing, QueueInv, FileClearedFirst
    <3> QED
      BY <2>2, <2>3, <2>4, <2>5, <3>1, TurnStaysOnDisk
<1>4. ASSUME ~Cancelling', NEW j \in OnDisk'
      PROVE  j \in InMem' \/ snd'[j] = "committed" \/ (TurnRunning' /\ ~killed' /\ cur' = j)
  <2> DEFINE Known == j \in InMem' \/ snd'[j] = "committed" \/ (TurnRunning' /\ ~killed' /\ cur' = j)
  <2>1. CASE Restart
    BY <2>1 DEF Restart, InMem, OnDisk, durable
  <2>2. \A s \in Stops : ~StopAtOnce(s) /\ ~StopBegins(s)
    BY <1>4, <1>c
  <2>3. ASSUME Cancelling, ~Restart  PROVE FALSE
    BY <1>4, <1>c, <2>3
  <2>4. ASSUME ~Cancelling, ~Restart, j \notin OnDisk  PROVE snd'[j] = "committed"
    <3>1. PICK m \in Jobs : Admit(m) /\ snd'[m] = "committed" /\ OnDisk' = OnDisk \cup {m}
      BY <1>4, <2>4, DiskMoves, EmptyQueue DEF OnDisk
    <3> QED
      BY <1>4, <2>4, <3>1
  <2>5. ASSUME ~Cancelling, ~Restart, j \in OnDisk, j \in InMem  PROVE Known
    <3>1. CASE Pop
      BY <2>5, <3>1, PopStarts DEF TurnRunning, TurnAt
    <3>2. ASSUME NEW d \in Deliverer, DeliveryInput(d)  PROVE j \in InMem'
      <4>1. dlv[d].job \in ledger /\ dlv[d].job \in Jobs
        BY <1>0, <3>2 DEF DeliveryInput, Delivering, QueueInv, DeliversStaged, InTransit, QueuesOK, TypeOK
      <4>2. j # dlv[d].job
        BY SMTT(30), <1>0, <1>4, <3>2, <4>1, QueueEdits DEF DeliveryInput, PersistComplete, OnDisk
      <4> QED
        BY <1>0, <2>5, <3>2, <4>1, <4>2, QueueEdits DEF DeliveryInput, InMem
    <3>3. ASSUME NEW m \in Jobs, Publish(m)  PROVE j \in InMem'
      <4>1. mem' \in {mem, Promoted(mem, m), Enqueued(mem, m), Promoted(Enqueued(mem, m), m)}
        BY <3>3 DEF Publish
      <4> QED
        BY SMTT(30), <1>0, <2>5, <4>1, QueueEdits DEF InMem
    <3>4. CASE Retain
      BY <1>0, <2>5, <3>4, QueueEdits DEF Retain, InMem
    <3>5. CASE RetryWakes
      BY <1>0, <2>5, <3>5, QueueEdits DEF RetryWakes, InMem
    <3>6. CASE mem' = mem
      BY <2>5, <3>6 DEF InMem
    <3>7. \A s \in Stops : ~StopSettled(s)
      BY <2>5 DEF StopSettled, Cancelling
    <3> QED
      BY <2>2, <2>5, <3>1, <3>2, <3>3, <3>4, <3>5, <3>6, <3>7, NothingGoesWrong, Writes_mem
  <2>6. ASSUME ~Cancelling, ~Restart, j \in OnDisk, snd[j] = "committed"  PROVE Known
    <3>1. j \in Jobs /\ sgen[j] = gen /\ j \notin InMem
      BY <1>0, <2>6 DEF WakeInv, FileIsKnown, QueueInv, NotYetPublished, Unpublished
    <3>2. CASE Publish(j)
      <4>1. cur # j
        <5>1. CASE con \in TurnAt
          BY <2>6, <5>1 DEF QueueInv, TurnHasJob, Unpublished
        <5>2. CASE con \notin TurnAt
          BY <1>0, <3>1, <5>2 DEF WakeInv, FileIsKnown, TurnRunning
        <5> QED
          BY <5>1, <5>2
      <4>2. mem' \in {Enqueued(mem, j), Promoted(Enqueued(mem, j), j)}
        BY <3>1, <3>2, <4>1 DEF Publish
      <4> QED
        BY <1>0, <3>1, <4>2, QueueEdits DEF InMem
    <3>3. ASSUME NEW m \in Jobs, m # j, Arrive(m) \/ Guide(m) \/ Admit(m) \/ Publish(m)
                                         \/ PersistPromote(m) \/ Ack(m)
          PROVE  snd'[j] = "committed"
      <4>1. \E pc : snd' = [snd EXCEPT ![m] = pc]
        BY <3>3 DEF Arrive, Guide, Admit, Publish, PersistPromote, Ack, Leaves, Sender
      <4> QED
        BY <1>0, <2>6, <3>1, <3>3, <4>1
    <3>4. ~Arrive(j) /\ ~Guide(j) /\ ~Admit(j) /\ ~PersistPromote(j) /\ ~Ack(j)
      BY <2>6 DEF Arrive, Guide, Admit, PersistPromote, Ack
    <3> QED
      BY <2>6, <3>2, <3>3, <3>4, Writes_senders DEF senders
  <2>7. ASSUME ~Cancelling, ~Restart, j \in OnDisk, TurnRunning, ~killed, cur = j  PROVE Known
    <3>1. con \in TurnAt /\ j \in Jobs
      BY <1>0, <2>7 DEF TurnRunning
    <3>2. CASE Retain
      BY <1>0, <2>7, <3>1, <3>2, QueueEdits DEF Retain, InMem, OnDisk
    <3>3. CASE Complete
      BY <1>0, <1>4, <2>7, <3>1, <3>3, QueueEdits DEF Complete, PersistComplete, OnDisk
    <3>4. ~Pop /\ ~DrainEnds /\ ~Cancelled
      BY <2>7, <3>1 DEF Pop, DrainEnds, Cancelled, At, TurnAt
    <3> QED
      BY <2>2, <2>7, <3>1, <3>2, <3>3, <3>4, ConsumerMoves DEF TurnRunning, TurnAt
  <2> QED
    BY <2>1, <2>3, <2>4, <2>5, <2>6, <2>7 DEF WakeInv, FileIsKnown
<1> QED
  BY <1>1, <1>2, <1>3, <1>4 DEF FileIsKnown

\* What is in a queue or runs stays work that was admitted.
LEMMA KeepsOnlyAcceptedWork ==
  ASSUME QueueInv, WakeInv, [Next]_vars
  PROVE  OnlyAcceptedWork'
<1>0. /\ OnDisk \cup InMem \subseteq accepted /\ (con \in TurnAt => cur \in accepted)
      /\ \A m \in Jobs : snd[m] = "committed" => m \in accepted
      /\ snd \in [Jobs -> SenderAt]
  BY DEF WakeInv, OnlyAcceptedWork, QueueInv, TypeOK, SendersOK
<1>1. ASSUME NEW m \in Jobs, Admit(m), snd'[m] = "committed"  PROVE m \in accepted'
  BY <1>0, <1>1 DEF Admit, Leaves
<1>2. accepted \subseteq accepted'
  <2>1. ASSUME NEW m \in Jobs, Admit(m)  PROVE accepted \subseteq accepted'
    BY <2>1 DEF Admit
  <2> QED
    BY <2>1, Writes_accepted
<1>3. OnDisk' \subseteq accepted'
  BY <1>0, <1>1, <1>2, DiskMoves, EmptyQueue DEF OnDisk
<1>4. InMem' \subseteq accepted'
  <2>1. FailRetain \/ Retain \/ RetryWakes \/ Restart => OnDisk \subseteq accepted'
    BY <1>0, <1>2
  <2> QED
    BY <1>0, <1>2, <2>1, MemoryMoves
<1>5. \A m \in Jobs : snd'[m] = "committed" => m \in accepted'
  BY <1>0, <1>1, <1>2, SenderMoves
<1>6. con' \in TurnAt => cur' \in accepted'
  BY <1>0, <1>2, TurnMoves, PopLeavesMemory DEF Stage, At, TurnAt
<1> QED
  BY <1>3, <1>4, <1>5, <1>6 DEF OnlyAcceptedWork

\* While the user is asked, a request that is not scheduled answers.
LEMMA KeepsAwaitSparesSchedules ==
  ASSUME Undisturbed, QueueInv, WakeInv, [Next]_vars
  PROVE  AwaitSparesSchedules'
<1> SUFFICES ASSUME awaiting'
             PROVE  /\ answered' \cap Asks # {} /\ InMem' \subseteq Schedules
                    /\ con' \in PreStage => cur' \in Schedules
                    /\ claim' \in OnDisk' => claim' \in Schedules
  BY DEF AwaitSparesSchedules, PreStage, TurnAt
<1> DEFINE Spared == /\ answered' \cap Asks # {} /\ InMem' \subseteq Schedules
                     /\ con' \in PreStage => cur' \in Schedules
                     /\ claim' \in OnDisk' => claim' \in Schedules
<1>0. TypeOK /\ OnDisk \subseteq Jobs /\ NoJob \notin Jobs /\ ~Restart
  BY MembersAreJobs, TurnQueueAssumption DEF QueueInv, Restart
<1>1. ASSUME NEW d \in Deliverer, DeliverySend(d), ~awaiting  PROVE Spared
  <2>1. dlv[d].job \in Asks \ Schedules /\ InMem \subseteq Schedules
    BY <1>1 DEF DeliverySend
  <2>2. dlv[d].job \in ledger /\ dlv[d].job \notin OnDisk
    BY <1>1 DEF DeliverySend, Delivering, QueueInv, DeliversStaged, DeliversConsumed, InTransit
  <2>3. con' \notin PreStage
    BY <1>1, <2>2 DEF DeliverySend, consumer, QueueInv, TurnOwesNothing, PreStage, TurnAt
  <2>4. ASSUME claim \in OnDisk  PROVE claim \in Schedules
    <3>1. claim # NoJob /\ ~Cancelling /\ claim \in Jobs
      BY <1>0, <1>1, <2>4 DEF DeliverySend, Delivering, Off, QueueInv, StopEndsDeliveries
    <3>2. snd[claim] # "committed"
      BY <3>1 DEF QueueInv, OneAdmission
    <3>3. ASSUME TurnRunning, cur = claim  PROVE FALSE
      <4>1. cur \in answered
        BY <2>2, <3>3 DEF QueueInv, TurnOwesNothing, TurnAnswered, TurnRunning
      <4>2. cur \in ledger
        BY <2>4, <3>3, <4>1 DEF QueueInv, AnswersConsumed
      <4>3. cur = dlv[d].job
        BY <2>2, <4>2 DEF QueueInv, OneStagedReply
      <4> QED
        BY <2>2, <2>4, <3>3, <4>3
    <3> QED
      BY <2>1, <2>4, <3>1, <3>2, <3>3 DEF WakeInv, FileIsKnown
  <2>5. InMem' = InMem /\ claim' = claim /\ OnDisk' = OnDisk
    BY <1>1 DEF DeliverySend, retry, durable, InMem, OnDisk
  <2>6. dlv[d].job \in answered' \cap Asks
    BY <1>1, <2>1, <2>2 DEF DeliverySend, history, QueueInv, HoldMirrorsLedger
  <2> QED
    BY <2>1, <2>3, <2>4, <2>5, <2>6
<1>2. ASSUME awaiting  PROVE Spared
  <2>0. /\ answered' \cap Asks # {} /\ Injects = {} /\ InMem \subseteq Schedules
        /\ con \in PreStage => cur \in Schedules
        /\ claim \in OnDisk => claim \in Schedules
    <3>1. answered \subseteq answered'
      BY LedgerMoves
    <3> QED
      BY <1>2, <3>1 DEF WakeInv, AwaitSparesSchedules, Undisturbed, PreStage, TurnAt
  <2>1. InMem' \subseteq Schedules
    <3>1. ASSUME NEW m \in Jobs, Publish(m), snd'[m] \in {"promote", "ack"}
          PROVE  m \in Schedules
      <4>1. sgen[m] = gen /\ (AnswersAwait(m) => ~awaiting')
        BY <1>0, <3>1 DEF Publish, Leaves, QueueInv, TypeOK, SendersOK
      <4> QED
        BY <1>2, <2>0, <4>1 DEF AnswersAwait
    <3>2. Retain => con \in PreStage
      BY DEF Retain, At, PreStage, TurnAt
    <3> QED
      BY <1>0, <2>0, <3>1, <3>2, MemoryMoves, NothingGoesWrong
  <2>2. ASSUME con' \in PreStage  PROVE cur' \in Schedules
    <3>1. Pop => cur' \in Schedules
      BY <1>2, PopStarts DEF Runnable
    <3>2. con' \in TurnAt /\ con' \notin {"deliver", "complete"}
      BY <2>2 DEF PreStage, TurnAt
    <3> QED
      BY <2>0, <2>2, <3>1, <3>2, TurnMoves
  <2>3. ASSUME claim' \in OnDisk'  PROVE claim' \in Schedules
    <3>1. CASE RetryClaims
      <4>1. /\ ~Cancelling /\ ~TurnRunning /\ claim' \in OnDisk /\ claim' \in Jobs
            /\ \A m \in Jobs : snd[m] # "committed"
        BY <1>0, <3>1, MembersAreJobs DEF RetryClaims, AdmissionFree, OnDisk
      <4>2. claim' \in InMem
        BY <4>1 DEF WakeInv, FileIsKnown
      <4> QED
        BY <2>0, <4>2
    <3>2. CASE RetryWakes
      BY <1>0, <2>3, <3>2 DEF RetryWakes, durable, OnDisk
    <3>3. CASE retry' = retry
      <4>1. claim' = claim
        BY <3>3 DEF retry
      <4>2. ASSUME claim \notin OnDisk  PROVE FALSE
        <5>1. PICK m \in Jobs : Admit(m) /\ OnDisk' = OnDisk \cup {m}
          BY <2>3, <4>1, <4>2, DiskMoves, EmptyQueue DEF OnDisk
        <5>2. claim = NoJob /\ m = NoJob
          BY <2>3, <4>1, <4>2, <5>1 DEF Admit, AdmissionFree
        <5> QED
          BY <1>0, <5>2
      <4> QED
        BY <2>0, <4>1, <4>2
    <3> QED
      BY <1>0, <3>1, <3>2, <3>3, Writes_retry
  <2> QED
    BY <2>0, <2>1, <2>2, <2>3
<1>3. ASSUME ~awaiting  PROVE \E d \in Deliverer : DeliverySend(d)
  <2>1. ASSUME NEW m \in Jobs, Guide(m) \/ Publish(m)  PROVE FALSE
    BY <1>3, <2>1 DEF Guide, Publish
  <2>2. ASSUME NEW s \in Stops, StopAtOnce(s) \/ StopSettled(s)  PROVE FALSE
    BY <2>2 DEF StopAtOnce, StopSettled, StopDrains
  <2> QED
    BY <1>0, <1>3, <2>1, <2>2, NothingGoesWrong, Writes_awaiting
<1> QED
  BY <1>1, <1>2, <1>3

\* Whoever makes work waiting, or lifts what held it back, wakes the consumer or is
\* about to; the consumer only goes when nothing waits that it may run.
LEMMA KeepsNoLostWake ==
  ASSUME Undisturbed, QueueInv, WakeInv, [Next]_vars
  PROVE  NoLostWake'
<1> SUFFICES ASSUME mem' # <<>>, ~paused', ~pending', ~restarting', ~Cancelling'  PROVE Awake'
  BY DEF NoLostWake, Awake
<1>0. /\ TypeOK /\ snd \in [Jobs -> SenderAt] /\ mem \in Seq(Jobs) /\ stop \in [Stops -> StopAt]
      /\ gen \in Nat /\ FALSE \in BOOLEAN /\ paused \in BOOLEAN /\ killed \in BOOLEAN
      /\ con \in TurnAt \cup {"off", "loop"} /\ NoJob \notin Jobs
  BY TurnQueueAssumption
     DEF QueueInv, TypeOK, SendersOK, QueuesOK, StoppingOK, FlagsOK, ConsumerOK
<1>c. \A s \in Stops : ~StopAtOnce(s) /\ ~StopBegins(s) /\ ~StopSettled(s)
  BY CancelMoves DEF StopAtOnce, StopSettled, StopDrains
<1>r. CASE Restart
  BY <1>r DEF Restart, Awake
<1>n. ASSUME ~Restart  PROVE ~Cancelling
  <2>1. ASSUME NEW s \in Stops, StopClearsReplies(s)  PROVE FALSE
    <3>1. Clearing /\ mem' = mem
      BY <2>1 DEF StopClearsReplies, Clearing
    <3> QED
      BY <3>1 DEF WakeInv, StopLeavesNothing
  <2> QED
    BY <1>n, <2>1, CancelMoves
<1>1. ASSUME NEW held \in BOOLEAN, StartDrain(held), ~held  PROVE Awake'
  <2>1. con' = "loop" \/ (con' \in TurnAt /\ request')
    BY <1>1, DrainWakes
  <2> QED
    BY <2>1 DEF Awake, TurnRunning
<1>2. ASSUME con' = "loop"  PROVE Awake'
  BY <1>2 DEF Awake
<1>3. ASSUME con' \in TurnAt, ~killed'  PROVE Awake'
  BY <1>3 DEF Awake, TurnRunning
<1>4. ASSUME NEW m \in Jobs, Guide(m)  PROVE Awake \/ Awake'
  <2>1. CASE StartDrain(FALSE)
    BY <1>0, <1>1, <2>1
  <2>2. CASE ~StartDrain(FALSE)
    <3>1. UNCHANGED <<mem, paused, pending, restarting>>
      BY <1>4, <2>2 DEF Guide
    <3> QED
      BY <1>0, <3>1 DEF WakeInv, NoLostWake, TypeOK, FlagsOK, GateOK
  <2> QED
    BY <2>1, <2>2
<1>5. CASE ~Awake /\ ~Restart
  <2>1. mem = <<>> \/ paused \/ pending \/ restarting
    BY <1>5 DEF WakeInv, NoLostWake
  <2>2. ASSUME NEW m \in Jobs, Publish(m)  PROVE Awake'
    <3>1. sgen[m] = gen /\ gen' = gen /\ sgen' = sgen /\ snd'[m] \in {"promote", "ack"}
      <4>1. sgen[m] = gen
        BY <1>5, <1>n, <2>2 DEF Publish, WakeInv, FileIsKnown
      <4> QED
        BY <1>0, <2>2, <4>1 DEF Publish, Sender, stopping
    <3> QED
      BY <3>1 DEF Awake
  <2>3. CASE Retain
    BY <1>2, <2>3 DEF Retain, NextTurn
  <2>4. CASE RetryWakes
    <3>1. claimGen = gen /\ ~Cancelling => StartDrain(paused)
      BY <2>4 DEF RetryWakes
    <3>2. claimGen = gen /\ ~Cancelling => ~paused
      BY <2>4 DEF RetryWakes, flags
    <3>3. ~(claimGen = gen /\ ~Cancelling) => mem' = mem
      BY <2>4 DEF RetryWakes
    <3> QED
      BY <1>0, <1>1, <2>1, <2>4, <3>1, <3>2, <3>3 DEF RetryWakes, flags
  <2>6. CASE Stage \/ Delivered
    <3>1. con' \in TurnAt /\ ~killed'
      BY <2>6 DEF Stage, Delivered, At, Goto, TurnAt
    <3> QED
      BY <1>3, <3>1
  <2>7. CASE RetryClaims
    <3>1. claim' \in Jobs /\ claimGen' = gen' /\ ~Cancelling'
      BY <1>0, <2>7, MembersAreJobs DEF RetryClaims, stopping, Cancelling
    <3> QED
      BY <1>0, <3>1 DEF Awake
  <2>8. ASSUME NEW s \in Stops, StopClears(s) \/ StopClearsReplies(s)  PROVE FALSE
    BY <1>5, <1>n, <2>8 DEF StopClears, StopClearsReplies, Cancelling
  <2>9. ASSUME NEW d \in Deliverer, DeliveryRemoves(d)  PROVE Awake'
    BY <1>0, <1>1, <2>9 DEF DeliveryRemoves
  <2>10. CASE CancelUpdate
    BY <1>0, <1>1, <2>10 DEF CancelUpdate, flags
  <2>12. ASSUME ~paused', paused, ~Restart, ~Stage, ~Delivered, ~RetryClaims,
                \A m \in Jobs : ~Guide(m), \A s \in Stops : ~StopClears(s)
         PROVE  FALSE
    <3>1. ~Load /\ ~Work /\ ~SaveBlocked
      BY <2>12 DEF Load, Work, SaveBlocked
    <3> QED
      BY <2>12, <3>1, NothingGoesWrong, Writes_paused
  <2>13. CASE mem' = mem
    <3>1. \/ Restart \/ Stage \/ Delivered \/ RetryClaims \/ CancelUpdate
          \/ (\E m \in Jobs : Guide(m))
          \/ (\E d \in Deliverer : DeliveryRemoves(d))
          \/ (\E s \in Stops : StopClears(s) \/ StopClearsReplies(s))
      <4>1. CASE mem = <<>>
        BY <2>13, <4>1
      <4>2. CASE paused
        BY <2>12, <4>2
      <4>3. CASE pending
        BY <4>3, NothingGoesWrong, Writes_pending
      <4>4. CASE restarting
        <5>1. BeginUpdate => restarting'
          BY DEF BeginUpdate
        <5> QED
          BY <4>4, <5>1, Writes_restarting
      <4> QED
        BY <2>1, <4>1, <4>2, <4>3, <4>4
    <3> QED
      BY <1>4, <1>5, <2>6, <2>7, <2>8, <2>9, <2>10, <3>1
  <2>14. CASE Pop
    BY <1>5, <2>14 DEF Pop, At, Awake
  <2>15. ASSUME NEW d \in Deliverer, DeliveryInput(d)  PROVE FALSE
    <3>1. dlv[d].job \in ledger /\ UNCHANGED pending
      BY <2>15 DEF DeliveryInput, flags, Delivering, QueueInv, DeliversStaged, InTransit
    <3> QED
      BY <3>1 DEF QueueInv, HoldMirrorsLedger
  <2> QED
    BY <1>5, <1>c, <2>2, <2>3, <2>4, <2>13, <2>14, <2>15, NothingGoesWrong, Writes_mem
<1>6. CASE Awake /\ ~Restart
  <2>3. CASE con = "loop"
    <3>1. CASE DrainEnds
      <4>1. ~Held /\ mem' = mem
        BY <3>1 DEF DrainEnds, flags, Held
      <4>2. Runnable = {}
        BY <3>1, <4>1 DEF DrainEnds
      <4>3. InMem = {}
        BY <4>2 DEF Runnable, WakeInv, AwaitSparesSchedules
      <4>4. mem = <<>>
        BY <1>0, <4>3, NoMembers DEF InMem
      <4> QED
        BY <4>1, <4>4
    <3>2. CASE Pop
      <4>1. con' \in TurnAt /\ ~killed'
        BY <3>2, PopStarts DEF TurnAt
      <4> QED
        BY <1>3, <4>1
    <3>3. ~Cancelled
      BY <2>3 DEF Cancelled, TurnRunning, TurnAt
    <3> QED
      BY <1>2, <1>6, <1>c, <2>3, <3>1, <3>2, <3>3, ConsumerMoves DEF TurnAt
  <2>4. CASE con \in TurnAt /\ ~killed
    <3>1. ~Pop /\ ~DrainEnds /\ ~Cancelled
      BY <2>4 DEF Pop, DrainEnds, Cancelled, At, TurnAt
    <3> QED
      BY <1>2, <1>3, <1>6, <1>c, <2>4, <3>1, ConsumerMoves DEF TurnAt
  <2>5. CASE con \in TurnAt /\ killed /\ request
    <3>1. CASE Cancelled
      BY <1>2, <2>5, <3>1 DEF Cancelled, ConsumerEnds, flags
    <3>2. ~Pop /\ ~DrainEnds
      BY <2>5 DEF Pop, DrainEnds, At, TurnAt
    <3>3. UNCHANGED <<con, killed>> /\ request' \in {request, TRUE} => Awake'
      BY <2>5 DEF Awake, TurnRunning
    <3> QED
      BY <1>6, <1>c, <2>5, <3>1, <3>2, <3>3, ConsumerMoves DEF TurnAt
  <2>6. ASSUME NEW m \in Jobs, snd[m] \in {"promote", "ack"}, sgen[m] = gen  PROVE Awake'
    <3>1. gen' = gen
      <4>1. ASSUME NEW s \in Stops, StopClears(s) \/ StopClearsReplies(s)  PROVE gen' = gen
        BY <4>1 DEF StopClears, StopClearsReplies
      <4> QED
        BY <1>6, <1>c, <4>1, Writes_stopping DEF stopping
    <3>2. CASE Ack(m)
      BY <1>0, <1>1, <2>6, <3>2 DEF Ack, flags
    <3>3. CASE PersistPromote(m)
      <4>1. snd'[m] = "ack" /\ sgen' = sgen /\ gen' = gen
        BY <1>0, <3>3 DEF PersistPromote, Sender, stopping
      <4> QED
        BY <2>6, <4>1 DEF Awake
    <3>4. ASSUME ~Ack(m), ~PersistPromote(m)
          PROVE  snd'[m] = snd[m] /\ sgen'[m] = sgen[m]
      <4>1. ~Arrive(m) /\ ~Guide(m) /\ ~Admit(m) /\ ~Publish(m)
        BY <2>6 DEF Arrive, Guide, Admit, Publish
      <4>2. ASSUME NEW k \in Jobs, k # m, Arrive(k) \/ Guide(k) \/ Admit(k) \/ Publish(k)
                                          \/ PersistPromote(k) \/ Ack(k)
            PROVE  snd'[m] = snd[m] /\ sgen'[m] = sgen[m]
        <5>1. /\ \E pc : snd' = [snd EXCEPT ![k] = pc]
              /\ \E g : sgen' = [sgen EXCEPT ![k] = g] \/ sgen' = sgen
          BY <4>2 DEF Arrive, Guide, Admit, Publish, PersistPromote, Ack, Leaves, Sender
        <5> QED
          BY <1>0, <4>2, <5>1 DEF TypeOK, SendersOK
      <4> QED
        BY <1>6, <3>4, <4>1, <4>2, Writes_senders DEF senders
    <3> QED
      BY <2>6, <3>1, <3>2, <3>3, <3>4 DEF Awake
  <2>7. CASE claim # NoJob /\ claimGen = gen
    <3>1. CASE RetryWakes
      BY <1>0, <1>1, <1>6, <1>n, <2>7, <3>1 DEF RetryWakes, flags
    <3>2. ~RetryClaims
      BY <2>7 DEF RetryClaims, AdmissionFree
    <3>3. CASE retry' = retry
      <4>1. ASSUME NEW s \in Stops, StopClears(s) \/ StopClearsReplies(s)  PROVE FALSE
        BY <1>6, <1>n, <4>1 DEF StopClears, StopClearsReplies, Cancelling
      <4>2. gen' = gen
        BY <1>6, <1>c, <4>1, Writes_stopping DEF stopping
      <4> QED
        BY <2>7, <3>3, <4>2 DEF Awake, retry
    <3> QED
      BY <1>6, <3>1, <3>2, <3>3, Writes_retry
  <2> QED
    BY <1>6, <1>n, <2>3, <2>4, <2>5, <2>6, <2>7 DEF Awake, TurnRunning
<1> QED
  BY <1>5, <1>6, <1>r

\* Every step of an undisturbed bot keeps what no wake is lost by.
LEMMA KeepsWakeInv ==
  ASSUME Undisturbed, QueueInv, WakeInv, [Next]_vars
  PROVE  WakeInv'
<1>1. PromptStopInv'
  BY KeepsPromptStop DEF WakeInv, Undisturbed
<1> QED
  BY <1>1, KeepsStopLeavesNothing, KeepsNothingFails, KeepsFileIsKnown,
     KeepsOnlyAcceptedWork, KeepsAwaitSparesSchedules, KeepsNoLostWake DEF WakeInv

LEMMA InitWakeInv == Init => WakeInv
<1> SUFFICES ASSUME Init  PROVE WakeInv
  OBVIOUS
<1>1. PromptStopInv /\ OnDisk = {} /\ InMem = {}
  BY InitPromise, EmptyQueue DEF Init, OnDisk, InMem
<1>2. ~TurnRunning /\ ~Clearing /\ ~Cancelling
  BY DEF Init, TurnRunning, TurnAt, Clearing, Cancelling
<1>3. \A j \in Jobs : ChatOf[j] \in auth
  BY TurnQueueAssumption DEF Init
<1>4. /\ StopLeavesNothing /\ NothingFails /\ FileIsKnown /\ OnlyAcceptedWork
      /\ AwaitSparesSchedules /\ NoLostWake
  BY <1>1, <1>2, <1>3 DEF Init, Off, StopLeavesNothing, NothingFails, FileIsKnown,
     OnlyAcceptedWork, TurnRunning, AwaitSparesSchedules, NoLostWake
<1> QED
  BY <1>1, <1>4 DEF WakeInv

\* What the queue relies on not to lose a wake, for any number of requests, /stop
\* invocations, restarts and updates of a bot that nothing disturbs.
THEOREM WakeInvariant ==
  ASSUME Undisturbed
  PROVE  Spec => []WakeInv
<1>1. QueueInv /\ WakeInv /\ [Next]_vars => WakeInv'
  BY KeepsWakeInv
<1> QED
  BY <1>1, InitWakeInv, QueueInvariant, PTL DEF Spec

\* No wake is lost: a settled owner who is neither paused nor owed a delivery has
\* nothing waiting.
THEOREM NoWorkStranded ==
  ASSUME Undisturbed
  PROVE  Spec => []NoStranding
<1>1. WakeInv => NoStranding
  BY DEF WakeInv, NoLostWake, NoStranding, Settled, Awake, Cancelling,
     TurnRunning, TurnAt
<1> QED
  BY <1>1, WakeInvariant, PTL

-----------------------------------------------------------------------------
(* The file and the memory agree in order.  The next lemmas are about a bot  *)
(* where in addition no scheduled job overtook a question to the user.       *)

\* What the edits of a queue do at its head.
LEMMA HeadEdits ==
  ASSUME NEW S, NEW s \in Seq(S), NoRepeat(s), s # <<>>
  PROVE  /\ Head(s) \in S /\ Head(s) \in ToSet(s) /\ Tail(s) \in Seq(S)
         /\ s = <<Head(s)>> \o Tail(s) /\ Head(s) \notin ToSet(Tail(s))
         /\ Without(s, Head(s)) = Tail(s) /\ ToSet(Tail(s)) = ToSet(s) \ {Head(s)}
         /\ PutFirst(s, Head(s)) = s /\ Promoted(s, Head(s)) = s
         /\ FirstIn(s, ToSet(s)) = Head(s)
<1> DEFINE h == Head(s)
<1>1. PICK n \in Nat \ {0} : n = Len(s) /\ DOMAIN s = 1..n
  BY LenProperties, EmptySeq
<1>2. /\ h \in S /\ h = s[1] /\ 1 \in 1..n /\ Tail(s) \in Seq(S) /\ Len(Tail(s)) = n - 1
      /\ \A i \in 1..n - 1 : Tail(s)[i] = s[i + 1]
  BY <1>1, HeadTailProperties
<1>3. \A i \in 1..n : s[i] = s[1] => i = 1
  BY <1>1, <1>2 DEF NoRepeat
<1>4. h \in ToSet(s)
  BY <1>1, <1>2 DEF ToSet
<1>5. s = <<h>> \o Tail(s)
  <2>1. /\ <<h>> \o Tail(s) \in Seq(S) /\ Len(<<h>> \o Tail(s)) = n
        /\ \A i \in 1..n : (<<h>> \o Tail(s))[i] = IF i = 1 THEN h ELSE Tail(s)[i - 1]
    BY <1>1, <1>2
  <2>2. \A i \in 1..n : (<<h>> \o Tail(s))[i] = s[i]
    BY <1>2, <2>1
  <2> QED
    BY <1>1, <2>1, <2>2, SeqEqual
<1>6. Without(s, h) = Tail(s)
  <2>1. Without(s, h) = [i \in 1..n - 1 |-> s[i + 1]]
    <3>1. (CHOOSE i \in 1..n : s[i] = h) = 1
      BY <1>2, <1>3
    <3>2. \E i \in 1..n : s[i] = h
      BY <1>2
    <3>3. Without(s, h) = [i \in 1..n - 1 |-> IF i < 1 THEN s[i] ELSE s[i + 1]]
      BY <1>1, <3>1, <3>2 DEF Without
    <3> QED
      BY <3>3
  <2>2. DOMAIN Tail(s) = 1..n - 1 /\ Tail(s) \in [1..n - 1 -> S]
    BY <1>2, LenProperties
  <2> QED
    BY <1>2, <2>1, <2>2
<1>7. ToSet(Tail(s)) = ToSet(s) \ {h}
  BY ZenonT(60), <1>6, WithoutFilters
<1>8. PutFirst(s, h) = s /\ Promoted(s, h) = s
  BY ZenonT(60), <1>4, <1>5, <1>6 DEF PutFirst, Promoted
<1>9. FirstIn(s, ToSet(s)) = h
  <2>1. /\ \A i \in 1..n : s[i] \in ToSet(s)
        /\ \A i \in 1..n : (\A k \in 1..(i - 1) : s[k] \notin ToSet(s)) => i = 1
    <3>1. \A i \in 1..n : s[i] \in ToSet(s)
      BY <1>1 DEF ToSet
    <3> QED
      BY <1>1, <1>2, <3>1
  <2>2. (CHOOSE i \in 1..n : s[i] \in ToSet(s) /\ \A k \in 1..(i - 1) : s[k] \notin ToSet(s)) = 1
    BY <1>2, <2>1
  <2> QED
    BY <1>1, <1>2, <2>2 DEF FirstIn
<1> QED
  BY <1>2, <1>4, <1>5, <1>6, <1>7, <1>8, <1>9

\* A queue that begins with an identity.
LEMMA HeadOf ==
  ASSUME NEW S, NEW j \in S, NEW t \in Seq(S)
  PROVE  /\ <<j>> \o t \in Seq(S) /\ <<j>> \o t # <<>> /\ Head(<<j>> \o t) = j
         /\ Tail(<<j>> \o t) = t
<1>1. <<j>> \in Seq(S) /\ Len(<<j>>) = 1 /\ <<j>>[1] = j
  OBVIOUS
<1>2. PICK w : w = <<j>> \o t
  OBVIOUS
<1>3. /\ w \in Seq(S) /\ Len(t) \in Nat /\ Len(w) = Len(t) + 1 /\ w[1] = j
      /\ \A i \in 1..Len(t) : w[i + 1] = t[i]
  <2>1. /\ w \in Seq(S) /\ Len(w) = 1 + Len(t) /\ Len(t) \in Nat
        /\ \A i \in 1..1 + Len(t) : w[i] = IF i <= 1 THEN <<j>>[i] ELSE t[i - 1]
    BY <1>1, <1>2, ConcatProperties, LenProperties
  <2> QED
    BY <1>1, <2>1
<1>4. w # <<>> /\ Head(w) = j
  BY <1>3, EmptySeq
<1>5. Tail(w) = t
  <2>1. Tail(w) \in Seq(S) /\ Len(Tail(w)) = Len(t) /\ \A i \in 1..Len(t) : Tail(w)[i] = w[i + 1]
    BY <1>3, <1>4, HeadTailProperties
  <2> QED
    BY <1>3, <2>1, SeqEqual
<1> QED
  BY <1>2, <1>3, <1>4, <1>5

\* A queue does not change when an identity it does not hold is taken out.
LEMMA AbsentStays ==
  ASSUME NEW S, NEW s \in Seq(S), NEW j, j \notin ToSet(s)
  PROVE  Without(s, j) = s /\ Promoted(s, j) = s /\ PutFirst(s, j) = <<j>> \o s
<1>1. DOMAIN s = 1..Len(s)
  BY SMTT(30), LenProperties
<1>2. Without(s, j) = s
  BY <1>1 DEF Without, ToSet
<1> QED
  BY <1>2 DEF Promoted, PutFirst

\* A bot that nothing disturbs, while no scheduled job can overtake a question.
Orderly == Undisturbed /\ Untangled

\* While the user is asked nothing waits: neither in memory, nor to be retried, nor
\* with a turn that may still answer.
LEMMA AskedAlone ==
  ASSUME Orderly, QueueInv, WakeInv, awaiting
  PROVE  mem = <<>> /\ con \notin PreStage /\ claim \notin OnDisk
<1>1. accepted \cap Schedules = {}
  BY DEF Orderly, Untangled, WakeInv, AwaitSparesSchedules
<1>2. InMem = {} /\ con \notin PreStage /\ claim \notin OnDisk
  BY <1>1 DEF WakeInv, AwaitSparesSchedules, OnlyAcceptedWork, PreStage, TurnAt
<1>3. mem \in Seq(Jobs)
  BY DEF QueueInv, TypeOK, QueuesOK
<1> QED
  BY <1>2, <1>3, NoMembers DEF InMem

\* What a completed turn leaves is nowhere any more.
LEMMA CompletedIsGone ==
  ASSUME QueueInv, TurnKeepsEntry, Complete
  PROVE  cur \in Jobs /\ cur \notin OnDisk /\ cur \notin InMem
<1>1. con = "complete" /\ ~killed
  BY DEF Complete, At
<1>2. cur \notin ledger /\ cur \in answered /\ cur \in Jobs
  BY <1>1 DEF TurnKeepsEntry, QueueInv, TurnAnswered, TurnHasJob, PreStage, TurnAt
<1> QED
  BY <1>2 DEF QueueInv, AnswersConsumed

\* What has begun is promoted in its place.
LEMMA PromotedInPlace ==
  ASSUME QueueInv, BegunIsFirst, NEW j, j \in OnDisk => Begun(j)
  PROVE  Promoted(disk, j) = disk
<1>0. disk \in Seq(Jobs) /\ NoRepeat(disk)
  BY DEF QueueInv, TypeOK, QueuesOK
<1>1. CASE j \notin OnDisk
  BY <1>0, <1>1, AbsentStays DEF OnDisk
<1>2. CASE j \in OnDisk
  <2>1. disk # <<>> /\ j = Head(disk)
    BY <1>2, EmptyQueue DEF BegunIsFirst, OnDisk
  <2> QED
    BY <1>0, <2>1, HeadEdits
<1> QED
  BY <1>1, <1>2

\* While a /stop is at work the queue file is only free once it has been cleared.
LEMMA FreeOnceCleared ==
  ASSUME Undisturbed, QueueInv, QueueFileFree, Cancelling
  PROVE  OnDisk = {}
BY DEF Undisturbed, QueueFileFree, QueueFileOpen, StopIsNext, Cancelling, QueueInv, FileClearedFirst

\* A turn that is past its first checkpoint was met by no /stop.
LEMMA Uncancelled ==
  ASSUME WakeInv, con \in TurnAt \ {"load", "save", "retain"}, ~killed
  PROVE  ~Cancelling /\ ~Clearing
BY DEF WakeInv, StopLeavesNothing, TurnRunning, Cancelling, Clearing

\* The turn's checkpoints are written in place.
LEMMA SavesInPlace ==
  ASSUME Undisturbed, QueueInv, BegunIsFirst,
         SaveRunning \/ PinSession \/ SaveMore \/ SaveBlocked \/ SaveWaiting
  PROVE  disk' = disk
<1>1. cur \in OnDisk => Begun(cur)
  <2>1. QueueFileFree /\ TurnRunning /\ ~killed
    BY DEF SaveRunning, PinSession, SaveMore, SaveBlocked, SaveWaiting, Saves, At, TurnRunning, TurnAt
  <2> QED
    BY <2>1, FreeOnceCleared DEF Begun
<1>2. disk' = disk \/ disk' = Promoted(disk, cur)
  <2>1. ASSUME NEW state, NEW next, NEW missing, Saves(state, next, missing)
        PROVE  disk' = disk \/ disk' = Promoted(disk, cur)
    BY <2>1 DEF Saves, SaveCheckpoint
  <2>2. CASE SaveRunning \/ SaveMore \/ SaveBlocked \/ SaveWaiting
    BY <2>1, <2>2, Zenon DEF SaveRunning, SaveMore, SaveBlocked, SaveWaiting
  <2>3. CASE PinSession
    BY <2>3 DEF PinSession, SaveCheckpoint
  <2> QED
    BY <2>2, <2>3
<1> QED
  BY <1>1, <1>2, PromotedInPlace

\* How the queue file changes: at its end by an admission, at its head by a
\* delivery, and as a whole by a /stop.
LEMMA FileMoves ==
  ASSUME Orderly, QueueInv, WakeInv, BegunIsFirst, TurnKeepsEntry, [Next]_vars
  PROVE  \/ disk' = disk
         \/ \E m \in Jobs : /\ Admit(m) /\ snd'[m] = "committed" /\ m \notin OnDisk
                            /\ disk' = Append(disk, m)
         \/ \E d \in Deliverer : /\ DeliveryInput(d) /\ disk # <<>> /\ dlv[d].job = Head(disk)
                                 /\ disk' = Tail(disk)
         \/ \E s \in Stops : StopClears(s) /\ disk' = <<>>
<1>0. TypeOK /\ disk \in Seq(Jobs) /\ NoRepeat(disk) /\ snd \in [Jobs -> SenderAt]
  BY DEF QueueInv, TypeOK, QueuesOK, SendersOK
<1>1. ASSUME NEW m \in Jobs, Admit(m)
      PROVE  disk' = disk \/ (snd'[m] = "committed" /\ m \notin OnDisk /\ disk' = Append(disk, m))
  <2>1. m \notin OnDisk
    BY <1>1 DEF Admit, QueueInv, NotYetAdmitted, Unadmitted
  <2> QED
    BY <1>0, <1>1, <2>1 DEF Admit, Sender
<1>3. ASSUME NEW m \in Jobs, PersistPromote(m)  PROVE disk' = disk
  BY <1>3, PromotedInPlace DEF PersistPromote, Begun
<1>4. SaveRunning \/ PinSession \/ SaveMore \/ SaveBlocked \/ SaveWaiting => disk' = disk
  BY SavesInPlace DEF Orderly
<1>5. Complete => disk' = disk
  BY <1>0, CompletedIsGone, AbsentStays DEF Complete, PersistComplete, OnDisk
<1>6. Pop => disk' = disk
  BY PopStarts DEF durable
<1>7. ASSUME NEW d \in Deliverer, DeliveryInput(d)
      PROVE  disk' = disk \/ (disk # <<>> /\ dlv[d].job = Head(disk) /\ disk' = Tail(disk))
  <2>1. dlv[d].job \in ledger /\ disk' = Without(disk, dlv[d].job)
    BY <1>7 DEF DeliveryInput, PersistComplete, Delivering, QueueInv, DeliversStaged, InTransit
  <2>2. CASE dlv[d].job \notin OnDisk
    BY <1>0, <2>1, <2>2, AbsentStays DEF OnDisk
  <2>3. CASE dlv[d].job \in OnDisk
    <3>1. disk # <<>> /\ dlv[d].job = Head(disk)
      BY <2>1, <2>3, EmptyQueue DEF BegunIsFirst, Begun, OnDisk
    <3> QED
      BY <1>0, <2>1, <3>1, HeadEdits
  <2> QED
    BY <2>2, <2>3
<1>8. ASSUME NEW s \in Stops, StopClears(s)  PROVE disk' = <<>>
  BY <1>8 DEF StopClears, ClearPersistentQueue
<1> QED
  BY <1>1, <1>3, <1>4, <1>5, <1>6, <1>7, <1>8, NothingGoesWrong, Writes_disk DEF Orderly

\* A request that is published goes to the end of the queue in memory; an answer to
\* a question finds that queue empty.
LEMMA PublishAppends ==
  ASSUME Orderly, QueueInv, WakeInv, NEW m \in Jobs, Publish(m), sgen[m] = gen
  PROVE  /\ m \notin InMem /\ m # cur /\ mem' = Append(mem, m)
         /\ snd'[m] \in {"promote", "ack"} /\ (snd'[m] = "promote" => awaiting /\ mem = <<>>)
<1>0. /\ TypeOK /\ mem \in Seq(Jobs) /\ NoRepeat(mem) /\ snd \in [Jobs -> SenderAt]
      /\ con \in TurnAt \cup {"off", "loop"} /\ NoJob \notin Jobs
  BY TurnQueueAssumption DEF QueueInv, TypeOK, QueuesOK, SendersOK, ConsumerOK
<1>1. snd[m] = "committed" /\ sgen[m] = gen /\ m \notin InMem
  BY DEF Publish, QueueInv, NotYetPublished, Unpublished
<1>2. m # cur
  <2>1. CASE con \in TurnAt
    BY <1>1, <2>1 DEF QueueInv, TurnHasJob, Unpublished
  <2>2. CASE con \notin TurnAt
    BY <1>0, <2>2 DEF WakeInv, FileIsKnown, TurnRunning
  <2> QED
    BY <2>1, <2>2
<1>3. Enqueued(mem, m) = Append(mem, m)
  BY <1>1 DEF Enqueued, InMem
<1>4. CASE AnswersAwait(m)
  <2>1. awaiting /\ mem = <<>>
    BY <1>4, AskedAlone DEF AnswersAwait
  <2>2. mem' = Promoted(Append(mem, m), m) /\ snd'[m] = "promote"
    BY <1>0, <1>1, <1>2, <1>3, <1>4 DEF Publish, Sender
  <2>3. /\ Append(mem, m) \in Seq(Jobs) /\ Append(mem, m) # <<>> /\ Head(Append(mem, m)) = m
        /\ NoRepeat(Append(mem, m))
    <3>1. NoRepeat(Append(mem, m))
      BY <1>0, <1>1, NewLast DEF InMem
    <3> QED
      BY <1>0, <2>1, <3>1, AppendProperties, HeadTailAppend
  <2>4. Promoted(Append(mem, m), m) = Append(mem, m)
    BY <2>3, HeadEdits
  <2> QED
    BY <1>1, <1>2, <2>1, <2>2, <2>4
<1>5. CASE ~AnswersAwait(m)
  BY <1>0, <1>1, <1>2, <1>3, <1>5 DEF Publish, Sender
<1> QED
  BY <1>4, <1>5

\* The consumer takes the first request that waits: nothing waits while the user is
\* asked.
LEMMA PopTakesFirst ==
  ASSUME Orderly, QueueInv, WakeInv, Pop
  PROVE  mem # <<>> /\ cur' = Head(mem) /\ mem' = Tail(mem)
<1>0. TypeOK /\ mem \in Seq(Jobs) /\ NoRepeat(mem)
  BY DEF QueueInv, TypeOK, QueuesOK
<1>1. mem # <<>> /\ ~awaiting
  <2>1. InMem # {}
    BY PopStarts
  <2>2. mem # <<>>
    BY <2>1, EmptyQueue DEF InMem
  <2> QED
    BY <2>2, AskedAlone
<1>2. Runnable = ToSet(mem)
  BY <1>1 DEF Runnable, InMem
<1> QED
  BY <1>0, <1>1, <1>2, PopStarts, HeadEdits

\* How the queue in memory changes.
LEMMA WaitingMoves ==
  ASSUME Orderly, QueueInv, WakeInv, [Next]_vars
  PROVE  \/ mem' = mem
         \/ \E m \in Jobs : /\ Publish(m) /\ m \notin InMem /\ m # cur
                            /\ mem' = Append(mem, m) /\ snd'[m] \in {"promote", "ack"}
                            /\ snd'[m] = "promote" => mem = <<>>
         \/ Pop /\ mem # <<>> /\ cur' = Head(mem) /\ mem' = Tail(mem)
         \/ Retain /\ cur \in OnDisk /\ mem' = PutFirst(mem, cur)
         \/ RetryWakes /\ claim \in OnDisk /\ mem' = PutFirst(mem, claim)
         \/ \E d \in Deliverer : DeliveryInput(d) /\ mem' = Without(mem, dlv[d].job)
         \/ \E s \in Stops : StopAtOnce(s) \/ StopSettled(s)
         \/ Restart
<1>0. /\ TypeOK /\ mem \in Seq(Jobs) /\ NoRepeat(mem) /\ snd \in [Jobs -> SenderAt]
      /\ con \in TurnAt \cup {"off", "loop"} /\ NoJob \notin Jobs
  BY TurnQueueAssumption DEF QueueInv, TypeOK, QueuesOK, SendersOK, ConsumerOK
<1>1. ASSUME NEW m \in Jobs, Publish(m)
      PROVE  \/ mem' = mem
             \/ /\ m \notin InMem /\ m # cur /\ mem' = Append(mem, m)
                /\ snd'[m] \in {"promote", "ack"} /\ (snd'[m] = "promote" => mem = <<>>)
  <2>1. CASE sgen[m] = gen
    BY <1>1, <2>1, PublishAppends
  <2>2. CASE sgen[m] # gen
    BY <1>1, <2>2 DEF Publish
  <2> QED
    BY <2>1, <2>2
<1>2. Pop => mem # <<>> /\ cur' = Head(mem) /\ mem' = Tail(mem)
  BY PopTakesFirst
<1>3. Retain => mem' = mem \/ (cur \in OnDisk /\ mem' = PutFirst(mem, cur))
  BY DEF Retain
<1>4. RetryWakes => mem' = mem \/ (claim \in OnDisk /\ mem' = PutFirst(mem, claim))
  BY DEF RetryWakes
<1>5. ASSUME NEW d \in Deliverer, DeliveryInput(d)  PROVE mem' = Without(mem, dlv[d].job)
  BY <1>5 DEF DeliveryInput
<1> QED
  BY <1>1, <1>2, <1>3, <1>4, <1>5, NothingGoesWrong, Writes_mem DEF Orderly

\* What is being admitted: nothing, or the one request that is committed.
LEMMA ComingIs ==
  ASSUME QueueInv, [Next]_vars
  PROVE  /\ (\A m \in Jobs : snd[m] # "committed") => Coming = <<>>
         /\ \A m \in Jobs : snd[m] = "committed" => Coming = <<m>>
         /\ (\A m \in Jobs : snd'[m] # "committed") => Coming' = <<>>
         /\ \A m \in Jobs : snd'[m] = "committed" => Coming' = <<m>>
         /\ Coming \in Seq(Jobs)
<1>1. QueueInv'
  BY KeepsQueueInv
<1>2. (\A m \in Jobs : snd[m] # "committed") => Coming = <<>>
  BY DEF Coming
<1>3. ASSUME NEW m \in Jobs, snd[m] = "committed"  PROVE Coming = <<m>>
  <2>1. {k \in Jobs : snd[k] = "committed"} = {m}
    BY <1>3 DEF QueueInv, OneAdmission
  <2> QED
    BY <2>1 DEF Coming
<1>4. (\A m \in Jobs : snd'[m] # "committed") => Coming' = <<>>
  BY DEF Coming
<1>5. ASSUME NEW m \in Jobs, snd'[m] = "committed"  PROVE Coming' = <<m>>
  <2>1. {k \in Jobs : snd'[k] = "committed"} = {m}
    BY <1>1, <1>5 DEF QueueInv, OneAdmission
  <2> QED
    BY <2>1 DEF Coming
<1>6. Coming \in Seq(Jobs)
  <2>1. <<>> \in Seq(Jobs) /\ \A m \in Jobs : <<m>> \in Seq(Jobs)
    OBVIOUS
  <2> QED
    BY <1>2, <1>3, <2>1
<1> QED
  BY <1>2, <1>3, <1>4, <1>5, <1>6

\* Only an admission and its publication change what is being admitted.
LEMMA ComingStays ==
  ASSUME QueueInv, [Next]_vars, ~Restart,
         \A m \in Jobs : ~Publish(m) /\ ~(Admit(m) /\ snd'[m] = "committed")
  PROVE  Coming' = Coming
<1>0. snd \in [Jobs -> SenderAt]
  BY DEF QueueInv, TypeOK, SendersOK
<1> SUFFICES ASSUME NEW k \in Jobs  PROVE snd'[k] = "committed" <=> snd[k] = "committed"
  BY ComingIs
<1>1. snd'[k] = "committed" => snd[k] = "committed"
  BY SenderMoves
<1>2. ASSUME snd[k] = "committed"  PROVE snd'[k] = "committed"
  <2>1. ~Arrive(k) /\ ~Guide(k) /\ ~Admit(k) /\ ~PersistPromote(k) /\ ~Ack(k)
    BY <1>2 DEF Arrive, Guide, Admit, PersistPromote, Ack
  <2>2. ASSUME NEW m \in Jobs, m # k, Arrive(m) \/ Guide(m) \/ Admit(m) \/ PersistPromote(m) \/ Ack(m)
        PROVE  snd'[k] = snd[k]
    <3>1. \E pc : snd' = [snd EXCEPT ![m] = pc]
      BY <2>2 DEF Arrive, Guide, Admit, PersistPromote, Ack, Leaves, Sender
    <3> QED
      BY <1>0, <2>2, <3>1
  <2> QED
    BY <1>2, <2>1, <2>2, Writes_senders DEF senders
<1> QED
  BY <1>1, <1>2

\* Two queues one after the other hold what either holds.
LEMMA PartsHeld ==
  ASSUME NEW S, NEW s \in Seq(S), NEW t \in Seq(S)
  PROVE  ToSet(s) \subseteq ToSet(s \o t) /\ ToSet(t) \subseteq ToSet(s \o t)
         /\ ToSet(s \o t) \subseteq ToSet(s) \cup ToSet(t)
<1>0. PICK w : w = s \o t
  OBVIOUS
<1>1. /\ w \in Seq(S) /\ Len(w) = Len(s) + Len(t)
      /\ \A i \in 1..Len(s) + Len(t) : w[i] = IF i <= Len(s) THEN s[i] ELSE t[i - Len(s)]
  BY <1>0, ConcatProperties
<1>2. PICK p \in Nat, q \in Nat : p = Len(s) /\ q = Len(t)
  BY LenProperties
<1>3. /\ DOMAIN s = 1..p /\ DOMAIN t = 1..q /\ DOMAIN w = 1..p + q
      /\ \A i \in 1..p + q : w[i] = IF i <= p THEN s[i] ELSE t[i - p]
  BY <1>1, <1>2, LenProperties
<1>4. ToSet(s) \subseteq ToSet(w)
  <2> SUFFICES ASSUME NEW i \in 1..p  PROVE s[i] \in ToSet(w)
    BY <1>3 DEF ToSet
  <2>1. i \in 1..p + q /\ i <= p
    OBVIOUS
  <2>2. w[i] = s[i]
    BY <1>3, <2>1
  <2> QED
    BY <1>3, <2>1, <2>2 DEF ToSet
<1>5. ToSet(t) \subseteq ToSet(w)
  <2> SUFFICES ASSUME NEW i \in 1..q  PROVE t[i] \in ToSet(w)
    BY <1>3 DEF ToSet
  <2>1. p + i \in 1..p + q /\ ~(p + i <= p) /\ (p + i) - p = i
    OBVIOUS
  <2>2. w[p + i] = t[i]
    BY <1>3, <2>1
  <2> QED
    BY <1>3, <2>1, <2>2 DEF ToSet
<1>6. ToSet(w) \subseteq ToSet(s) \cup ToSet(t)
  <2> SUFFICES ASSUME NEW i \in 1..p + q  PROVE w[i] \in ToSet(s) \cup ToSet(t)
    BY <1>3 DEF ToSet
  <2>1. CASE i <= p
    <3>1. i \in 1..p
      BY <2>1
    <3> QED
      BY <1>3, <2>1, <3>1 DEF ToSet
  <2>2. CASE ~(i <= p)
    <3>1. i - p \in 1..q
      BY <2>2
    <3> QED
      BY <1>3, <2>2, <3>1 DEF ToSet
  <2> QED
    BY <2>1, <2>2
<1> QED
  BY <1>0, <1>4, <1>5, <1>6

\* What order says of the head of the file and of the memory.
LEMMA OrderGives ==
  ASSUME QueueInv, [Next]_vars, SameOrder, ~Cancelling
  PROVE  /\ InMem \subseteq OnDisk
         /\ AtWork \in {<<>>, <<cur>>} /\ AtWork \in Seq(Jobs)
         /\ AtWork = <<>> => disk = mem \o Coming
         /\ AtWork = <<>> /\ mem # <<>> => /\ disk # <<>> /\ Head(disk) = Head(mem)
                                           /\ Tail(disk) = Tail(mem) \o Coming
         /\ AtWork # <<>> => /\ cur \in Jobs /\ cur \in OnDisk /\ cur \notin InMem
                             /\ TurnRunning /\ ~killed
                             /\ disk # <<>> /\ Head(disk) = cur /\ Tail(disk) = mem \o Coming
<1>0. /\ TypeOK /\ disk \in Seq(Jobs) /\ mem \in Seq(Jobs) /\ Coming \in Seq(Jobs)
      /\ OnDisk \subseteq Jobs
  BY ComingIs, MembersAreJobs DEF QueueInv, TypeOK, QueuesOK
<1>1. /\ AtWork \in {<<>>, <<cur>>}
      /\ AtWork # <<>> => AtWork = <<cur>> /\ cur \in OnDisk /\ cur \notin InMem /\ TurnRunning /\ ~killed
  BY DEF AtWork
<1>2. AtWork \in Seq(Jobs)
  <2>1. <<>> \in Seq(Jobs) /\ \A m \in Jobs : <<m>> \in Seq(Jobs)
    OBVIOUS
  <2> QED
    BY <1>0, <1>1, <2>1
<1>3. disk = AtWork \o (mem \o Coming) /\ mem \o Coming \in Seq(Jobs)
  <2>1. disk = (AtWork \o mem) \o Coming
    BY DEF SameOrder
  <2>2. (AtWork \o mem) \o Coming = AtWork \o (mem \o Coming)
    BY SMTT(30), <1>0, <1>2, ConcatAssociative
  <2>3. mem \o Coming \in Seq(Jobs)
    BY <1>0, ConcatProperties
  <2> QED
    BY <2>1, <2>2, <2>3
<1>4. InMem \subseteq OnDisk
  <2>1. ToSet(mem) \subseteq ToSet(mem \o Coming)
    BY <1>0, PartsHeld
  <2>2. ToSet(mem \o Coming) \subseteq ToSet(disk)
    BY <1>2, <1>3, PartsHeld
  <2> QED
    BY <2>1, <2>2 DEF InMem, OnDisk
<1>5. AtWork = <<>> => disk = mem \o Coming
  BY <1>3, ConcatEmptySeq
<1>6. ASSUME AtWork = <<>>, mem # <<>>
      PROVE  disk # <<>> /\ Head(disk) = Head(mem) /\ Tail(disk) = Tail(mem) \o Coming
  <2>1. Head(mem) \in Jobs /\ Tail(mem) \in Seq(Jobs) /\ mem = <<Head(mem)>> \o Tail(mem)
    BY <1>0, <1>6, HeadEdits DEF TypeOK, QueuesOK
  <2>2. <<Head(mem)>> \in Seq(Jobs)
    BY <2>1
  <2>3. disk = <<Head(mem)>> \o (Tail(mem) \o Coming)
    BY SMTT(30), <1>0, <1>5, <1>6, <2>1, <2>2, ConcatAssociative
  <2>4. Tail(mem) \o Coming \in Seq(Jobs)
    BY <1>0, <2>1, ConcatProperties
  <2> QED
    BY <2>1, <2>3, <2>4, HeadOf
<1>7. ASSUME AtWork # <<>>
      PROVE  disk # <<>> /\ Head(disk) = cur /\ Tail(disk) = mem \o Coming
  <2>1. disk = <<cur>> \o (mem \o Coming) /\ cur \in Jobs /\ mem \o Coming \in Seq(Jobs)
    BY <1>0, <1>1, <1>3, <1>7
  <2> QED
    BY <2>1, HeadOf
<1> QED
  BY <1>0, <1>1, <1>2, <1>4, <1>5, <1>6, <1>7

\* The steps that leave the senders alone leave what is being admitted alone.
LEMMA ComingSame ==
  ASSUME QueueInv, [Next]_vars, snd' = snd
  PROVE  Coming' = Coming
BY ComingIs

\* The last of two queues.
LEMMA LastOfBoth ==
  ASSUME NEW S, NEW a \in Seq(S), NEW b \in Seq(S), NEW j \in S
  PROVE  (a \o b) \o <<j>> = a \o (b \o <<j>>)
<1>0. <<j>> \in Seq(S)
  OBVIOUS
<1>1. PICK w : w = <<j>>
  OBVIOUS
<1>2. (a \o b) \o w = a \o (b \o w)
  BY <1>0, <1>1, ConcatAssociative
<1> QED
  BY <1>1, <1>2

\* The turn's entry, as the consumer moves.
LEMMA AtWorkMoves ==
  ASSUME QueueInv, WakeInv
  PROVE  /\ con' \notin TurnAt => AtWork' = <<>>
         /\ con \notin TurnAt \/ killed => AtWork = <<>>
         /\ cur' \notin OnDisk' \/ cur' \in InMem' => AtWork' = <<>>
         /\ UNCHANGED <<cur, killed>> /\ (TurnRunning' <=> TurnRunning)
              /\ (cur \in OnDisk' \ InMem' <=> cur \in OnDisk \ InMem) => AtWork' = AtWork
BY DEF AtWork, TurnRunning

\* The file and the memory stay in step with each other.
LEMMA KeepsSameOrder ==
  ASSUME Orderly, QueueInv, WakeInv, BegunIsFirst, TurnKeepsEntry, SameOrder, [Next]_vars
  PROVE  SameOrder'
<1> SUFFICES ASSUME ~Cancelling'  PROVE disk' = (AtWork' \o mem') \o Coming'
  BY DEF SameOrder
<1>0. /\ TypeOK /\ disk \in Seq(Jobs) /\ mem \in Seq(Jobs) /\ NoRepeat(disk) /\ NoRepeat(mem)
      /\ snd \in [Jobs -> SenderAt] /\ stop \in [Stops -> StopAt]
      /\ OnDisk \subseteq Jobs /\ InMem \subseteq Jobs /\ Coming \in Seq(Jobs)
      /\ <<>> \in Seq(Jobs)
  BY MembersAreJobs, ComingIs, EmptyQueue
     DEF QueueInv, TypeOK, QueuesOK, SendersOK, StoppingOK
<1>1. \A t \in Seq(Jobs) : <<>> \o t = t /\ t \o <<>> = t
  BY ConcatEmptySeq
<1>2. Undisturbed
  BY DEF Orderly
<1>3. CASE Restart
  <2>1. AtWork' = <<>> /\ mem' = disk /\ disk' = disk
    BY <1>3, AtWorkMoves DEF Restart, durable, TurnAt
  <2>2. \A m \in Jobs : snd'[m] # "committed"
    BY <1>0, <1>3 DEF Restart
  <2> QED
    BY <1>0, <1>1, <2>1, <2>2, ComingIs
<1>4. CASE Cancelling /\ ~Restart
  <2>1. PICK s \in Stops : StopClearsReplies(s)
    BY <1>4, CancelMoves
  <2>2. OnDisk = {} /\ mem = <<>> /\ Clearing /\ UNCHANGED <<disk, mem, snd>>
    BY <2>1 DEF StopClearsReplies, Clearing, QueueInv, FileClearedFirst, WakeInv, StopLeavesNothing,
                      senders
  <2>3. disk = <<>>
    BY <1>0, <2>2, NoMembers DEF OnDisk
  <2>4. Coming = <<>>
    BY <2>2, ComingIs DEF QueueInv, OneAdmission
  <2>5. AtWork' = <<>>
    BY <2>2, <2>3, AtWorkMoves, EmptyQueue DEF OnDisk
  <2> QED
    BY <1>0, <1>1, <2>2, <2>3, <2>4, <2>5, ComingSame
<1>5. CASE ~Cancelling /\ ~Restart
  <2>1. /\ disk = (AtWork \o mem) \o Coming /\ InMem \subseteq OnDisk
        /\ AtWork \in {<<>>, <<cur>>} /\ AtWork \in Seq(Jobs)
        /\ AtWork = <<>> => disk = mem \o Coming
        /\ AtWork = <<>> /\ mem # <<>> => /\ disk # <<>> /\ Head(disk) = Head(mem)
                                          /\ Tail(disk) = Tail(mem) \o Coming
        /\ AtWork # <<>> => /\ cur \in Jobs /\ cur \in OnDisk /\ cur \notin InMem
                            /\ TurnRunning /\ ~killed
                            /\ disk # <<>> /\ Head(disk) = cur /\ Tail(disk) = mem \o Coming
    BY <1>5, OrderGives DEF SameOrder
  <2>2. ASSUME NEW j \in OnDisk, Begun(j)  PROVE j = Head(disk) /\ disk # <<>>
    BY <2>2, EmptyQueue DEF BegunIsFirst, OnDisk
  <2>3. \A s \in Stops : ~StopAtOnce(s) /\ ~StopBegins(s) /\ ~StopSettled(s)
    BY <1>5, CancelMoves DEF StopSettled, Cancelling
  <2>4. ASSUME NEW m \in Jobs, Admit(m), snd'[m] = "committed"
        PROVE  disk' = (AtWork' \o mem') \o Coming'
    <3>1. disk' = Append(disk, m) /\ mem' = mem /\ AdmissionFree /\ snd[m] = "admit"
          /\ UNCHANGED <<con, cur, killed>>
      BY <1>0, <2>4 DEF Admit, Leaves, consumer
    <3>2. Coming = <<>> /\ Coming' = <<m>>
      BY <2>4, <3>1, ComingIs DEF AdmissionFree
    <3>3. AtWork' = AtWork
      <4>1. OnDisk' = OnDisk \cup {m}
        BY <1>0, <3>1, QueueEdits DEF OnDisk, QueueInv, NotYetAdmitted, Unadmitted
      <4>2. m # cur \/ con \notin TurnAt
        BY <3>1 DEF QueueInv, TurnHasJob, Unpublished, Unadmitted
      <4> QED
        BY <3>1, <4>1, <4>2, AtWorkMoves DEF TurnRunning, InMem
    <3>4. AtWork \o mem \in Seq(Jobs)
      BY <1>0, <2>1, ConcatProperties
    <3>5. disk = AtWork \o mem
      BY <1>1, <2>1, <3>2, <3>4
    <3>6. Append(disk, m) = disk \o <<m>>
      BY <1>0, AppendIsConcat
    <3> QED
      BY <3>1, <3>2, <3>3, <3>5, <3>6
  <2>5. ASSUME NEW m \in Jobs, Publish(m)  PROVE disk' = (AtWork' \o mem') \o Coming'
    <3>1. mem' = Append(mem, m) /\ m # cur /\ m \notin InMem /\ snd'[m] \in {"promote", "ack"}
      <4>1. sgen[m] = gen
        BY <1>5, <2>5 DEF Publish, WakeInv, FileIsKnown
      <4> QED
        BY <2>5, <4>1, PublishAppends
    <3>2. disk' = disk /\ UNCHANGED <<con, cur, killed>> /\ snd[m] = "committed"
      BY <2>5 DEF Publish, durable, consumer
    <3>3. Coming = <<m>> /\ Coming' = <<>>
      <4>1. \A k \in Jobs : snd'[k] # "committed"
        <5> TAKE k \in Jobs
        <5>1. CASE k = m
          BY <3>1, <5>1
        <5>2. CASE k # m
          <6>1. snd[k] # "committed"
            BY <3>2, <5>2 DEF QueueInv, OneAdmission
          <6>2. ~Admit(k)
            BY <3>2, <5>2 DEF Admit, AdmissionFree
          <6> QED
            BY <6>1, <6>2, SenderMoves
        <5> QED
          BY <5>1, <5>2
      <4> QED
        BY <3>2, <4>1, ComingIs
    <3>4. AtWork' = AtWork
      <4>1. OnDisk' = OnDisk /\ InMem' = InMem \cup {m}
        BY <1>0, <3>1, <3>2, NewLast DEF OnDisk, InMem
      <4> QED
        BY <3>1, <3>2, <4>1, AtWorkMoves DEF TurnRunning
    <3>5. Append(mem, m) = mem \o <<m>> /\ <<m>> \in Seq(Jobs)
      BY <1>0, AppendIsConcat
    <3>6. (AtWork \o mem) \o <<m>> = AtWork \o (mem \o <<m>>) /\ AtWork \o (mem \o <<m>>) \in Seq(Jobs)
      <4>1. mem \o <<m>> \in Seq(Jobs)
        BY <1>0, <3>5, ConcatProperties
      <4>2. AtWork \o (mem \o <<m>>) \in Seq(Jobs)
        BY <2>1, <4>1, ConcatProperties
      <4>3. (AtWork \o mem) \o <<m>> = AtWork \o (mem \o <<m>>)
        BY SMTT(30), <1>0, <2>1, LastOfBoth
      <4> QED
        BY <4>2, <4>3
    <3> QED
      BY <1>1, <2>1, <3>1, <3>2, <3>3, <3>4, <3>5, <3>6
  <2>6. CASE Pop /\ disk' = disk /\ mem # <<>> /\ cur' = Head(mem) /\ mem' = Tail(mem)
    <3>1. /\ con = "loop" /\ con' = "load" /\ ~killed' /\ snd' = snd
          /\ cur' \in InMem /\ InMem' = InMem \ {cur'} /\ cur' \in Jobs
      BY <1>2, <2>6, PopStarts DEF senders
    <3>2. AtWork = <<>> /\ AtWork' = <<cur'>>
      <4>1. AtWork = <<>>
        BY <3>1, AtWorkMoves DEF TurnAt
      <4>2. TurnRunning' /\ ~killed' /\ cur' \in OnDisk' \ InMem'
        BY <2>1, <2>6, <3>1 DEF TurnRunning, TurnAt, OnDisk
      <4> QED
        BY <4>1, <4>2 DEF AtWork
    <3>3. Coming' = Coming
      BY <3>1, ComingSame
    <3>4. mem = <<cur'>> \o mem'
      BY <1>0, <2>6, HeadEdits
    <3> QED
      BY <2>1, <2>6, <3>2, <3>3, <3>4
  <2>7. CASE Retain /\ disk' = disk /\ cur \in OnDisk /\ mem' = PutFirst(mem, cur)
    <3>1. con = "retain" /\ ~killed /\ con' = "loop" /\ snd' = snd
      BY <2>7 DEF Retain, At, NextTurn, senders
    <3>2. AtWork' = <<>> /\ Coming' = Coming
      BY <3>1, AtWorkMoves, ComingSame DEF TurnAt
    <3>3. cur = Head(disk)
      BY <1>5, <2>2, <2>7, <3>1 DEF Begun, TurnRunning, TurnAt
    <3>4. CASE AtWork # <<>>
      <4>1. AtWork = <<cur>> /\ mem' = <<cur>> \o mem
        BY <1>0, <2>1, <2>7, <3>4, AbsentStays DEF InMem
      <4>2. <<cur>> \o mem \in Seq(Jobs)
        BY <1>0, <2>1, <3>4, <4>1, ConcatProperties
      <4> QED
        BY <1>1, <2>1, <2>7, <3>2, <4>1, <4>2
    <3>5. CASE AtWork = <<>>
      <4>1. cur \in InMem
        BY <2>7, <3>1, <3>5 DEF AtWork, TurnRunning, TurnAt
      <4>2. mem # <<>>
        BY <4>1, EmptyQueue DEF InMem
      <4>3. mem' = mem
        BY <1>0, <2>1, <2>7, <3>3, <3>5, <4>2, HeadEdits
      <4> QED
        BY <2>1, <2>7, <3>2, <3>5, <4>3
    <3> QED
      BY <3>4, <3>5
  <2>8. CASE RetryWakes /\ disk' = disk /\ claim \in OnDisk /\ mem' = PutFirst(mem, claim)
    <3>1. claim = Head(disk) /\ claim # NoJob /\ claim \in Jobs
      BY <1>0, <2>2, <2>8 DEF Begun, RetryWakes
    <3>2. Coming = <<>> /\ Coming' = <<>> /\ OnDisk' = OnDisk
      <4>1. snd' = snd
        BY <2>8 DEF RetryWakes, senders
      <4> QED
        BY <2>8, <3>1, <4>1, ComingIs, ComingSame DEF QueueInv, OneAdmission, OnDisk
    <3>3. UNCHANGED <<cur, killed>> /\ (TurnRunning' <=> TurnRunning)
      BY <2>8 DEF RetryWakes, StartDrain, TurnRunning, TurnAt
    <3>4. InMem' = InMem \cup {claim}
      BY <1>0, <2>8, <3>1, QueueEdits DEF InMem
    <3>5. CASE claim \in InMem
      <4>1. AtWork = <<>> /\ mem # <<>>
        BY <2>1, <3>1, <3>5, EmptyQueue DEF InMem
      <4>2. mem' = mem
        BY ZenonT(60), <1>0, <2>1, <2>8, <3>1, <4>1, HeadEdits
      <4>3. AtWork' = AtWork
        BY <3>2, <3>3, <3>4, <3>5, AtWorkMoves
      <4> QED
        BY <2>1, <2>8, <3>2, <4>2, <4>3
    <3>6. CASE claim \notin InMem
      <4>1. AtWork = <<cur>> /\ cur = claim
        <5>1. AtWork # <<>>
          <6>1. AtWork = <<>> => disk = mem
            BY <1>0, <1>1, <2>1, <3>2
          <6> QED
            BY <2>8, <3>6, <6>1 DEF OnDisk, InMem
        <5> QED
          BY <2>1, <3>1, <5>1
      <4>2. AtWork' = <<>>
        BY <3>3, <3>4, <4>1, AtWorkMoves
      <4>3. mem' = <<claim>> \o mem
        BY <1>0, <2>8, <3>6, AbsentStays DEF InMem
      <4>4. <<claim>> \o mem \in Seq(Jobs)
        BY <1>0, <2>1, <4>1, ConcatProperties
      <4> QED
        BY <1>1, <2>1, <2>8, <3>2, <4>1, <4>2, <4>3, <4>4
    <3> QED
      BY <3>5, <3>6
  <2>9. ASSUME NEW d \in Deliverer, DeliveryInput(d), disk # <<>>,
               dlv[d].job = Head(disk), disk' = Tail(disk)
        PROVE  disk' = (AtWork' \o mem') \o Coming'
    <3> DEFINE j == dlv[d].job
    <3>1. /\ mem' = Without(mem, j) /\ j \in ledger /\ j \in answered /\ j \in Jobs
          /\ UNCHANGED <<con, cur, killed>> /\ snd' = snd
      BY <1>0, <2>9, MembersAreJobs
         DEF DeliveryInput, Delivering, QueueInv, DeliversStaged, InTransit, HoldMirrorsLedger,
             consumer, senders
    <3>2. Coming' = Coming /\ OnDisk' = OnDisk \ {j}
      BY <1>0, <2>9, <3>1, ComingSame, HeadEdits DEF OnDisk
    <3>3. AtWork' = <<>>
      <4>1. ASSUME TurnRunning, ~killed, cur \in OnDisk  PROVE cur = j
        BY <1>5, <2>2, <2>9, <4>1 DEF Begun
      <4> QED
        BY <3>1, <3>2, <4>1 DEF AtWork, TurnRunning
    <3>4. CASE AtWork # <<>>
      <4>1. mem' = mem
        BY <1>0, <2>1, <2>9, <3>1, <3>4, AbsentStays DEF InMem
      <4> QED
        BY <1>0, <1>1, <2>1, <2>9, <3>2, <3>3, <3>4, <4>1
    <3>5. CASE AtWork = <<>>
      <4>1. mem # <<>>
        <5>1. ASSUME mem = <<>>  PROVE FALSE
          <6>1. disk = Coming
            BY <1>0, <1>1, <2>1, <3>5, <5>1
          <6>2. PICK m \in Jobs : snd[m] = "committed" /\ disk = <<m>>
            BY <2>9, <6>1, ComingIs
          <6>3. m = j
            BY <2>9, <6>2
          <6> QED
            BY <3>1, <6>2, <6>3 DEF QueueInv, NotYetPublished, Unpublished
        <5> QED
          BY <5>1
      <4>2. mem' = Tail(mem) /\ Tail(mem) \in Seq(Jobs)
        <5>1. Head(mem) = j /\ mem \in Seq(Jobs) /\ NoRepeat(mem)
          BY <1>0, <2>1, <2>9, <3>5, <4>1
        <5>2. Without(mem, Head(mem)) = Tail(mem) /\ Tail(mem) \in Seq(Jobs)
          BY <4>1, <5>1, HeadEdits
        <5> QED
          BY <3>1, <5>1, <5>2
      <4> QED
        BY <1>1, <2>1, <2>9, <3>2, <3>3, <3>5, <4>1, <4>2
    <3> QED
      BY <3>4, <3>5
  <2>10. ASSUME disk' = disk, mem' = mem,
                \A m \in Jobs : ~Publish(m) /\ ~(Admit(m) /\ snd'[m] = "committed")
         PROVE  disk' = (AtWork' \o mem') \o Coming'
    <3>1. Coming' = Coming
      BY <1>5, <2>10, ComingStays
    <3>2. OnDisk' = OnDisk /\ InMem' = InMem
      BY <2>10 DEF OnDisk, InMem
    <3>3. ~Pop
      BY <1>2, <3>2, PopStarts
    <3>4. CASE Retain \/ Complete
      <4>1. ~(cur \in OnDisk \ InMem)
        <5>1. CASE Complete
          BY <5>1, CompletedIsGone
        <5>2. CASE Retain
          <6>1. cur \in OnDisk => cur \in ToSet(PutFirst(mem, cur))
            BY <1>0, QueueEdits
          <6> QED
            BY <2>10, <5>2, <6>1 DEF Retain, InMem
        <5> QED
          BY <3>4, <5>1, <5>2
      <4>2. AtWork = <<>> /\ AtWork' = <<>>
        BY <3>4, <4>1, AtWorkMoves DEF AtWork, Retain, Complete, NextTurn, TurnAt
      <4> QED
        BY <2>1, <2>10, <3>1, <4>2
    <3>5. ASSUME ~(Retain \/ Complete)  PROVE AtWork' = AtWork
      <4>1. CASE UNCHANGED <<cur, killed>> /\ (TurnRunning' <=> TurnRunning)
        BY <3>2, <4>1, AtWorkMoves
      <4>2. CASE DrainEnds \/ Cancelled
        <5>1. (con \notin TurnAt \/ killed) /\ con' \notin TurnAt
          BY <4>2 DEF DrainEnds, Cancelled, At, ConsumerEnds, TurnAt
        <5> QED
          BY <5>1, AtWorkMoves
      <4> QED
        BY <1>2, <1>5, <2>3, <3>3, <3>5, <4>1, <4>2, ConsumerMoves DEF TurnRunning, TurnAt
    <3> QED
      BY <2>1, <2>10, <3>1, <3>4, <3>5
  <2>11. CASE disk' = disk /\ \A m \in Jobs : ~Publish(m) /\ ~(Admit(m) /\ snd'[m] = "committed")
    <3>1. ASSUME NEW d \in Deliverer, DeliveryInput(d), mem' = Without(mem, dlv[d].job)
          PROVE  mem' = mem
      <4>1. dlv[d].job \in Jobs /\ disk' = Without(disk, dlv[d].job)
        BY <1>0, <3>1 DEF DeliveryInput, PersistComplete, Delivering, QueueInv, DeliversStaged,
                          InTransit, TypeOK, QueuesOK
      <4>2. dlv[d].job \notin OnDisk
        BY <1>0, <2>11, <4>1, QueueEdits DEF OnDisk
      <4> QED
        BY <1>0, <2>1, <3>1, <4>2, AbsentStays DEF InMem
    <3> QED
      BY <1>5, <2>3, <2>6, <2>7, <2>8, <2>10, <2>11, <3>1, WaitingMoves
  <2>12. ASSUME NEW s \in Stops, StopClears(s)  PROVE FALSE
    BY <1>5, <2>12 DEF StopClears, Cancelling
  <2> QED
    BY <2>4, <2>5, <2>9, <2>11, <2>12, FileMoves
<1> QED
  BY <1>3, <1>4, <1>5

\* Whatever has begun had begun before, or begins at the head of the file.
LEMMA BeginsFirst ==
  ASSUME Orderly, QueueInv, WakeInv, SameOrder, BegunIsFirst, AwaitIsDelivered, [Next]_vars,
         NEW j \in Jobs, j \in OnDisk', Begun(j)'
  PROVE  \/ Begun(j)
         \/ disk' = disk /\ disk # <<>> /\ j = Head(disk)
<1> DEFINE First == disk' = disk /\ disk # <<>> /\ j = Head(disk)
<1>0. /\ snd \in [Jobs -> SenderAt] /\ con \in TurnAt \cup {"off", "loop"}
      /\ disk \in Seq(Jobs) /\ mem \in Seq(Jobs) /\ InMem \subseteq Jobs
  BY MembersAreJobs DEF QueueInv, TypeOK, SendersOK, ConsumerOK, QueuesOK
<1>1. CASE j \in ledger'
  <2>1. j \in ledger \/ (Stage /\ j = cur)
    BY <1>1, LedgerMoves
  <2>2. Stage => TurnRunning /\ ~killed /\ ~Cancelling
    BY Uncancelled DEF Stage, At, TurnRunning, TurnAt
  <2> QED
    BY <2>1, <2>2 DEF Begun
<1>2. CASE snd'[j] = "promote"
  <2>1. CASE Publish(j)
    <3>1. awaiting /\ mem = <<>> /\ snd[j] = "committed" /\ disk' = disk /\ ~Cancelling
      <4>1. sgen[j] = gen /\ disk' = disk /\ snd[j] = "committed"
        BY <1>0, <1>2, <2>1 DEF Publish, Leaves, durable
      <4>2. ~Cancelling
        <5>1. j \in OnDisk /\ gen \in Nat
          BY <4>1 DEF OnDisk, QueueInv, TypeOK, StoppingOK
        <5> QED
          BY <4>1, <5>1 DEF WakeInv, PromptStopInv, OnlyEarlierWork
      <4> QED
        BY <1>2, <2>1, <4>1, <4>2, PublishAppends
    <3>2. Coming = <<j>>
      BY <3>1, ComingIs
    <3>3. AtWork = <<>>
      <4>1. ASSUME TurnRunning, ~killed, cur \in OnDisk  PROVE FALSE
        <5>1. con \notin PreStage
          BY <3>1, AskedAlone
        <5>2. cur \in answered
          BY <4>1, <5>1 DEF TurnRunning, QueueInv, TurnAnswered
        <5>3. cur \in ledger
          BY <4>1, <5>2 DEF QueueInv, AnswersConsumed
        <5> QED
          BY <3>1, <4>1, <5>3 DEF AwaitIsDelivered
      <4> QED
        BY <4>1 DEF AtWork
    <3>4. disk = <<>> \o <<j>>
      BY <3>1, <3>2, <3>3, OrderGives
    <3> QED
      BY <3>1, <3>4
  <2>2. ASSUME ~Publish(j)  PROVE snd[j] = "promote"
    <3>1. ASSUME NEW m \in Jobs, Arrive(m) \/ Guide(m) \/ Admit(m) \/ Publish(m)
                                 \/ PersistPromote(m) \/ Ack(m)
          PROVE  snd[j] = "promote"
      <4>1. /\ \E pc \in SenderAt : snd' = [snd EXCEPT ![m] = pc]
            /\ ~Publish(m) => \E pc \in SenderAt \ {"promote"} : snd' = [snd EXCEPT ![m] = pc]
        BY <3>1 DEF Arrive, Guide, Admit, Publish, PersistPromote, Ack, Leaves, Sender, SenderAt
      <4>2. CASE m = j
        BY <1>0, <1>2, <2>2, <4>1, <4>2
      <4>3. CASE m # j
        BY <1>0, <1>2, <4>1, <4>3
      <4> QED
        BY <4>2, <4>3
    <3>2. ~Restart
      BY <1>2 DEF Restart
    <3> QED
      BY <1>2, <3>1, <3>2, Writes_senders DEF senders
  <2> QED
    BY <2>1, <2>2 DEF Begun
<1>3. CASE claim' = j
  <2>1. CASE RetryClaims
    BY <1>3, <2>1 DEF RetryClaims
  <2>2. ~Restart /\ ~RetryWakes
    BY <1>3, TurnQueueAssumption DEF Restart, RetryWakes
  <2> QED
    BY <1>3, <2>1, <2>2, Writes_retry DEF retry, Begun
<1>4. CASE TurnRunning' /\ ~killed' /\ ~Cancelling' /\ cur' = j
  <2>1. Undisturbed /\ con' \in TurnAt
    BY <1>4 DEF Orderly, TurnRunning
  <2>2. CASE Pop
    <3>1. mem # <<>> /\ j = Head(mem) /\ disk' = disk /\ con = "loop"
      BY <1>4, <2>1, <2>2, PopTakesFirst, PopStarts DEF durable
    <3>2. ~Cancelling /\ AtWork = <<>>
      BY <1>4, <2>1, <2>2, <3>1, PopStarts DEF AtWork, TurnRunning, TurnAt, stopping, Cancelling
    <3> QED
      BY <3>1, <3>2, OrderGives
  <2>3. CASE ~Pop
    <3>1. ASSUME NEW s \in Stops, StopClearsReplies(s)  PROVE FALSE
      BY <3>1 DEF StopClearsReplies, OnDisk, QueueInv, FileClearedFirst
    <3>2. ~Cancelling
      BY <1>4, <2>1, <3>1, CancelMoves DEF Restart, TurnAt
    <3> QED
      BY <1>4, <2>1, <2>3, <3>2, TurnLives DEF Begun, TurnRunning
  <2> QED
    BY <2>2, <2>3
<1> QED
  BY <1>1, <1>2, <1>3, <1>4 DEF Begun

\* Whatever has begun stays at the head of the file.
LEMMA KeepsBegunIsFirst ==
  ASSUME Orderly, QueueInv, WakeInv, SameOrder, BegunIsFirst, TurnKeepsEntry, AwaitIsDelivered,
         [Next]_vars
  PROVE  BegunIsFirst'
<1> SUFFICES ASSUME NEW j \in OnDisk', Begun(j)'  PROVE j = Head(disk')
  BY DEF BegunIsFirst
<1>0. /\ TypeOK /\ TypeOK' /\ disk \in Seq(Jobs) /\ NoRepeat(disk) /\ j \in Jobs
  BY KeepsQueueInv, MembersAreJobs DEF QueueInv, TypeOK, QueuesOK, OnDisk, ToSet
<1>1. CASE disk' = disk /\ disk # <<>> /\ j = Head(disk)
  BY <1>1
<1>2. ASSUME Begun(j), j \in OnDisk  PROVE j = Head(disk) /\ disk # <<>>
  BY <1>2, EmptyQueue DEF BegunIsFirst, OnDisk
<1>3. CASE Begun(j)
  <2>1. CASE disk' = disk
    BY <1>2, <1>3, <2>1 DEF OnDisk
  <2>2. ASSUME NEW m \in Jobs, Admit(m), m \notin OnDisk, disk' = Append(disk, m)
        PROVE  j = Head(disk')
    <3>1. CASE j \in OnDisk
      BY <1>0, <1>2, <1>3, <2>2, <3>1, HeadTailAppend
    <3>2. CASE j \notin OnDisk
      <4>1. j = m
        BY <1>0, <2>2, <3>2, NewLast DEF OnDisk
      <4>2. snd[m] = "admit" /\ claim = NoJob /\ NoJob \notin Jobs
        BY <2>2, TurnQueueAssumption DEF Admit, AdmissionFree
      <4>3. m \notin ledger
        BY <4>2 DEF QueueInv, NotYetPublished, Unpublished, Unadmitted, HoldMirrorsLedger
      <4>4. ~(TurnRunning /\ cur = m)
        BY <4>2 DEF TurnRunning, QueueInv, TurnHasJob, Unpublished, Unadmitted
      <4> QED
        BY <1>3, <4>1, <4>2, <4>3, <4>4 DEF Begun
    <3> QED
      BY <3>1, <3>2
  <2>3. CASE disk # <<>> /\ disk' = Tail(disk)
    <3>1. j \in OnDisk /\ j # Head(disk)
      <4>1. ToSet(Tail(disk)) = ToSet(disk) \ {Head(disk)}
        BY <1>0, <2>3, HeadEdits
      <4> QED
        BY <2>3, <4>1 DEF OnDisk
    <3> QED
      BY <1>2, <1>3, <3>1
  <2>4. CASE disk' = <<>>
    BY <2>4, EmptyQueue DEF OnDisk
  <2> QED
    BY <2>1, <2>2, <2>3, <2>4, FileMoves
<1> QED
  BY <1>0, <1>1, <1>3, BeginsFirst

\* Where a turn goes that is not cancelled.
LEMMA TurnGoes ==
  ASSUME Undisturbed, QueueInv, WakeInv, [Next]_vars, con' \in TurnAt, ~killed'
  PROVE  \/ con' = con
         \/ Pop /\ con' = "load"
         \/ Load /\ con = "load" /\ con' \in {"save", "retain"}
         \/ SaveRunning /\ con = "save" /\ con' \in {"pin", "retain"}
         \/ PinSession /\ con = "pin" /\ con' = "work"
         \/ Work /\ con = "work" /\ con' \in {"stage", "more", "block", "retry"}
         \/ SaveMore /\ con = "more" /\ con' \in {"save", "retain"}
         \/ SaveBlocked /\ con = "block" /\ con' \in {"notice", "retain"}
         \/ SaveWaiting /\ con = "retry" /\ con' = "retain"
         \/ Notice /\ con = "notice" /\ con' = "retain"
         \/ Stage /\ con = "stage" /\ con' \in {"deliver", "complete"}
         \/ Delivered /\ con = "deliver" /\ con' = "complete"
<1>1. ASSUME NEW state, NEW next, NEW missing, Saves(state, next, missing)
      PROVE  con' \in {next, missing}
  BY <1>1 DEF Saves, Goto
<1>2. /\ SaveRunning => con = "save" /\ con' \in {"pin", "retain"}
      /\ SaveMore => con = "more" /\ con' \in {"save", "retain"}
      /\ SaveBlocked => con = "block" /\ con' \in {"notice", "retain"}
      /\ SaveWaiting => con = "retry" /\ con' = "retain"
  BY <1>1 DEF SaveRunning, SaveMore, SaveBlocked, SaveWaiting, At
<1>3. /\ Load => con = "load" /\ con' \in {"save", "retain"}
      /\ PinSession => con = "pin" /\ con' = "work"
      /\ Work => con = "work" /\ con' \in {"stage", "more", "block", "retry"}
      /\ Notice => con = "notice" /\ con' = "retain"
      /\ Stage => con = "stage" /\ con' \in {"deliver", "complete"}
      /\ Delivered => con = "deliver" /\ con' = "complete"
  BY DEF Load, PinSession, Work, Notice, Stage, Delivered, At, Goto, ConsumerEnds, TurnAt
<1>4. ASSUME NEW held, StartDrain(held)  PROVE con' = con
  BY <1>4 DEF StartDrain, TurnAt
<1>5. ASSUME NEW m \in Jobs, Guide(m) \/ Ack(m)  PROVE con' = con
  BY <1>4, <1>5 DEF Guide, Ack
<1>6. RetryWakes \/ CancelUpdate => con' = con
  BY <1>4 DEF RetryWakes, CancelUpdate
<1>7. ASSUME NEW d \in Deliverer, DeliveryRemoves(d)  PROVE con' = con
  BY <1>4, <1>7 DEF DeliveryRemoves
<1>8. ~Retain /\ ~Complete /\ ~Cancelled /\ ~Restart /\ ~DrainEnds
  BY DEF Retain, Complete, Cancelled, NextTurn, Restart, DrainEnds, ConsumerEnds, TurnAt
<1>9. Pop => con' = "load"
  BY PopStarts
<1> QED
  BY <1>2, <1>3, <1>5, <1>6, <1>7, <1>8, <1>9, NothingGoesWrong, Writes_con

\* A turn's job stays in the file until its answer is out.
LEMMA KeepsTurnKeepsEntry ==
  ASSUME Orderly, QueueInv, WakeInv, SameOrder, TurnKeepsEntry, [Next]_vars
  PROVE  TurnKeepsEntry'
<1> SUFFICES ASSUME con' \in TurnAt, ~killed'
             PROVE  /\ ~Cancelling' /\ con' \in PreStage \ {"save", "retain"} => cur' \in OnDisk'
                    /\ con' = "complete" => cur' \notin ledger'
                    /\ con' = "deliver" /\ cur' \in ledger' =>
                         dlv'["turn"].at # "off" /\ dlv'["turn"].job = cur'
  BY DEF TurnKeepsEntry, PreStage, TurnAt
<1>0. /\ Undisturbed /\ "turn" \in Deliverer
      /\ dlv \in [Deliverer -> [at : DeliveryAt, job : Jobs \cup {NoJob}]]
  BY DEF Orderly, Deliverer, QueueInv, TypeOK, DeliveriesOK
<1>1. CASE Pop
  <2>1. con' = "load" /\ cur' \in InMem /\ disk' = disk /\ mem # <<>>
    BY <1>0, <1>1, PopStarts, PopTakesFirst DEF durable
  <2>2. ~Cancelling' => ~Cancelling
    BY <1>0, <1>1, PopStarts DEF stopping, Cancelling
  <2> QED
    BY <2>1, <2>2, OrderGives DEF OnDisk
<1>2. CASE ~Pop
  <2>1. con \in TurnAt /\ cur' = cur /\ ~killed /\ ~Complete
    BY <1>0, <1>2, TurnLives
  <2>2. con = "stage" => ~Cancelling
    BY <2>1, Uncancelled
  <2>3. cur \in ledger' => cur \in ledger \/ Stage
    BY LedgerMoves
  <2>4. ASSUME ~Cancelling', con' \in PreStage \ {"save", "retain"}  PROVE cur \in OnDisk'
    <3>1. con \in PreStage /\ (SaveRunning \/ con \in PreStage \ {"save", "retain"})
      BY <1>0, <1>2, <2>4, TurnGoes DEF PreStage, TurnAt
    <3>2. ASSUME Cancelling  PROVE FALSE
      <4>1. PICK s \in Stops : StopClearsReplies(s)
        BY <2>4, <3>2, CancelMoves DEF Restart, TurnAt
      <4>2. con' = con /\ Clearing
        BY <4>1 DEF StopClearsReplies, consumer, Clearing
      <4> QED
        BY <2>1, <2>4, <3>2, <4>2 DEF WakeInv, StopLeavesNothing, TurnRunning
    <3>3. cur \in OnDisk
      BY <2>1, <2>4, <3>1, <3>2 DEF TurnKeepsEntry, SaveRunning, Saves, Goto
    <3>4. cur \notin ledger /\ ~Clearing
      BY <3>1, <3>2 DEF QueueInv, TurnOwesNothing, Cancelling, Clearing
    <3> QED
      BY <1>0, <2>1, <3>3, <3>4, TurnStaysOnDisk
  <2>5. CASE Stage
    BY <1>0, <2>1, <2>2, <2>5 DEF Stage, At, Goto, PreStage
  <2>6. CASE Delivered
    <3>1. cur \notin ledger
      BY <2>1, <2>6 DEF Delivered, At, TurnKeepsEntry, Off
    <3> QED
      BY <2>1, <2>3, <2>6, <3>1 DEF Delivered, Goto, durable, PreStage
  <2>7. ASSUME ~Stage, ~Delivered, con' \in {"deliver", "complete"}  PROVE con = con'
    BY <1>0, <1>2, <2>7, TurnGoes
  <2>8. CASE con' = "complete" /\ ~Stage /\ ~Delivered
    BY <2>1, <2>3, <2>7, <2>8 DEF TurnKeepsEntry, PreStage
  <2>9. CASE con' = "deliver" /\ ~Stage /\ ~Delivered
    <3> SUFFICES ASSUME cur \in ledger'  PROVE dlv'["turn"].at # "off" /\ dlv'["turn"].job = cur
      BY <2>1, <2>9 DEF PreStage
    <3>1. cur \in ledger /\ dlv["turn"].at # "off" /\ dlv["turn"].job = cur
      BY <2>1, <2>3, <2>7, <2>9 DEF TurnKeepsEntry
    <3>2. ASSUME NEW d \in Deliverer,
                 DeliveryLocks(d) \/ DeliveryInput(d) \/ DeliverySend(d) \/ DeliveryRemoves(d)
          PROVE  dlv'["turn"].at # "off" /\ dlv'["turn"].job = cur
      <4>1. CASE d # "turn"
        <5>1. dlv'["turn"] = dlv["turn"]
          BY <1>0, <3>2, <4>1 DEF DeliveryLocks, DeliveryInput, DeliverySend, DeliveryRemoves,
                                  DeliveryEnds, DeliveryGoes
        <5> QED
          BY <3>1, <5>1
      <4>2. CASE d = "turn"
        <5>1. ~DeliveryRemoves(d)
          BY <3>1, <4>2 DEF DeliveryRemoves, RemoveRecord
        <5>2. \E pc \in DeliveryAt \ {"off"} : dlv' = [dlv EXCEPT !["turn"].at = pc]
          BY <3>1, <3>2, <4>2, <5>1 DEF DeliveryLocks, DeliveryInput, DeliverySend, DeliveryGoes,
                                        DeliveryAt
        <5> QED
          BY <1>0, <3>1, <5>2
      <4> QED
        BY <4>1, <4>2
    <3>3. CASE PollReply
      BY <1>0, <3>1, <3>3 DEF PollReply
    <3>4. ~Restart /\ \A s \in Stops : ~StopAtOnce(s) /\ ~StopBegins(s)
      BY <1>0, TurnLives DEF Restart, TurnAt
    <3> QED
      BY <1>0, <2>9, <3>1, <3>2, <3>3, <3>4, NothingGoesWrong, Writes_dlv
  <2> QED
    BY <2>1, <2>4, <2>5, <2>6, <2>8, <2>9 DEF PreStage
<1> QED
  BY <1>1, <1>2

\* While the user is asked no reply is staged whose prompt is still in the file.
LEMMA KeepsAwaitIsDelivered ==
  ASSUME Orderly, QueueInv, WakeInv, BegunIsFirst, TurnKeepsEntry, AwaitIsDelivered, [Next]_vars
  PROVE  AwaitIsDelivered'
<1> SUFFICES ASSUME awaiting', NEW j \in ledger', j \in OnDisk'  PROVE FALSE
  BY DEF AwaitIsDelivered
<1>0. TypeOK /\ disk \in Seq(Jobs) /\ NoRepeat(disk)
  BY DEF QueueInv, TypeOK, QueuesOK
<1>1. CASE \E d \in Deliverer : DeliverySend(d)
  <2>1. PICK d \in Deliverer : DeliverySend(d)
    BY <1>1
  <2>2. dlv[d].job \in ledger /\ dlv[d].job \notin OnDisk /\ UNCHANGED <<disk, ledger>>
    BY <2>1 DEF DeliverySend, Delivering, QueueInv, DeliversStaged, DeliversConsumed, InTransit,
                durable
  <2> QED
    BY <2>2 DEF QueueInv, OneStagedReply, OnDisk
<1>2. ASSUME awaiting  PROVE FALSE
  <2>1. ~Stage
    BY <1>2, AskedAlone DEF Stage, At, PreStage, TurnAt
  <2>2. j \in ledger /\ ledger \cap OnDisk = {}
    BY <1>2, <2>1, LedgerMoves DEF AwaitIsDelivered
  <2>3. ASSUME NEW m \in Jobs, Admit(m), disk' = Append(disk, m)  PROVE FALSE
    <3>1. m \notin ledger
      BY <2>3 DEF Admit, QueueInv, NotYetPublished, Unpublished, Unadmitted, HoldMirrorsLedger
    <3>2. OnDisk' = OnDisk \cup {m}
      BY <1>0, <2>3, QueueEdits DEF Admit, QueueInv, NotYetAdmitted, Unadmitted, OnDisk
    <3> QED
      BY <2>2, <3>1, <3>2
  <2>4. CASE disk # <<>> /\ disk' = Tail(disk)
    BY ZenonT(60), <1>0, <2>2, <2>4, HeadEdits DEF OnDisk
  <2>5. CASE disk' = <<>>
    BY <2>5, EmptyQueue DEF OnDisk
  <2> QED
    BY <2>2, <2>3, <2>4, <2>5, FileMoves DEF OnDisk
<1>3. awaiting \/ \E d \in Deliverer : DeliverySend(d)
  <2>1. ASSUME NEW m \in Jobs, Guide(m) \/ Publish(m)  PROVE awaiting
    BY <2>1 DEF Guide, Publish
  <2>2. ASSUME NEW s \in Stops, StopAtOnce(s) \/ StopSettled(s)  PROVE FALSE
    BY <2>2 DEF StopAtOnce, StopSettled, StopDrains
  <2> QED
    BY <2>1, <2>2, Writes_awaiting DEF Restart
<1> QED
  BY <1>1, <1>2, <1>3

\* How a checkpoint changes: it goes with its entry, it runs again, or the turn of the
\* first entry leaves it for guidance or until its retry time.
LEMMA CheckpointMoves ==
  ASSUME Orderly, QueueInv, WakeInv, BegunIsFirst, TurnKeepsEntry, [Next]_vars, NEW j \in Jobs
  PROVE  \/ ckpt'[j] = ckpt[j]
         \/ ckpt'[j] = "fresh" /\ j \notin OnDisk'
         \/ /\ ckpt'[j] = "running" /\ j \in OnDisk /\ disk' = disk
            /\ ~paused' \/ (con \in {"save", "pin", "more"} /\ ~killed)
         \/ /\ SaveBlocked \/ SaveWaiting
            /\ disk # <<>> /\ disk' = disk /\ j = cur /\ j = Head(disk) /\ ledger' = {}
            /\ ckpt'[j] = IF SaveBlocked THEN "paused" ELSE "waiting"
<1> DEFINE Moves ==
      \/ ckpt'[j] = ckpt[j]
      \/ ckpt'[j] = "fresh" /\ j \notin OnDisk'
      \/ /\ ckpt'[j] = "running" /\ j \in OnDisk /\ disk' = disk
         /\ ~paused' \/ (con \in {"save", "pin", "more"} /\ ~killed)
      \/ /\ SaveBlocked \/ SaveWaiting
         /\ disk # <<>> /\ disk' = disk /\ j = cur /\ j = Head(disk) /\ ledger' = {}
         /\ ckpt'[j] = IF SaveBlocked THEN "paused" ELSE "waiting"
<1>0. /\ TypeOK /\ disk \in Seq(Jobs) /\ NoRepeat(disk) /\ ckpt \in [Jobs -> CkptStates]
      /\ OnDisk \subseteq Jobs /\ (disk # <<>> => Head(disk) \in OnDisk) /\ Undisturbed
  BY MembersAreJobs DEF QueueInv, TypeOK, QueuesOK, Orderly
<1>1. ASSUME NEW i \in Jobs, PersistComplete(i)  PROVE Moves
  <2>1. OnDisk' = OnDisk \ {i}
    BY <1>0, <1>1, QueueEdits DEF PersistComplete, OnDisk
  <2> QED
    BY <1>0, <1>1, <2>1 DEF PersistComplete
<1>2. ASSUME NEW m \in Jobs, Guide(m)  PROVE Moves
  <2>1. CASE ckpt' = ckpt
    BY <2>1
  <2>2. CASE ckpt' # ckpt
    <3>1. /\ disk # <<>> /\ disk' = disk /\ ~paused'
          /\ ckpt' = [ckpt EXCEPT ![Head(disk)] = "running"]
      BY <1>2, <2>2 DEF Guide, Guides
    <3> QED
      BY <1>0, <3>1
  <2> QED
    BY <2>1, <2>2
<1>3. CASE RetryClaims
  BY <1>0, <1>3 DEF RetryClaims
<1>4. CASE Pop
  BY <1>0, <1>4, PopStarts DEF durable
<1>5. CASE Complete
  BY <1>0, <1>1, <1>5, CompletedIsGone DEF Complete
<1>6. ASSUME NEW d \in Deliverer, DeliveryInput(d)  PROVE Moves
  <2>1. dlv[d].job \in Jobs /\ PersistComplete(dlv[d].job)
    BY <1>0, <1>6 DEF DeliveryInput, Delivering, QueueInv, DeliversStaged, InTransit, QueuesOK, TypeOK
  <2> QED
    BY <1>1, <2>1
<1>7. ASSUME NEW s \in Stops, StopClears(s)  PROVE Moves
  BY <1>7, EmptyQueue DEF StopClears, ClearPersistentQueue, OnDisk
<1>8. ASSUME SaveRunning \/ PinSession \/ SaveMore  PROVE Moves
  <2>1. disk' = disk /\ con \in {"save", "pin", "more"} /\ ~killed
    BY <1>0, <1>8, SavesInPlace DEF SaveRunning, PinSession, SaveMore, At
  <2>2. ckpt' = ckpt \/ (cur \in OnDisk /\ ckpt' = [ckpt EXCEPT ![cur] = "running"])
    <3>1. ASSUME NEW next, NEW missing, Saves("running", next, missing)
          PROVE  ckpt' = ckpt \/ (cur \in OnDisk /\ ckpt' = [ckpt EXCEPT ![cur] = "running"])
      BY <3>1 DEF Saves, SaveCheckpoint
    <3>2. CASE SaveRunning \/ SaveMore
      BY <3>1, <3>2, Zenon DEF SaveRunning, SaveMore
    <3>3. CASE PinSession
      BY <3>3 DEF PinSession, SaveCheckpoint
    <3> QED
      BY <1>8, <3>2, <3>3
  <2> QED
    BY <1>0, <2>1, <2>2
<1>9. ASSUME SaveBlocked \/ SaveWaiting  PROVE Moves
  <2>1. /\ disk' = disk /\ con \in {"block", "retry"} /\ ~killed /\ ledger' = ledger
        /\ (SaveBlocked => con = "block") /\ (SaveWaiting => con = "retry")
    BY <1>0, <1>9, SavesInPlace DEF SaveBlocked, SaveWaiting, Saves, At
  <2>2. /\ con \in PreStage /\ ledger = {} /\ cur \in OnDisk /\ Begun(cur)
    BY <2>1, Uncancelled DEF PreStage, TurnAt, QueueInv, TurnOwesNothing, TurnKeepsEntry, Begun,
       TurnRunning
  <2>3. cur = Head(disk) /\ disk # <<>>
    BY <2>2, EmptyQueue DEF BegunIsFirst, OnDisk
  <2>4. ckpt' = [ckpt EXCEPT ![cur] = IF SaveBlocked THEN "paused" ELSE "waiting"]
    <3>1. CASE SaveBlocked
      BY <2>2, <3>1 DEF SaveBlocked, Saves, SaveCheckpoint
    <3>2. CASE SaveWaiting
      BY <2>1, <2>2, <3>2 DEF SaveWaiting, Saves, SaveCheckpoint
    <3> QED
      BY <1>9, <3>1, <3>2
  <2> QED
    BY <1>0, <1>9, <2>1, <2>2, <2>3, <2>4
<1> QED
  BY <1>0, <1>2, <1>3, <1>4, <1>5, <1>6, <1>7, <1>8, <1>9, NothingGoesWrong, Writes_ckpt

\* A request that is not in the file has no checkpoint.
LEMMA KeepsUnqueuedIsFresh ==
  ASSUME Orderly, QueueInv, WakeInv, OrderInv, [Next]_vars
  PROVE  UnqueuedIsFresh'
<1> SUFFICES ASSUME NEW j \in Jobs, j \notin OnDisk'  PROVE ckpt'[j] = "fresh"
  BY DEF UnqueuedIsFresh
<1>0. TypeOK /\ disk \in Seq(Jobs) /\ NoRepeat(disk) /\ ckpt \in [Jobs -> CkptStates]
  BY DEF QueueInv, TypeOK, QueuesOK
<1>1. CASE j \notin OnDisk
  <2>1. ckpt[j] = "fresh" /\ (disk # <<>> => j # Head(disk))
    BY <1>0, <1>1, MembersAreJobs DEF OrderInv, HoldMirrorsFile, UnqueuedIsFresh
  <2> QED
    BY <1>1, <2>1, CheckpointMoves DEF OrderInv
<1>2. CASE j \in OnDisk
  <2>1. disk' # disk
    BY <1>2 DEF OnDisk
  <2>2. ASSUME NEW m \in Jobs, disk' = Append(disk, m), m \notin OnDisk  PROVE FALSE
    BY <1>0, <1>2, <2>2, NewLast DEF OnDisk
  <2>3. ASSUME NEW d \in Deliverer, DeliveryInput(d), disk # <<>>, dlv[d].job = Head(disk),
               disk' = Tail(disk)
        PROVE  ckpt'[j] = "fresh"
    <3>1. ToSet(Tail(disk)) = ToSet(disk) \ {Head(disk)}
      BY <1>0, <2>3, HeadEdits
    <3>2. j = dlv[d].job
      BY <1>2, <2>3, <3>1 DEF OnDisk
    <3> QED
      BY <1>0, <2>3, <3>2 DEF DeliveryInput, PersistComplete
  <2>4. ASSUME NEW s \in Stops, StopClears(s)  PROVE ckpt'[j] = "fresh"
    BY <2>4 DEF StopClears, ClearPersistentQueue
  <2> QED
    BY <2>1, <2>2, <2>3, <2>4, FileMoves DEF OrderInv
<1> QED
  BY <1>1, <1>2

\* What is held stays at the head of the file, and owes no reply.
LEMMA KeepsHeldIsFirst ==
  ASSUME Orderly, QueueInv, WakeInv, OrderInv, [Next]_vars
  PROVE  HeldIsFirst'
<1> SUFFICES ASSUME NEW j \in OnDisk', ckpt'[j] \in HeldState
             PROVE  j = Head(disk') /\ ledger' = {}
  BY DEF HeldIsFirst
<1>0. TypeOK /\ disk \in Seq(Jobs) /\ NoRepeat(disk) /\ j \in Jobs
  <2>1. TypeOK'
    BY KeepsQueueInv DEF QueueInv
  <2>2. OnDisk' \subseteq Jobs
    BY <2>1, MembersAreJobs DEF TypeOK, QueuesOK, OnDisk, ToSet
  <2> QED
    BY <2>2 DEF QueueInv, TypeOK, QueuesOK
<1>1. CASE SaveBlocked \/ SaveWaiting
  <2>1. ckpt'[j] = ckpt[j] \/ (j = Head(disk') /\ ledger' = {})
    BY <1>0, CheckpointMoves DEF OrderInv, HeldState
  <2>2. /\ disk' = disk /\ con \in {"block", "retry"} /\ ~killed /\ ledger' = ledger
    BY <1>1, SavesInPlace DEF SaveBlocked, SaveWaiting, Saves, At, OrderInv, Orderly
  <2> QED
    BY <2>1, <2>2 DEF OnDisk, OrderInv, HoldMirrorsFile, HeldIsFirst
<1>2. CASE ~SaveBlocked /\ ~SaveWaiting
  <2>1. ckpt[j] \in HeldState
    BY <1>0, <1>2, CheckpointMoves DEF OrderInv, HeldState
  <2>2. j \in OnDisk
    BY <1>0, <2>1 DEF OrderInv, HoldMirrorsFile, UnqueuedIsFresh, HeldState
  <2>3. j = Head(disk) /\ ledger = {} /\ disk # <<>>
    BY <2>1, <2>2, EmptyQueue DEF OnDisk, OrderInv, HoldMirrorsFile, HeldIsFirst
  <2>4. ~Stage
    <3>1. ASSUME Stage  PROVE FALSE
      <4>1. ~Clearing /\ ~paused
        BY <3>1, Uncancelled DEF Stage, At, TurnAt, OrderInv, HoldMirrorsFile, PauseStopsTurns
      <4> QED
        BY <2>1, <2>3, <4>1 DEF OrderInv, HoldMirrorsFile, HeldIsPaused, FirstIsHeld
    <3> QED
      BY <3>1
  <2>5. ledger' = {}
    BY <2>3, <2>4, LedgerMoves
  <2>6. ASSUME NEW m \in Jobs, disk' = Append(disk, m)  PROVE j = Head(disk')
    BY <1>0, <2>3, <2>6, HeadTailAppend
  <2>7. ASSUME NEW d \in Deliverer, DeliveryInput(d)  PROVE FALSE
    BY <2>3, <2>7 DEF DeliveryInput, Delivering, QueueInv, DeliversStaged, InTransit
  <2>8. disk' # <<>>
    BY EmptyQueue DEF OnDisk
  <2> QED
    BY <2>3, <2>5, <2>6, <2>7, <2>8, FileMoves DEF OrderInv
<1> QED
  BY <1>1, <1>2

\* What is held at the head of the file was held there, or is left there now.
LEMMA HeldBefore ==
  ASSUME Orderly, QueueInv, WakeInv, OrderInv, [Next]_vars, FirstIsHeld'
  PROVE  \/ SaveBlocked
         \/ SaveWaiting
         \/ /\ FirstIsHeld /\ \A m \in Jobs : ~Guides(m) \/ ~Guide(m)
            /\ ~RetryClaims /\ \A s \in Stops : ~StopClears(s)
<1>0. TypeOK /\ disk \in Seq(Jobs) /\ NoRepeat(disk) /\ disk' # <<>> /\ Head(disk') \in Jobs
      /\ ckpt'[Head(disk')] \in HeldState /\ ckpt \in [Jobs -> CkptStates]
  <2>1. TypeOK'
    BY KeepsQueueInv DEF QueueInv
  <2>2. disk' \in Seq(Jobs) /\ disk' # <<>>
    BY <2>1 DEF TypeOK, QueuesOK, FirstIsHeld
  <2>3. Head(disk') \in Jobs
    BY <2>2, HeadTailProperties
  <2> QED
    BY <2>2, <2>3 DEF QueueInv, TypeOK, QueuesOK, FirstIsHeld
<1> SUFFICES ASSUME ~SaveBlocked, ~SaveWaiting
             PROVE  /\ FirstIsHeld /\ \A m \in Jobs : ~Guides(m) \/ ~Guide(m)
                    /\ ~RetryClaims /\ \A s \in Stops : ~StopClears(s)
  OBVIOUS
<1>1. ckpt'[Head(disk')] = ckpt[Head(disk')]
  BY <1>0, CheckpointMoves DEF OrderInv, HeldState
<1>2. Head(disk') \in OnDisk
  BY <1>0, <1>1 DEF OrderInv, HoldMirrorsFile, UnqueuedIsFresh, HeldState
<1>3. Head(disk') = Head(disk) /\ disk # <<>>
  BY <1>0, <1>1, <1>2, EmptyQueue DEF OnDisk, OrderInv, HoldMirrorsFile, HeldIsFirst
<1>4. FirstIsHeld
  BY <1>0, <1>1, <1>3 DEF FirstIsHeld
<1>5. ASSUME ckpt' = [ckpt EXCEPT ![Head(disk)] = "running"]  PROVE FALSE
  BY <1>0, <1>3, <1>5 DEF HeldState
<1>6. ASSUME NEW m \in Jobs, Guides(m), Guide(m)  PROVE FALSE
  BY <1>5, <1>6 DEF Guide
<1>7. RetryClaims => FALSE
  BY <1>5 DEF RetryClaims
<1>8. ASSUME NEW s \in Stops, StopClears(s)  PROVE FALSE
  BY <1>0, <1>8 DEF StopClears, ClearPersistentQueue
<1> QED
  BY <1>4, <1>6, <1>7, <1>8

\* A held first entry keeps its owner held.
LEMMA KeepsHeldIsPaused ==
  ASSUME Orderly, QueueInv, WakeInv, OrderInv, [Next]_vars
  PROVE  HeldIsPaused'
<1> SUFFICES ASSUME ~Clearing', FirstIsHeld'  PROVE paused'
  BY DEF HeldIsPaused
<1>0. Undisturbed /\ paused \in BOOLEAN /\ stop \in [Stops -> StopAt]
  BY DEF Orderly, QueueInv, TypeOK, FlagsOK, StoppingOK
<1>1. CASE Restart
  BY <1>1 DEF Restart, FirstIsHeld, HeldState, durable
<1>2. CASE SaveBlocked
  <2>1. cur \in OnDisk
    BY <1>2, Uncancelled DEF SaveBlocked, At, OrderInv, TurnKeepsEntry, PreStage, TurnAt
  <2> QED
    BY <1>2, <2>1 DEF SaveBlocked
<1>3. CASE SaveWaiting
  BY <1>3 DEF SaveWaiting, At, OrderInv, HoldMirrorsFile, PauseStopsTurns
<1>4. CASE ~Restart /\ ~SaveBlocked /\ ~SaveWaiting
  <2>1. /\ FirstIsHeld /\ \A m \in Jobs : ~Guides(m) \/ ~Guide(m)
        /\ ~RetryClaims /\ \A s \in Stops : ~StopClears(s)
    BY <1>4, HeldBefore
  <2>2. ~Clearing
    <3>1. ASSUME NEW s \in Stops, StopClearsReplies(s)  PROVE FALSE
      <4>1. OnDisk = {} /\ disk \in Seq(Jobs)
        BY <3>1 DEF StopClearsReplies, QueueInv, FileClearedFirst, TypeOK, QueuesOK
      <4>2. disk = <<>>
        BY <4>1, NoMembers DEF OnDisk
      <4> QED
        BY <2>1, <4>2 DEF FirstIsHeld
    <3>2. ASSUME NEW s \in Stops, StopAtOnce(s) \/ StopSettled(s), Clearing  PROVE FALSE
      BY <3>2 DEF StopAtOnce, StopSettled, AdmissionFree, Clearing
    <3>3. ASSUME NEW s \in Stops, StopBegins(s)  PROVE ~Clearing
      BY <1>0, <3>3 DEF StopBegins, Clearing
    <3>4. stop' = stop => ~Clearing
      BY DEF Clearing
    <3> QED
      BY <1>0, <1>4, <2>1, <3>1, <3>2, <3>3, <3>4, Writes_stop
  <2>3. paused
    BY <2>1, <2>2 DEF OrderInv, HoldMirrorsFile, HeldIsPaused
  <2>4. ~Stage /\ ~Delivered
    BY <2>3 DEF Stage, Delivered, At, TurnAt, OrderInv, HoldMirrorsFile, PauseStopsTurns
  <2>5. ASSUME NEW m \in Jobs, Guide(m)  PROVE paused'
    BY <2>1, <2>3, <2>5 DEF Guide
  <2>6. Load \/ Work => paused'
    BY <2>3 DEF Load, Work
  <2> QED
    BY <1>0, <1>4, <2>1, <2>3, <2>4, <2>5, <2>6, NothingGoesWrong, Writes_paused
<1> QED
  BY <1>1, <1>2, <1>3, <1>4

\* Only the turn's own steps hold an owner, and a restart.
LEMMA HoldsOwner ==
  ASSUME Undisturbed, QueueInv, WakeInv, [Next]_vars, paused', ~paused, ~Restart
  PROVE  /\ con \in {"load", "work", "block"} /\ ~killed /\ cur' = cur /\ killed' = killed
         /\ \/ Load /\ cur \in OnDisk /\ ckpt[cur] \in HeldState /\ con' = "retain"
            \/ Load /\ cur \notin OnDisk /\ con' = "retain"
            \/ Work /\ con' = "retry"
            \/ SaveBlocked /\ cur \in OnDisk /\ con' = "notice"
<1>1. ~Stage /\ ~Delivered /\ ~RetryClaims
  <2>1. Stage => paused' \in {paused, FALSE}
    BY DEF Stage
  <2> QED
    BY <2>1 DEF Delivered, RetryClaims
<1>2. ASSUME NEW m \in Jobs, Guide(m)  PROVE FALSE
  BY <1>2 DEF Guide
<1>3. ASSUME NEW s \in Stops, StopClears(s)  PROVE FALSE
  BY <1>3 DEF StopClears, ClearPersistentQueue
<1>4. CASE Load
  BY <1>4 DEF Load, At, Goto, HeldState
<1>5. CASE Work
  BY <1>5 DEF Work, At, Goto
<1>6. CASE SaveBlocked
  BY <1>6 DEF SaveBlocked, Saves, At, Goto
<1> QED
  BY <1>1, <1>2, <1>3, <1>4, <1>5, <1>6, NothingGoesWrong, Writes_paused

\* A held owner has a held first entry, or is about to.
LEMMA KeepsPausedIsHeld ==
  ASSUME Orderly, QueueInv, WakeInv, OrderInv, [Next]_vars
  PROVE  PausedIsHeld'
<1> SUFFICES ASSUME ~Cancelling', paused'
             PROVE  FirstIsHeld' \/ (con' = "retry" /\ ~killed')
  BY DEF PausedIsHeld
<1>0. /\ Undisturbed /\ TypeOK /\ disk \in Seq(Jobs) /\ NoRepeat(disk)
      /\ con \in TurnAt \cup {"off", "loop"} /\ stop \in [Stops -> StopAt]
      /\ (disk # <<>> => Head(disk) \in OnDisk) /\ OnDisk \subseteq Jobs
  BY MembersAreJobs DEF Orderly, QueueInv, TypeOK, QueuesOK, ConsumerOK, StoppingOK
<1>1. CASE Restart
  BY <1>1 DEF Restart, FirstIsHeld, HeldState, durable
<1>2. ASSUME ~Cancelling, TurnRunning, ~killed, con \in PreStage \ {"save", "retain"}
      PROVE  cur \in OnDisk /\ cur = Head(disk) /\ disk # <<>>
  <2>1. cur \in OnDisk
    BY <1>2 DEF OrderInv, TurnKeepsEntry
  <2> QED
    BY <1>2, <2>1, EmptyQueue DEF OrderInv, BegunIsFirst, Begun, OnDisk
<1>3. CASE SaveBlocked \/ SaveWaiting
  <2>1. /\ TurnRunning /\ ~killed /\ con \in {"block", "retry"} /\ con \in PreStage
        /\ ~Cancelling
    BY <1>3, Uncancelled DEF SaveBlocked, SaveWaiting, At, TurnRunning, TurnAt, PreStage
  <2>2. cur \in OnDisk /\ cur = Head(disk) /\ disk # <<>> /\ disk' = disk /\ cur \in Jobs
    BY <1>0, <1>2, <1>3, <2>1, SavesInPlace DEF OrderInv
  <2>3. ckpt'[cur] \in HeldState
    <3>1. ASSUME NEW state \in HeldState, NEW next, NEW missing, Saves(state, next, missing)
          PROVE  ckpt'[cur] = state
      BY <1>0, <2>2, <3>1 DEF Saves, SaveCheckpoint, TypeOK, QueuesOK
    <3> QED
      BY <1>3, <3>1 DEF SaveBlocked, SaveWaiting, HeldState
  <2> QED
    BY <2>2, <2>3 DEF FirstIsHeld
<1>4. ASSUME ~paused, ~Restart, ~SaveBlocked
      PROVE  FirstIsHeld' \/ (con' = "retry" /\ ~killed')
  <2>1. CASE Work /\ con' = "retry"
    BY <1>0, <1>4, <2>1, HoldsOwner
  <2>2. CASE Load
    <3>1. con = "load" /\ ~killed /\ UNCHANGED <<disk, ckpt>> /\ con' \in {"save", "retain"}
      BY <2>2 DEF Load, At, durable, Goto
    <3>2. cur \in OnDisk /\ cur = Head(disk) /\ disk # <<>>
      <4>1. ~Cancelling
        BY <2>2 DEF Load, stopping, Cancelling
      <4> QED
        BY <1>2, <3>1, <4>1 DEF TurnRunning, TurnAt, PreStage
    <3>3. ckpt[cur] \in HeldState
      BY <1>0, <1>4, <2>2, <3>1, <3>2, HoldsOwner
    <3> QED
      BY <3>1, <3>2, <3>3 DEF FirstIsHeld
  <2> QED
    BY <1>0, <1>4, <2>1, <2>2, HoldsOwner
<1>5. ASSUME paused, ~Restart, ~SaveBlocked, ~SaveWaiting
      PROVE  FirstIsHeld' \/ (con' = "retry" /\ ~killed')
  <2>1. ~Cancelling
    <3>1. ASSUME NEW s \in Stops, StopClearsReplies(s)  PROVE FALSE
      BY <1>5, <3>1 DEF StopClearsReplies, OrderInv, HoldMirrorsFile, PauseStopsTurns
    <3> QED
      BY <1>5, <3>1, CancelMoves
  <2>2. CASE FirstIsHeld
    <3> DEFINE h == Head(disk)
    <3>1. /\ disk # <<>> /\ h \in OnDisk /\ h \in Jobs /\ ckpt[h] \in HeldState /\ ledger = {}
      BY <1>0, <2>2 DEF FirstIsHeld, OrderInv, HoldMirrorsFile, HeldIsFirst
    <3>2. disk' # <<>> /\ Head(disk') = h /\ h \in OnDisk'
      <4>1. ASSUME NEW m \in Jobs, disk' = Append(disk, m), m \notin OnDisk
            PROVE  disk' # <<>> /\ Head(disk') = h /\ h \in OnDisk'
        BY <1>0, <3>1, <4>1, HeadTailAppend, AppendProperties, NewLast DEF OnDisk
      <4>2. ASSUME NEW d \in Deliverer, DeliveryInput(d)  PROVE FALSE
        BY <3>1, <4>2 DEF DeliveryInput, Delivering, QueueInv, DeliversStaged, InTransit
      <4>3. ASSUME NEW s \in Stops, StopClears(s)  PROVE FALSE
        BY <4>3 DEF StopClears, ClearPersistentQueue
      <4>4. CASE disk' = disk
        BY <3>1, <4>4 DEF OnDisk
      <4> QED
        BY <4>1, <4>2, <4>3, <4>4, FileMoves DEF OrderInv
    <3>3. ~(con \in {"save", "pin", "more"} /\ ~killed)
      BY <1>5 DEF OrderInv, HoldMirrorsFile, PauseStopsTurns, TurnAt
    <3>4. ckpt'[h] = ckpt[h]
      BY <1>5, <3>1, <3>2, <3>3, CheckpointMoves DEF OrderInv
    <3> QED
      BY <3>1, <3>2, <3>4 DEF FirstIsHeld
  <2>3. CASE ~FirstIsHeld
    <3>1. con = "retry" /\ ~killed
      BY <1>5, <2>1, <2>3 DEF OrderInv, HoldMirrorsFile, PausedIsHeld
    <3>2. ~Retain /\ ~Complete /\ ~DrainEnds /\ ~Pop /\ ~Cancelled
      BY <3>1 DEF Retain, Complete, DrainEnds, Pop, At, Cancelled
    <3>3. \A s \in Stops : ~StopAtOnce(s) /\ ~StopBegins(s)
      BY CancelMoves
    <3>4. con' \in TurnAt /\ ~killed'
      <4>1. con \in TurnAt /\ con # "off" /\ "retry" \in TurnAt
        BY <3>1 DEF TurnAt
      <4>2. \/ UNCHANGED <<con, killed>>
            \/ con' \in TurnAt /\ UNCHANGED killed
        BY <1>0, <1>5, <3>1, <3>2, <3>3, ConsumerMoves
      <4> QED
        BY <3>1, <4>1, <4>2
    <3>5. con' = con
      BY <1>0, <1>5, <3>1, <3>2, <3>4, TurnGoes
    <3> QED
      BY <3>1, <3>4, <3>5
  <2> QED
    BY <2>2, <2>3
<1> QED
  BY <1>1, <1>3, <1>4, <1>5

\* A held owner has no turn at work.
LEMMA KeepsPauseStopsTurns ==
  ASSUME Orderly, QueueInv, WakeInv, OrderInv, [Next]_vars
  PROVE  PauseStopsTurns'
<1>0. /\ Undisturbed /\ TypeOK /\ stop \in [Stops -> StopAt]
  BY DEF Orderly, QueueInv, TypeOK, StoppingOK
<1>1. ASSUME con' = "retry", ~killed'  PROVE paused' /\ ~FirstIsHeld'
  <2>1. ~killed /\ con \in {"work", "retry"} /\ (con # con' => Work) /\ ~Pop
        /\ ~Stage /\ ~Delivered /\ ~Restart /\ ~SaveBlocked /\ ~SaveWaiting
    <3>1. con \in {"work", "retry"} /\ (con # con' => Work)
      BY <1>0, <1>1, TurnGoes DEF TurnAt
    <3>2. ~killed /\ ~Pop
      BY <1>0, <1>1, <3>1, TurnLives DEF TurnAt, Pop, At
    <3> QED
      BY <1>1, <3>1, <3>2 DEF Stage, Delivered, At, Restart, SaveBlocked, SaveWaiting, Saves, Goto
  <2>2. TurnRunning /\ ~Clearing
    BY <2>1, Uncancelled DEF TurnRunning, TurnAt
  <2>3. ~FirstIsHeld
    <3>1. CASE con = "work"
      BY <2>1, <2>2, <3>1 DEF OrderInv, HoldMirrorsFile, PauseStopsTurns, HeldIsPaused, TurnAt
    <3>2. CASE con = "retry"
      BY <2>1, <3>2 DEF OrderInv, HoldMirrorsFile, PauseStopsTurns
    <3> QED
      BY <2>1, <3>1, <3>2
  <2>4. ~FirstIsHeld'
    BY <2>1, <2>3, HeldBefore
  <2>5. paused'
    <3>1. CASE con = "work"
      BY <1>1, <2>1, <3>1 DEF Work, Goto
    <3>2. CASE con = "retry"
      <4>1. paused
        BY <2>1, <3>2 DEF OrderInv, HoldMirrorsFile, PauseStopsTurns
      <4>2. ASSUME NEW m \in Jobs, Guide(m)  PROVE paused'
        BY <2>3, <4>1, <4>2 DEF Guide, Guides, FirstIsHeld, HeldState
      <4>3. ~RetryClaims /\ \A s \in Stops : ~StopClears(s)
        BY <2>2 DEF RetryClaims, StopClears, Clearing
      <4>4. ~Load /\ ~Work
        BY <3>2 DEF Load, Work, At
      <4> QED
        BY <1>0, <2>1, <4>1, <4>2, <4>3, <4>4, NothingGoesWrong, Writes_paused
    <3> QED
      BY <2>1, <3>1, <3>2
  <2> QED
    BY <2>4, <2>5
<1>2. ASSUME con' \in TurnAt \ {"retry", "retain", "notice"}, ~killed', paused'  PROVE FALSE
  <2>1. CASE Pop
    BY <1>0, <1>2, <2>1, PopStarts DEF flags
  <2>2. CASE ~Pop
    <3>1. con \in TurnAt \ {"retry", "retain", "notice"} /\ ~killed
      BY <1>0, <1>2, <2>2, TurnGoes, TurnLives DEF TurnAt
    <3>2. ~paused
      BY <3>1 DEF OrderInv, HoldMirrorsFile, PauseStopsTurns
    <3>3. ~Restart
      BY <1>2 DEF Restart, TurnAt
    <3> QED
      BY <1>0, <1>2, <3>2, <3>3, HoldsOwner
  <2> QED
    BY <2>1, <2>2
<1>3. ASSUME NEW s \in Stops, stop'[s] = "replies", paused'  PROVE FALSE
  <2>1. ~Restart /\ \A t \in Stops : ~StopClears(t)
    BY <1>0, <1>3 DEF Restart, StopClears, ClearPersistentQueue
  <2>2. stop[s] = "replies"
    <3>1. ASSUME NEW t \in Stops,
                 StopAtOnce(t) \/ StopBegins(t) \/ StopSettled(t) \/ StopClearsReplies(t)
          PROVE  stop[s] = "replies"
      BY <1>0, <1>3, <3>1 DEF StopAtOnce, StopBegins, StopSettled, StopClearsReplies
    <3> QED
      BY <1>0, <1>3, <2>1, <3>1, Writes_stop
  <2>3. ~paused /\ Clearing /\ Cancelling
    BY <2>2 DEF OrderInv, HoldMirrorsFile, PauseStopsTurns, Clearing, Cancelling
  <2>4. con \in {"load", "work", "block"} /\ con \in TurnAt /\ ~killed
    BY <1>0, <1>3, <2>1, <2>3, HoldsOwner DEF TurnAt
  <2> QED
    BY <2>3, <2>4 DEF WakeInv, StopLeavesNothing, TurnRunning
<1> QED
  BY <1>1, <1>2, <1>3 DEF PauseStopsTurns

\* Every step of such a bot keeps the file and the memory in order.
LEMMA KeepsOrderInv ==
  ASSUME Orderly, QueueInv, WakeInv, OrderInv, [Next]_vars
  PROVE  OrderInv'
<1>1. SameOrder' /\ BegunIsFirst' /\ TurnKeepsEntry' /\ AwaitIsDelivered'
  BY KeepsSameOrder, KeepsBegunIsFirst, KeepsTurnKeepsEntry, KeepsAwaitIsDelivered DEF OrderInv
<1>2. HoldMirrorsFile'
  BY KeepsUnqueuedIsFresh, KeepsHeldIsFirst, KeepsHeldIsPaused, KeepsPausedIsHeld,
     KeepsPauseStopsTurns DEF HoldMirrorsFile
<1> QED
  BY <1>1, <1>2 DEF OrderInv

LEMMA InitOrderInv == Init => OrderInv
<1> SUFFICES ASSUME Init  PROVE OrderInv
  OBVIOUS
<1>1. OnDisk = {} /\ ~TurnRunning /\ ~Clearing /\ ~FirstIsHeld
  BY EmptyQueue DEF Init, OnDisk, TurnRunning, TurnAt, Clearing, FirstIsHeld
<1>2. AtWork = <<>> /\ Coming = <<>>
  BY <1>1 DEF Init, AtWork, Coming
<1>3. SameOrder
  <2>1. (<<>> \o <<>>) \o <<>> = <<>>
    BY EmptyQueue, ConcatEmptySeq
  <2> QED
    BY <1>2, <2>1 DEF Init, SameOrder
<1>4. HoldMirrorsFile
  BY <1>1 DEF Init, HoldMirrorsFile, UnqueuedIsFresh, HeldIsFirst, HeldIsPaused, PausedIsHeld,
     PauseStopsTurns, TurnAt
<1> QED
  BY <1>1, <1>3, <1>4 DEF Init, OrderInv, BegunIsFirst, TurnKeepsEntry, AwaitIsDelivered, PreStage,
     TurnAt

\* What was untangled after a step was so before it: answers and admissions only add up.
LEMMA UntangledBefore ==
  ASSUME QueueInv, [Next]_vars, Untangled'
  PROVE  Untangled
<1>1. answered \subseteq answered'
  BY LedgerMoves
<1>2. accepted \subseteq accepted'
  <2>1. ASSUME NEW m \in Jobs, Admit(m)  PROVE accepted \subseteq accepted'
    BY <2>1 DEF Admit
  <2> QED
    BY <2>1, Writes_accepted
<1> QED
  BY <1>1, <1>2 DEF Untangled

\* For any number of requests, /stop invocations, restarts and updates of a bot that
\* nothing disturbs no wake is lost; and until a scheduled job can overtake a question
\* to the user, the queue file and the queue in memory agree: in content, in order, and
\* in who is held.
THEOREM RestInvariant ==
  ASSUME Undisturbed
  PROVE  Spec => []RestInv
<1>1. Init => RestInv
  BY InitWakeInv, InitOrderInv DEF RestInv
<1>2. QueueInv /\ RestInv /\ [Next]_vars => RestInv'
  <2> SUFFICES ASSUME QueueInv, RestInv, [Next]_vars  PROVE WakeInv' /\ (Untangled' => OrderInv')
    BY DEF RestInv
  <2>1. WakeInv'
    BY KeepsWakeInv DEF RestInv
  <2>2. ASSUME Untangled'  PROVE OrderInv'
    <3>1. Orderly /\ WakeInv /\ OrderInv
      BY <2>2, UntangledBefore DEF Orderly, RestInv
    <3> QED
      BY <3>1, KeepsOrderInv
  <2> QED
    BY <2>1, <2>2
<1> QED
  BY <1>1, <1>2, QueueInvariant, PTL DEF Spec

\* The queue at rest has forgotten no wake, holds its owner exactly while the first
\* entry waits for guidance or its time, and a restart would restore it as it is.
THEOREM QueueRests ==
  ASSUME Undisturbed
  PROVE  Spec => [](Untangled => QueueAtRest)
<1>1. QueueInv /\ RestInv => (Untangled => QueueAtRest)
  <2> SUFFICES ASSUME QueueInv, RestInv, Untangled, Settled
               PROVE  NoStranding /\ HoldHasItsJob /\ RestartParity
    BY DEF QueueAtRest, NoStranding, HoldHasItsJob, RestartParity
  <2>0. WakeInv /\ OrderInv
    BY DEF RestInv
  <2>1. /\ ~TurnRunning /\ ~Cancelling /\ con # "retry" /\ \A m \in Jobs : snd[m] # "committed"
    BY DEF Settled, TurnRunning, TurnAt, Cancelling
  <2>2. NoStranding
    BY <2>0, <2>1 DEF WakeInv, NoLostWake, NoStranding, Settled, Awake
  <2>3. HoldHasItsJob
    BY <2>0, <2>1 DEF OrderInv, HoldMirrorsFile, PausedIsHeld, FirstIsHeld, HeldState, HoldHasItsJob
  <2>4. RestartParity
    <3>1. AtWork = <<>> /\ Coming = <<>> /\ mem \in Seq(Jobs)
      BY <2>1 DEF AtWork, Coming, QueueInv, TypeOK, QueuesOK
    <3>2. disk = (<<>> \o mem) \o <<>>
      BY <2>0, <2>1, <3>1 DEF OrderInv, SameOrder
    <3> QED
      BY <3>1, <3>2, ConcatEmptySeq DEF RestartParity
  <2> QED
    BY <2>2, <2>3, <2>4
<1> QED
  BY <1>1, QueueInvariant, RestInvariant, PTL

\* Only the consumer taking an entry off the queue starts a turn.
LEMMA OnlyPopStarts ==
  ASSUME Undisturbed, QueueInv, WakeInv, [Next]_vars, con = "loop", con' = "load"
  PROVE  Pop
<1> SUFFICES ASSUME ~Pop  PROVE FALSE
  OBVIOUS
<1>1. ~Cancelled /\ ~DrainEnds /\ ~Restart
  BY DEF Cancelled, DrainEnds, ConsumerEnds, Restart
<1>2. \A s \in Stops : ~StopAtOnce(s) /\ ~StopBegins(s)
  BY DEF StopAtOnce, StopBegins
<1> QED
  BY <1>1, <1>2, ConsumerMoves DEF TurnAt

\* The consumer starts the job at the head of the queue file: always, for an owner
\* whom no reply asks anything or who has no schedules; what it pops while a /stop
\* is at work never reaches the agent.
THEOREM DurableHeadFirst ==
  ASSUME Undisturbed, Asks = {} \/ Schedules = {}
  PROVE  Spec => StartsDurableHead
<1> DEFINE Starts == con = "loop" /\ con' = "load" /\ ~awaiting /\ QueueFileQuiet /\ ~Cancelling
                       => cur' = Head(disk)
           Reaches == con = "pin" /\ con' = "work" => ~Cancelling
<1>1. ASSUME QueueInv, RestInv, [Next]_vars, con = "loop", con' = "load", ~Cancelling
      PROVE  cur' = Head(disk)
  <2>1. WakeInv /\ OrderInv
    BY <1>1 DEF RestInv, Untangled
  <2>2. Pop
    BY <1>1, <2>1, OnlyPopStarts
  <2>3. mem # <<>> /\ cur' = Head(mem)
    BY <1>1, <2>1, <2>2, PopTakesFirst DEF Orderly, Untangled
  <2>4. AtWork = <<>>
    BY <1>1 DEF AtWork, TurnRunning, TurnAt
  <2> QED
    BY <1>1, <2>1, <2>3, <2>4, OrderGives DEF OrderInv
<1>2. ASSUME QueueInv, RestInv, [Next]_vars, con = "pin", con' = "work"
      PROVE  ~Cancelling
  <2>1. WakeInv
    BY <1>2 DEF RestInv
  <2>2. ~DrainEnds /\ ~Pop /\ ~Cancelled /\ ~Restart
    BY <1>2 DEF DrainEnds, Pop, Cancelled, Restart, At, ConsumerEnds
  <2>3. \A s \in Stops : ~StopAtOnce(s) /\ ~StopBegins(s)
    BY <1>2 DEF StopAtOnce, StopBegins
  <2>4. ~killed
    BY <1>2, <2>1, <2>2, <2>3, ConsumerMoves
  <2> QED
    BY <1>2, <2>1, <2>4, Uncancelled DEF TurnAt
<1>3. QueueInv /\ RestInv /\ [Next]_vars => [Starts]_vars /\ [Reaches]_vars
  BY <1>1, <1>2
<1> QED
  BY <1>3, QueueInvariant, RestInvariant, PTL DEF Spec, StartsDurableHead

\* For the same owners no turn starts while another job waits for guidance or for
\* its retry time: the pause that keeps the consumer back is lifted only for the
\* job that caused it.
THEOREM NothingOvertakesHeld ==
  ASSUME Undisturbed, Asks = {} \/ Schedules = {}
  PROVE  Spec => HeldBehindPaused
<1> DEFINE Behind == con = "loop" /\ con' = "load"
                       => \A j \in OnDisk \ {cur'} : ckpt[j] \notin {"paused", "waiting"}
<1>1. QueueInv /\ RestInv /\ [Next]_vars => [Behind]_vars
  <2> SUFFICES ASSUME QueueInv, RestInv, [Next]_vars, con = "loop", con' = "load",
                      NEW j \in OnDisk, ckpt[j] \in HeldState
               PROVE  FALSE
    BY DEF HeldState
  <2>1. WakeInv /\ OrderInv
    BY DEF RestInv, Untangled
  <2>2. Pop
    BY <2>1, OnlyPopStarts
  <2>3. ~paused /\ mem # <<>>
    BY <2>1, <2>2, PopTakesFirst DEF Orderly, Untangled, Pop, Held
  <2>4. ~Clearing
    BY <2>1, <2>3 DEF WakeInv, StopLeavesNothing
  <2>5. j = Head(disk) /\ disk # <<>>
    BY <2>1, EmptyQueue DEF OrderInv, HoldMirrorsFile, HeldIsFirst, OnDisk
  <2> QED
    BY <2>1, <2>3, <2>4, <2>5 DEF OrderInv, HoldMirrorsFile, HeldIsPaused, FirstIsHeld
<1> QED
  BY <1>1, QueueInvariant, RestInvariant, PTL DEF Spec, HeldBehindPaused
=============================================================================
