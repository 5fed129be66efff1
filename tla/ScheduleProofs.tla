---------------------------- MODULE ScheduleProofs ----------------------------
(***************************************************************************)
(* What the scheduler promises, for every number of schedules, due times,   *)
(* ticks, stops, failures and restarts: ScheduleInv is inductive, and the   *)
(* safety properties of ScheduleAdmission follow from it.  One lemma per    *)
(* part of the invariant, with one step per action that can disturb it.     *)
(***************************************************************************)
EXTENDS ScheduleAdmission, SequenceTheorems, FiniteSetTheorems, TLAPS

-----------------------------------------------------------------------------
(* What the edits of a queue return: queues without repetitions, with the  *)
(* identities one expects.                                                 *)

\* Filtering an identity out leaves the others, each of them once.
LEMMA WithoutFilters ==
  ASSUME NEW S, NEW s \in Seq(S), NoRepeat(s), NEW j
  PROVE  /\ Without(s, j) \in Seq(S) /\ NoRepeat(Without(s, j))
         /\ ToSet(Without(s, j)) = ToSet(s) \ {j}
<1>1. PICK n \in Nat : n = Len(s) /\ DOMAIN s = 1..n
  BY LenProperties
<1>2. CASE ~\E i \in 1..n : s[i] = j
  BY <1>1, <1>2 DEF Without, ToSet
<1>3. CASE \E i \in 1..n : s[i] = j
  <2>1. PICK k \in 1..n : s[k] = j /\ Without(s, j) = [i \in 1..n - 1 |-> IF i < k THEN s[i] ELSE s[i + 1]]
    BY <1>1, <1>3 DEF Without
  <2>2. PICK w : w = Without(s, j)
    OBVIOUS
  <2>3. /\ DOMAIN w = 1..n - 1 /\ n - 1 \in Nat
        /\ \A i \in 1..n - 1 : w[i] = IF i < k THEN s[i] ELSE s[i + 1]
    BY <2>1, <2>2
  <2>4. w \in Seq(S) /\ Len(w) = n - 1
    <3>1. \A i \in 1..n - 1 : w[i] \in S
      BY <1>1, <2>3, ElementOfSeq
    <3>2. w \in [1..n - 1 -> S]
      BY <2>1, <2>2, <2>3, <3>1
    <3>3. QED
      BY <2>3, <3>2
  <2>5. \A i, l \in 1..n : s[i] = s[l] => i = l
    BY <1>1 DEF NoRepeat
  <2>6. NoRepeat(w)
    <3>1. ASSUME NEW a \in 1..n - 1, NEW b \in 1..n - 1, w[a] = w[b] PROVE a = b
      <4>1. PICK c \in 1..n : w[a] = s[c] /\ c = IF a < k THEN a ELSE a + 1
        BY <2>3
      <4>2. PICK d \in 1..n : w[b] = s[d] /\ d = IF b < k THEN b ELSE b + 1
        BY <2>3
      <4>3. c = d
        BY <2>5, <3>1, <4>1, <4>2
      <4>4. QED
        BY <4>1, <4>2, <4>3
    <3>2. QED
      BY <2>4, <3>1 DEF NoRepeat
  <2>7. ToSet(w) = {w[i] : i \in 1..n - 1} /\ ToSet(s) = {s[i] : i \in 1..n}
    BY <1>1, <2>3 DEF ToSet
  <2>8. ASSUME NEW x \in ToSet(w) PROVE x \in ToSet(s) \ {j}
    BY SMTT(30), <2>1, <2>3, <2>5, <2>7
  <2>9. ASSUME NEW i \in 1..n, s[i] # j PROVE s[i] \in ToSet(w)
    <3>1. CASE i < k
      BY <2>3, <2>7, <3>1
    <3>2. CASE i > k
      <4>1. i - 1 \in 1..n - 1 /\ w[i - 1] = s[i]
        BY <2>3, <3>2
      <4>2. QED
        BY <2>7, <4>1
    <3>3. QED
      BY <2>1, <2>9, <3>1, <3>2
  <2>10. ToSet(w) \subseteq ToSet(s) \ {j}
    BY <2>8
  <2>11. ASSUME NEW x \in ToSet(s), x # j  PROVE x \in ToSet(w)
    <3>1. PICK i \in 1..n : x = s[i]
      BY <2>7
    <3>2. QED
      BY <2>9, <2>11, <3>1
  <2>12. ToSet(w) = ToSet(s) \ {j}
    BY <2>10, <2>11
  <2>13. QED
    BY <2>2, <2>4, <2>6, <2>12
<1>4. QED
  BY <1>1, <1>2, <1>3

\* A queue with an identity it does not hold put first, or last.
LEMMA NewFirst ==
  ASSUME NEW S, NEW s \in Seq(S), NoRepeat(s), NEW j \in S, j \notin ToSet(s)
  PROVE  /\ <<j>> \o s \in Seq(S) /\ NoRepeat(<<j>> \o s)
         /\ ToSet(<<j>> \o s) = ToSet(s) \cup {j}
<1>1. PICK n \in Nat : n = Len(s) /\ DOMAIN s = 1..n
  BY LenProperties
<1>2. PICK w : w = <<j>> \o s
  OBVIOUS
<1>3. /\ w \in Seq(S) /\ Len(w) = n + 1
      /\ \A i \in 1..(n + 1) : w[i] = IF i = 1 THEN j ELSE s[i - 1]
  BY <1>1, <1>2
<1>4. DOMAIN w = 1..(n + 1)
  BY <1>3, LenProperties
<1>5. \A i \in 1..n : s[i] # j
  BY <1>1 DEF ToSet
<1>6. NoRepeat(w)
  BY <1>1, <1>3, <1>5 DEF NoRepeat
<1>7. ASSUME NEW x \in ToSet(w)  PROVE x \in ToSet(s) \cup {j}
  BY <1>1, <1>3, <1>4 DEF ToSet
<1>8. ASSUME NEW x \in ToSet(s) \cup {j}  PROVE x \in ToSet(w)
  <2>1. CASE x = j
    <3>1. 1 \in 1..(n + 1) /\ w[1] = x
      BY <2>1, <1>1, <1>3
    <3> QED
      BY <3>1, <1>4 DEF ToSet
  <2>2. CASE x \in ToSet(s)
    <3>1. PICK i \in 1..n : s[i] = x
      BY <2>2, <1>1 DEF ToSet
    <3>2. i + 1 \in 1..(n + 1) /\ w[i + 1] = x
      BY <3>1, <1>1, <1>3
    <3> QED
      BY <3>2, <1>4 DEF ToSet
  <2> QED
    BY <2>1, <2>2
<1> QED
  BY <1>2, <1>3, <1>6, <1>7, <1>8

LEMMA NewLast ==
  ASSUME NEW S, NEW s \in Seq(S), NoRepeat(s), NEW j \in S, j \notin ToSet(s)
  PROVE  /\ Append(s, j) \in Seq(S) /\ NoRepeat(Append(s, j))
         /\ ToSet(Append(s, j)) = ToSet(s) \cup {j}
<1>1. PICK n \in Nat : n = Len(s) /\ DOMAIN s = 1..n
  BY LenProperties
<1>2. PICK w : w = Append(s, j)
  OBVIOUS
<1>3. /\ w \in Seq(S) /\ Len(w) = n + 1
      /\ \A i \in 1..(n + 1) : w[i] = IF i = n + 1 THEN j ELSE s[i]
  BY <1>1, <1>2
<1>4. DOMAIN w = 1..(n + 1)
  BY <1>3, LenProperties
<1>5. \A i \in 1..n : s[i] # j
  BY <1>1 DEF ToSet
<1>6. NoRepeat(w)
  BY <1>1, <1>3, <1>5 DEF NoRepeat
<1>7. ASSUME NEW x \in ToSet(w)  PROVE x \in ToSet(s) \cup {j}
  BY <1>1, <1>3, <1>4 DEF ToSet
<1>8. ASSUME NEW x \in ToSet(s) \cup {j}  PROVE x \in ToSet(w)
  <2>1. CASE x = j
    <3>1. n + 1 \in 1..(n + 1) /\ w[n + 1] = x
      BY <2>1, <1>1, <1>3
    <3> QED
      BY <3>1, <1>4 DEF ToSet
  <2>2. CASE x \in ToSet(s)
    <3>1. PICK i \in 1..n : s[i] = x
      BY <2>2, <1>1 DEF ToSet
    <3>2. i \in 1..(n + 1) /\ w[i] = x
      BY <3>1, <1>1, <1>3, <1>5
    <3> QED
      BY <3>2, <1>4 DEF ToSet
  <2> QED
    BY <2>1, <2>2
<1> QED
  BY <1>2, <1>3, <1>6, <1>7, <1>8

\* The queue operations of the bot, from the three facts above.
LEMMA PutFirstPuts ==
  ASSUME NEW S, NEW s \in Seq(S), NoRepeat(s), NEW j \in S
  PROVE  /\ PutFirst(s, j) \in Seq(S) /\ NoRepeat(PutFirst(s, j))
         /\ ToSet(PutFirst(s, j)) = ToSet(s) \cup {j}
<1>1. /\ Without(s, j) \in Seq(S) /\ NoRepeat(Without(s, j))
      /\ ToSet(Without(s, j)) = ToSet(s) \ {j}
  BY WithoutFilters
<1>2. j \notin ToSet(Without(s, j))
  BY <1>1
<1>3. /\ <<j>> \o Without(s, j) \in Seq(S) /\ NoRepeat(<<j>> \o Without(s, j))
      /\ ToSet(<<j>> \o Without(s, j)) = ToSet(Without(s, j)) \cup {j}
  BY <1>1, <1>2, NewFirst
<1> QED
  BY <1>1, <1>3 DEF PutFirst

LEMMA EnqueuedAdds ==
  ASSUME NEW S, NEW s \in Seq(S), NoRepeat(s), NEW j \in S
  PROVE  /\ Enqueued(s, j) \in Seq(S) /\ NoRepeat(Enqueued(s, j))
         /\ ToSet(Enqueued(s, j)) = ToSet(s) \cup {j}
BY NewLast DEF Enqueued

\* A queue without its first identity.
LEMMA TailDrops ==
  ASSUME NEW S, NEW s \in Seq(S), NoRepeat(s), s # <<>>
  PROVE  /\ Tail(s) \in Seq(S) /\ NoRepeat(Tail(s))
         /\ Head(s) \in ToSet(s) /\ ToSet(Tail(s)) = ToSet(s) \ {Head(s)}
<1>1. PICK n \in Nat : n = Len(s) /\ n > 0 /\ DOMAIN s = 1..n
  BY LenProperties, EmptySeq
<1>2. PICK w : w = Tail(s)
  OBVIOUS
<1>3. /\ w \in Seq(S) /\ Len(w) = n - 1
      /\ \A i \in 1..(n - 1) : w[i] = s[i + 1]
  BY <1>1, <1>2, HeadTailProperties
<1>4. DOMAIN w = 1..(n - 1)
  BY <1>3, LenProperties
<1>5. Head(s) = s[1] /\ 1 \in 1..n
  BY <1>1
<1>6. NoRepeat(w)
  BY <1>1, <1>3 DEF NoRepeat
<1>7. ASSUME NEW x \in ToSet(w)
      PROVE  x \in ToSet(s) \ {Head(s)}
  <2>1. PICK i \in 1..(n - 1) : x = w[i]
    BY <1>4, <1>7 DEF ToSet
  <2>2. i + 1 \in 1..n /\ i + 1 # 1 /\ x = s[i + 1]
    BY <1>1, <1>3, <2>1
  <2> QED
    BY <1>1, <1>5, <2>2 DEF ToSet, NoRepeat
<1>8. ASSUME NEW x \in ToSet(s), x # Head(s)
      PROVE  x \in ToSet(w)
  <2>1. PICK i \in 1..n : x = s[i]
    BY <1>1 DEF ToSet
  <2>2. i - 1 \in 1..(n - 1) /\ (i - 1) + 1 = i
    BY <1>1, <1>5, <1>8, <2>1
  <2>3. w[i - 1] = x
    BY <1>3, <2>1, <2>2
  <2> QED
    BY <1>4, <2>2, <2>3 DEF ToSet
<1> QED
  BY SMTT(30), <1>1, <1>2, <1>3, <1>5, <1>6, <1>7, <1>8 DEF ToSet

\* The orders of a finite set are queues of its members.
LEMMA OrdersHold ==
  ASSUME NEW S, NEW T \in SUBSET S, IsFiniteSet(T), NEW s \in SetToSeqs(T)
  PROVE  s \in Seq(S) /\ NoRepeat(s) /\ ToSet(s) \subseteq T
<1>1. PICK n \in Nat : n = Cardinality(T)
  BY FS_CardinalityType
<1>2. s \in [1..n -> T] /\ \A i, j \in 1..n : i # j => s[i] # s[j]
  BY <1>1 DEF SetToSeqs
<1>3. s \in [1..n -> S]
  BY <1>2
<1>4. s \in Seq(S) /\ Len(s) = n
  BY <1>3
<1> QED
  BY <1>2, <1>4 DEF NoRepeat, ToSet
-----------------------------------------------------------------------------
\* Every set of occurrences is finite.
LEMMA FiniteOccurrences ==
  ASSUME NEW S \in SUBSET Occurrence
  PROVE  IsFiniteSet(S)
<1>1. IsFiniteSet(Times)
  BY FS_Interval, ScheduleAssumption DEF Times
<1>2. IsFiniteSet(Occurrence)
  BY <1>1, FS_Product, ScheduleAssumption DEF Occurrence
<1> QED
  BY <1>2, FS_Subset

\* What the edits of the waiting queue give.
LEMMA MemEdits ==
  ASSUME TypeOK
  PROVE  /\ \A o \in Occurrence : /\ Published(o) \in Seq(Occurrence) /\ NoRepeat(Published(o))
                                  /\ ToSet(Published(o)) \subseteq ToSet(mem) \cup {o}
                                  /\ active = o => Published(o) = mem
                                  /\ PutFirst(mem, o) \in Seq(Occurrence)
                                  /\ NoRepeat(PutFirst(mem, o))
                                  /\ ToSet(PutFirst(mem, o)) = ToSet(mem) \cup {o}
         /\ mem # <<>> => /\ Tail(mem) \in Seq(Occurrence) /\ NoRepeat(Tail(mem))
                          /\ Head(mem) \in ToSet(mem) /\ Head(mem) \in Occurrence
                          /\ ToSet(Tail(mem)) = ToSet(mem) \ {Head(mem)}
         /\ \A s \in SetToSeqs(disk) : /\ s \in Seq(Occurrence) /\ NoRepeat(s)
                                       /\ ToSet(s) \subseteq disk
         /\ <<>> \in Seq(Occurrence) /\ NoRepeat(<<>>) /\ ToSet(<<>>) = {}
         /\ ToSet(mem) \subseteq Occurrence /\ Len(mem) \in Nat
<1>1. mem \in Seq(Occurrence) /\ NoRepeat(mem) /\ disk \in SUBSET Occurrence
  BY DEF TypeOK, QueueOK, StoreOK
<1>2. ASSUME NEW o \in Occurrence
      PROVE  /\ Published(o) \in Seq(Occurrence) /\ NoRepeat(Published(o))
             /\ ToSet(Published(o)) \subseteq ToSet(mem) \cup {o}
             /\ active = o => Published(o) = mem
             /\ PutFirst(mem, o) \in Seq(Occurrence)
             /\ NoRepeat(PutFirst(mem, o))
             /\ ToSet(PutFirst(mem, o)) = ToSet(mem) \cup {o}
  <2>1. /\ PutFirst(mem, o) \in Seq(Occurrence) /\ NoRepeat(PutFirst(mem, o))
        /\ ToSet(PutFirst(mem, o)) = ToSet(mem) \cup {o}
    BY <1>1, PutFirstPuts
  <2>2. /\ Enqueued(mem, o) \in Seq(Occurrence) /\ NoRepeat(Enqueued(mem, o))
        /\ ToSet(Enqueued(mem, o)) = ToSet(mem) \cup {o}
    BY <1>1, EnqueuedAdds
  <2> QED
    BY <1>1, <2>1, <2>2 DEF Published
<1>3. ASSUME mem # <<>>
      PROVE  /\ Tail(mem) \in Seq(Occurrence) /\ NoRepeat(Tail(mem))
             /\ Head(mem) \in ToSet(mem) /\ Head(mem) \in Occurrence
             /\ ToSet(Tail(mem)) = ToSet(mem) \ {Head(mem)}
  BY <1>1, <1>3, TailDrops, HeadTailProperties
<1>4. ASSUME NEW s \in SetToSeqs(disk)
      PROVE  s \in Seq(Occurrence) /\ NoRepeat(s) /\ ToSet(s) \subseteq disk
  BY <1>1, OrdersHold, FiniteOccurrences
<1>5. <<>> \in Seq(Occurrence) /\ NoRepeat(<<>>) /\ ToSet(<<>>) = {}
  BY EmptySeq DEF NoRepeat, ToSet
<1>6. ToSet(mem) \subseteq Occurrence /\ Len(mem) \in Nat
  BY <1>1, LenProperties, ElementOfSeq DEF ToSet
<1> QED
  BY <1>2, <1>3, <1>4, <1>5, <1>6

\* An occurrence is a schedule and a minute.
LEMMA OccurrenceParts ==
  /\ \A o \in Occurrence : o[1] \in Schedules /\ o[2] \in Times /\ o = <<o[1], o[2]>>
  /\ \A s \in Schedules, t \in Times : <<s, t>> \in Occurrence
  /\ Times \subseteq Nat /\ \A t \in Times : t >= 1 /\ t <= MaxTime
  /\ \A s \in Schedules : Due[s] \subseteq Times
  /\ MaxTime \in Nat
BY ScheduleAssumption DEF Occurrence, Times

\* Watermarks only grow.
LEMMA MarksGrow ==
  ASSUME TypeOK, TicksHold, NEW k \in Ticks, TickAdmits(k)
  PROVE  /\ \A s \in Schedules : /\ marks[s] \in Nat /\ marks'[s] \in Nat
                                 /\ marks[s] <= marks'[s]
         /\ Commits(job[k]) => job[k][2] <= marks'[job[k][1]]
         /\ job[k] \in Occurrence
<1>1. job[k] \in Occurrence
  BY DEF TickAdmits, TicksHold
<1>2. marks \in [Schedules -> 0..MaxTime] /\ MaxTime \in Nat
  BY OccurrenceParts DEF TypeOK, StoreOK
<1>3. job[k][1] \in Schedules /\ job[k][2] \in Nat
  BY <1>1, OccurrenceParts
<1>4. CASE UNCHANGED marks /\ ~Commits(job[k])
  BY <1>1, <1>2, <1>4
<1>5. CASE Commits(job[k])
  BY <1>1, <1>2, <1>3, <1>5 DEF Commits
<1> QED
  BY <1>4, <1>5 DEF TickAdmits, store

\* A tick that goes on to its next schedule keeps its type.
LEMMA NextDueTypes ==
  ASSUME TypeOK, NEW k \in Ticks, NEW s, NextDue(k, s), UNCHANGED <<instant, receipts, todo>>
  PROVE  TicksOK'
<1>1. at' = [at EXCEPT ![k] = "look"] /\ at \in [Ticks -> TickAt] /\ "look" \in TickAt
  BY DEF NextDue, Goto, TypeOK, TicksOK, TickAt
<1>2. at' \in [Ticks -> TickAt]
  BY <1>1
<1>3. due' \in [Ticks -> SUBSET Schedules]
  BY DEF NextDue, TypeOK, TicksOK
<1>4. job' \in [Ticks -> Occurrence \cup {NoJob}] /\ tgen' \in [Ticks -> Nat]
  BY DEF NextDue, TypeOK, TicksOK
<1> QED
  BY <1>2, <1>3, <1>4 DEF TypeOK, TicksOK

\* A tick that only moves on keeps its type.
LEMMA GotoTypes ==
  ASSUME TypeOK, NEW k \in Ticks, NEW pc \in TickAt, Goto(k, pc),
         UNCHANGED <<instant, receipts, todo, due, job, tgen>>
  PROVE  TicksOK'
<1>1. at' \in [Ticks -> TickAt]
  BY DEF Goto, TypeOK, TicksOK
<1> QED
  BY <1>1 DEF TypeOK, TicksOK

\* The schedules' document keeps its type.
LEMMA KeepsDocument ==
  ASSUME TypeOK, TicksHold, [Next]_vars
  PROVE  DocumentOK'
<1>1. ASSUME NEW s \in Schedules, Reserve(s)
      PROVE  DocumentOK'
  BY <1>1, OccurrenceParts DEF Reserve, Records, DocumentOK, TypeOK, document,
    store, consumer, ticks, stopping, history, bounds
<1>2. ASSUME NEW s \in Schedules, Delete(s)
      PROVE  DocumentOK'
  BY <1>2 DEF Delete, DocumentOK, TypeOK, document, store, consumer, ticks,
    stopping, history, bounds
<1>3. ASSUME NEW k \in Ticks, TickClaims(k)
      PROVE  DocumentOK'
  BY <1>3, OccurrenceParts DEF TickClaims, Goto, DocumentOK, StoreOK, TicksOK,
    TicksHold, Projects, Projected, DocumentOK, TypeOK, document, store,
    consumer, ticks, stopping, history, bounds
<1>4. ASSUME NEW k \in Ticks, NEW s \in Schedules, TickProjects(k, s)
      PROVE  DocumentOK'
  BY <1>4, OccurrenceParts DEF TickProjects, DocumentOK, StoreOK, TicksOK,
    TicksHold, Projects, Projected, DocumentOK, TypeOK, document, store,
    consumer, ticks, stopping, history, bounds
<1>5. CASE Restart
  BY <1>5 DEF Restart, DocumentOK, TypeOK, document, store, consumer, ticks,
    stopping, history, bounds
<1>6. CASE UNCHANGED <<document>>
  BY <1>6 DEF DocumentOK, TypeOK, document, store, consumer, ticks, stopping,
    history, bounds
<1> QED
  BY <1>1, <1>2, <1>3, <1>4, <1>5, <1>6 DEF Next, TickStep, ConsumerStep,
    Advance, TickBegins, TickInspected, TickAdmits, TickPublishes,
    TickAnnounces, TickEnds, TickLooks, Take, RunsDry, Complete, CleanupTurn,
    Retain, StopSignals, StopClears, ClearsEntries, Commits, Consumed, Fault,
    Goto, NextDue, StillDue, Wakes, vars, document, store, consumer, ticks,
    stopping, history, bounds

\* The queue store keeps its type.
LEMMA KeepsStore ==
  ASSUME TypeOK, TicksHold, [Next]_vars
  PROVE  StoreOK'
<1>1. ASSUME NEW k \in Ticks, TickAdmits(k)
      PROVE  StoreOK'
  BY <1>1, OccurrenceParts DEF TickAdmits, Commits, Consumed, NextDue, Goto,
    Fault, TicksHold, StoreOK, TypeOK, document, store, consumer, ticks,
    stopping, history, bounds
<1>2. CASE Complete
  BY <1>2 DEF Complete, StoreOK, TypeOK, document, store, consumer, ticks,
    stopping, history, bounds
<1>3. CASE StopClears
  BY <1>3 DEF StopClears, ClearsEntries, StoreOK, TypeOK, document, store,
    consumer, ticks, stopping, history, bounds
<1>4. CASE UNCHANGED <<store>>
  BY <1>4 DEF StoreOK, TypeOK, document, store, consumer, ticks, stopping,
    history, bounds
<1> QED
  BY <1>1, <1>2, <1>3, <1>4 DEF Next, TickStep, ConsumerStep, Advance,
    Reserve, Delete, TickBegins, TickInspected, TickPublishes, TickClaims,
    TickAnnounces, TickEnds, TickProjects, TickLooks, Take, RunsDry,
    CleanupTurn, Retain, StopSignals, Restart, Goto, NextDue, StillDue, Wakes,
    vars, document, store, consumer, ticks, stopping, history, bounds

\* The queue and its consumer keep their types.
LEMMA KeepsQueue ==
  ASSUME TypeOK, TicksHold, [Next]_vars
  PROVE  QueueOK'
<1>1. ASSUME NEW k \in Ticks, TickPublishes(k)
      PROVE  QueueOK'
  BY <1>1, MemEdits DEF TickPublishes, NextDue, Goto, TicksHold, QueueOK,
    StoreOK, TypeOK, document, store, consumer, ticks, stopping, history,
    bounds
<1>2. ASSUME NEW k \in Ticks, TickAnnounces(k)
      PROVE  QueueOK'
  BY <1>2 DEF TickAnnounces, NextDue, Goto, Wakes, TicksOK, QueueOK, StoreOK,
    TypeOK, document, store, consumer, ticks, stopping, history, bounds
<1>3. CASE Take
  BY <1>3, MemEdits DEF Take, QueueOK, StoreOK, TypeOK, document, store,
    consumer, ticks, stopping, history, bounds
<1>4. CASE RunsDry
  BY <1>4 DEF RunsDry, QueueOK, StoreOK, TypeOK, document, store, consumer,
    ticks, stopping, history, bounds
<1>5. CASE CleanupTurn
  BY <1>5 DEF CleanupTurn, QueueOK, StoreOK, TypeOK, document, store,
    consumer, ticks, stopping, history, bounds
<1>6. CASE Retain
  BY <1>6, MemEdits DEF Retain, QueueOK, StoreOK, TypeOK, document, store,
    consumer, ticks, stopping, history, bounds
<1>7. CASE StopSignals
  BY <1>7 DEF StopSignals, QueueOK, StoreOK, TypeOK, document, store,
    consumer, ticks, stopping, history, bounds
<1>8. CASE StopClears
  BY <1>8, MemEdits DEF StopClears, ClearsEntries, QueueOK, StoreOK, TypeOK,
    document, store, consumer, ticks, stopping, history, bounds
<1>9. CASE Restart
  BY ZenonT(60), <1>9, MemEdits DEF Restart, QueueOK, StoreOK, TypeOK, document, store,
    consumer, ticks, stopping, history, bounds
<1>10. CASE UNCHANGED <<mem, active, killed, woken>>
  BY <1>10 DEF QueueOK, StoreOK, TypeOK, document, store, consumer, ticks,
    stopping, history, bounds
<1> QED
  BY <1>1, <1>2, <1>3, <1>4, <1>5, <1>6, <1>7, <1>8, <1>9, <1>10 DEF Next,
    TickStep, ConsumerStep, Advance, Reserve, Delete, TickBegins,
    TickInspected, TickAdmits, TickClaims, TickEnds, TickProjects, TickLooks,
    Complete, Commits, Consumed, Fault, Goto, NextDue, StillDue, vars,
    document, store, consumer, ticks, stopping, history, bounds

\* The ticks keep their types.
LEMMA KeepsTicks ==
  ASSUME TypeOK, TicksHold, [Next]_vars
  PROVE  TicksOK'
<1>1. ASSUME NEW k \in Ticks, TickBegins(k)
      PROVE  TicksOK'
  BY <1>1, OccurrenceParts DEF TickBegins, Goto, StoreOK, DocumentOK, Records,
    TicksOK, TickAt, TypeOK, document, store, consumer, ticks, stopping,
    history, bounds
<1>2. ASSUME NEW k \in Ticks, TickInspected(k)
      PROVE  TicksOK'
  BY <1>2, ScheduleAssumption DEF TickInspected, Goto, NoReceipts, TicksOK,
    TickAt, TypeOK, document, store, consumer, ticks, stopping, history,
    bounds
<1>3. ASSUME NEW k \in Ticks, TickAdmits(k)
      PROVE  TicksOK'
  <2>1. CASE Goto(k, "committed") /\ UNCHANGED <<due, job, tgen>>
    BY <1>3, <2>1, GotoTypes DEF TickAdmits, TickAt
  <2>2. CASE NextDue(k, job[k][1])
    BY <1>3, <2>2, NextDueTypes DEF TickAdmits
  <2> QED
    BY <1>3, <2>1, <2>2 DEF TickAdmits
<1>4. ASSUME NEW k \in Ticks, TickPublishes(k)
      PROVE  TicksOK'
  <2>1. CASE Goto(k, "claim") /\ UNCHANGED <<due, job, tgen>>
    BY <1>4, <2>1, GotoTypes DEF TickPublishes, TickAt
  <2>2. CASE NextDue(k, job[k][1])
    BY <1>4, <2>2, NextDueTypes DEF TickPublishes
  <2> QED
    BY <1>4, <2>1, <2>2 DEF TickPublishes
<1>5. ASSUME NEW k \in Ticks, TickClaims(k)
      PROVE  TicksOK'
  BY <1>5, OccurrenceParts DEF TickClaims, Goto, TicksOK, TickAt, TypeOK,
    document, store, consumer, ticks, stopping, history, bounds
<1>6. ASSUME NEW k \in Ticks, TickAnnounces(k)
      PROVE  TicksOK'
  BY <1>6, NextDueTypes DEF TickAnnounces
<1>7. ASSUME NEW k \in Ticks, TickEnds(k)
      PROVE  TicksOK'
  BY <1>7, OccurrenceParts DEF TickEnds, Goto, TicksOK, TickAt, TypeOK,
    document, store, consumer, ticks, stopping, history, bounds
<1>8. ASSUME NEW k \in Ticks, NEW s \in Schedules, TickProjects(k, s)
      PROVE  TicksOK'
  BY <1>8, OccurrenceParts DEF TickProjects, TicksOK, TickAt, TypeOK,
    document, store, consumer, ticks, stopping, history, bounds
<1>9. ASSUME NEW k \in Ticks, NEW s \in Schedules, TickLooks(k, s)
      PROVE  TicksOK'
  <2>1. ASSUME NEW d \in Due[s], Goto(k, "admit"), job' = [job EXCEPT ![k] = <<s, d>>],
               tgen' = [tgen EXCEPT ![k] = gen], UNCHANGED due
        PROVE  TicksOK'
    <3>1. <<s, d>> \in Occurrence /\ gen \in Nat
      BY OccurrenceParts DEF TypeOK, StopOK
    <3>2. at' \in [Ticks -> TickAt]
      BY <2>1 DEF Goto, TypeOK, TicksOK, TickAt
    <3>3. job' \in [Ticks -> Occurrence \cup {NoJob}] /\ tgen' \in [Ticks -> Nat]
      BY <2>1, <3>1 DEF TypeOK, TicksOK
    <3> QED
      BY <1>9, <2>1, <3>2, <3>3 DEF TickLooks, TypeOK, TicksOK
  <2>2. CASE NextDue(k, s)
    BY <1>9, <2>2, NextDueTypes DEF TickLooks
  <2> QED
    BY <1>9, <2>1, <2>2 DEF TickLooks
<1>10. CASE Restart
  BY <1>10, ScheduleAssumption DEF Restart, NoReceipts, TicksOK, TickAt,
    TypeOK, document, store, consumer, ticks, stopping, history, bounds
<1>11. CASE UNCHANGED <<ticks>>
  BY SMTT(30), <1>11 DEF TicksOK, TickAt, TypeOK, document, store, consumer, ticks,
    stopping, history, bounds
<1> QED
  BY <1>1, <1>2, <1>3, <1>4, <1>5, <1>6, <1>7, <1>8, <1>9, <1>10, <1>11 DEF
    Next, TickStep, ConsumerStep, Advance, Reserve, Delete, Take, RunsDry,
    Complete, CleanupTurn, Retain, StopSignals, StopClears, ClearsEntries,
    vars, document, store, consumer, ticks, stopping, history, bounds

\* /stop keeps its type.
LEMMA KeepsStop ==
  ASSUME TypeOK, TicksHold, [Next]_vars
  PROVE  StopOK'
<1>1. CASE StopSignals
  BY <1>1 DEF StopSignals, StopOK, TypeOK, document, store, consumer, ticks,
    stopping, history, bounds
<1>2. CASE StopClears
  BY <1>2 DEF StopClears, ClearsEntries, StopOK, TypeOK, document, store,
    consumer, ticks, stopping, history, bounds
<1>3. CASE Restart
  BY <1>3 DEF Restart, StopOK, TypeOK, document, store, consumer, ticks,
    stopping, history, bounds
<1>4. CASE UNCHANGED <<stopping>>
  BY <1>4 DEF StopOK, TypeOK, document, store, consumer, ticks, stopping,
    history, bounds
<1> QED
  BY <1>1, <1>2, <1>3, <1>4 DEF Next, TickStep, ConsumerStep, Advance,
    Reserve, Delete, TickBegins, TickInspected, TickAdmits, TickPublishes,
    TickClaims, TickAnnounces, TickEnds, TickProjects, TickLooks, Take,
    RunsDry, Complete, CleanupTurn, Retain, Commits, Consumed, Fault, Goto,
    NextDue, StillDue, Wakes, vars, document, store, consumer, ticks,
    stopping, history, bounds

\* What the properties remember keeps its type.
LEMMA KeepsHistory ==
  ASSUME TypeOK, TicksHold, [Next]_vars
  PROVE  HistoryOK'
<1>1. ASSUME NEW s \in Schedules, Delete(s)
      PROVE  HistoryOK'
  BY <1>1 DEF Delete, Records, DocumentOK, HistoryOK, TypeOK, document, store,
    consumer, ticks, stopping, history, bounds
<1>2. ASSUME NEW k \in Ticks, TickAdmits(k)
      PROVE  HistoryOK'
  BY <1>2 DEF TickAdmits, Commits, Consumed, NextDue, Goto, Fault, TicksHold,
    HistoryOK, TypeOK, document, store, consumer, ticks, stopping, history,
    bounds
<1>3. CASE Complete
  BY <1>3 DEF Complete, StoreOK, HistoryOK, TypeOK, document, store, consumer,
    ticks, stopping, history, bounds
<1>4. CASE StopClears
  BY <1>4 DEF StopClears, ClearsEntries, StoreOK, HistoryOK, TypeOK, document,
    store, consumer, ticks, stopping, history, bounds
<1>5. CASE UNCHANGED <<history>>
  BY <1>5 DEF HistoryOK, TypeOK, document, store, consumer, ticks, stopping,
    history, bounds
<1> QED
  BY <1>1, <1>2, <1>3, <1>4, <1>5 DEF Next, TickStep, ConsumerStep, Advance,
    Reserve, TickBegins, TickInspected, TickPublishes, TickClaims,
    TickAnnounces, TickEnds, TickProjects, TickLooks, Take, RunsDry,
    CleanupTurn, Retain, StopSignals, Restart, Goto, NextDue, StillDue, Wakes,
    vars, document, store, consumer, ticks, stopping, history, bounds

\* The bounded events keep to their bounds.
LEMMA KeepsBounds ==
  ASSUME TypeOK, TicksHold, [Next]_vars
  PROVE  BoundsOK'
<1>1. ASSUME NEW k \in Ticks, TickAdmits(k)
      PROVE  BoundsOK'
  BY SMTT(30), <1>1, ScheduleAssumption DEF TickAdmits, Commits, Consumed, NextDue,
    Goto, Fault, BoundsOK, TypeOK, document, store, consumer, ticks, stopping,
    history, bounds
<1>2. ASSUME NEW k \in Ticks, TickClaims(k)
      PROVE  BoundsOK'
  BY <1>2, ScheduleAssumption DEF TickClaims, Goto, Projects, Fault, BoundsOK,
    TypeOK, document, store, consumer, ticks, stopping, history, bounds
<1>3. ASSUME NEW k \in Ticks, NEW s \in Schedules, TickProjects(k, s)
      PROVE  BoundsOK'
  BY <1>3, ScheduleAssumption DEF TickProjects, Projects, Fault, BoundsOK,
    TypeOK, document, store, consumer, ticks, stopping, history, bounds
<1>4. CASE Retain
  BY <1>4, ScheduleAssumption DEF Retain, BoundsOK, TypeOK, document, store,
    consumer, ticks, stopping, history, bounds
<1>5. CASE StopSignals
  BY <1>5, ScheduleAssumption DEF StopSignals, BoundsOK, TypeOK, document,
    store, consumer, ticks, stopping, history, bounds
<1>6. CASE Restart
  BY <1>6, ScheduleAssumption DEF Restart, BoundsOK, TypeOK, document, store,
    consumer, ticks, stopping, history, bounds
<1>7. CASE UNCHANGED <<bounds>>
  BY <1>7 DEF BoundsOK, TypeOK, document, store, consumer, ticks, stopping,
    history, bounds
<1> QED
  BY <1>1, <1>2, <1>3, <1>4, <1>5, <1>6, <1>7 DEF Next, TickStep,
    ConsumerStep, Advance, Reserve, Delete, TickBegins, TickInspected,
    TickPublishes, TickAnnounces, TickEnds, TickLooks, Take, RunsDry,
    Complete, CleanupTurn, StopClears, ClearsEntries, Goto, NextDue, StillDue,
    Wakes, vars, document, store, consumer, ticks, stopping, history, bounds

\* The type invariant is kept.
LEMMA KeepsTypes ==
  ASSUME TypeOK, TicksHold, [Next]_vars
  PROVE  TypeOK'
<1>1. now' \in 0..MaxTime
  BY ScheduleAssumption DEF TypeOK, Next, TickStep, ConsumerStep, Advance, Reserve, Delete,
    TickBegins, TickInspected, TickAdmits, TickPublishes, TickClaims, TickAnnounces, TickEnds,
    TickProjects, TickLooks, Take, RunsDry, Complete, CleanupTurn, Retain, StopSignals,
    StopClears, Restart, vars
<1> QED
  BY <1>1, KeepsDocument, KeepsStore, KeepsQueue, KeepsTicks, KeepsStop, KeepsHistory,
    KeepsBounds DEF TypeOK

\* The stamps stay behind the watermarks.
LEMMA KeepsStamps ==
  ASSUME TypeOK, StampFollowsReceipt, MarksInv, [Next]_vars
  PROVE  StampFollowsReceipt'
<1>1. ASSUME NEW k \in Ticks, TickAdmits(k)
      PROVE  StampFollowsReceipt'
  <2>1. fired' = fired /\ fired \in [Schedules -> 0..MaxTime] /\ MaxTime \in Nat
    BY <1>1, OccurrenceParts DEF TickAdmits, document, TypeOK, DocumentOK
  <2>2. \A s \in Schedules : marks[s] \in Nat /\ marks'[s] \in Nat /\ marks[s] <= marks'[s]
    BY <1>1, MarksGrow DEF MarksInv
  <2> QED
    BY <2>1, <2>2 DEF StampFollowsReceipt
<1>2. ASSUME NEW k \in Ticks, TickClaims(k)
      PROVE  StampFollowsReceipt'
  BY <1>2, OccurrenceParts DEF TickClaims, Goto, Projects, Projected,
    StampFollowsReceipt, MarksInv, ReceiptsMarked, TicksHold, CommittedMarked,
    TypeOK, StoreOK, TicksOK, DocumentOK, document, store, consumer, ticks,
    stopping, history, bounds
<1>3. ASSUME NEW k \in Ticks, NEW s \in Schedules, TickProjects(k, s)
      PROVE  StampFollowsReceipt'
  BY <1>3, OccurrenceParts DEF TickProjects, Projects, Projected,
    StampFollowsReceipt, MarksInv, ReceiptsMarked, TicksHold, CommittedMarked,
    TypeOK, StoreOK, TicksOK, DocumentOK, document, store, consumer, ticks,
    stopping, history, bounds
<1>4. CASE StopClears
  BY <1>4 DEF StopClears, ClearsEntries, StampFollowsReceipt, MarksInv,
    ReceiptsMarked, TicksHold, CommittedMarked, TypeOK, StoreOK, TicksOK,
    DocumentOK, document, store, consumer, ticks, stopping, history, bounds
<1>5. CASE UNCHANGED <<marks, fired>>
  BY <1>5 DEF StampFollowsReceipt, MarksInv, ReceiptsMarked, TicksHold,
    CommittedMarked, TypeOK, StoreOK, TicksOK, DocumentOK, document, store,
    consumer, ticks, stopping, history, bounds
<1> QED
  BY <1>1, <1>2, <1>3, <1>4, <1>5 DEF Next, TickStep, ConsumerStep, Advance,
    Reserve, Delete, TickBegins, TickInspected, TickPublishes, TickAnnounces,
    TickEnds, TickLooks, Take, RunsDry, Complete, CleanupTurn, Retain,
    StopSignals, Restart, Goto, NextDue, StillDue, Wakes, vars, document,
    store, consumer, ticks, stopping, history, bounds

\* What was admitted stays covered by a watermark.
LEMMA KeepsAdmittedMarked ==
  ASSUME TypeOK, TicksHold, AdmittedMarked, [Next]_vars
  PROVE  AdmittedMarked'
<1>1. ASSUME NEW k \in Ticks, TickAdmits(k)
      PROVE  AdmittedMarked'
  <2>1. ASSUME NEW o \in admitted'
        PROVE  o[2] <= marks'[o[1]]
    <3>1. o \in Occurrence /\ (o \in admitted \/ (o = job[k] /\ Commits(job[k])))
      BY <1>1, MarksGrow DEF TickAdmits, Commits, TypeOK, HistoryOK
    <3>2. o[1] \in Schedules /\ o[2] \in Nat
      BY <3>1, OccurrenceParts
    <3> QED
      BY <1>1, <3>1, <3>2, MarksGrow DEF AdmittedMarked
  <2> QED
    BY <2>1 DEF AdmittedMarked
<1>2. CASE StopClears
  BY <1>2 DEF StopClears, ClearsEntries, AdmittedMarked, TicksHold, HistoryOK,
    TypeOK, StoreOK, TicksOK, DocumentOK, document, store, consumer, ticks,
    stopping, history, bounds
<1>3. CASE UNCHANGED <<marks, admitted>>
  BY <1>3 DEF AdmittedMarked, TicksHold, HistoryOK, TypeOK, StoreOK, TicksOK,
    DocumentOK, document, store, consumer, ticks, stopping, history, bounds
<1> QED
  BY <1>1, <1>2, <1>3 DEF Next, TickStep, ConsumerStep, Advance, Reserve,
    Delete, TickBegins, TickInspected, TickPublishes, TickClaims,
    TickAnnounces, TickEnds, TickProjects, TickLooks, Take, RunsDry, Complete,
    CleanupTurn, Retain, StopSignals, Restart, Goto, NextDue, StillDue, Wakes,
    vars, document, store, consumer, ticks, stopping, history, bounds

\* What the ticks read stays covered by a watermark.
LEMMA KeepsReceiptsMarked ==
  ASSUME TypeOK, TicksHold, ReceiptsMarked, [Next]_vars
  PROVE  ReceiptsMarked'
<1>1. ASSUME NEW k \in Ticks, TickBegins(k)
      PROVE  ReceiptsMarked'
  BY <1>1 DEF TickBegins, Goto, ReceiptsMarked, TicksHold, TypeOK, StoreOK,
    TicksOK, DocumentOK, document, store, consumer, ticks, stopping, history,
    bounds
<1>2. ASSUME NEW k \in Ticks, TickInspected(k)
      PROVE  ReceiptsMarked'
  BY <1>2, OccurrenceParts DEF TickInspected, Goto, NoReceipts,
    ReceiptsMarked, TicksHold, TypeOK, StoreOK, TicksOK, DocumentOK, document,
    store, consumer, ticks, stopping, history, bounds
<1>3. ASSUME NEW k \in Ticks, TickAdmits(k)
      PROVE  ReceiptsMarked'
  <2>1. /\ receipts' = receipts /\ receipts \in [Ticks -> [Schedules -> 0..MaxTime]]
        /\ MaxTime \in Nat
    BY <1>3, OccurrenceParts DEF TickAdmits, TypeOK, TicksOK
  <2>2. \A s \in Schedules : marks[s] \in Nat /\ marks'[s] \in Nat /\ marks[s] <= marks'[s]
    BY <1>3, MarksGrow
  <2> QED
    BY <2>1, <2>2 DEF ReceiptsMarked
<1>4. CASE StopClears
  BY <1>4 DEF StopClears, ClearsEntries, ReceiptsMarked, TicksHold, TypeOK,
    StoreOK, TicksOK, DocumentOK, document, store, consumer, ticks, stopping,
    history, bounds
<1>5. CASE Restart
  BY <1>5, OccurrenceParts DEF Restart, NoReceipts, ReceiptsMarked, TicksHold,
    TypeOK, StoreOK, TicksOK, DocumentOK, document, store, consumer, ticks,
    stopping, history, bounds
<1>6. CASE UNCHANGED <<marks, receipts>>
  BY <1>6 DEF ReceiptsMarked, TicksHold, TypeOK, StoreOK, TicksOK, DocumentOK,
    document, store, consumer, ticks, stopping, history, bounds
<1> QED
  BY <1>1, <1>2, <1>3, <1>4, <1>5, <1>6 DEF Next, TickStep, ConsumerStep,
    Advance, Reserve, Delete, TickPublishes, TickClaims, TickAnnounces,
    TickEnds, TickProjects, TickLooks, Take, RunsDry, Complete, CleanupTurn,
    Retain, StopSignals, Goto, NextDue, StillDue, Wakes, vars, document,
    store, consumer, ticks, stopping, history, bounds

\* A tick past its second look holds an occurrence.
LEMMA KeepsTicksHold ==
  ASSUME TypeOK, TicksHold, [Next]_vars
  PROVE  TicksHold'
<1>1. ASSUME NEW k \in Ticks, TickBegins(k)
      PROVE  TicksHold'
  BY <1>1 DEF TickBegins, Goto, TicksHold, TypeOK, StoreOK, TicksOK,
    DocumentOK, document, store, consumer, ticks, stopping, history, bounds
<1>2. ASSUME NEW k \in Ticks, TickInspected(k)
      PROVE  TicksHold'
  BY <1>2 DEF TickInspected, Goto, TicksHold, TypeOK, StoreOK, TicksOK,
    DocumentOK, document, store, consumer, ticks, stopping, history, bounds
<1>3. ASSUME NEW k \in Ticks, TickAdmits(k)
      PROVE  TicksHold'
  BY <1>3 DEF TickAdmits, Commits, Consumed, NextDue, Goto, Fault, TicksHold,
    TypeOK, StoreOK, TicksOK, DocumentOK, document, store, consumer, ticks,
    stopping, history, bounds
<1>4. ASSUME NEW k \in Ticks, TickPublishes(k)
      PROVE  TicksHold'
  BY <1>4 DEF TickPublishes, NextDue, Goto, TicksHold, TypeOK, StoreOK,
    TicksOK, DocumentOK, document, store, consumer, ticks, stopping, history,
    bounds
<1>5. ASSUME NEW k \in Ticks, TickClaims(k)
      PROVE  TicksHold'
  BY <1>5 DEF TickClaims, Goto, TicksHold, TypeOK, StoreOK, TicksOK,
    DocumentOK, document, store, consumer, ticks, stopping, history, bounds
<1>6. ASSUME NEW k \in Ticks, TickAnnounces(k)
      PROVE  TicksHold'
  BY <1>6 DEF TickAnnounces, NextDue, Goto, Wakes, TicksHold, TypeOK, StoreOK,
    TicksOK, DocumentOK, document, store, consumer, ticks, stopping, history,
    bounds
<1>7. ASSUME NEW k \in Ticks, TickEnds(k)
      PROVE  TicksHold'
  BY <1>7 DEF TickEnds, Goto, TicksHold, TypeOK, StoreOK, TicksOK, DocumentOK,
    document, store, consumer, ticks, stopping, history, bounds
<1>8. ASSUME NEW k \in Ticks, NEW s \in Schedules, TickLooks(k, s)
      PROVE  TicksHold'
  BY <1>8, OccurrenceParts DEF TickLooks, NextDue, Goto, StillDue, TicksHold,
    TypeOK, StoreOK, TicksOK, DocumentOK, document, store, consumer, ticks,
    stopping, history, bounds
<1>9. CASE Restart
  BY <1>9 DEF Restart, TicksHold, TypeOK, StoreOK, TicksOK, DocumentOK,
    document, store, consumer, ticks, stopping, history, bounds
<1>10. CASE UNCHANGED <<at, job>>
  BY <1>10 DEF TicksHold, TypeOK, StoreOK, TicksOK, DocumentOK, document,
    store, consumer, ticks, stopping, history, bounds
<1> QED
  BY <1>1, <1>2, <1>3, <1>4, <1>5, <1>6, <1>7, <1>8, <1>9, <1>10 DEF Next,
    TickStep, ConsumerStep, Advance, Reserve, Delete, TickProjects, Take,
    RunsDry, Complete, CleanupTurn, Retain, StopSignals, StopClears,
    ClearsEntries, vars, document, store, consumer, ticks, stopping, history,
    bounds

\* The watermark covers what a tick has committed.
LEMMA KeepsCommittedMarked ==
  ASSUME TypeOK, TicksHold, CommittedMarked, [Next]_vars
  PROVE  CommittedMarked'
<1>1. ASSUME NEW k \in Ticks, TickBegins(k)
      PROVE  CommittedMarked'
  BY <1>1 DEF TickBegins, Goto, CommittedMarked, TicksHold, TypeOK, StoreOK,
    TicksOK, DocumentOK, document, store, consumer, ticks, stopping, history,
    bounds
<1>2. ASSUME NEW k \in Ticks, TickInspected(k)
      PROVE  CommittedMarked'
  BY <1>2 DEF TickInspected, Goto, CommittedMarked, TicksHold, TypeOK,
    StoreOK, TicksOK, DocumentOK, document, store, consumer, ticks, stopping,
    history, bounds
<1>3. ASSUME NEW k \in Ticks, TickAdmits(k)
      PROVE  CommittedMarked'
  <2>1. ASSUME NEW l \in Ticks, at'[l] \in {"committed", "claim"}
        PROVE  job'[l][2] <= marks'[job'[l][1]]
    <3>1. CASE l # k
      <4>1. at[l] \in {"committed", "claim"} /\ job'[l] = job[l]
        BY <1>3, <2>1, <3>1 DEF TickAdmits, NextDue, Goto, TypeOK, TicksOK
      <4>2. job[l][2] <= marks[job[l][1]] /\ job[l][1] \in Schedules /\ job[l][2] \in Nat
        BY <4>1, OccurrenceParts DEF CommittedMarked, TicksHold
      <4> QED
        BY <1>3, <4>1, <4>2, MarksGrow
    <3>2. CASE l = k
      BY <1>3, <2>1, <3>2, MarksGrow DEF TickAdmits, NextDue, Goto, TypeOK, TicksOK
    <3> QED
      BY <3>1, <3>2
  <2> QED
    BY <2>1 DEF CommittedMarked
<1>4. ASSUME NEW k \in Ticks, TickPublishes(k)
      PROVE  CommittedMarked'
  BY <1>4 DEF TickPublishes, NextDue, Goto, CommittedMarked, TicksHold,
    TypeOK, StoreOK, TicksOK, DocumentOK, document, store, consumer, ticks,
    stopping, history, bounds
<1>5. ASSUME NEW k \in Ticks, TickClaims(k)
      PROVE  CommittedMarked'
  BY <1>5 DEF TickClaims, Goto, CommittedMarked, TicksHold, TypeOK, StoreOK,
    TicksOK, DocumentOK, document, store, consumer, ticks, stopping, history,
    bounds
<1>6. ASSUME NEW k \in Ticks, TickAnnounces(k)
      PROVE  CommittedMarked'
  BY <1>6 DEF TickAnnounces, NextDue, Goto, Wakes, CommittedMarked, TicksHold,
    TypeOK, StoreOK, TicksOK, DocumentOK, document, store, consumer, ticks,
    stopping, history, bounds
<1>7. ASSUME NEW k \in Ticks, TickEnds(k)
      PROVE  CommittedMarked'
  BY <1>7 DEF TickEnds, Goto, CommittedMarked, TicksHold, TypeOK, StoreOK,
    TicksOK, DocumentOK, document, store, consumer, ticks, stopping, history,
    bounds
<1>8. ASSUME NEW k \in Ticks, NEW s \in Schedules, TickLooks(k, s)
      PROVE  CommittedMarked'
  BY ZenonT(60), <1>8 DEF TickLooks, NextDue, Goto, StillDue, CommittedMarked, TicksHold,
    TypeOK, StoreOK, TicksOK, DocumentOK, document, store, consumer, ticks,
    stopping, history, bounds
<1>9. CASE StopClears
  BY <1>9 DEF StopClears, ClearsEntries, CommittedMarked, TicksHold, TypeOK,
    StoreOK, TicksOK, DocumentOK, document, store, consumer, ticks, stopping,
    history, bounds
<1>10. CASE Restart
  BY <1>10 DEF Restart, CommittedMarked, TicksHold, TypeOK, StoreOK, TicksOK,
    DocumentOK, document, store, consumer, ticks, stopping, history, bounds
<1>11. CASE UNCHANGED <<marks, at, job>>
  BY <1>11 DEF CommittedMarked, TicksHold, TypeOK, StoreOK, TicksOK,
    DocumentOK, document, store, consumer, ticks, stopping, history, bounds
<1> QED
  BY <1>1, <1>2, <1>3, <1>4, <1>5, <1>6, <1>7, <1>8, <1>9, <1>10, <1>11 DEF
    Next, TickStep, ConsumerStep, Advance, Reserve, Delete, TickProjects,
    Take, RunsDry, Complete, CleanupTurn, Retain, StopSignals, vars, document,
    store, consumer, ticks, stopping, history, bounds

\* The store holds what a tick has committed until it is published.
LEMMA KeepsCommitted ==
  ASSUME TypeOK, TicksHold, CommittedInv, [Next]_vars
  PROVE  CommittedInv'
<1>1. ASSUME NEW k \in Ticks, TickBegins(k)
      PROVE  CommittedInv'
  BY <1>1 DEF TickBegins, Goto, CommittedInv, TicksHold, TypeOK, StoreOK,
    TicksOK, DocumentOK, document, store, consumer, ticks, stopping, history,
    bounds
<1>2. ASSUME NEW k \in Ticks, TickInspected(k)
      PROVE  CommittedInv'
  BY <1>2 DEF TickInspected, Goto, CommittedInv, TicksHold, TypeOK, StoreOK,
    TicksOK, DocumentOK, document, store, consumer, ticks, stopping, history,
    bounds
<1>3. ASSUME NEW k \in Ticks, TickAdmits(k)
      PROVE  CommittedInv'
  BY <1>3 DEF TickAdmits, Commits, Consumed, NextDue, Goto, Fault,
    QueueFileFree, CommittedInv, TicksHold, TypeOK, StoreOK, TicksOK,
    DocumentOK, document, store, consumer, ticks, stopping, history, bounds
<1>4. ASSUME NEW k \in Ticks, TickPublishes(k)
      PROVE  CommittedInv'
  BY <1>4 DEF TickPublishes, NextDue, Goto, CommittedInv, TicksHold, TypeOK,
    StoreOK, TicksOK, DocumentOK, document, store, consumer, ticks, stopping,
    history, bounds
<1>5. ASSUME NEW k \in Ticks, TickClaims(k)
      PROVE  CommittedInv'
  BY <1>5 DEF TickClaims, Goto, CommittedInv, TicksHold, TypeOK, StoreOK,
    TicksOK, DocumentOK, document, store, consumer, ticks, stopping, history,
    bounds
<1>6. ASSUME NEW k \in Ticks, TickAnnounces(k)
      PROVE  CommittedInv'
  BY <1>6 DEF TickAnnounces, NextDue, Goto, Wakes, CommittedInv, TicksHold,
    TypeOK, StoreOK, TicksOK, DocumentOK, document, store, consumer, ticks,
    stopping, history, bounds
<1>7. ASSUME NEW k \in Ticks, TickEnds(k)
      PROVE  CommittedInv'
  BY <1>7 DEF TickEnds, Goto, CommittedInv, TicksHold, TypeOK, StoreOK,
    TicksOK, DocumentOK, document, store, consumer, ticks, stopping, history,
    bounds
<1>8. ASSUME NEW k \in Ticks, NEW s \in Schedules, TickLooks(k, s)
      PROVE  CommittedInv'
  BY SMTT(30), <1>8 DEF TickLooks, NextDue, Goto, StillDue, CommittedInv, TicksHold,
    TypeOK, StoreOK, TicksOK, DocumentOK, document, store, consumer, ticks,
    stopping, history, bounds
<1>9. CASE Complete
  BY <1>9 DEF Complete, QueueFileFree, CommittedInv, TicksHold, TypeOK,
    StoreOK, TicksOK, DocumentOK, document, store, consumer, ticks, stopping,
    history, bounds
<1>10. CASE StopClears
  BY <1>10 DEF StopClears, ClearsEntries, QueueFileFree, CommittedInv,
    TicksHold, TypeOK, StoreOK, TicksOK, DocumentOK, document, store,
    consumer, ticks, stopping, history, bounds
<1>11. CASE Restart
  BY <1>11 DEF Restart, CommittedInv, TicksHold, TypeOK, StoreOK, TicksOK,
    DocumentOK, document, store, consumer, ticks, stopping, history, bounds
<1>12. CASE UNCHANGED <<disk, at, job>>
  BY <1>12 DEF CommittedInv, TicksHold, TypeOK, StoreOK, TicksOK, DocumentOK,
    document, store, consumer, ticks, stopping, history, bounds
<1> QED
  BY <1>1, <1>2, <1>3, <1>4, <1>5, <1>6, <1>7, <1>8, <1>9, <1>10, <1>11, <1>12
    DEF Next, TickStep, ConsumerStep, Advance, Reserve, Delete, TickProjects,
    Take, RunsDry, CleanupTurn, Retain, StopSignals, vars, document, store,
    consumer, ticks, stopping, history, bounds

\* What is stored is apart from what is over.
LEMMA KeepsStored ==
  ASSUME TypeOK, TicksHold, AdmittedMarked, StoredInv, [Next]_vars
  PROVE  StoredInv'
<1>1. ASSUME NEW k \in Ticks, TickAdmits(k)
      PROVE  StoredInv'
  BY SMTT(30), <1>1, OccurrenceParts DEF TickAdmits, Commits, Consumed, NextDue, Goto,
    Fault, StoredInv, AdmittedMarked, TicksHold, TypeOK, StoreOK, TicksOK,
    DocumentOK, document, store, consumer, ticks, stopping, history, bounds
<1>2. CASE Complete
  BY <1>2 DEF Complete, StoredInv, AdmittedMarked, TicksHold, TypeOK, StoreOK,
    TicksOK, DocumentOK, document, store, consumer, ticks, stopping, history,
    bounds
<1>3. CASE StopClears
  BY <1>3 DEF StopClears, ClearsEntries, StoredInv, AdmittedMarked, TicksHold,
    TypeOK, StoreOK, TicksOK, DocumentOK, document, store, consumer, ticks,
    stopping, history, bounds
<1>4. CASE UNCHANGED <<disk, admitted, over>>
  BY <1>4 DEF StoredInv, AdmittedMarked, TicksHold, TypeOK, StoreOK, TicksOK,
    DocumentOK, document, store, consumer, ticks, stopping, history, bounds
<1> QED
  BY <1>1, <1>2, <1>3, <1>4 DEF Next, TickStep, ConsumerStep, Advance,
    Reserve, Delete, TickBegins, TickInspected, TickPublishes, TickClaims,
    TickAnnounces, TickEnds, TickProjects, TickLooks, Take, RunsDry,
    CleanupTurn, Retain, StopSignals, Restart, Goto, NextDue, StillDue, Wakes,
    vars, document, store, consumer, ticks, stopping, history, bounds

\* What waits in memory is stored, and does not run.
LEMMA KeepsWaiting ==
  ASSUME TypeOK, TicksHold, CommittedInv, WaitingInv, [Next]_vars
  PROVE  WaitingInv'
<1>1. ASSUME NEW k \in Ticks, TickAdmits(k)
      PROVE  WaitingInv'
  BY <1>1 DEF TickAdmits, Commits, Consumed, NextDue, Goto, Fault, WaitingInv,
    document, store, consumer, ticks, stopping, history, bounds
<1>2. ASSUME NEW k \in Ticks, TickPublishes(k)
      PROVE  WaitingInv'
  BY <1>2, MemEdits, ScheduleAssumption DEF TickPublishes, NextDue, Goto,
    CommittedInv, TicksHold, WaitingInv, document, store, consumer, ticks,
    stopping, history, bounds
<1>3. CASE Take
  BY <1>3, MemEdits, ScheduleAssumption DEF Take, QueueOK, WaitingInv,
    document, store, consumer, ticks, stopping, history, bounds
<1>4. CASE Complete
  BY <1>4, MemEdits, ScheduleAssumption DEF Complete, WaitingInv, document,
    store, consumer, ticks, stopping, history, bounds
<1>5. CASE CleanupTurn
  BY <1>5, MemEdits, ScheduleAssumption DEF CleanupTurn, WaitingInv, document,
    store, consumer, ticks, stopping, history, bounds
<1>6. CASE Retain
  BY <1>6, MemEdits, ScheduleAssumption DEF Retain, QueueOK, StoreOK, TypeOK,
    WaitingInv, document, store, consumer, ticks, stopping, history, bounds
<1>7. CASE StopClears
  BY <1>7, MemEdits, ScheduleAssumption DEF StopClears, ClearsEntries,
    WaitingInv, document, store, consumer, ticks, stopping, history, bounds
<1>8. CASE Restart
  BY <1>8, MemEdits, ScheduleAssumption DEF Restart, StoreOK, TypeOK,
    WaitingInv, document, store, consumer, ticks, stopping, history, bounds
<1>9. CASE UNCHANGED <<disk, mem, active>>
  BY <1>9 DEF WaitingInv, document, store, consumer, ticks, stopping, history,
    bounds
<1> QED
  BY <1>1, <1>2, <1>3, <1>4, <1>5, <1>6, <1>7, <1>8, <1>9 DEF Next, TickStep,
    ConsumerStep, Advance, Reserve, Delete, TickBegins, TickInspected,
    TickClaims, TickAnnounces, TickEnds, TickProjects, TickLooks, RunsDry,
    StopSignals, Goto, NextDue, StillDue, Wakes, vars, document, store,
    consumer, ticks, stopping, history, bounds

\* A deleted schedule stays out of the document and of the admissions.
LEMMA KeepsDeleted ==
  ASSUME TypeOK, TicksHold, DeletedInv, [Next]_vars
  PROVE  DeletedInv'
<1>1. ASSUME NEW s \in Schedules, Reserve(s)
      PROVE  DeletedInv'
  BY <1>1, OccurrenceParts DEF Reserve, Records, WorkspaceFree, DeletedInv,
    TicksHold, TypeOK, DocumentOK, TicksOK, HistoryOK, document, store,
    consumer, ticks, stopping, history, bounds
<1>2. ASSUME NEW s \in Schedules, Delete(s)
      PROVE  DeletedInv'
  BY <1>2 DEF Delete, Records, WorkspaceFree, DeletedInv, TicksHold, TypeOK,
    DocumentOK, TicksOK, HistoryOK, document, store, consumer, ticks,
    stopping, history, bounds
<1>3. ASSUME NEW k \in Ticks, TickBegins(k)
      PROVE  DeletedInv'
  BY <1>3 DEF TickBegins, Goto, DeletedInv, TicksHold, TypeOK, DocumentOK,
    TicksOK, HistoryOK, document, store, consumer, ticks, stopping, history,
    bounds
<1>4. ASSUME NEW k \in Ticks, TickInspected(k)
      PROVE  DeletedInv'
  BY <1>4 DEF TickInspected, Goto, DeletedInv, TicksHold, TypeOK, DocumentOK,
    TicksOK, HistoryOK, document, store, consumer, ticks, stopping, history,
    bounds
<1>5. ASSUME NEW k \in Ticks, TickAdmits(k)
      PROVE  DeletedInv'
  BY <1>5 DEF TickAdmits, Commits, Consumed, NextDue, Goto, Fault, DeletedInv,
    TicksHold, TypeOK, DocumentOK, TicksOK, HistoryOK, document, store,
    consumer, ticks, stopping, history, bounds
<1>6. ASSUME NEW k \in Ticks, TickPublishes(k)
      PROVE  DeletedInv'
  BY <1>6 DEF TickPublishes, NextDue, Goto, DeletedInv, TicksHold, TypeOK,
    DocumentOK, TicksOK, HistoryOK, document, store, consumer, ticks,
    stopping, history, bounds
<1>7. ASSUME NEW k \in Ticks, TickClaims(k)
      PROVE  DeletedInv'
  BY <1>7 DEF TickClaims, Goto, DeletedInv, TicksHold, TypeOK, DocumentOK,
    TicksOK, HistoryOK, document, store, consumer, ticks, stopping, history,
    bounds
<1>8. ASSUME NEW k \in Ticks, TickAnnounces(k)
      PROVE  DeletedInv'
  BY <1>8 DEF TickAnnounces, NextDue, Goto, Wakes, DeletedInv, TicksHold,
    TypeOK, DocumentOK, TicksOK, HistoryOK, document, store, consumer, ticks,
    stopping, history, bounds
<1>9. ASSUME NEW k \in Ticks, TickEnds(k)
      PROVE  DeletedInv'
  BY <1>9 DEF TickEnds, Goto, DeletedInv, TicksHold, TypeOK, DocumentOK,
    TicksOK, HistoryOK, document, store, consumer, ticks, stopping, history,
    bounds
<1>10. ASSUME NEW k \in Ticks, NEW s \in Schedules, TickLooks(k, s)
      PROVE  DeletedInv'
  BY <1>10, OccurrenceParts DEF TickLooks, NextDue, Goto, StillDue, Records,
    DeletedInv, TicksHold, TypeOK, DocumentOK, TicksOK, HistoryOK, document,
    store, consumer, ticks, stopping, history, bounds
<1>11. CASE Restart
  BY <1>11 DEF Restart, DeletedInv, TicksHold, TypeOK, DocumentOK, TicksOK,
    HistoryOK, document, store, consumer, ticks, stopping, history, bounds
<1>12. CASE UNCHANGED <<file, deleted, at, job>>
  BY <1>12 DEF DeletedInv, TicksHold, TypeOK, DocumentOK, TicksOK, HistoryOK,
    document, store, consumer, ticks, stopping, history, bounds
<1> QED
  BY <1>1, <1>2, <1>3, <1>4, <1>5, <1>6, <1>7, <1>8, <1>9, <1>10, <1>11, <1>12
    DEF Next, TickStep, ConsumerStep, Advance, TickProjects, Take, RunsDry,
    Complete, CleanupTurn, Retain, StopSignals, StopClears, ClearsEntries,
    vars, document, store, consumer, ticks, stopping, history, bounds

\* The invariant holds at first.
LEMMA FirstInv ==
  ASSUME Init
  PROVE  ScheduleInv
<1>1. <<>> \in Seq(Occurrence) /\ NoRepeat(<<>>) /\ ToSet(<<>>) = {}
  BY EmptySeq DEF NoRepeat, ToSet
<1>2. TypeOK
  <2>1. MaxTime \in Nat /\ now = 0 /\ HistoryOK /\ StopOK /\ BoundsOK
    BY ScheduleAssumption DEF Init, HistoryOK, StopOK, BoundsOK
  <2>2. NoReceipts \in [Schedules -> 0..MaxTime]
    BY <2>1 DEF NoReceipts
  <2>3. DocumentOK /\ StoreOK
    <3>1. created = NoReceipts /\ fired = NoReceipts /\ marks = NoReceipts
      BY DEF Init, NoReceipts
    <3> QED
      BY <2>2, <3>1 DEF Init, DocumentOK, StoreOK
  <2>5. QueueOK
    BY <1>1 DEF Init, QueueOK
  <2>4. TicksOK
    BY <2>1, <2>2 DEF Init, TicksOK, TickAt
  <2> QED
    BY <2>1, <2>3, <2>4, <2>5 DEF TypeOK
<1>3. StampFollowsReceipt /\ MarksInv
  BY DEF Init, NoReceipts, StampFollowsReceipt, MarksInv, AdmittedMarked, ReceiptsMarked,
    TicksHold, CommittedMarked
<1>4. WorkInv /\ DeletedInv
  BY <1>1 DEF Init, WorkInv, StoredInv, WaitingInv, CommittedInv, DeletedInv
<1> QED
  BY <1>2, <1>3, <1>4 DEF ScheduleInv

\* Every step keeps the invariant.
LEMMA StepInv ==
  ASSUME ScheduleInv, [Next]_vars
  PROVE  ScheduleInv'
<1>1. TypeOK' /\ StampFollowsReceipt' /\ DeletedInv'
  BY KeepsTypes, KeepsStamps, KeepsDeleted DEF ScheduleInv, MarksInv
<1>2. MarksInv'
  BY KeepsAdmittedMarked, KeepsReceiptsMarked, KeepsTicksHold, KeepsCommittedMarked
    DEF ScheduleInv, MarksInv
<1>3. WorkInv'
  BY KeepsStored, KeepsWaiting, KeepsCommitted DEF ScheduleInv, MarksInv, WorkInv
<1> QED
  BY <1>1, <1>2, <1>3 DEF ScheduleInv

\* The locks, the watermarks and the queue agree in every reachable state.
THEOREM ScheduleInvariant == Spec => []ScheduleInv
<1>1. Init => ScheduleInv
  BY FirstInv
<1>2. ScheduleInv /\ [Next]_vars => ScheduleInv'
  BY StepInv
<1> QED
  BY <1>1, <1>2, PTL DEF Spec

\* Every variable keeps its type, and nothing waits twice.
THEOREM ScheduleTypes == Spec => []TypeOK
<1>1. ScheduleInv => TypeOK
  BY DEF ScheduleInv
<1> QED
  BY <1>1, ScheduleInvariant, PTL

\* last_fired in schedules.json never runs ahead of the queue store, so that a
\* crash between the two writes loses no occurrence.
THEOREM StampsFollow == Spec => []StampFollowsReceipt
<1>1. ScheduleInv => StampFollowsReceipt
  BY DEF ScheduleInv
<1> QED
  BY <1>1, ScheduleInvariant, PTL

\* Only the admission of a new occurrence adds to the store.
LEMMA NewEntries ==
  ASSUME ScheduleInv, [Next]_vars, NEW o \in Occurrence, o \notin disk, o \in disk'
  PROVE  /\ marks' = [marks EXCEPT ![o[1]] = IF @ < o[2] THEN o[2] ELSE @]
         /\ disk' = disk \cup {o} /\ marks[o[1]] < o[2]
         /\ \E k \in Ticks : at[k] = "admit" /\ job[k] = o
<1>1. PICK k \in Ticks : TickAdmits(k)
  BY DEF Next, TickStep, ConsumerStep, Advance, Reserve, Delete, TickBegins, TickInspected,
    TickPublishes, TickClaims, TickAnnounces, TickEnds, TickProjects, TickLooks, Take,
    RunsDry, Complete, CleanupTurn, Retain, StopSignals, StopClears, ClearsEntries,
    Restart, vars, document, store, consumer, ticks, stopping, history, bounds
<1>2. /\ at[k] = "admit" /\ Commits(job[k]) /\ ~Consumed(job[k]) /\ job[k] = o
  BY <1>1 DEF TickAdmits, Commits, store
<1>3. marks[o[1]] \in Nat /\ o[2] \in Nat
  BY OccurrenceParts DEF ScheduleInv, TypeOK, StoreOK
<1> QED
  BY <1>2, <1>3 DEF Commits, Consumed

\* A due time becomes an entry at most once, whatever fails, stops, overlaps or
\* restarts.
THEOREM AdmittedOnce == Spec => NeverTwice
<1>1. ASSUME ScheduleInv, [Next]_vars
      PROVE  [\A o \in Occurrence : o \notin disk /\ o \in disk' => o \notin admitted]_vars
  <2>1. ASSUME NEW o \in Occurrence, o \notin disk, o \in disk'
        PROVE  o \notin admitted
    <3>1. marks[o[1]] < o[2] /\ marks[o[1]] \in Nat /\ o[2] \in Nat
      BY <1>1, <2>1, NewEntries, OccurrenceParts DEF ScheduleInv, TypeOK, StoreOK
    <3> QED
      BY <1>1, <3>1 DEF ScheduleInv, MarksInv, AdmittedMarked
  <2> QED
    BY <2>1
<1> QED
  BY <1>1, ScheduleInvariant, PTL DEF Spec, NeverTwice

\* What was completed or stopped does not reach the agent again.
THEOREM OverStaysOver == Spec => NeverRestarted
<1>1. ASSUME ScheduleInv, [Next]_vars
      PROVE  [active' # active /\ active' # NoJob => active' \notin over]_vars
  <2>1. ASSUME active' # active, active' # NoJob
        PROVE  active' \notin over
    <3>1. Take
      BY <1>1, <2>1 DEF Next, TickStep, ConsumerStep, Advance, Reserve, Delete, TickBegins,
        TickInspected, TickAdmits, TickPublishes, TickClaims, TickAnnounces, TickEnds,
        TickProjects, TickLooks, RunsDry, Complete, CleanupTurn, Retain, StopSignals,
        StopClears, Restart, vars, document, store, consumer, ticks, stopping, history, bounds
    <3>2. active' = Head(mem) /\ mem # <<>>
      BY <3>1 DEF Take
    <3>3. Head(mem) \in ToSet(mem)
      BY <1>1, <3>2, MemEdits DEF ScheduleInv
    <3> QED
      BY <1>1, <3>2, <3>3 DEF ScheduleInv, WorkInv, StoredInv, WaitingInv
  <2> QED
    BY <2>1
<1> QED
  BY <1>1, ScheduleInvariant, PTL DEF Spec, NeverRestarted

\* A deleted schedule is not admitted, however long its tick has waited.
THEOREM DeletedNeverAdmitted == Spec => DeletedStaysQuiet
<1>1. ASSUME ScheduleInv, [Next]_vars
      PROVE  [\A o \in Occurrence : o \notin disk /\ o \in disk' => o[1] \notin deleted]_vars
  BY <1>1, NewEntries DEF ScheduleInv, DeletedInv
<1> QED
  BY <1>1, ScheduleInvariant, PTL DEF Spec, DeletedStaysQuiet

\* An occurrence is admitted once, run once, and for a schedule that exists.
THEOREM OncePerOccurrenceHolds == Spec => OncePerOccurrence
  BY AdmittedOnce, OverStaysOver, DeletedNeverAdmitted DEF OncePerOccurrence

\* Scheduling implements ScheduleOccurrences: watermarks are its memory and the
\* entries of the store its jobs.
THEOREM SchedulingImplements == Spec => KeepsOccurrences
<1>1. Init => Abstract!OccurrencesInit
  BY DEF Init, Abstract!OccurrencesInit
<1>2. ASSUME ScheduleInv, [Next]_vars
      PROVE  [Abstract!OccurrencesNext]_<<marks, disk>>
  <2>1. ASSUME NEW o \in Occurrence, o \notin disk, o \in disk'
        PROVE  Abstract!OccurrencesNext
    <3>1. Abstract!Occur(o[1], o[2])
      BY <1>2, <2>1, NewEntries, OccurrenceParts DEF Abstract!Occur
    <3> QED
      BY <3>1, OccurrenceParts DEF Abstract!OccurrencesNext
  <2>2. CASE disk' \subseteq disk /\ marks' = marks
    BY <2>2 DEF Abstract!OccurrencesNext, Abstract!End
  <2>3. ASSUME NEW k \in Ticks, TickAdmits(k), disk' \subseteq disk
        PROVE  marks' = marks
    <3>1. CASE Commits(job[k])
      <4>1. job[k] \in admitted /\ job[k] \in Occurrence
        <5>1. job[k] \in disk
          BY <2>3, <3>1 DEF Commits
        <5> QED
          BY <1>2, <5>1 DEF ScheduleInv, WorkInv, StoredInv, TypeOK, StoreOK
      <4>2. job[k][2] <= marks[job[k][1]]
        BY <1>2, <4>1 DEF ScheduleInv, MarksInv, AdmittedMarked
      <4>3. marks \in [Schedules -> 0..MaxTime] /\ job[k][1] \in Schedules /\ job[k][2] \in Nat
        BY <1>2, <4>1, OccurrenceParts DEF ScheduleInv, TypeOK, StoreOK
      <4> QED
        BY <3>1, <4>2, <4>3, OccurrenceParts DEF Commits
    <3> QED
      BY <2>3, <3>1 DEF TickAdmits, store
  <2>4. (\E k \in Ticks : TickAdmits(k)) \/ marks' = marks
    BY <1>2 DEF Next, TickStep, ConsumerStep, Advance, Reserve, Delete, TickBegins,
      TickInspected, TickPublishes, TickClaims, TickAnnounces, TickEnds, TickProjects,
      TickLooks, Take, RunsDry, Complete, CleanupTurn, Retain, StopSignals, StopClears,
      ClearsEntries, Restart, vars, document, store, consumer, ticks, stopping, history, bounds
  <2>5. disk' \subseteq Occurrence
    BY <1>2, StepInv DEF ScheduleInv, TypeOK, StoreOK
  <2> QED
    BY <2>1, <2>2, <2>3, <2>4, <2>5
<1> QED
  BY <1>1, <1>2, ScheduleInvariant, PTL DEF Spec, KeepsOccurrences, Abstract!Occurrences
===============================================================================
