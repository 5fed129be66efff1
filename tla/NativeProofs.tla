---------------------------- MODULE NativeProofs ----------------------------
(***************************************************************************)
(* What the record of a native conversation is worth, for all jobs and     *)
(* workers, faults and deletions: ledgers are true, conversations are      *)
(* driven by one worker and belong to one generation, and a prompt that    *)
(* leaves out what is known leaves out nothing else.                       *)
(***************************************************************************)
EXTENDS NativeSessions, SequenceTheorems, TLAPS

-----------------------------------------------------------------------------
(* Types.                                                                  *)

\* What a record is made of.
Ledgers == [sid : Maybe(Nat), known : SUBSET Nat, section : Maybe(0..MaxEvents), request : Maybe(Jobs)]

LEMMA RecordParts ==
  ASSUME NEW r \in Records
  PROVE  /\ r.sid \in Maybe(Nat) /\ r.told \in Ledgers
         /\ r.told.sid \in Maybe(Nat) /\ r.told.known \subseteq Nat
         /\ r.told.section \in Maybe(0..MaxEvents) /\ r.told.request \in Maybe(Jobs)
  BY DEF Records, Ledgers

LEMMA RecordsMade ==
  /\ Blank \in Records /\ Blank.sid = None /\ Blank.told.sid = None
  /\ \A r \in Records, s \in Maybe(Nat) :
       /\ [r EXCEPT !.sid = s] \in Records
       /\ [r EXCEPT !.sid = s].sid = s /\ [r EXCEPT !.sid = s].told = r.told
  /\ \A r \in Records, t \in Ledgers :
       /\ [r EXCEPT !.told = t] \in Records
       /\ [r EXCEPT !.told = t].sid = r.sid /\ [r EXCEPT !.told = t].told = t
<1>1. NoLedger \in Ledgers
  BY DEF NoLedger, Ledgers, Maybe
<1>2. Records = [sid : Maybe(Nat), told : Ledgers]
  BY DEF Records, Ledgers
<1>3. Blank \in Records /\ Blank.sid = None /\ Blank.told.sid = None
  BY <1>1, <1>2 DEF Blank, Maybe, NoLedger
<1>4. QED
  BY <1>2, <1>3

\* A ledger that counts.
LEMMA MatchingType ==
  ASSUME NEW r \in Records
  PROVE  /\ Matching(r) \in Ledgers
         /\ Matching(r) = r.told \/ (Matching(r) = NoLedger /\ Matching(r).known = {})
         /\ r.sid # None /\ r.told.sid = r.sid => Matching(r) = r.told
         /\ Matching(r).section # None => r.sid # None /\ r.told.sid = r.sid
         /\ Matching(r).request # None => r.sid # None /\ r.told.sid = r.sid
         /\ Matching(r).known # {} => r.sid # None /\ r.told.sid = r.sid
<1>1. NoLedger \in Ledgers /\ NoLedger.known = {} /\ NoLedger.section = None /\ NoLedger.request = None
  BY DEF NoLedger, Ledgers, Maybe
<1>2. QED
  BY <1>1, RecordParts DEF Matching

\* What a worker's place may become.
LEMMA TasksMade ==
  /\ Off \in Tasks /\ Off.at = "off" /\ Off.sid = None /\ Off.delivered = None /\ Off.answered = FALSE
  /\ \A t \in Tasks, a \in Held \cup {"off", "want"} : [t EXCEPT !.at = a] \in Tasks
  /\ [Off EXCEPT !.at = "want"] \in Tasks
  BY ZenonT(60) DEF Off, Tasks, Maybe, Held

-----------------------------------------------------------------------------
(* What a step does to the records.                                        *)

\* What the steps keep; that conversations are driven once follows from it.
Kept ==
  TypeOK /\ LinesInv /\ WorkersInv /\ ConversationsApart /\ RunInv /\ LogInv /\ LedgerTrue

\* What the types say of the turn and of the workers.
LEMMA Shape ==
  ASSUME Kept
  PROVE  /\ task \in [Workers -> Tasks] /\ lane \in Maybe(Workers)
         /\ turn.seen \in Nat /\ turn.section \in 0..MaxEvents /\ turn.job \in Maybe(Jobs)
         /\ turn.owed \in SUBSET Workers /\ turn.pair \in Nat
         /\ logged \in Seq(Said) /\ has \in Seq(SUBSET Texts) /\ turns \in 0..MaxTurns
         /\ cache \in [DOMAIN cache -> Records] /\ DOMAIN cache \subseteq Nat
<1>1. /\ turn \in [job : Maybe(Jobs), seen : Nat, section : 0..MaxEvents, pair : Nat,
                  reply : Maybe(Said), owed : SUBSET Workers]
      /\ task \in [Workers -> Tasks] /\ lane \in Maybe(Workers)
      /\ logged \in Seq(Said) /\ has \in Seq(SUBSET Texts) /\ turns \in 0..MaxTurns
      /\ cache \in [DOMAIN cache -> Records] /\ DOMAIN cache \subseteq Nat
  BY ZenonT(60) DEF Kept, TypeOK
<1>2. QED
  BY <1>1

\* Where a turn and the workers stand.
LEMMA Where ==
  ASSUME Kept
  PROVE  /\ \A w \in Workers : (lane = w <=> task[w].at \in Held)
         /\ turn.seen <= Len(logged)
  BY ZenonT(60) DEF Kept, WorkersInv

\* A record in memory is replaced, and perhaps the one on the disk.
Puts(g, r) ==
  /\ g \in DOMAIN cache /\ r \in Records
  /\ cache' = [cache EXCEPT ![g] = r]
  /\ gens' \in Seq(Records) /\ DOMAIN gens' = DOMAIN gens
  /\ \A h \in DOMAIN gens : gens'[h] = gens[h] \/ (h = g /\ gens'[h] = r)

LEMMA WrotePuts ==
  ASSUME TypeOK, LinesInv, NEW g \in DOMAIN cache, NEW r \in Records, Wrote(g, r)
  PROVE  /\ gens' \in Seq(Records) /\ DOMAIN gens' = DOMAIN gens
         /\ \A h \in DOMAIN gens : gens'[h] = gens[h] \/ (h = g /\ gens'[h] = r)
<1>1. CASE deleted
  BY <1>1 DEF TypeOK, Wrote
<1>2. CASE ~deleted
  <2>1. gens \in Seq(Records) /\ g \in DOMAIN gens /\ gens' = [gens EXCEPT ![g] = r]
    BY <1>2 DEF TypeOK, LinesInv, Wrote
  <2>2. gens' \in Seq(Records)
    BY <2>1, ExceptSeq
  <2>3. QED
    BY <2>1, <2>2
<1>3. QED
  BY <1>1, <1>2

LEMMA SavesPuts ==
  ASSUME TypeOK, LinesInv, NEW g \in DOMAIN cache, NEW r \in Records, Saves(g, r)
  PROVE  Puts(g, r)
  BY WrotePuts DEF Saves, Puts

\* What is known of a worker that has a generation.
LEMMA WorkerFacts ==
  ASSUME Kept, NEW w \in Workers, task[w].at \in Held \ {"select"}
  PROVE  /\ task[w] \in Tasks /\ task[w].gen \in DOMAIN cache /\ task[w].gen \in Nat
         /\ Record(w) = cache[task[w].gen] /\ Record(w) \in Records /\ True(Record(w))
         /\ lane = w /\ JobOf[w] = turn.job /\ JobOf[w] \in Jobs /\ turn.pair = 0 /\ turn.owed = {}
<1>1. task[w] \in Tasks /\ DOMAIN cache \subseteq Nat /\ cache \in [DOMAIN cache -> Records]
  BY DEF Kept, TypeOK
<1>2. /\ task[w].gen \in DOMAIN cache /\ lane = w /\ JobOf[w] = turn.job /\ turn.pair = 0
  BY DEF Kept, WorkersInv, Held
<1>3. turn.owed = {}
  BY <1>2 DEF Kept, LogInv
<1>4. JobOf[w] \in Jobs
  BY NativeAssumption DEF NativeAssumption
<1>5. QED
  BY <1>1, <1>2, <1>3, <1>4 DEF Record, Kept, LedgerTrue

\* Only one worker has the lane.
LEMMA LaneOnce ==
  ASSUME Kept, NEW v \in Workers, NEW w \in Workers, task[v].at \in Held, task[w].at \in Held
  PROVE  v = w
  BY DEF Kept, WorkersInv

\* After the log no worker is left.
LEMMA NoneLeft ==
  ASSUME Kept, turn.pair # 0
  PROVE  \A w \in Workers : task[w].at = "off"
  BY DEF Kept, WorkersInv

\* The ledger after the request was given, and after the turn was logged.
Acked(w) ==
  [Record(w) EXCEPT !.told = [sid |-> Record(w).sid, section |-> turn.section, request |-> JobOf[w],
                              known |-> Matching(Record(w)).known \cup task[w].shown]]
LEMMA AckedRecord ==
  ASSUME Kept, NEW w \in Workers, At(w, "run")
  PROVE  /\ Acked(w) \in Records /\ Acked(w).sid = Record(w).sid
         /\ Acked(w).told = [sid |-> Record(w).sid, section |-> turn.section, request |-> JobOf[w],
                             known |-> Matching(Record(w)).known \cup task[w].shown]
<1>1. /\ Record(w) \in Records /\ JobOf[w] \in Jobs /\ task[w] \in Tasks
  BY WorkerFacts DEF At, Held
<1>2. /\ Matching(Record(w)).known \subseteq Nat /\ task[w].shown \subseteq Nat
      /\ Record(w).sid \in Maybe(Nat) /\ turn.section \in 0..MaxEvents
  BY <1>1, MatchingType, RecordParts DEF Tasks, Ledgers, Kept, TypeOK
<1>3. [sid |-> Record(w).sid, section |-> turn.section, request |-> JobOf[w],
       known |-> Matching(Record(w)).known \cup task[w].shown] \in Ledgers
  BY <1>1, <1>2 DEF Ledgers, Maybe
<1>4. QED
  BY ZenonT(60), <1>1, <1>3, RecordsMade DEF Acked

LEMMA OwedFacts ==
  ASSUME Kept, NEW w \in turn.owed
  PROVE  /\ w \in Workers /\ task[w].gen \in DOMAIN cache /\ Record(w) \in Records
         /\ Record(w) = cache[task[w].gen] /\ True(Record(w)) /\ turn.pair \in Nat \ {0}
         /\ turn.pair \in DOMAIN logged /\ turn.pair + 1 \in DOMAIN logged
         /\ logged[turn.pair] = Request(turn.job) /\ logged[turn.pair + 1] = turn.reply
         /\ JobOf[w] = turn.job /\ task[w].delivered # None
         /\ turn.reply = Reply(w, turns) => task[w].answered
<1>1. /\ w \in Workers /\ turn.pair \in Nat /\ DOMAIN cache \subseteq Nat /\ cache \in [DOMAIN cache -> Records]
      /\ logged \in Seq(Said)
  BY DEF Kept, TypeOK
<1>2. /\ turn.pair > 0 /\ turn.pair + 1 \in DOMAIN logged
      /\ logged[turn.pair] = Request(turn.job) /\ logged[turn.pair + 1] = turn.reply
      /\ JobOf[w] = turn.job /\ task[w].delivered # None
      /\ turn.reply = Reply(w, turns) => task[w].answered
  <2>1. turn.owed # {} /\ LogInv
    BY DEF Kept
  <2>2. /\ turn.pair > 0 /\ turn.pair + 1 \in DOMAIN logged
        /\ logged[turn.pair] = Request(turn.job) /\ logged[turn.pair + 1] = turn.reply
    BY <2>1 DEF LogInv
  <2>3. \A v \in turn.owed : /\ JobOf[v] = turn.job /\ task[v].delivered # None
                             /\ turn.reply = Reply(v, turns) => task[v].answered
    BY <2>1 DEF LogInv
  <2>4. QED
    BY <2>2, <2>3
<1>3. task[w].gen \in DOMAIN cache
  BY <1>1, <1>2 DEF Kept, WorkersInv
<1>4. turn.pair \in DOMAIN logged
  BY <1>1, <1>2, LenProperties
<1>5. QED
  BY <1>1, <1>2, <1>3, <1>4 DEF Record, Kept, LedgerTrue

LEMMA LoggedRecord ==
  ASSUME Kept, NEW w \in turn.owed
  PROVE  /\ Logged(w) \in Records /\ Logged(w).sid = Record(w).sid
         /\ Logged(w).told.sid = Record(w).told.sid /\ Logged(w).told.section = Record(w).told.section
         /\ Logged(w).told.request = Record(w).told.request
         /\ Logged(w).told.known = Record(w).told.known \cup {turn.pair} \cup
              (IF turn.reply = Reply(w, turns) THEN {turn.pair + 1} ELSE {})
<1>1. /\ Record(w) \in Records /\ turn.pair \in Nat
  BY OwedFacts
<1> DEFINE k == Record(w).told.known \cup {turn.pair} \cup
                (IF turn.reply = Reply(w, turns) THEN {turn.pair + 1} ELSE {})
<1>2. k \in SUBSET Nat
  BY <1>1, RecordParts
<1>3. Logged(w) = [Record(w) EXCEPT !.told.known = k]
  BY DEF Logged
<1> HIDE DEF k
<1>4. Record(w) \in [sid : Maybe(Nat), told : Ledgers] /\ Records = [sid : Maybe(Nat), told : Ledgers]
  BY <1>1 DEF Records, Ledgers
<1>5. Logged(w).told = [Record(w).told EXCEPT !.known = k] /\ Logged(w).sid = Record(w).sid
  BY <1>3, <1>4
<1>6. [Record(w).told EXCEPT !.known = k] \in Ledgers
  BY <1>2, <1>4 DEF Ledgers
<1>7. Logged(w) \in Records
  BY <1>3, <1>4, <1>6
<1>8. QED
  BY <1>4, <1>5, <1>7 DEF Ledgers, k

\* The generation a worker takes up.
SelectsGen(w, g, r) ==
  /\ g \in Nat /\ r \in Records /\ g \in DOMAIN gens' /\ gens'[g] = r
  /\ cache' = [x \in DOMAIN cache \cup {g} |-> IF x = g THEN r ELSE cache[x]]
  /\ task' = [task EXCEPT ![w].at = task'[w].at, ![w].gen = g, ![w].expected = task'[w].expected]
  /\ \/ /\ gens' = gens /\ g \in DOMAIN gens /\ r = gens[g] /\ task'[w].expected = g
        /\ \/ pin[w] # None /\ g = pin[w] /\ task'[w].at = "ready"
           \/ pin[w] = None /\ g = head /\ task'[w].at = "pin"
     \/ /\ pin[w] = None /\ task'[w].at = "pin" /\ task'[w].expected = head /\ r = Blank
        /\ g = Len(gens) + 1 /\ gens' = Append(gens, Blank)

LEMMA SelectParts ==
  ASSUME Kept, NEW w \in Workers, Selects(w)
  PROVE  /\ ~deleted /\ task[w].at = "select" /\ task[w] \in Tasks
         /\ gens' \in Seq(Records) /\ \A g \in DOMAIN gens : g \in DOMAIN gens' /\ gens'[g] = gens[g]
         /\ DOMAIN gens' \subseteq DOMAIN gens \cup {Len(gens) + 1}
         /\ \E g \in Nat, r \in Records : SelectsGen(w, g, r)
<1>1. /\ ~deleted /\ task[w].at = "select" /\ gens \in Seq(Records) /\ task \in [Workers -> Tasks]
      /\ pin[w] \in Maybe(DOMAIN gens) /\ head \in Maybe(DOMAIN gens) /\ None \notin Nat
  BY NativeAssumption DEF Selects, At, Kept, TypeOK, LinesInv, NativeAssumption
<1>2. PICK n \in Nat : n = Len(gens) /\ DOMAIN gens = 1..n
  BY <1>1, LenProperties
<1>3. \A g \in DOMAIN gens : g \in Nat /\ gens[g] \in Records
  BY <1>1, <1>2, ElementOfSeq
<1>4. ASSUME NEW g, NEW e, NEW a, Takes(w, g, e, a)
      PROVE  task' = [task EXCEPT ![w].at = a, ![w].gen = g, ![w].expected = e]
             /\ task'[w].at = a /\ task'[w].expected = e
  BY <1>1, <1>4 DEF Takes, Tasks
<1>5. CASE pin[w] # None /\ Takes(w, pin[w], pin[w], "ready") /\ Loads(pin[w], gens[pin[w]]) /\ gens' = gens
  <2>1. pin[w] \in DOMAIN gens
    BY <1>1, <1>5 DEF Maybe
  <2>2. SelectsGen(w, pin[w], gens[pin[w]])
    BY ZenonT(60), <1>3, <1>4, <1>5, <2>1 DEF SelectsGen, Loads
  <2>3. QED
    BY <1>1, <1>2, <1>3, <1>5, <2>1, <2>2
<1>6. CASE /\ pin[w] = None /\ head # None /\ gens[head].sid # None /\ Takes(w, head, head, "pin")
           /\ Loads(head, gens[head]) /\ gens' = gens
  <2>1. head \in DOMAIN gens
    BY <1>1, <1>6 DEF Maybe
  <2>2. SelectsGen(w, head, gens[head])
    BY <1>3, <1>4, <1>6, <2>1 DEF SelectsGen, Loads
  <2>3. QED
    BY <1>1, <1>2, <1>3, <1>6, <2>1, <2>2
<1>7. CASE /\ pin[w] = None /\ gens' = Append(gens, Blank) /\ Loads(Len(gens) + 1, Blank)
           /\ Takes(w, Len(gens) + 1, head, "pin")
  <2>1. Blank \in Records
    BY RecordsMade
  <2>2. /\ gens' \in Seq(Records) /\ Len(gens') = n + 1 /\ gens'[n + 1] = Blank
        /\ \A g \in 1..n : gens'[g] = gens[g]
    BY <1>1, <1>2, <1>7, <2>1, AppendProperties
  <2>3. DOMAIN gens' = 1..n + 1
    BY <2>2, LenProperties
  <2>4. /\ task' = [task EXCEPT ![w].at = "pin", ![w].gen = n + 1, ![w].expected = head]
        /\ task'[w].at = "pin" /\ task'[w].expected = head
    BY <1>2, <1>4, <1>7
  <2>5. SelectsGen(w, n + 1, Blank)
    <3>1. n + 1 \in Nat /\ n + 1 \in DOMAIN gens' /\ gens'[n + 1] = Blank
      BY <2>2, <2>3
    <3>2. cache' = [x \in DOMAIN cache \cup {n + 1} |-> IF x = n + 1 THEN Blank ELSE cache[x]]
      BY <1>2, <1>7 DEF Loads
    <3>3. task' = [task EXCEPT ![w].at = task'[w].at, ![w].gen = n + 1, ![w].expected = task'[w].expected]
      BY <2>4
    <3>4. /\ pin[w] = None /\ task'[w].at = "pin" /\ task'[w].expected = head
          /\ n + 1 = Len(gens) + 1 /\ gens' = Append(gens, Blank)
      BY <1>2, <1>7, <2>4
    <3>5. QED
      BY <2>1, <3>1, <3>2, <3>3, <3>4 DEF SelectsGen
  <2>6. n + 1 \in Nat /\ DOMAIN gens' \subseteq DOMAIN gens \cup {Len(gens) + 1}
    BY <1>2, <2>3
  <2>7. QED
    BY <1>1, <1>2, <2>1, <2>2, <2>3, <2>5, <2>6
<1>8. QED
  BY <1>5, <1>6, <1>7 DEF Selects

\* What the other steps of a worker replace.
LEMMA PutSteps ==
  ASSUME Kept, NEW w \in Workers
  PROVE  /\ Launches(w) \/ Recovers(w) \/ Flushes(w) \/ Written(w) =>
              Puts(task[w].gen, Record(w)) /\ cache' = cache
         /\ Relaunches(w) => Puts(task[w].gen, [Record(w) EXCEPT !.sid = None])
         /\ Adopts(w) => Puts(task[w].gen, [Record(w) EXCEPT !.sid = task[w].sid])
         /\ Acks(w) => Puts(task[w].gen, Acked(w))
         /\ AcksLog(w) => (Puts(task[w].gen, Logged(w)) /\ Delivered(w)) \/ UNCHANGED <<gens, cache>>
<1>1. TypeOK /\ LinesInv
  BY DEF Kept
<1>2. ASSUME task[w].at \in Held \ {"select"}
      PROVE  /\ task[w].gen \in DOMAIN cache /\ Record(w) \in Records /\ task[w].sid \in Maybe(Nat)
             /\ Record(w) = cache[task[w].gen] /\ cache = [cache EXCEPT ![task[w].gen] = Record(w)]
  <2>1. task[w].gen \in DOMAIN cache /\ Record(w) \in Records /\ Record(w) = cache[task[w].gen]
    BY <1>2, WorkerFacts
  <2>2. cache \in [DOMAIN cache -> Records] /\ task[w] \in Tasks
    BY <1>1 DEF TypeOK
  <2>3. QED
    BY <2>1, <2>2 DEF Tasks
<1>3. Launches(w) \/ Recovers(w) \/ Flushes(w) \/ Written(w) =>
        Puts(task[w].gen, Record(w)) /\ cache' = cache
  <2> SUFFICES ASSUME Launches(w) \/ Recovers(w) \/ Flushes(w) \/ Written(w)
               PROVE  Puts(task[w].gen, Record(w)) /\ cache' = cache
    OBVIOUS
  <2>1. task[w].at \in Held \ {"select"} /\ Wrote(task[w].gen, Record(w)) /\ cache' = cache
    BY DEF Launches, Recovers, Flushes, Written, At, Held
  <2>2. QED
    BY <1>1, <1>2, <2>1, WrotePuts DEF Puts
<1>4. Relaunches(w) => Puts(task[w].gen, [Record(w) EXCEPT !.sid = None])
  <2> SUFFICES ASSUME Relaunches(w) PROVE Puts(task[w].gen, [Record(w) EXCEPT !.sid = None])
    OBVIOUS
  <2>1. task[w].at \in Held \ {"select"} /\ Saves(task[w].gen, [Record(w) EXCEPT !.sid = None])
    BY DEF Relaunches, At, Held
  <2>2. [Record(w) EXCEPT !.sid = None] \in Records
    BY <1>2, <2>1, RecordsMade DEF Maybe
  <2>3. QED
    BY <1>1, <1>2, <2>1, <2>2, SavesPuts
<1>5. Adopts(w) => Puts(task[w].gen, [Record(w) EXCEPT !.sid = task[w].sid])
  <2> SUFFICES ASSUME Adopts(w) PROVE Puts(task[w].gen, [Record(w) EXCEPT !.sid = task[w].sid])
    OBVIOUS
  <2>1. /\ task[w].at \in Held \ {"select"} /\ gens' = gens
        /\ cache' = [cache EXCEPT ![task[w].gen].sid = task[w].sid]
    BY DEF Adopts, At, Held, disk
  <2>2. [Record(w) EXCEPT !.sid = task[w].sid] \in Records
    BY <1>2, <2>1, RecordsMade
  <2>3. cache' = [cache EXCEPT ![task[w].gen] = [Record(w) EXCEPT !.sid = task[w].sid]]
    BY <1>2, <2>1
  <2>4. QED
    BY <1>1, <1>2, <2>1, <2>2, <2>3 DEF Puts, TypeOK
<1>6. Acks(w) => Puts(task[w].gen, Acked(w))
  <2> SUFFICES ASSUME Acks(w) PROVE Puts(task[w].gen, Acked(w))
    OBVIOUS
  <2>1. At(w, "run") /\ task[w].at \in Held \ {"select"} /\ Saves(task[w].gen, Acked(w))
    BY DEF Acks, Acknowledgeable, At, Held, Acked
  <2>2. Acked(w) \in Records
    BY <2>1, AckedRecord
  <2>3. QED
    BY <1>1, <1>2, <2>1, <2>2, SavesPuts
<1>7. AcksLog(w) => (Puts(task[w].gen, Logged(w)) /\ Delivered(w)) \/ UNCHANGED <<gens, cache>>
  <2> SUFFICES ASSUME AcksLog(w)
               PROVE  (Puts(task[w].gen, Logged(w)) /\ Delivered(w)) \/ UNCHANGED <<gens, cache>>
    OBVIOUS
  <2>1. w \in turn.owed /\ ((Saves(task[w].gen, Logged(w)) /\ Delivered(w)) \/ UNCHANGED <<gens, cache>>)
    BY DEF AcksLog
  <2>2. task[w].gen \in DOMAIN cache /\ Logged(w) \in Records
    BY <2>1, OwedFacts, LoggedRecord
  <2>3. QED
    BY <1>1, <2>1, <2>2, SavesPuts
<1>8. QED
  BY <1>3, <1>4, <1>5, <1>6, <1>7

-----------------------------------------------------------------------------
(* What a step does to the workers.                                        *)

LEMMA StepCases ==
  ASSUME [Next]_vars
  PROVE  \/ UNCHANGED vars \/ (\E j \in Jobs : Begins(j)) \/ Logs \/ TurnEnds \/ NoteArrives
         \/ SectionEdited \/ Crashes \/ (\E s \in DOMAIN has : ProviderLoses(s)) \/ Deletes
         \/ (\E w \in Workers : WorkerStep(w)) \/ (\E w \in Workers : AcksLog(w))
  BY DEF Next

\* A task whose conversation is begun again is one.
LEMMA FreshTask == \A t \in Tasks : [t EXCEPT !.fresh = TRUE] \in Tasks
  BY DEF Tasks

LEMMA LaunchedFacts ==
  ASSUME Kept, NEW w \in Workers, NEW r \in Records, NEW oldest \in 1..turn.seen + 1
  PROVE  LET t == Launched(w, r, oldest) IN
         /\ t \in Tasks /\ t.at = "run" /\ t.sid = r.sid /\ ~t.accepted /\ ~t.active /\ ~t.acked
         /\ t.gen = task[w].gen /\ t.expected = task[w].expected /\ t.delivered = task[w].delivered
         /\ t.answered = task[w].answered /\ t.shown \subseteq 1..turn.seen
         /\ ~t.cut => 1..turn.seen \subseteq t.shown \cup Matching(r).known
<1>1. task[w] \in Tasks /\ turn.seen \in Nat /\ r.sid \in Maybe(Nat)
  BY Shape, RecordParts
<1> DEFINE unknown == 1..turn.seen \ Matching(r).known
           shown == {i \in unknown : i >= oldest}
           cut == \E i \in unknown : i < oldest
<1>2. Launched(w, r, oldest) =
        [task[w] EXCEPT !.at = "run", !.sid = r.sid, !.shown = shown, !.cut = cut,
                        !.accepted = FALSE, !.active = FALSE, !.acked = FALSE]
  BY DEF Launched
<1>3. /\ shown \in SUBSET Nat /\ shown \subseteq 1..turn.seen /\ cut \in BOOLEAN
      /\ ~cut => 1..turn.seen \subseteq shown \cup Matching(r).known
  BY <1>1
<1> HIDE DEF unknown, shown, cut
<1> DEFINE t == Launched(w, r, oldest)
<1>4. t \in Tasks
  BY ZenonT(60), <1>1, <1>2, <1>3 DEF Tasks, Held
<1>5. /\ t.at = "run" /\ t.sid = r.sid /\ ~t.accepted /\ ~t.active /\ ~t.acked
      /\ t.gen = task[w].gen /\ t.expected = task[w].expected /\ t.delivered = task[w].delivered
      /\ t.answered = task[w].answered /\ t.shown = shown /\ t.cut = cut
  BY <1>1, <1>2, <1>3 DEF Tasks
<1> HIDE DEF t
<1>6. QED
  BY <1>3, <1>4, <1>5 DEF t

LEMMA EndedFacts ==
  ASSUME Kept, NEW w \in Workers, NEW b \in BOOLEAN
  PROVE  LET t == Ended(w, b) IN
         /\ t \in Tasks /\ t.at = "flush" /\ t.sid = None /\ ~t.accepted /\ ~t.acked /\ t.gen = task[w].gen
         /\ t.expected = task[w].expected /\ t.delivered = task[w].delivered /\ t.answered = b
  BY DEF Kept, TypeOK, Ended, Off, Tasks, Held, Maybe

LEMMA PromptType ==
  ASSUME Kept, NEW w \in Workers, At(w, "run")
  PROVE  /\ Prompt(w) \in SUBSET Texts
         /\ Reply(w, turns) \in Texts
<1>1. /\ Record(w) \in Records /\ JobOf[w] \in Jobs
  BY WorkerFacts DEF At, Held
<1>2. /\ logged \in Seq(Said) /\ task[w].shown \subseteq DOMAIN logged
      /\ turn.section \in 0..MaxEvents /\ turns \in 0..MaxTurns
  <2>1. /\ logged \in Seq(Said) /\ turn.seen \in Nat /\ turn.seen <= Len(logged)
        /\ task[w].shown \subseteq 1..turn.seen /\ turn.section \in 0..MaxEvents /\ turns \in 0..MaxTurns
    BY SMTT(30) DEF Kept, TypeOK, WorkersInv, RunInv
  <2>2. DOMAIN logged = 1..Len(logged) /\ Len(logged) \in Nat
    BY <2>1, LenProperties
  <2>3. QED
    BY <2>1, <2>2
<1>3. \A i \in DOMAIN logged : logged[i] \in Said
  BY <1>2, LenProperties, ElementOfSeq
<1>4. QED
  BY <1>1, <1>2, <1>3 DEF Prompt, Texts, Said

\* A worker's step leaves the others, the turn and the session alone.
LEMMA WorkerRest ==
  ASSUME NEW w \in Workers, WorkerStep(w)
  PROVE  /\ UNCHANGED <<logged, section, job, deleted, turn, gone, turns>>
         /\ Enters(w) \/ Quits(w) \/ Publishes(w) \/ UNCHANGED lane
         /\ Pins(w) \/ UNCHANGED pin
         /\ Publishes(w) \/ UNCHANGED head
         /\ Accepts(w) \/ Ends(w) \/ UNCHANGED has
         /\ Recovers(w) \/ UNCHANGED events
  BY DEF WorkerStep, Enters, Selects, Pins, Quits, Launches, Relaunches, Accepts, Adopts, Works, Written,
         Acks, Recovers, Ends, Flushes, Publishes, disk, provider, counts, Event

LEMMA WorkerTask ==
  ASSUME Kept, NEW w \in Workers, WorkerStep(w)
  PROVE  /\ task' \in [Workers -> Tasks]
         /\ \A v \in Workers \ {w} : task'[v] = task[v]
<1> DEFINE Moved == task' \in [Workers -> Tasks] /\ \A v \in Workers \ {w} : task'[v] = task[v]
<1>1. /\ task \in [Workers -> Tasks] /\ task[w] \in Tasks /\ turn.seen \in Nat /\ None \notin Nat
  BY Shape, NativeAssumption DEF NativeAssumption
<1>2. ASSUME NEW t \in Tasks, task' = [task EXCEPT ![w] = t]
      PROVE  Moved
  BY <1>1, <1>2
<1>3. CASE Enters(w) \/ Quits(w) \/ Flushes(w) \/ Publishes(w)
  <2>1. PICK a \in Held \cup {"off", "want"} : task' = [task EXCEPT ![w].at = a]
    BY <1>3 DEF Enters, Quits, Flushes, Publishes, Go, Held
  <2>2. task' = [task EXCEPT ![w] = [task[w] EXCEPT !.at = a]] /\ [task[w] EXCEPT !.at = a] \in Tasks
    BY <1>1, <2>1, TasksMade
  <2>3. QED
    BY <1>2, <2>2
<1>4. CASE Pins(w) \/ Adopts(w) \/ Written(w)
  <2>1. task' = task \/ task' = [task EXCEPT ![w] = [task[w] EXCEPT !.at = "ready"]]
    BY <1>4 DEF Pins, Adopts, Written, Go
  <2>2. [task[w] EXCEPT !.at = "ready"] \in Tasks
    BY <1>1, TasksMade DEF Held
  <2>3. QED
    BY <1>1, <1>2, <2>1, <2>2
<1>5. CASE Selects(w)
  <2>1. PICK g \in Nat, r \in Records : SelectsGen(w, g, r)
    BY <1>5, SelectParts
  <2>2. PICK a, e : /\ a \in {"ready", "pin"} /\ e \in Maybe(Nat)
                    /\ task' = [task EXCEPT ![w] = [task[w] EXCEPT !.at = a, !.gen = g, !.expected = e]]
    <3>1. /\ task'[w].at \in {"ready", "pin"} /\ task'[w].expected \in Maybe(Nat)
          /\ task' = [task EXCEPT ![w].at = task'[w].at, ![w].gen = g, ![w].expected = task'[w].expected]
      BY <1>1, <2>1 DEF SelectsGen, Kept, TypeOK, Maybe
    <3> DEFINE b == task'[w].at
               f == task'[w].expected
    <3>2. /\ b \in {"ready", "pin"} /\ f \in Maybe(Nat)
          /\ task' = [task EXCEPT ![w].at = b, ![w].gen = g, ![w].expected = f]
      BY <3>1
    <3> HIDE DEF b, f
    <3>3. task' = [task EXCEPT ![w] = [task[w] EXCEPT !.at = b, !.gen = g, !.expected = f]]
      BY <1>1, <3>2
    <3>4. QED
      BY <3>2, <3>3
  <2>3. [task[w] EXCEPT !.at = a, !.gen = g, !.expected = e] \in Tasks
    BY <1>1, <2>2 DEF Tasks, Held, Maybe
  <2>4. QED
    BY <1>2, <2>2, <2>3
<1>6. CASE Launches(w)
  <2>1. Record(w) \in Records
    BY <1>6, WorkerFacts DEF Launches, At, Held
  <2>2. PICK oldest \in 1..turn.seen + 1 : task' = [task EXCEPT ![w] = Launched(w, Record(w), oldest)]
    BY <1>6 DEF Launches
  <2>3. QED
    BY <1>2, <2>1, <2>2, LaunchedFacts
<1>7. CASE Relaunches(w)
  <2> DEFINE blank == [Record(w) EXCEPT !.sid = None]
  <2>1. blank \in Records
    BY <1>7, WorkerFacts, RecordsMade DEF Relaunches, At, Held, Maybe
  <2>2. PICK oldest \in 1..turn.seen + 1 :
          task' = [task EXCEPT ![w] = [Launched(w, blank, oldest) EXCEPT !.fresh = TRUE]]
    BY <1>7 DEF Relaunches
  <2> HIDE DEF blank
  <2>3. Launched(w, blank, oldest) \in Tasks
    BY <2>1, LaunchedFacts
  <2>4. QED
    BY <1>2, <2>2, <2>3, FreshTask
<1>8. CASE Accepts(w)
  <2>1. PICK s \in Maybe(Nat) : task' = [task EXCEPT ![w] = [task[w] EXCEPT !.accepted = TRUE, !.sid = s]]
    <3>1. has \in Seq(SUBSET Texts) /\ task[w].sid \in Maybe(Nat)
      BY <1>1 DEF Kept, TypeOK, Tasks
    <3>2. CASE task[w].sid # None
      BY <1>1, <1>8, <3>1, <3>2 DEF Accepts
    <3>3. CASE task[w].sid = None
      <4>1. has' = Append(has, Prompt(w)) /\ Prompt(w) \in SUBSET Texts
        BY <1>8, <3>3, PromptType DEF Accepts
      <4>2. Len(has') \in Nat
        BY <3>1, <4>1, AppendProperties, LenProperties
      <4>3. task' = [task EXCEPT ![w] = [task[w] EXCEPT !.accepted = TRUE, !.sid = Len(has')]]
        BY <1>1, <1>8, <3>3 DEF Accepts
      <4>4. QED
        BY <4>2, <4>3 DEF Maybe
    <3>4. QED
      BY <3>2, <3>3
  <2>2. [task[w] EXCEPT !.accepted = TRUE, !.sid = s] \in Tasks
    BY <1>1 DEF Tasks
  <2>3. QED
    BY <1>2, <2>1, <2>2
<1>9. CASE Works(w)
  <2>1. task' = [task EXCEPT ![w] = [task[w] EXCEPT !.active = TRUE]]
    BY <1>1, <1>9 DEF Works
  <2>2. [task[w] EXCEPT !.active = TRUE] \in Tasks
    BY <1>1 DEF Tasks
  <2>3. QED
    BY <1>2, <2>1, <2>2
<1>10. CASE Acks(w)
  <2>1. task' = [task EXCEPT ![w] = [task[w] EXCEPT !.acked = TRUE, !.shown = {}, !.delivered = Record(w).sid]]
    BY <1>1, <1>10 DEF Acks
  <2>2. Record(w).sid \in Maybe(Nat)
    BY <1>10, WorkerFacts, RecordParts DEF Acks, Acknowledgeable, At, Held
  <2>3. [task[w] EXCEPT !.acked = TRUE, !.shown = {}, !.delivered = Record(w).sid] \in Tasks
    BY <1>1, <2>2 DEF Tasks
  <2>4. QED
    BY <1>2, <2>1, <2>3
<1>11. CASE Recovers(w)
  <2> DEFINE shown == task[w].shown \ Matching(Record(w)).known
  <2>1. task' = [task EXCEPT ![w] = [task[w] EXCEPT !.sid = Record(w).sid, !.shown = shown,
                                     !.accepted = FALSE, !.active = FALSE, !.acked = FALSE]]
    BY <1>1, <1>11 DEF Recovers
  <2>2. Record(w).sid \in Maybe(Nat) /\ shown \in SUBSET Nat
    BY <1>1, <1>11, WorkerFacts, RecordParts DEF Recovers, At, Held, Tasks
  <2> HIDE DEF shown
  <2>3. [task[w] EXCEPT !.sid = Record(w).sid, !.shown = shown,
                        !.accepted = FALSE, !.active = FALSE, !.acked = FALSE] \in Tasks
    BY <1>1, <2>2 DEF Tasks
  <2>4. QED
    BY <1>2, <2>1, <2>3
<1>12. CASE Ends(w)
  <2>1. PICK b \in BOOLEAN : task' = [task EXCEPT ![w] = Ended(w, b)]
    BY <1>12 DEF Ends
  <2>2. QED
    BY <1>2, <2>1, EndedFacts
<1>13. QED
  BY <1>3, <1>4, <1>5, <1>6, <1>7, <1>8, <1>9, <1>10, <1>11, <1>12 DEF WorkerStep

\* The record that is put in place keeps the conversation, or drops one that is
\* gone, or gets the one the process runs in; and so for the ledger.
Replaces(w, r) ==
  /\ Puts(task[w].gen, r)
  /\ \/ r.sid = Record(w).sid
     \/ r.sid = None /\ Record(w).sid \in gone
     \/ Record(w).sid = None /\ r.sid = task[w].sid /\ At(w, "run")
  /\ r.told = Record(w).told \/ (Acks(w) /\ r = Acked(w)) \/ (AcksLog(w) /\ Delivered(w) /\ r = Logged(w))

LEMMA WorkerRecords ==
  ASSUME Kept, NEW w \in Workers, WorkerStep(w) \/ AcksLog(w)
  PROVE  \/ UNCHANGED <<gens, cache>>
         \/ Selects(w)
         \/ \E r \in Records : Replaces(w, r)
<1>1. CASE Enters(w) \/ Pins(w) \/ Quits(w) \/ Accepts(w) \/ Works(w) \/ Ends(w) \/ Publishes(w)
  BY <1>1 DEF Enters, Pins, Quits, Accepts, Works, Ends, Publishes, disk
<1>2. CASE Launches(w) \/ Recovers(w) \/ Flushes(w) \/ Written(w)
  <2>1. Replaces(w, Record(w))
    BY <1>2, PutSteps DEF Replaces
  <2>2. QED
    BY <2>1 DEF Replaces, Puts
<1>3. CASE Relaunches(w)
  <2>1. /\ Record(w) \in Records /\ Record(w).sid = task[w].sid /\ task[w].sid \in gone
    BY <1>3, WorkerFacts DEF Relaunches, At, Held, Kept, RunInv
  <2>2. /\ [Record(w) EXCEPT !.sid = None].sid = None
        /\ [Record(w) EXCEPT !.sid = None].told = Record(w).told
    BY <2>1, RecordsMade DEF Maybe
  <2>3. Replaces(w, [Record(w) EXCEPT !.sid = None])
    BY <1>3, <2>1, <2>2, PutSteps DEF Replaces
  <2>4. QED
    BY <2>3 DEF Replaces, Puts
<1>4. CASE Adopts(w)
  <2>1. /\ Record(w) \in Records /\ Record(w).sid = None /\ task[w].sid \in Maybe(Nat) /\ At(w, "run")
    BY <1>4, WorkerFacts DEF Adopts, At, Held, Tasks
  <2>2. /\ [Record(w) EXCEPT !.sid = task[w].sid].sid = task[w].sid
        /\ [Record(w) EXCEPT !.sid = task[w].sid].told = Record(w).told
    BY <2>1, RecordsMade
  <2>3. Replaces(w, [Record(w) EXCEPT !.sid = task[w].sid])
    BY <1>4, <2>1, <2>2, PutSteps DEF Replaces
  <2>4. QED
    BY <2>3 DEF Replaces, Puts
<1>5. CASE Acks(w)
  <2>1. Acked(w).sid = Record(w).sid
    BY <1>5, AckedRecord DEF Acks, Acknowledgeable
  <2>2. Replaces(w, Acked(w))
    BY <1>5, <2>1, PutSteps DEF Replaces
  <2>3. QED
    BY <2>2 DEF Replaces, Puts
<1>6. CASE AcksLog(w)
  <2>1. Logged(w).sid = Record(w).sid
    BY <1>6, LoggedRecord DEF AcksLog
  <2>2. Replaces(w, Logged(w)) \/ UNCHANGED <<gens, cache>>
    BY <1>6, <2>1, PutSteps DEF Replaces
  <2>3. QED
    BY <2>2 DEF Replaces, Puts
<1>7. QED
  BY <1>1, <1>2, <1>3, <1>4, <1>5, <1>6 DEF WorkerStep

\* The records stay records, and the ones there are stay.
LEMMA RecordsStay ==
  ASSUME Kept, NEW w \in Workers, WorkerStep(w) \/ AcksLog(w)
  PROVE  /\ gens' \in Seq(Records) /\ DOMAIN gens \subseteq DOMAIN gens'
         /\ DOMAIN cache' \subseteq Nat /\ cache' \in [DOMAIN cache' -> Records]
         /\ DOMAIN cache \subseteq DOMAIN cache'
         /\ ~deleted => DOMAIN cache' \subseteq DOMAIN gens'
         /\ deleted => gens' = <<>>
<1>1. /\ gens \in Seq(Records) /\ DOMAIN cache \subseteq Nat /\ cache \in [DOMAIN cache -> Records]
      /\ ~deleted => DOMAIN cache \subseteq DOMAIN gens
      /\ deleted => gens = <<>>
  BY DEF Kept, TypeOK, LinesInv
<1>2. CASE UNCHANGED <<gens, cache>>
  BY <1>1, <1>2
<1>3. CASE Selects(w)
  <2>1. PICK g \in Nat, r \in Records : SelectsGen(w, g, r)
    BY <1>3, SelectParts
  <2>2. DOMAIN cache' = DOMAIN cache \cup {g} /\ cache' \in [DOMAIN cache' -> Records]
    BY SMTT(30), <1>1, <2>1 DEF SelectsGen
  <2>3. /\ gens' \in Seq(Records) /\ DOMAIN gens \subseteq DOMAIN gens' /\ ~deleted /\ g \in DOMAIN gens'
    BY <1>3, <2>1, SelectParts DEF SelectsGen
  <2>4. QED
    BY <1>1, <2>2, <2>3
<1>4. CASE \E r \in Records : Replaces(w, r)
  <2>1. PICK r \in Records : Puts(task[w].gen, r)
    BY <1>4 DEF Replaces
  <2>2. /\ DOMAIN cache' = DOMAIN cache /\ cache' \in [DOMAIN cache' -> Records]
        /\ gens' \in Seq(Records) /\ DOMAIN gens' = DOMAIN gens
    BY <1>1, <2>1 DEF Puts
  <2>3. deleted => gens' = <<>>
    <3>1. deleted => Len(gens') = 0
      BY <1>1, <2>2, LenProperties, EmptySeq
    <3>2. QED
      BY <2>2, <3>1, EmptySeq
  <2>4. QED
    BY <1>1, <2>2, <2>3
<1>5. QED
  BY <1>2, <1>3, <1>4, WorkerRecords

\* What the conversations have been told only grows, and so does the log.
LEMMA HasGrows ==
  ASSUME Kept, NEW w \in Workers, WorkerStep(w)
  PROVE  /\ has' \in Seq(SUBSET Texts) /\ DOMAIN has \subseteq DOMAIN has'
         /\ \A s \in DOMAIN has : has[s] \subseteq has'[s]
<1>1. /\ has \in Seq(SUBSET Texts) /\ task[w].sid \in Maybe(DOMAIN has) /\ task[w] \in Tasks
  BY DEF Kept, TypeOK, ConversationsApart
<1>2. \A s \in DOMAIN has : has[s] \in SUBSET Texts
  BY <1>1, ElementOfSeq, LenProperties
<1>3. ASSUME NEW s \in DOMAIN has, NEW more \in SUBSET Texts, has' = [has EXCEPT ![s] = @ \cup more]
      PROVE  /\ has' \in Seq(SUBSET Texts) /\ DOMAIN has' = DOMAIN has
             /\ \A x \in DOMAIN has : has[x] \subseteq has'[x]
  <2>1. has[s] \cup more \in SUBSET Texts
    BY <1>2
  <2>2. has' = [has EXCEPT ![s] = has[s] \cup more]
    BY <1>3
  <2>3. has' \in Seq(SUBSET Texts)
    BY <1>1, <2>1, <2>2, ExceptSeq
  <2>4. QED
    BY <1>1, <2>2, <2>3
<1>4. CASE Accepts(w)
  <2>1. Prompt(w) \in SUBSET Texts
    BY <1>4, PromptType DEF Accepts
  <2>2. CASE task[w].sid # None
    BY <1>1, <1>3, <1>4, <2>1, <2>2 DEF Accepts, Maybe
  <2>3. CASE task[w].sid = None
    <3>1. has' = Append(has, Prompt(w))
      BY <1>4, <2>3 DEF Accepts
    <3>2. /\ has' \in Seq(SUBSET Texts) /\ Len(has') = Len(has) + 1 /\ Len(has) \in Nat
          /\ \A s \in 1..Len(has) : has'[s] = has[s]
      BY <1>1, <2>1, <3>1, AppendProperties, LenProperties
    <3>3. DOMAIN has = 1..Len(has) /\ DOMAIN has' = 1..Len(has) + 1
      BY <1>1, <3>2, LenProperties
    <3>4. QED
      BY <3>2, <3>3
  <2>4. QED
    BY <2>2, <2>3
<1>5. CASE Ends(w)
  <2>1. CASE UNCHANGED has
    BY <1>1, <2>1
  <2>2. CASE task[w].acked /\ task[w].at = "run" /\ has' = [has EXCEPT ![task[w].sid] = @ \cup {Reply(w, turns)}]
    <3>1. task[w].sid \in DOMAIN has
      BY <1>1, <2>2 DEF Kept, RunInv, At, Maybe
    <3>2. {Reply(w, turns)} \in SUBSET Texts
      BY <2>2, PromptType DEF At
    <3>3. QED
      BY <1>3, <2>2, <3>1, <3>2
  <2>3. task[w].acked => task[w].at = "run"
    BY DEF Kept, WorkersInv, At
  <2>4. QED
    BY <1>5, <2>1, <2>2, <2>3 DEF Ends
<1>6. CASE UNCHANGED has
  BY <1>1, <1>6
<1>7. QED
  BY <1>4, <1>5, <1>6, WorkerRest

LEMMA EventCounts ==
  ASSUME TypeOK, Event
  PROVE  events' \in 0..MaxEvents /\ events <= events'
  BY NativeAssumption DEF Event, TypeOK, NativeAssumption

LEMMA TypeStep ==
  ASSUME Kept, [Next]_vars
  PROVE  TypeOK'
<1>1. TypeOK /\ None \notin Jobs \cup Workers \cup Nat /\ JobOf \in [Workers -> Jobs]
  BY NativeAssumption DEF Kept, NativeAssumption
<1>2. CASE UNCHANGED vars
  BY <1>1, <1>2 DEF TypeOK, vars, disk, provider, counts
<1>3. ASSUME NEW j \in Jobs, Begins(j)
      PROVE  TypeOK'
  <2>1. /\ turn' \in [job : Maybe(Jobs), seen : Nat, section : 0..MaxEvents, pair : Nat,
                       reply : Maybe(Said), owed : SUBSET Workers]
        /\ job' \in [Jobs -> {"new", "run", "paused", "done"}] /\ turns' \in 0..MaxTurns
    <3>1. Len(logged) \in Nat /\ turns \in Nat /\ MaxTurns \in Nat
      BY <1>1, LenProperties, NativeAssumption DEF TypeOK, NativeAssumption
    <3>2. turn' = [job |-> j, seen |-> Len(logged), section |-> section, pair |-> 0, reply |-> None, owed |-> {}]
      BY <1>3 DEF Begins, NoTurn
    <3>3. job' = [job EXCEPT ![j] = "run"] /\ turns' = turns + 1 /\ turns < MaxTurns
      BY <1>3 DEF Begins
    <3>4. turns' \in 0..MaxTurns
      BY <1>1, <3>1, <3>3
    <3>5. QED
      BY <1>1, <3>1, <3>2, <3>3, <3>4 DEF TypeOK, Maybe
  <2>2. task' \in [Workers -> Tasks]
    BY <1>3, TasksMade DEF Begins
  <2>3. cache' = <<>> /\ DOMAIN cache' = {} /\ cache' \in [{} -> Records]
    BY <1>3 DEF Begins, NoCache
  <2>4. UNCHANGED <<logged, section, pin, gens, head, deleted, lane, has, gone, events>>
    BY <1>3 DEF Begins, disk, provider
  <2>5. QED
    BY <1>1, <2>1, <2>2, <2>3, <2>4 DEF TypeOK
<1>4. CASE Logs
  <2>1. /\ UNCHANGED <<section, job, pin, gens, head, deleted, cache, lane, task, has, gone, turns, events>>
        /\ turn.job \in Jobs
    BY <1>1, <1>4 DEF Logs, disk, provider, counts, TypeOK, Maybe
  <2>2. Len(logged) + 1 \in Nat
    BY <1>1, LenProperties DEF TypeOK
  <2>3. CASE turn' = [turn EXCEPT !.pair = Len(logged) + 1] /\ UNCHANGED logged
    BY <1>1, <2>1, <2>2, <2>3 DEF TypeOK
  <2>4. ASSUME NEW r \in {Reply(w, turns) : w \in {v \in Mine(turn.job) : task[v].answered}} \cup {Reply("own", turns)},
               logged' = logged \o <<Request(turn.job), r>>,
               turn' = [turn EXCEPT !.pair = Len(logged) + 1, !.reply = r,
                          !.owed = {w \in Mine(turn.job) : task[w].delivered # None}]
        PROVE  TypeOK'
    <3>1. r \in Said /\ Request(turn.job) \in Said
      <4>1. turns \in 0..MaxTurns
        BY <1>1 DEF TypeOK
      <4>2. \A by \in Workers \cup {"own"} : Reply(by, turns) \in Said
        BY <4>1 DEF Said
      <4>3. Request(turn.job) \in Said
        BY <2>1 DEF Said
      <4>4. QED
        BY <2>4, <4>2, <4>3 DEF Mine
    <3>2. logged' \in Seq(Said)
      BY <1>1, <2>4, <3>1, ConcatProperties DEF TypeOK
    <3>3. {w \in Mine(turn.job) : task[w].delivered # None} \in SUBSET Workers
      BY DEF Mine
    <3> DEFINE owed == {w \in Mine(turn.job) : task[w].delivered # None}
    <3>4. turn' = [turn EXCEPT !.pair = Len(logged) + 1, !.reply = r, !.owed = owed]
      BY <2>4
    <3> HIDE DEF owed
    <3>5. turn' \in [job : Maybe(Jobs), seen : Nat, section : 0..MaxEvents, pair : Nat,
                     reply : Maybe(Said), owed : SUBSET Workers]
      BY <1>1, <2>2, <3>1, <3>3, <3>4 DEF TypeOK, Maybe, owed
    <3>6. QED
      BY <1>1, <2>1, <3>2, <3>5 DEF TypeOK
  <2>5. QED
    BY <1>4, <2>3, <2>4 DEF Logs
<1>5. CASE TurnEnds
  <2>1. /\ UNCHANGED <<logged, section, gens, head, deleted, lane, has, gone, turns, events>>
        /\ turn' = NoTurn /\ task' = [w \in Workers |-> Off]
        /\ cache' = <<>> /\ DOMAIN cache' = {} /\ cache' \in [{} -> Records]
    BY <1>5 DEF TurnEnds, NoCache, provider, counts
  <2>2. /\ job' \in [Jobs -> {"new", "run", "paused", "done"}] /\ pin' \in [Workers -> Maybe(Nat)]
    BY ZenonT(60), <1>1, <1>5 DEF TurnEnds, TypeOK, Maybe
  <2>3. turn' \in [job : Maybe(Jobs), seen : Nat, section : 0..MaxEvents, pair : Nat,
                   reply : Maybe(Said), owed : SUBSET Workers]
    BY <2>1, NativeAssumption DEF NoTurn, Maybe, NativeAssumption
  <2>4. QED
    BY <1>1, <2>1, <2>2, <2>3, TasksMade DEF TypeOK
<1>6. CASE NoteArrives \/ SectionEdited
  <2>1. events \in Nat /\ MaxEvents \in Nat /\ section \in Nat /\ logged \in Seq(Said)
    BY <1>1, NativeAssumption DEF TypeOK, NativeAssumption
  <2>2. /\ UNCHANGED <<job, pin, gens, head, deleted, cache, lane, task, turn, has, gone, turns>>
        /\ events' \in 0..MaxEvents /\ section' \in 0..MaxEvents /\ section' <= events'
    BY SMTT(30), <1>1, <1>6, <2>1 DEF NoteArrives, SectionEdited, Event, TypeOK, disk, provider
  <2>3. logged' \in Seq(Said)
    <3>1. <<"note", events>> \in Said
      BY <1>1 DEF Said, TypeOK
    <3>2. QED
      BY <1>6, <2>1, <3>1, AppendProperties DEF NoteArrives, SectionEdited
  <2>4. QED
    BY <1>1, <2>2, <2>3 DEF TypeOK
<1>7. CASE Crashes
  <2>1. /\ UNCHANGED <<logged, section, pin, gens, head, deleted, has, gone, turns>>
        /\ turn' = NoTurn /\ task' = [w \in Workers |-> Off] /\ lane' = None
        /\ cache' = <<>> /\ DOMAIN cache' = {} /\ cache' \in [{} -> Records]
    BY <1>7 DEF Crashes, NoCache, provider, disk, Event
  <2>2. /\ job' \in [Jobs -> {"new", "run", "paused", "done"}] /\ events' \in 0..MaxEvents /\ events <= events'
    BY <1>1, <1>7, EventCounts DEF Crashes, TypeOK
  <2>3. turn' \in [job : Maybe(Jobs), seen : Nat, section : 0..MaxEvents, pair : Nat,
                   reply : Maybe(Said), owed : SUBSET Workers]
    BY <2>1, NativeAssumption DEF NoTurn, Maybe, NativeAssumption
  <2>4. QED
    BY SMTT(30), <1>1, <2>1, <2>2, <2>3, TasksMade DEF TypeOK, Maybe
<1>8. ASSUME NEW s \in DOMAIN has, ProviderLoses(s)
      PROVE  TypeOK'
  <2>1. /\ UNCHANGED <<logged, section, job, pin, gens, head, deleted, cache, lane, task, turn, has, turns>>
        /\ gone' \subseteq DOMAIN has /\ events' \in 0..MaxEvents /\ events <= events'
    BY SMTT(30), <1>1, <1>8, NativeAssumption DEF ProviderLoses, Event, TypeOK, NativeAssumption, disk
  <2>2. QED
    BY <1>1, <2>1 DEF TypeOK
<1>9. CASE Deletes
  <2>1. /\ UNCHANGED <<logged, section, job, pin, cache, lane, task, turn, has, gone, turns>>
        /\ gens' = <<>> /\ head' = None /\ deleted' = TRUE /\ events' \in 0..MaxEvents /\ events <= events'
    BY <1>1, <1>9, NativeAssumption DEF Deletes, Event, TypeOK, NativeAssumption, provider
  <2>2. gens' \in Seq(Records)
    BY <2>1
  <2>3. QED
    BY SMTT(30), <1>1, <2>1, <2>2 DEF TypeOK, Maybe
<1>10. ASSUME NEW w \in Workers, WorkerStep(w)
       PROVE  TypeOK'
  <2>1. /\ UNCHANGED <<logged, section, job, deleted, turn, gone, turns>> /\ task' \in [Workers -> Tasks]
        /\ has' \in Seq(SUBSET Texts) /\ DOMAIN has \subseteq DOMAIN has'
        /\ gens' \in Seq(Records) /\ DOMAIN cache' \subseteq Nat /\ cache' \in [DOMAIN cache' -> Records]
    BY <1>10, WorkerRest, WorkerTask, HasGrows, RecordsStay
  <2>2. events' \in 0..MaxEvents /\ events <= events'
    <3>1. CASE UNCHANGED events
      BY <1>1, <3>1 DEF TypeOK
    <3>2. Recovers(w) => Event
      BY DEF Recovers
    <3>3. QED
      BY <1>1, <1>10, <3>1, <3>2, WorkerRest, EventCounts
  <2>3. lane' \in Maybe(Workers)
    BY <1>1, <1>10, WorkerRest DEF Enters, Quits, Publishes, TypeOK, Maybe
  <2>4. pin' \in [Workers -> Maybe(Nat)]
    <3>1. Pins(w) => pin' = [pin EXCEPT ![w] = task[w].gen] /\ task[w].gen \in Nat
      BY WorkerFacts DEF Pins, At, Held
    <3>2. QED
      BY <1>1, <1>10, <3>1, WorkerRest DEF TypeOK, Maybe
  <2>5. head' \in Maybe(Nat)
    <3>1. Publishes(w) => head' \in {head, task[w].gen} /\ task[w].gen \in Nat
      BY WorkerFacts DEF Publishes, At, Held
    <3>2. QED
      BY <1>1, <1>10, <3>1, WorkerRest DEF TypeOK, Maybe
  <2>6. QED
    BY SMTT(30), <1>1, <2>1, <2>2, <2>3, <2>4, <2>5 DEF TypeOK
<1>11. ASSUME NEW w \in Workers, AcksLog(w)
       PROVE  TypeOK'
  <2>1. /\ UNCHANGED <<logged, section, job, pin, head, deleted, lane, task, has, gone, turns, events>>
        /\ gens' \in Seq(Records) /\ DOMAIN cache' \subseteq Nat /\ cache' \in [DOMAIN cache' -> Records]
    BY <1>11, RecordsStay DEF AcksLog, provider, counts
  <2>2. turn' \in [job : Maybe(Jobs), seen : Nat, section : 0..MaxEvents, pair : Nat,
                   reply : Maybe(Said), owed : SUBSET Workers]
    BY <1>1, <1>11 DEF AcksLog, TypeOK
  <2>3. QED
    BY <1>1, <2>1, <2>2 DEF TypeOK
<1>12. QED
  BY <1>2, <1>3, <1>4, <1>5, <1>6, <1>7, <1>8, <1>9, <1>10, <1>11, StepCases

-----------------------------------------------------------------------------
(* Conversations of records and processes.                                 *)

\* A process that runs after a worker's step, in the conversation it ran in, in
\* its record's, in none or in a new one.
LEMMA RunsFrom ==
  ASSUME Kept, NEW w \in Workers, WorkerStep(w), At(w, "run")'
  PROVE  /\ \/ Launches(w) \/ Relaunches(w) \/ Accepts(w) \/ Adopts(w) \/ Works(w) \/ Written(w) \/ Acks(w)
            \/ Recovers(w)
         /\ task'[w].gen = task[w].gen /\ task[w].at \in {"ready", "run"}
         /\ task'[w].expected = task[w].expected /\ task'[w].answered = task[w].answered
         /\ Acks(w) \/ task'[w].delivered = task[w].delivered
         /\ \/ At(w, "run") /\ task'[w].sid = task[w].sid
            \/ task'[w].sid = Record(w).sid \/ task'[w].sid = None
            \/ Accepts(w) /\ task[w].sid = None /\ task'[w].sid = Len(has) + 1
<1>1. /\ task \in [Workers -> Tasks] /\ task[w] \in Tasks /\ turn.seen \in Nat /\ None \notin Nat
      /\ has \in Seq(SUBSET Texts)
  BY Shape, NativeAssumption DEF NativeAssumption
<1>2. /\ ~Enters(w) /\ ~Pins(w) /\ ~Quits(w) /\ ~Flushes(w) /\ ~Publishes(w)
  BY <1>1 DEF At, Enters, Pins, Quits, Flushes, Publishes, Go, Tasks
<1>3. ~Selects(w)
  <2> SUFFICES ASSUME Selects(w) PROVE FALSE
    OBVIOUS
  <2>1. PICK g \in Nat, r \in Records : SelectsGen(w, g, r)
    BY SelectParts
  <2>2. QED
    BY <2>1 DEF SelectsGen, At
<1>4. ~Ends(w)
  <2> SUFFICES ASSUME Ends(w) PROVE FALSE
    OBVIOUS
  <2>1. PICK b \in BOOLEAN : task' = [task EXCEPT ![w] = Ended(w, b)]
    BY DEF Ends
  <2>2. QED
    BY <1>1, <2>1, EndedFacts DEF At
<1>5. CASE Launches(w)
  <2>1. Record(w) \in Records /\ task[w].at = "ready"
    BY <1>5, WorkerFacts DEF Launches, At, Held
  <2>2. PICK oldest \in 1..turn.seen + 1 : task' = [task EXCEPT ![w] = Launched(w, Record(w), oldest)]
    BY <1>5 DEF Launches
  <2>3. PICK r \in Records : r = Record(w) /\ task'[w] = Launched(w, r, oldest)
    BY <1>1, <2>1, <2>2
  <2>4. /\ task'[w].gen = task[w].gen /\ task'[w].expected = task[w].expected
        /\ task'[w].answered = task[w].answered /\ task'[w].delivered = task[w].delivered
        /\ task'[w].sid = r.sid
    BY <2>3, LaunchedFacts
  <2>5. QED
    BY <1>5, <2>1, <2>3, <2>4
<1>6. CASE Relaunches(w)
  <2> DEFINE blank == [Record(w) EXCEPT !.sid = None]
  <2>1. blank \in Records /\ blank.sid = None
    BY <1>6, WorkerFacts, RecordsMade DEF Relaunches, At, Held, Maybe
  <2>2. PICK oldest \in 1..turn.seen + 1 :
          task' = [task EXCEPT ![w] = [Launched(w, blank, oldest) EXCEPT !.fresh = TRUE]]
    BY <1>6 DEF Relaunches
  <2> HIDE DEF blank
  <2> DEFINE t == Launched(w, blank, oldest)
  <2>3. /\ t \in Tasks /\ t.gen = task[w].gen /\ t.sid = None /\ t.expected = task[w].expected
        /\ t.delivered = task[w].delivered /\ t.answered = task[w].answered
    BY <2>1, LaunchedFacts
  <2> HIDE DEF t
  <2>4. task'[w] = [t EXCEPT !.fresh = TRUE]
    BY <1>1, <2>2 DEF t
  <2>5. /\ task'[w].gen = task[w].gen /\ task'[w].sid = None /\ task'[w].expected = task[w].expected
        /\ task'[w].delivered = task[w].delivered /\ task'[w].answered = task[w].answered
    BY <2>3, <2>4 DEF Tasks
  <2>6. task[w].at = "run"
    BY <1>6 DEF Relaunches, At
  <2>7. QED
    BY <1>6, <2>5, <2>6
<1>7. CASE Accepts(w)
  <2>1. At(w, "run") /\ task[w].at = "run"
    BY <1>7 DEF Accepts, At
  <2>2. /\ task'[w].gen = task[w].gen /\ task'[w].expected = task[w].expected
        /\ task'[w].delivered = task[w].delivered /\ task'[w].answered = task[w].answered
        /\ task'[w].sid = IF task[w].sid = None THEN Len(has') ELSE task[w].sid
    BY <1>1, <1>7 DEF Accepts, Tasks
  <2>3. CASE task[w].sid # None
    BY <1>7, <2>1, <2>2, <2>3
  <2>4. CASE task[w].sid = None
    <3>1. has' = Append(has, Prompt(w)) /\ Prompt(w) \in SUBSET Texts
      BY <1>7, <2>4, PromptType DEF Accepts
    <3>2. Len(has') = Len(has) + 1
      BY <1>1, <3>1, AppendProperties
    <3>3. QED
      BY <1>7, <2>1, <2>2, <2>4, <3>2
  <2>5. QED
    BY <2>3, <2>4
<1>8. CASE Adopts(w) \/ Written(w)
  <2>1. task' = task /\ At(w, "run") /\ task[w].at = "run"
    BY <1>8 DEF Adopts, Written, At
  <2>2. QED
    BY <1>8, <2>1
<1>9. CASE Works(w)
  <2>1. task'[w] = [task[w] EXCEPT !.active = TRUE] /\ At(w, "run") /\ task[w].at = "run"
    BY <1>1, <1>9 DEF Works, At
  <2>2. QED
    BY <1>1, <1>9, <2>1 DEF Tasks
<1>10. CASE Acks(w)
  <2>1. /\ At(w, "run") /\ task[w].at = "run"
        /\ task'[w] = [task[w] EXCEPT !.acked = TRUE, !.shown = {}, !.delivered = Record(w).sid]
    BY <1>1, <1>10 DEF Acks, Acknowledgeable, At
  <2>2. QED
    BY <1>1, <1>10, <2>1 DEF Tasks
<1>11. CASE Recovers(w)
  <2>1. /\ task[w].at = "run" /\ task'[w].gen = task[w].gen /\ task'[w].sid = Record(w).sid
        /\ task'[w].expected = task[w].expected /\ task'[w].delivered = task[w].delivered
        /\ task'[w].answered = task[w].answered
    BY <1>1, <1>11 DEF Recovers, At, Tasks
  <2>2. QED
    BY <1>11, <2>1
<1>12. QED
  BY <1>2, <1>3, <1>4, <1>5, <1>6, <1>7, <1>8, <1>9, <1>10, <1>11 DEF WorkerStep

\* A record gets no conversation but one the generation is using.
LEMMA RecordSids ==
  ASSUME Kept, NEW w \in Workers, WorkerStep(w) \/ AcksLog(w)
  PROVE  /\ \A g \in DOMAIN gens' : gens'[g].sid # None => Uses(g, gens'[g].sid)
         /\ \A g \in DOMAIN cache' : cache'[g].sid # None => Uses(g, cache'[g].sid)
         /\ \A g \in DOMAIN gens' \cap DOMAIN cache' :
              gens'[g].sid # None => gens'[g].sid = cache'[g].sid \/ gens'[g].sid \in gone
<1>1. /\ gens \in Seq(Records) /\ cache \in [DOMAIN cache -> Records]
      /\ \A g \in DOMAIN gens \cap DOMAIN cache :
            gens[g].sid # None => gens[g].sid = cache[g].sid \/ gens[g].sid \in gone
  BY DEF Kept, TypeOK, LinesInv
<1>2. /\ \A g \in DOMAIN gens : Uses(g, gens[g].sid)
      /\ \A g \in DOMAIN cache : Uses(g, cache[g].sid)
  BY DEF Uses
<1>3. CASE UNCHANGED <<gens, cache>>
  BY <1>1, <1>2, <1>3
<1>4. CASE Selects(w)
  <2>1. PICK g0 \in Nat, r \in Records : SelectsGen(w, g0, r)
    BY <1>4, SelectParts
  <2>2. /\ gens'[g0] = r /\ cache'[g0] = r /\ DOMAIN cache' = DOMAIN cache \cup {g0}
        /\ \A g \in DOMAIN cache \ {g0} : cache'[g] = cache[g]
        /\ (g0 \in DOMAIN gens /\ r = gens[g0]) \/ (r = Blank /\ g0 = Len(gens) + 1)
    BY <2>1 DEF SelectsGen
  <2>3. /\ \A g \in DOMAIN gens : gens'[g] = gens[g]
        /\ \A g \in DOMAIN gens' : g = g0 \/ g \in DOMAIN gens
    BY ZenonT(60), <1>4, <2>1, SelectParts DEF SelectsGen
  <2>4. r.sid # None => Uses(g0, r.sid)
    BY <1>2, <2>2, RecordsMade
  <2>5. QED
    BY SMTT(30), <1>1, <1>2, <2>2, <2>3, <2>4
<1>5. CASE \E r \in Records : Replaces(w, r)
  <2>1. PICK r \in Records : Replaces(w, r)
    BY <1>5
  <2> DEFINE g0 == task[w].gen
  <2>2. /\ g0 \in DOMAIN cache /\ cache'[g0] = r /\ DOMAIN cache' = DOMAIN cache /\ DOMAIN gens' = DOMAIN gens
        /\ \A g \in DOMAIN cache \ {g0} : cache'[g] = cache[g]
        /\ \A g \in DOMAIN gens : gens'[g] = gens[g] \/ (g = g0 /\ gens'[g] = r)
        /\ Record(w) = cache[g0]
    BY <1>1, <2>1 DEF Replaces, Puts, Record
  <2>3. \/ r.sid = cache[g0].sid
        \/ r.sid = None /\ cache[g0].sid \in gone
        \/ cache[g0].sid = None /\ r.sid = task[w].sid /\ At(w, "run")
    BY <2>1, <2>2 DEF Replaces
  <2>4. r.sid # None => Uses(g0, r.sid)
    BY <1>2, <2>2, <2>3 DEF Uses
  <2> HIDE DEF g0
  <2>5. QED
    BY <1>1, <1>2, <2>2, <2>3, <2>4
<1>6. QED
  BY <1>3, <1>4, <1>5, WorkerRecords

-----------------------------------------------------------------------------
(* Steps that are no worker's.                                             *)

\* The history grows, or a conversation is lost.
Leaves ==
  /\ UNCHANGED <<pin, gens, head, deleted, cache, lane, task, has, turns>> /\ gone \subseteq gone'
  /\ DOMAIN logged \subseteq DOMAIN logged' /\ \A i \in DOMAIN logged : logged'[i] = logged[i]
  /\ Len(logged) \in Nat /\ Len(logged') \in Nat /\ Len(logged) <= Len(logged')
  /\ DOMAIN logged' = 1..Len(logged')
  /\ turn' = turn \/ Logs
Rests(t) ==
  /\ t.at \in {"off", "want"} /\ t.sid = None /\ t.delivered = None
  /\ ~t.accepted /\ ~t.acked /\ ~t.answered
\* A turn begins or is over: no worker has a generation, none is in memory.
Resets ==
  /\ UNCHANGED <<gens, head, deleted, has, gone, logged>> /\ cache' = <<>> /\ DOMAIN cache' = {} /\ lane' = None
  /\ \A w \in Workers :
       /\ pin'[w] # pin[w] => pin'[w] = None /\ job'[JobOf[w]] = "done"
       /\ Rests(task'[w])
       /\ task'[w].at = "want" => JobOf[w] = turn'.job
  /\ turn'.owed = {} /\ turn'.pair = 0 /\ turn'.seen <= Len(logged)

LEMMA LaneLeft ==
  ASSUME Kept, turn.pair # 0 \/ turn.job = None
  PROVE  lane = None
<1>1. \A w \in Workers : task[w].at = "off"
  BY ZenonT(60), NativeAssumption DEF Kept, WorkersInv, NativeAssumption
<1>2. "off" \notin Held /\ lane \in Maybe(Workers)
  BY Shape DEF Held
<1>3. \A w \in Workers : lane # w
  BY <1>1, <1>2, Where
<1>4. QED
  BY <1>2, <1>3 DEF Maybe

LEMMA LoggedGrows ==
  ASSUME Kept, Logs \/ NoteArrives \/ UNCHANGED logged
  PROVE  /\ DOMAIN logged \subseteq DOMAIN logged' /\ \A i \in DOMAIN logged : logged'[i] = logged[i]
         /\ Len(logged) \in Nat /\ Len(logged') \in Nat /\ Len(logged) <= Len(logged')
         /\ DOMAIN logged' = 1..Len(logged')
<1>1. logged \in Seq(Said) /\ Len(logged) \in Nat /\ DOMAIN logged = 1..Len(logged)
  BY LenProperties DEF Kept, TypeOK
<1>2. CASE UNCHANGED logged
  BY <1>1, <1>2
<1>3. ASSUME NEW more \in Seq(Said), logged' = logged \o more
      PROVE  /\ DOMAIN logged \subseteq DOMAIN logged' /\ \A i \in DOMAIN logged : logged'[i] = logged[i]
             /\ Len(logged') \in Nat /\ Len(logged) <= Len(logged') /\ DOMAIN logged' = 1..Len(logged')
  <2>1. /\ logged \o more \in Seq(Said) /\ Len(logged \o more) = Len(logged) + Len(more)
        /\ \A i \in 1..Len(logged) + Len(more) :
             (logged \o more)[i] = IF i <= Len(logged) THEN logged[i] ELSE more[i - Len(logged)]
    BY <1>1, ConcatProperties
  <2>2. Len(more) \in Nat /\ Len(logged') = Len(logged) + Len(more) /\ DOMAIN logged' = 1..Len(logged')
    BY SMTT(30), <1>3, <2>1, LenProperties
  <2>3. PICK m \in Nat, n \in Nat : m = Len(logged) /\ n = Len(more)
    BY ZenonT(60), <1>1, <2>2
  <2>4. DOMAIN logged = 1..m /\ DOMAIN logged' = 1..(m + n) /\ Len(logged') = m + n
    BY <1>1, <2>2, <2>3
  <2>5. \A i \in 1..m : logged'[i] = logged[i]
    <3>1. \A i \in 1..m : i \in 1..(m + n) /\ i <= m
      OBVIOUS
    <3>2. QED
      BY <1>3, <2>1, <2>3, <3>1
  <2>6. 1..m \subseteq 1..(m + n) /\ m <= m + n
    OBVIOUS
  <2>7. QED
    BY <2>2, <2>3, <2>4, <2>5, <2>6
<1>4. CASE Logs
  <2>1. ASSUME NEW r \in {Reply(w, turns) : w \in {v \in Mine(turn.job) : task[v].answered}} \cup {Reply("own", turns)}
        PROVE  <<Request(turn.job), r>> \in Seq(Said)
    <3>1. turns \in 0..MaxTurns /\ turn.job \in Jobs
      BY <1>4 DEF Logs, Kept, TypeOK, Maybe
    <3>2. \A by \in Workers \cup {"own"} : Reply(by, turns) \in Said
      BY <3>1 DEF Said
    <3>3. Request(turn.job) \in Said /\ r \in Said
      BY <2>1, <3>1, <3>2 DEF Said, Mine
    <3>4. QED
      BY <3>3
  <2>2. \/ UNCHANGED logged
        \/ \E r \in {Reply(w, turns) : w \in {v \in Mine(turn.job) : task[v].answered}} \cup {Reply("own", turns)} :
             logged' = logged \o <<Request(turn.job), r>>
    BY <1>4 DEF Logs
  <2>3. \/ UNCHANGED logged
        \/ \E more \in Seq(Said) : logged' = logged \o more
    BY <2>1, <2>2
  <2>4. QED
    BY <1>1, <1>2, <1>3, <2>3
<1>5. CASE NoteArrives
  <2>1. <<"note", events>> \in Said
    BY DEF Said, Kept, TypeOK
  <2>2. logged' = logged \o << <<"note", events>> >> /\ << <<"note", events>> >> \in Seq(Said)
    BY <1>1, <1>5, <2>1, AppendIsConcat DEF NoteArrives
  <2>3. QED
    BY <1>3, <2>2
<1>6. QED
  BY <1>1, <1>2, <1>4, <1>5

LEMMA SessionSteps ==
  ASSUME Kept, [Next]_vars
  PROVE  \/ Leaves \/ Resets \/ Deletes
         \/ (\E w \in Workers : WorkerStep(w)) \/ (\E w \in Workers : AcksLog(w))
<1>1. /\ logged \in Seq(Said) /\ Len(logged) \in Nat /\ DOMAIN logged = 1..Len(logged)
  BY LenProperties DEF Kept, TypeOK
<1>2. CASE Logs \/ NoteArrives \/ SectionEdited \/ UNCHANGED vars \/ \E s \in DOMAIN has : ProviderLoses(s)
  <2>1. /\ Logs \/ NoteArrives \/ UNCHANGED logged
        /\ UNCHANGED <<pin, gens, head, deleted, cache, lane, task, has, turns>> /\ gone \subseteq gone'
        /\ turn' = turn \/ Logs
    BY <1>2 DEF Logs, NoteArrives, SectionEdited, vars, ProviderLoses, Event, disk, provider, counts
  <2>2. QED
    BY <2>1, LoggedGrows DEF Leaves
<1>3. CASE (\E j \in Jobs : Begins(j)) \/ TurnEnds \/ Crashes
  <2>1. UNCHANGED <<gens, head, deleted, has, gone, logged>>
    BY <1>3 DEF Begins, TurnEnds, Crashes, disk, provider
  <2>2. cache' = <<>> /\ DOMAIN cache' = {}
    <3>1. cache' = <<>>
      BY <1>3 DEF Begins, TurnEnds, Crashes, NoCache
    <3>2. QED
      BY <3>1
  <2>3. lane' = None
    <3>1. CASE \E j \in Jobs : Begins(j)
      BY <3>1, LaneLeft DEF Begins, NoTurn
    <3>2. CASE TurnEnds
      BY <3>2, LaneLeft DEF TurnEnds
    <3>3. QED
      BY <1>3, <3>1, <3>2 DEF Crashes
  <2>4. turn'.owed = {} /\ turn'.pair = 0 /\ turn'.seen <= Len(logged)
    <3>1. CASE \E j \in Jobs : Begins(j)
      BY <1>1, <3>1 DEF Begins, NoTurn
    <3>2. CASE TurnEnds \/ Crashes
      BY <1>1, <3>2 DEF TurnEnds, Crashes, NoTurn
    <3>3. QED
      BY <1>3, <3>1, <3>2
  <2>5. ASSUME NEW w \in Workers
        PROVE  /\ pin'[w] # pin[w] => pin'[w] = None /\ job'[JobOf[w]] = "done"
               /\ Rests(task'[w])
               /\ task'[w].at = "want" => JobOf[w] = turn'.job
    <3>1. ASSUME NEW j \in Jobs, Begins(j)
          PROVE  /\ pin' = pin /\ Rests(task'[w])
                 /\ task'[w].at = "want" => JobOf[w] = turn'.job
      <4>1. pin' = pin /\ turn'.job = j
        BY <3>1 DEF Begins, disk, NoTurn
      <4>2. task'[w] = [Off EXCEPT !.at = IF w \in Mine(j) THEN "want" ELSE "off"]
        BY <3>1 DEF Begins
      <4>3. Rests(task'[w]) /\ (task'[w].at = "want" => w \in Mine(j))
        BY <4>2 DEF Off, Rests
      <4>4. w \in Mine(j) => JobOf[w] = j
        BY DEF Mine
      <4>5. QED
        BY <4>1, <4>2, <4>3, <4>4
    <3>2. CASE TurnEnds
      <4>0. Rests(Off) /\ Off.at = "off"
        BY DEF Rests, Off
      <4>1. PICK st \in {"done", "paused"} :
              /\ job' = [job EXCEPT ![turn.job] = st]
              /\ pin' = [v \in Workers |-> IF v \in Mine(turn.job) /\ st = "done" THEN None ELSE pin[v]]
        BY <3>2 DEF TurnEnds
      <4>2. task'[w] = Off /\ job \in [Jobs -> {"new", "run", "paused", "done"}] /\ JobOf[w] \in Jobs
        BY <3>2, NativeAssumption DEF TurnEnds, Kept, TypeOK, NativeAssumption
      <4>3. pin'[w] # pin[w] => pin'[w] = None /\ JobOf[w] = turn.job /\ st = "done"
        BY <4>1 DEF Mine
      <4>4. QED
        BY <4>0, <4>1, <4>2, <4>3
    <3>3. CASE Crashes
      BY <3>3 DEF Crashes, disk, Rests, Off
    <3>4. QED
      BY <1>3, <3>1, <3>2, <3>3
  <2>6. QED
    BY <2>1, <2>2, <2>3, <2>4, <2>5 DEF Resets
<1>4. QED
  BY <1>2, <1>3, StepCases

LEMMA LinesStep ==
  ASSUME Kept, [Next]_vars
  PROVE  LinesInv'
<1>1. /\ LinesInv /\ None \notin Nat
  BY NativeAssumption DEF Kept, NativeAssumption
<1>2. CASE Leaves
  BY <1>1, <1>2 DEF LinesInv, Leaves
<1>3. CASE Resets
  BY <1>1, <1>3 DEF LinesInv, Resets, Maybe
<1>4. CASE Deletes
  BY <1>1, <1>4 DEF LinesInv, Deletes
<1>5. ASSUME NEW w \in Workers, WorkerStep(w) \/ AcksLog(w)
      PROVE  LinesInv'
  <2>1. UNCHANGED <<deleted, gone>>
    BY <1>5, WorkerRest DEF AcksLog, disk, provider
  <2>2. /\ deleted => gens' = <<>> /\ head' = None
        /\ ~deleted => head' \in Maybe(DOMAIN gens')
    <3>1. Publishes(w) => /\ head' = head \/ (head' = task[w].gen /\ ~deleted)
                          /\ task[w].gen \in DOMAIN cache
      BY WorkerFacts DEF Publishes, Promotes, At, Held
    <3>2. UNCHANGED head \/ Publishes(w)
      BY <1>5, WorkerRest DEF AcksLog
    <3>3. QED
      BY <1>1, <1>5, <3>1, <3>2, RecordsStay DEF LinesInv, Maybe
  <2>3. ~deleted => \A v \in Workers : pin'[v] \in Maybe(DOMAIN gens')
    <3>1. Pins(w) => pin' = [pin EXCEPT ![w] = task[w].gen] /\ task[w].gen \in DOMAIN cache
      BY WorkerFacts DEF Pins, At, Held
    <3>2. UNCHANGED pin \/ Pins(w)
      BY <1>5, WorkerRest DEF AcksLog
    <3>3. pin \in [Workers -> Maybe(Nat)]
      BY DEF Kept, TypeOK
    <3>4. QED
      BY <1>1, <1>5, <3>1, <3>2, <3>3, RecordsStay DEF LinesInv, Maybe
  <2>4. /\ ~deleted => DOMAIN cache' \subseteq DOMAIN gens'
        /\ \A g \in DOMAIN gens' \cap DOMAIN cache' :
             gens'[g].sid # None => gens'[g].sid = cache'[g].sid \/ gens'[g].sid \in gone
    BY <1>5, RecordsStay, RecordSids
  <2>5. QED
    BY <2>1, <2>2, <2>3, <2>4 DEF LinesInv
<1>6. QED
  BY <1>2, <1>3, <1>4, <1>5, SessionSteps

\* A generation comes to use a conversation that a process of it has started.
LEMMA UsesStep ==
  ASSUME Kept, NEW w \in Workers, WorkerStep(w) \/ AcksLog(w), NEW g, NEW s \in Nat, Uses(g, s)'
  PROVE  \/ Uses(g, s)
         \/ /\ Accepts(w) /\ task[w].sid = None /\ g = task[w].gen /\ s = Len(has) + 1
            /\ At(w, "run")
<1>1. None \notin Nat
  BY NativeAssumption DEF NativeAssumption
<1>2. CASE (g \in DOMAIN gens' /\ gens'[g].sid = s) \/ (g \in DOMAIN cache' /\ cache'[g].sid = s)
  BY <1>1, <1>2, RecordSids
<1>3. ASSUME NEW v \in Workers, task'[v].at = "run", task'[v].gen = g, task'[v].sid = s
      PROVE  \/ Uses(g, s)
             \/ /\ Accepts(w) /\ task[w].sid = None /\ g = task[w].gen /\ s = Len(has) + 1
                /\ At(w, "run")
  <2>1. CASE AcksLog(w) \/ v # w
    <3>1. task'[v] = task[v]
      BY <2>1, WorkerTask DEF AcksLog
    <3>2. QED
      BY <1>3, <3>1 DEF Uses, At
  <2>2. CASE WorkerStep(w) /\ v = w
    <3>1. /\ task'[w].gen = task[w].gen /\ task[w].at \in {"ready", "run"}
          /\ \/ At(w, "run") /\ task'[w].sid = task[w].sid
             \/ task'[w].sid = Record(w).sid \/ task'[w].sid = None
             \/ Accepts(w) /\ task[w].sid = None /\ task'[w].sid = Len(has) + 1
      BY <1>3, <2>2, RunsFrom DEF At
    <3>2. task[w].gen \in DOMAIN cache /\ Record(w) = cache[task[w].gen]
      BY <3>1, WorkerFacts DEF Held
    <3>3. Accepts(w) => At(w, "run")
      BY DEF Accepts
    <3>4. QED
      BY <1>1, <1>3, <2>2, <3>1, <3>2, <3>3 DEF Uses
  <2>3. QED
    BY <2>1, <2>2
<1>4. QED
  BY <1>2, <1>3 DEF Uses, At

LEMMA UsedThere ==
  ASSUME Kept, NEW g, NEW s \in Nat, Uses(g, s)
  PROVE  g \in DOMAIN gens \cup DOMAIN cache /\ s \in DOMAIN has
<1>1. None \notin Nat
  BY NativeAssumption DEF NativeAssumption
<1>2. \A w \in Workers : At(w, "run") => task[w].gen \in DOMAIN cache
  BY WorkerFacts DEF At, Held
<1>3. QED
  BY <1>1, <1>2 DEF Uses, Kept, ConversationsApart, Maybe

LEMMA StaysRunning ==
  ASSUME Kept, NEW w \in Workers,
         \/ Launches(w) \/ Relaunches(w) \/ Accepts(w) \/ Adopts(w) \/ Works(w) \/ Written(w) \/ Acks(w)
         \/ Recovers(w)
  PROVE  /\ At(w, "run")'
         /\ Launches(w) \/ Relaunches(w) => ~task'[w].accepted
<1>1. task \in [Workers -> Tasks] /\ task[w] \in Tasks
  BY DEF Kept, TypeOK
<1>2. CASE Launches(w) \/ Relaunches(w)
  <2>1. PICK r, oldest : \/ task' = [task EXCEPT ![w] = Launched(w, r, oldest)]
                        \/ task' = [task EXCEPT ![w] = [Launched(w, r, oldest) EXCEPT !.fresh = TRUE]]
    BY <1>2 DEF Launches, Relaunches
  <2> DEFINE shown == {i \in 1..turn.seen \ Matching(r).known : i >= oldest}
             cut == \E i \in 1..turn.seen \ Matching(r).known : i < oldest
  <2>2. Launched(w, r, oldest) =
          [task[w] EXCEPT !.at = "run", !.sid = r.sid, !.shown = shown, !.cut = cut,
                          !.accepted = FALSE, !.active = FALSE, !.acked = FALSE]
    BY DEF Launched
  <2> HIDE DEF shown, cut
  <2>3. /\ Launched(w, r, oldest).at = "run" /\ [Launched(w, r, oldest) EXCEPT !.fresh = TRUE].at = "run"
        /\ ~Launched(w, r, oldest).accepted /\ ~[Launched(w, r, oldest) EXCEPT !.fresh = TRUE].accepted
    BY SMTT(30), <1>1, <2>2 DEF Tasks
  <2>4. QED
    BY <1>1, <2>1, <2>3 DEF At
<1>3. CASE /\ ~Launches(w) /\ ~Relaunches(w)
           /\ Accepts(w) \/ Adopts(w) \/ Works(w) \/ Written(w) \/ Acks(w) \/ Recovers(w)
  BY <1>1, <1>3 DEF Accepts, Adopts, Works, Written, Acks, Acknowledgeable, Recovers, At, Tasks
<1>4. QED
  BY <1>2, <1>3

\* A worker comes to name a conversation its record has, or a new one.
LEMMA TaskSid ==
  ASSUME Kept, NEW w \in Workers, WorkerStep(w)
  PROVE  \/ task'[w].sid \in {task[w].sid, None}
         \/ task[w].gen \in DOMAIN cache /\ task'[w].sid = cache[task[w].gen].sid
         \/ Accepts(w) /\ task[w].sid = None /\ task'[w].sid = Len(has) + 1
<1>1. task \in [Workers -> Tasks] /\ task[w] \in Tasks
  BY DEF Kept, TypeOK
<1>2. CASE At(w, "run")'
  BY <1>2, RunsFrom, WorkerFacts DEF Held
<1>3. CASE Enters(w) \/ Pins(w) \/ Quits(w) \/ Flushes(w) \/ Publishes(w)
  BY <1>1, <1>3 DEF Enters, Pins, Quits, Flushes, Publishes, Go, Tasks
<1>4. CASE Selects(w)
  <2>1. PICK g \in Nat, r \in Records : SelectsGen(w, g, r)
    BY <1>4, SelectParts
  <2> DEFINE b == task'[w].at
             f == task'[w].expected
  <2>2. task' = [task EXCEPT ![w].at = b, ![w].gen = g, ![w].expected = f]
    BY <2>1 DEF SelectsGen
  <2> HIDE DEF b, f
  <2>3. task'[w].sid = task[w].sid
    BY <1>1, <2>2 DEF Tasks
  <2>4. QED
    BY <2>3
<1>5. CASE Ends(w)
  <2>1. PICK b \in BOOLEAN : task' = [task EXCEPT ![w] = Ended(w, b)]
    BY <1>5 DEF Ends
  <2>2. QED
    BY <1>1, <2>1, EndedFacts
<1>6. CASE Launches(w) \/ Relaunches(w) \/ Accepts(w) \/ Adopts(w) \/ Works(w) \/ Written(w) \/ Acks(w) \/ Recovers(w)
  BY <1>2, <1>6, StaysRunning
<1>7. QED
  BY <1>3, <1>4, <1>5, <1>6 DEF WorkerStep

LEMMA ApartStep ==
  ASSUME Kept, [Next]_vars
  PROVE  ConversationsApart'
<1>1. /\ ConversationsApart /\ TypeOK' /\ TypeOK /\ None \notin Nat /\ "run" \notin {"off", "want"}
  BY TypeStep, NativeAssumption DEF Kept, NativeAssumption
<1>2. CASE Leaves
  BY <1>1, <1>2 DEF ConversationsApart, Leaves, Uses, At
<1>3. CASE Resets
  <2>1. /\ gens' = gens /\ DOMAIN cache' = {} /\ has' = has
        /\ \A w \in Workers : task'[w].at # "run" /\ task'[w].sid = None
    BY <1>1, <1>3 DEF Resets, Rests
  <2>2. \A g, s : Uses(g, s)' => Uses(g, s) /\ g \in DOMAIN gens
    BY <2>1 DEF Uses, At
  <2>3. QED
    BY <1>1, <2>1, <2>2 DEF ConversationsApart, Maybe
<1>4. CASE Deletes
  <2>1. gens' = <<>> /\ DOMAIN gens' = {} /\ cache' = cache /\ has' = has /\ task' = task
    <3>1. gens' = <<>> /\ cache' = cache /\ has' = has /\ task' = task
      BY <1>4 DEF Deletes, provider
    <3>2. QED
      BY <3>1
  <2>2. \A g, s : Uses(g, s)' => Uses(g, s)
    BY <2>1 DEF Uses, At
  <2>3. QED
    BY <1>1, <2>1, <2>2 DEF ConversationsApart, Maybe
<1>5. ASSUME NEW w \in Workers, WorkerStep(w) \/ AcksLog(w)
      PROVE  ConversationsApart'
  <2>1. DOMAIN has \subseteq DOMAIN has' /\ DOMAIN has' \subseteq Nat
    <3>1. has \in Seq(SUBSET Texts)
      BY <1>1 DEF TypeOK
    <3>2. CASE WorkerStep(w)
      <4>1. has' \in Seq(SUBSET Texts) /\ DOMAIN has \subseteq DOMAIN has'
        BY <3>2, HasGrows
      <4>2. DOMAIN has' = 1..Len(has') /\ Len(has') \in Nat
        BY <4>1, LenProperties
      <4>3. QED
        BY <4>1, <4>2
    <3>3. CASE AcksLog(w)
      <4>1. has' = has
        BY <3>3 DEF AcksLog, provider
      <4>2. DOMAIN has = 1..Len(has) /\ Len(has) \in Nat
        BY <3>1, LenProperties
      <4>3. QED
        BY <4>1, <4>2
    <3>4. QED
      BY <1>5, <3>2, <3>3
  <2>2. Len(has) + 1 \notin DOMAIN has
    <3>1. has \in Seq(SUBSET Texts)
      BY <1>1 DEF TypeOK
    <3>2. DOMAIN has = 1..Len(has) /\ Len(has) \in Nat
      BY <3>1, LenProperties
    <3>3. QED
      BY <3>2
  <2>3. Accepts(w) /\ task[w].sid = None => Len(has) + 1 \in DOMAIN has'
    <3> SUFFICES ASSUME Accepts(w), task[w].sid = None PROVE Len(has) + 1 \in DOMAIN has'
      OBVIOUS
    <3>1. has' = Append(has, Prompt(w)) /\ Prompt(w) \in SUBSET Texts /\ has \in Seq(SUBSET Texts)
      BY <1>1, PromptType DEF Accepts, TypeOK
    <3>2. Len(has') = Len(has) + 1 /\ has' \in Seq(SUBSET Texts) /\ Len(has) \in Nat
      BY <3>1, AppendProperties, LenProperties
    <3>3. QED
      BY <3>2, LenProperties
  <2>4. ASSUME NEW g, NEW h, NEW s \in DOMAIN has', Uses(g, s)', Uses(h, s)'
        PROVE  g = h
    <3>1. s \in Nat
      BY <2>1
    <3>2. Uses(g, s) \/ (g = task[w].gen /\ s = Len(has) + 1)
      BY <1>5, <2>4, <3>1, UsesStep
    <3>3. Uses(h, s) \/ (h = task[w].gen /\ s = Len(has) + 1)
      BY <1>5, <2>4, <3>1, UsesStep
    <3>4. Uses(g, s) => g \in DOMAIN gens \cup DOMAIN cache /\ s \in DOMAIN has
      BY <3>1, UsedThere
    <3>5. Uses(h, s) => h \in DOMAIN gens \cup DOMAIN cache /\ s \in DOMAIN has
      BY <3>1, UsedThere
    <3>6. QED
      BY <1>1, <2>2, <3>2, <3>3, <3>4, <3>5 DEF ConversationsApart
  <2>5. /\ \A g \in DOMAIN gens' : gens'[g].sid \in Maybe(DOMAIN has')
        /\ \A g \in DOMAIN cache' : cache'[g].sid \in Maybe(DOMAIN has')
    <3>1. \A g \in DOMAIN gens' : gens'[g].sid \in Maybe(Nat)
      <4>1. gens' \in Seq(Records)
        BY <1>1 DEF TypeOK
      <4>2. \A g \in DOMAIN gens' : gens'[g] \in Records
        BY <4>1, LenProperties, ElementOfSeq
      <4>3. QED
        BY <4>2 DEF Records
    <3>2. \A g \in DOMAIN cache' : cache'[g].sid \in Maybe(Nat)
      BY <1>1 DEF TypeOK, Records
    <3>3. \A g : \A s \in Nat : Uses(g, s) => s \in DOMAIN has
      BY UsedThere
    <3>4. QED
      BY <1>5, <2>1, <3>1, <3>2, <3>3, RecordSids DEF Maybe
  <2>6. ASSUME NEW v \in Workers
        PROVE  task'[v].sid \in Maybe(DOMAIN has')
    <3>1. CASE AcksLog(w) \/ v # w
      <4>1. task'[v] = task[v]
        BY <1>5, <3>1, WorkerTask DEF AcksLog
      <4>2. QED
        BY <1>1, <2>1, <4>1 DEF ConversationsApart, Maybe
    <3>2. CASE WorkerStep(w) /\ v = w
      BY <1>1, <2>1, <2>3, <3>2, TaskSid DEF ConversationsApart, Maybe
    <3>3. QED
      BY <1>5, <3>1, <3>2
  <2>7. QED
    BY <2>4, <2>5, <2>6 DEF ConversationsApart
<1>6. QED
  BY <1>2, <1>3, <1>4, <1>5, SessionSteps

-----------------------------------------------------------------------------
(* The workers of the turn.                                                *)

\* What the invariant says of one of them.
Placed(w) ==
  /\ lane = w <=> task[w].at \in Held
  /\ task[w].at # "off" => JobOf[w] = turn.job /\ turn.pair = 0
  /\ task[w].at \in Held \ {"select"} =>
       /\ task[w].gen \in DOMAIN cache
       /\ task[w].expected \in Maybe({g \in Nat : g <= task[w].gen})
  /\ At(w, "pin") => pin[w] = None
  /\ task[w].delivered # None => task[w].gen \in DOMAIN cache
  /\ task[w].acked => At(w, "run")
  /\ task[w].answered => task[w].at \in {"flush", "publish", "off"}

LEMMA AllPlaced == WorkersInv <=> (\A w \in Workers : Placed(w)) /\ turn.seen <= Len(logged)
  BY DEF WorkersInv, Placed

LEMMA LaneMoves ==
  ASSUME Kept, NEW w \in Workers, WorkerStep(w)
  PROVE  \A v \in Workers \ {w} : lane' = v <=> lane = v
<1>1. None \notin Workers
  BY NativeAssumption DEF NativeAssumption
<1>2. Publishes(w) => lane = w
  BY WorkerFacts DEF Publishes, At, Held
<1>3. CASE Enters(w)
  BY <1>1, <1>3 DEF Enters, LaneFree
<1>4. CASE Quits(w)
  BY <1>1, <1>4 DEF Quits
<1>5. CASE Publishes(w)
  BY <1>1, <1>2, <1>5 DEF Publishes
<1>6. QED
  BY <1>3, <1>4, <1>5, WorkerRest

LEMMA PlacedStep ==
  ASSUME Kept, TypeOK', NEW w \in Workers, WorkerStep(w)
  PROVE  Placed(w)'
<1>1. /\ Placed(w) /\ turn' = turn /\ None \notin Nat \cup Workers /\ DOMAIN cache \subseteq DOMAIN cache'
      /\ task \in [Workers -> Tasks] /\ task[w] \in Tasks
  BY Shape, AllPlaced, WorkerRest, RecordsStay, NativeAssumption DEF Kept, NativeAssumption
<1>2. ASSUME NEW a, Go(w, a)
      PROVE  /\ task'[w].at = a /\ task'[w].gen = task[w].gen /\ task'[w].expected = task[w].expected
             /\ task'[w].delivered = task[w].delivered /\ task'[w].acked = task[w].acked
             /\ task'[w].answered = task[w].answered
  BY <1>1, <1>2 DEF Go, Tasks
<1>3. CASE Enters(w)
  <2>1. task[w].at = "want" /\ lane' = w /\ Go(w, "select")
    BY <1>3 DEF Enters, At
  <2>2. QED
    BY <1>1, <1>2, <2>1 DEF Placed, Held, At
<1>4. CASE Selects(w)
  <2>1. /\ task[w].at = "select" /\ lane' = lane
        /\ \E g \in Nat, r \in Records : SelectsGen(w, g, r)
    BY <1>4, SelectParts DEF Selects
  <2>2. PICK g \in Nat, r \in Records : SelectsGen(w, g, r)
    BY <2>1
  <2> DEFINE b == task'[w].at
             f == task'[w].expected
  <2>3. task' = [task EXCEPT ![w].at = b, ![w].gen = g, ![w].expected = f]
    BY <2>2 DEF SelectsGen
  <2> HIDE DEF b, f
  <2>4. /\ task'[w].gen = g /\ task'[w].delivered = task[w].delivered /\ task'[w].acked = task[w].acked
        /\ task'[w].answered = task[w].answered
    BY <1>1, <2>3 DEF Tasks
  <2>5. /\ task'[w].at \in {"ready", "pin"} /\ g \in DOMAIN cache'
        /\ task'[w].at = "pin" => pin[w] = None
    BY <2>2 DEF SelectsGen
  <2>6. task'[w].expected \in Maybe({x \in Nat : x <= g})
    <3>1. CASE task'[w].expected = g
      BY <3>1 DEF Maybe
    <3>2. CASE task'[w].expected = head /\ g = Len(gens) + 1
      <4>1. /\ ~deleted /\ head \in Maybe(DOMAIN gens) /\ DOMAIN gens = 1..Len(gens) /\ Len(gens) \in Nat
        BY <1>4, SelectParts, LenProperties DEF Kept, TypeOK, LinesInv
      <4>2. QED
        BY <3>2, <4>1 DEF Maybe
    <3>3. QED
      BY <2>2, <3>1, <3>2 DEF SelectsGen
  <2>7. pin' = pin
    BY <1>4 DEF Selects
  <2>8. QED
    BY <1>1, <2>1, <2>4, <2>5, <2>6, <2>7 DEF Placed, Held, At
<1>5. CASE Pins(w)
  <2>1. task[w].at = "pin" /\ lane' = lane /\ Go(w, "ready")
    BY <1>5 DEF Pins, At
  <2>2. QED
    BY SMTT(30), <1>1, <1>2, <2>1 DEF Placed, Held, At
<1>6. CASE Quits(w)
  <2>1. /\ task[w].at \in {"want", "select", "pin"} /\ lane' = (IF lane = w THEN None ELSE lane) /\ Go(w, "off")
    BY <1>6 DEF Quits
  <2>2. QED
    BY <1>1, <1>2, <2>1 DEF Placed, Held, At
<1>7. CASE At(w, "run")'
  <2>1. /\ task'[w].gen = task[w].gen /\ task[w].at \in {"ready", "run"}
        /\ task'[w].expected = task[w].expected /\ task'[w].answered = task[w].answered
        /\ task'[w].at = "run"
    BY SMTT(30), <1>7, RunsFrom DEF At
  <2>2. lane' = lane
    BY <1>7, RunsFrom DEF Launches, Relaunches, Accepts, Adopts, Works, Written, Acks, Recovers
  <2>3. QED
    BY <1>1, <2>1, <2>2 DEF Placed, Held, At
<1>8. CASE Ends(w)
  <2>1. PICK b \in BOOLEAN : task' = [task EXCEPT ![w] = Ended(w, b)]
    BY <1>8 DEF Ends
  <2>2. /\ task'[w].at = "flush" /\ ~task'[w].acked /\ task'[w].gen = task[w].gen
        /\ task'[w].expected = task[w].expected /\ task'[w].delivered = task[w].delivered
    BY <1>1, <2>1, EndedFacts
  <2>3. lane' = lane /\ task[w].at \in {"ready", "run"}
    BY <1>8 DEF Ends
  <2>4. QED
    BY <1>1, <2>2, <2>3 DEF Placed, Held, At
<1>9. CASE Flushes(w)
  <2>1. task[w].at = "flush" /\ lane' = lane /\ Go(w, "publish")
    BY <1>9 DEF Flushes, At
  <2>2. /\ task'[w].at = "publish" /\ task'[w].gen = task[w].gen /\ task'[w].acked = task[w].acked
        /\ task'[w].expected = task[w].expected /\ task'[w].answered = task[w].answered
        /\ task'[w].delivered = task[w].delivered
    BY <1>2, <2>1
  <2>3. QED
    BY <1>1, <2>1, <2>2 DEF Placed, Held, At
<1>10. CASE Publishes(w)
  <2>1. task[w].at = "publish" /\ lane' = None /\ Go(w, "off")
    BY <1>10 DEF Publishes, At
  <2>2. QED
    BY <1>1, <1>2, <2>1 DEF Placed, Held, At
<1>11. CASE Launches(w) \/ Relaunches(w) \/ Accepts(w) \/ Adopts(w) \/ Works(w) \/ Written(w) \/ Acks(w) \/ Recovers(w)
  BY <1>7, <1>11, StaysRunning
<1>12. QED
  BY <1>3, <1>4, <1>5, <1>6, <1>8, <1>9, <1>10, <1>11 DEF WorkerStep

LEMMA WorkersStep ==
  ASSUME Kept, [Next]_vars
  PROVE  WorkersInv'
<1>1. /\ TypeOK' /\ \A w \in Workers : Placed(w)
      /\ turn.seen \in Nat /\ turn.seen <= Len(logged) /\ None \notin Workers
  <2>1. TypeOK'
    BY TypeStep
  <2>2. (\A w \in Workers : Placed(w)) /\ turn.seen <= Len(logged)
    BY AllPlaced DEF Kept
  <2>3. turn.seen \in Nat
    BY Shape
  <2>4. None \notin Workers
    BY NativeAssumption DEF NativeAssumption
  <2>5. QED
    BY <2>1, <2>2, <2>3, <2>4
<1>2. CASE Leaves
  <2>1. turn'.seen = turn.seen
    <3>1. turn \in [job : Maybe(Jobs), seen : Nat, section : 0..MaxEvents, pair : Nat,
                    reply : Maybe(Said), owed : SUBSET Workers]
      BY ZenonT(60) DEF Kept, TypeOK
    <3>2. QED
      BY ZenonT(60), <1>2, <3>1 DEF Leaves, Logs
  <2>2. turn' = turn \/ \A w \in Workers : task[w].at = "off"
    BY ZenonT(60), <1>2 DEF Leaves, Logs, At
  <2>3. ASSUME NEW w \in Workers
        PROVE  Placed(w)'
    <3>1. UNCHANGED <<pin, cache, lane, task>>
      BY <1>2 DEF Leaves
    <3>2. QED
      BY <1>1, <2>2, <3>1 DEF Placed, At, Held
  <2>4. turn'.seen <= Len(logged')
    BY <1>1, <1>2, <2>1 DEF Leaves
  <2>5. QED
    BY SMTT(30), <2>3, <2>4 DEF WorkersInv, Placed
<1>3. CASE Resets
  <2>1. ASSUME NEW w \in Workers
        PROVE  Placed(w)'
    <3>1. /\ Rests(task'[w]) /\ lane' = None /\ turn'.pair = 0
          /\ task'[w].at = "want" => JobOf[w] = turn'.job
      BY <1>3 DEF Resets
    <3>2. /\ task'[w].at \in {"off", "want"} /\ task'[w].delivered = None
          /\ ~task'[w].acked /\ ~task'[w].answered
      BY <3>1 DEF Rests
    <3>3. task'[w].at \notin Held /\ lane' # w /\ task'[w].at # "pin"
      BY <1>1, <3>1, <3>2 DEF Held
    <3>4. QED
      BY <3>1, <3>2, <3>3 DEF Placed, At
  <2>2. QED
    BY <1>3, <2>1 DEF WorkersInv, Placed, Resets
<1>4. CASE Deletes
  BY SMTT(30), <1>1, <1>4 DEF Deletes, WorkersInv, Placed, At
<1>5. ASSUME NEW w \in Workers, WorkerStep(w)
      PROVE  WorkersInv'
  <2>1. UNCHANGED <<turn, logged>> /\ DOMAIN cache \subseteq DOMAIN cache'
    BY <1>5, WorkerRest, RecordsStay
  <2>2. ASSUME NEW v \in Workers \ {w}
        PROVE  Placed(v)'
    <3>1. task'[v] = task[v] /\ (lane' = v <=> lane = v)
      BY <1>5, WorkerTask, LaneMoves
    <3>2. pin'[v] = pin[v]
      <4>1. pin' = pin \/ pin' = [pin EXCEPT ![w] = task[w].gen]
        BY <1>5, WorkerRest DEF Pins
      <4>2. QED
        BY <4>1 DEF Kept, TypeOK
    <3>3. QED
      BY ZenonT(60), <1>1, <2>1, <3>1, <3>2 DEF Placed, At
  <2>3. Placed(w)'
    BY <1>1, <1>5, PlacedStep
  <2>4. QED
    BY ZenonT(60), <1>1, <2>1, <2>2, <2>3 DEF WorkersInv, Placed
<1>6. ASSUME NEW w \in Workers, AcksLog(w)
      PROVE  WorkersInv'
  <2>1. /\ UNCHANGED <<pin, lane, task, logged>> /\ DOMAIN cache \subseteq DOMAIN cache'
        /\ turn'.job = turn.job /\ turn'.pair = turn.pair /\ turn'.seen = turn.seen
    BY <1>6, RecordsStay DEF AcksLog, Kept, TypeOK
  <2>2. ASSUME NEW v \in Workers
        PROVE  Placed(v)'
    BY <1>1, <2>1 DEF Placed, At
  <2>3. QED
    BY <1>1, <2>1, <2>2 DEF WorkersInv, Placed
<1>7. QED
  BY <1>2, <1>3, <1>4, <1>5, <1>6, SessionSteps

-----------------------------------------------------------------------------
(* What a process has been told.                                           *)

\* What the invariant says of the process of one worker.
Running(w) ==
  At(w, "run") =>
    /\ IF ~task[w].accepted THEN task[w].sid = Record(w).sid
       ELSE /\ task[w].sid # None /\ Record(w).sid \in {None, task[w].sid}
            /\ {logged[i] : i \in task[w].shown} \cup {Section(turn.section), Request(JobOf[w])}
                 \subseteq has[task[w].sid]
    /\ task[w].active => task[w].accepted
    /\ task[w].acked => task[w].active /\ task[w].delivered = task[w].sid
    /\ task[w].shown \subseteq 1..turn.seen
    /\ ~task[w].cut => 1..turn.seen \subseteq task[w].shown \cup Matching(Record(w)).known

LEMMA AllRunning == RunInv <=> \A w \in Workers : Running(w)
  BY DEF RunInv, Running

LEMMA OthersWait ==
  ASSUME Kept, NEW w \in Workers, WorkerStep(w), NEW v \in Workers \ {w}, task[v].at \in Held
  PROVE  UNCHANGED <<cache, gens, has>>
<1>1. lane = v /\ task[w].at \notin Held /\ v # None
  BY LaneOnce, Where, NativeAssumption DEF NativeAssumption
<1>2. Enters(w) \/ Quits(w)
  BY <1>1 DEF WorkerStep, Selects, Pins, Launches, Relaunches, Accepts, Adopts, Works, Written, Acks,
              Acknowledgeable, Recovers, Ends, Flushes, Publishes, At, Held
<1>3. QED
  BY <1>2 DEF Enters, Quits, disk, provider

\* What a ledger that counts says, its conversation knows.
LEMMA KnownTrue ==
  ASSUME NEW r \in Records, True(r)
  PROVE  /\ Matching(r).section # None => r.sid \in DOMAIN has /\ Section(Matching(r).section) \in has[r.sid]
         /\ Matching(r).request # None => r.sid \in DOMAIN has /\ Request(Matching(r).request) \in has[r.sid]
         /\ Matching(r).known # {} => r.sid \in DOMAIN has
         /\ Matching(r).known \subseteq DOMAIN logged
         /\ \A i \in Matching(r).known : logged[i] \in has[r.sid]
  BY MatchingType DEF True

LEMMA AcceptsTold ==
  ASSUME Kept, NEW w \in Workers, Accepts(w)
  PROVE  /\ task'[w].sid \in DOMAIN has' /\ task'[w].sid # None
         /\ task[w].sid # None => task'[w].sid = task[w].sid
         /\ {logged[i] : i \in task[w].shown} \cup {Section(turn.section), Request(JobOf[w])}
              \subseteq has'[task'[w].sid]
<1>1. /\ task \in [Workers -> Tasks] /\ task[w] \in Tasks /\ has \in Seq(SUBSET Texts) /\ None \notin Nat \cup Jobs
      /\ At(w, "run") /\ ~task[w].accepted /\ Prompt(w) \in SUBSET Texts /\ JobOf[w] \in Jobs
  BY Shape, PromptType, NativeAssumption DEF Accepts, NativeAssumption
<1>2. /\ Record(w) \in Records /\ True(Record(w)) /\ Record(w).sid = task[w].sid
  BY <1>1, WorkerFacts DEF At, Held, Kept, RunInv
<1>3. task[w].sid \in Maybe(DOMAIN has) /\ turn.section \in 0..MaxEvents
  BY DEF Kept, ConversationsApart, TypeOK
<1>4. task'[w].sid = IF task[w].sid = None THEN Len(has') ELSE task[w].sid
  BY <1>1 DEF Accepts, Tasks
<1>5. /\ task'[w].sid \in DOMAIN has' /\ task'[w].sid # None /\ Prompt(w) \subseteq has'[task'[w].sid]
      /\ task[w].sid # None => has[task[w].sid] \subseteq has'[task'[w].sid]
  <2>1. CASE task[w].sid # None
    <3>1. has' = [has EXCEPT ![task[w].sid] = has[task[w].sid] \cup Prompt(w)] /\ task[w].sid \in DOMAIN has
      BY <1>3, <2>1 DEF Accepts, Maybe
    <3>2. QED
      BY <1>4, <2>1, <3>1
  <2>2. CASE task[w].sid = None
    <3>1. has' = Append(has, Prompt(w))
      BY <2>2 DEF Accepts
    <3>2. /\ has' \in Seq(SUBSET Texts) /\ Len(has') = Len(has) + 1 /\ has'[Len(has) + 1] = Prompt(w)
          /\ Len(has) \in Nat
      BY <1>1, <3>1, AppendProperties, LenProperties
    <3>3. Len(has') \in DOMAIN has' /\ Len(has') \in Nat
      BY <3>2, LenProperties
    <3>4. QED
      BY <1>1, <1>4, <2>2, <3>2, <3>3
  <2>3. QED
    BY <2>1, <2>2
<1>6. {logged[i] : i \in task[w].shown} \subseteq has'[task'[w].sid]
  BY <1>5 DEF Prompt
<1>7. Section(turn.section) \in has'[task'[w].sid]
  <2>1. CASE Matching(Record(w)).section = turn.section
    <3>1. turn.section # None
      BY <1>1, <1>3
    <3>2. Record(w).sid \in DOMAIN has /\ Section(turn.section) \in has[Record(w).sid]
      BY <1>2, <2>1, <3>1, KnownTrue
    <3>3. Record(w).sid # None
      BY <1>1, <3>2, LenProperties
    <3>4. QED
      BY <1>2, <1>5, <3>2, <3>3
  <2>2. CASE Matching(Record(w)).section # turn.section
    BY <1>5, <2>2 DEF Prompt
  <2>3. QED
    BY <2>1, <2>2
<1>8. Request(JobOf[w]) \in has'[task'[w].sid]
  <2>1. CASE Matching(Record(w)).request = JobOf[w]
    <3>1. JobOf[w] # None
      BY <1>1
    <3>2. Record(w).sid \in DOMAIN has /\ Request(JobOf[w]) \in has[Record(w).sid]
      BY <1>2, <2>1, <3>1, KnownTrue
    <3>3. Record(w).sid # None
      BY <1>1, <3>2, LenProperties
    <3>4. QED
      BY <1>2, <1>5, <3>2, <3>3
  <2>2. CASE Matching(Record(w)).request # JobOf[w]
    BY <1>5, <2>2 DEF Prompt
  <2>3. QED
    BY <2>1, <2>2
<1>9. QED
  BY <1>4, <1>5, <1>6, <1>7, <1>8

LEMMA RunningStep ==
  ASSUME Kept, NEW w \in Workers, WorkerStep(w)
  PROVE  Running(w)'
<1> SUFFICES ASSUME At(w, "run")' PROVE Running(w)'
  BY DEF Running
<1>1. /\ task \in [Workers -> Tasks] /\ task[w] \in Tasks /\ turn.seen \in Nat /\ None \notin Nat
      /\ turn' = turn /\ logged' = logged /\ cache \in [DOMAIN cache -> Records] /\ Running(w)
  BY Shape, AllRunning, WorkerRest, NativeAssumption DEF Kept, NativeAssumption
<1>2. /\ \/ Launches(w) \/ Relaunches(w) \/ Accepts(w) \/ Adopts(w) \/ Works(w) \/ Written(w) \/ Acks(w)
         \/ Recovers(w)
      /\ task'[w].gen = task[w].gen /\ task[w].at \in {"ready", "run"}
  BY RunsFrom
<1>3. /\ task[w].gen \in DOMAIN cache /\ Record(w) = cache[task[w].gen] /\ Record(w) \in Records
      /\ True(Record(w))
  BY <1>2, WorkerFacts DEF Held
<1>4. Record(w)' = cache'[task[w].gen]
  BY <1>2 DEF Record
<1>5. /\ Matching(Record(w))' = Matching(Record(w)') /\ Record(w).sid \in Maybe(Nat)
  BY <1>3, RecordParts DEF Matching, NoLedger
<1>6. CASE Launches(w)
  <2>1. PICK oldest \in 1..turn.seen + 1 : task' = [task EXCEPT ![w] = Launched(w, Record(w), oldest)]
    BY <1>6 DEF Launches
  <2>2. task'[w] = Launched(w, Record(w), oldest) /\ cache' = cache
    BY <1>1, <1>6, <2>1 DEF Launches
  <2>3. /\ task'[w].sid = Record(w).sid /\ ~task'[w].accepted /\ ~task'[w].active /\ ~task'[w].acked
        /\ task'[w].shown \subseteq 1..turn.seen
        /\ ~task'[w].cut => 1..turn.seen \subseteq task'[w].shown \cup Matching(Record(w)).known
    <3>1. PICK r \in Records : r = Record(w) /\ task'[w] = Launched(w, r, oldest)
      BY <1>3, <2>2
    <3>2. /\ task'[w].sid = r.sid /\ ~task'[w].accepted /\ ~task'[w].active /\ ~task'[w].acked
          /\ task'[w].shown \subseteq 1..turn.seen
          /\ ~task'[w].cut => 1..turn.seen \subseteq task'[w].shown \cup Matching(r).known
      BY <3>1, LaunchedFacts
    <3>3. QED
      BY <3>1, <3>2
  <2>4. Record(w)' = Record(w)
    BY <1>3, <1>4, <2>2
  <2>5. QED
    BY <1>1, <1>5, <2>3, <2>4 DEF Running
<1>7. CASE Relaunches(w)
  <2> DEFINE blank == [Record(w) EXCEPT !.sid = None]
  <2>1. blank \in Records /\ blank.sid = None
    BY <1>3, RecordsMade DEF Maybe
  <2>2. PICK oldest \in 1..turn.seen + 1 :
          task' = [task EXCEPT ![w] = [Launched(w, blank, oldest) EXCEPT !.fresh = TRUE]]
    BY <1>7 DEF Relaunches
  <2>3. Record(w)' = blank
    BY <1>3, <1>4, <1>7 DEF Relaunches, Saves
  <2> HIDE DEF blank
  <2> DEFINE t == Launched(w, blank, oldest)
  <2>4. /\ t \in Tasks /\ t.sid = blank.sid /\ ~t.accepted /\ ~t.active /\ ~t.acked
        /\ t.shown \subseteq 1..turn.seen
        /\ ~t.cut => 1..turn.seen \subseteq t.shown \cup Matching(blank).known
    BY <2>1, LaunchedFacts
  <2>5. task'[w] = [t EXCEPT !.fresh = TRUE]
    BY <1>1, <2>2
  <2> HIDE DEF t
  <2>6. /\ task'[w].sid = blank.sid /\ ~task'[w].accepted /\ ~task'[w].active /\ ~task'[w].acked
        /\ task'[w].shown = t.shown /\ task'[w].cut = t.cut
    BY <2>4, <2>5 DEF Tasks
  <2>7. QED
    BY <1>1, <1>5, <2>3, <2>4, <2>6 DEF Running
<1>8. CASE Accepts(w)
  <2>1. /\ At(w, "run") /\ ~task[w].accepted /\ Record(w)' = Record(w)
    BY <1>3, <1>4, <1>8 DEF Accepts
  <2>2. /\ task'[w].accepted /\ task'[w].active = task[w].active /\ task'[w].acked = task[w].acked
        /\ task'[w].shown = task[w].shown /\ task'[w].cut = task[w].cut
    BY <1>1, <1>8 DEF Accepts, Tasks
  <2>3. /\ task'[w].sid # None
        /\ task[w].sid # None => task'[w].sid = task[w].sid
    BY <1>8, AcceptsTold
  <2>4. Record(w).sid = task[w].sid /\ ~task[w].active /\ ~task[w].acked
    BY <1>1, <2>1 DEF Running
  <2>5. {logged[i] : i \in task[w].shown} \cup {Section(turn.section), Request(JobOf[w])}
          \subseteq has'[task'[w].sid]
    BY <1>8, AcceptsTold
  <2>6. QED
    BY <1>1, <1>5, <2>1, <2>2, <2>3, <2>4, <2>5 DEF Running
<1>9. CASE Adopts(w)
  <2>1. /\ At(w, "run") /\ task[w].accepted /\ Record(w).sid = None /\ UNCHANGED <<task, has>>
    BY <1>9 DEF Adopts, provider
  <2>2. Record(w)'.sid = task[w].sid
    BY <1>3, <1>4, <1>9 DEF Adopts, Records
  <2>3. Matching(Record(w)).known = {}
    BY <2>1 DEF Matching, NoLedger
  <2>4. QED
    BY <1>1, <2>1, <2>2, <2>3 DEF Running
<1>10. CASE Works(w)
  <2>1. /\ At(w, "run") /\ task[w].accepted /\ has' = has /\ Record(w)' = Record(w)
    BY <1>3, <1>4, <1>10 DEF Works, provider
  <2>2. /\ task'[w].accepted /\ task'[w].acked = task[w].acked /\ task'[w].sid = task[w].sid
        /\ task'[w].shown = task[w].shown /\ task'[w].cut = task[w].cut /\ task'[w].active
        /\ task'[w].delivered = task[w].delivered
    BY <1>1, <1>10, <2>1 DEF Works, Tasks
  <2>3. QED
    BY <1>1, <1>5, <2>1, <2>2 DEF Running
<1>11. CASE Written(w)
  <2>1. At(w, "run") /\ UNCHANGED <<task, has, cache>>
    BY <1>11 DEF Written, provider
  <2>2. Record(w)' = Record(w)
    BY <1>3, <1>4, <2>1
  <2>3. QED
    BY <1>1, <1>5, <2>1, <2>2 DEF Running
<1>12. CASE Acks(w)
  <2>1. /\ At(w, "run") /\ task[w].active /\ Record(w).sid # None /\ has' = has
    BY <1>12 DEF Acks, Acknowledgeable, provider
  <2>2. Record(w)' = Acked(w)
    BY <1>3, <1>4, <1>12 DEF Acks, Saves, Acked
  <2>3. Acked(w).sid = Record(w).sid /\ Matching(Acked(w)).known = Matching(Record(w)).known \cup task[w].shown
    <3>1. /\ Acked(w) \in Records /\ Acked(w).sid = Record(w).sid /\ Acked(w).told.sid = Record(w).sid
          /\ Acked(w).told.known = Matching(Record(w)).known \cup task[w].shown
      <4>1. /\ Acked(w) \in Records /\ Acked(w).sid = Record(w).sid
            /\ Acked(w).told = [sid |-> Record(w).sid, section |-> turn.section, request |-> JobOf[w],
                                known |-> Matching(Record(w)).known \cup task[w].shown]
        BY <2>1, AckedRecord
      <4>2. QED
        BY <4>1
    <3>2. Matching(Acked(w)) = Acked(w).told
      BY <2>1, <3>1, MatchingType
    <3>3. QED
      BY <3>1, <3>2
  <2>4. /\ task'[w].accepted = task[w].accepted /\ task'[w].acked /\ task'[w].sid = task[w].sid
        /\ task'[w].shown = {} /\ task'[w].cut = task[w].cut /\ task'[w].active = task[w].active
        /\ task'[w].delivered = Record(w).sid
    BY <1>1, <1>12 DEF Acks, Tasks
  <2>5. /\ task[w].accepted /\ task[w].sid # None /\ Record(w).sid = task[w].sid
        /\ {Section(turn.section), Request(JobOf[w])} \subseteq has[task[w].sid]
        /\ ~task[w].cut => 1..turn.seen \subseteq task[w].shown \cup Matching(Record(w)).known
    BY <1>1, <2>1 DEF Running
  <2>6. QED
    BY <1>1, <1>5, <2>1, <2>2, <2>3, <2>4, <2>5 DEF Running
<1>13. CASE Recovers(w)
  <2>1. At(w, "run") /\ cache' = cache
    BY <1>13 DEF Recovers
  <2>2. Record(w)' = Record(w)
    BY <1>3, <1>4, <2>1
  <2>3. /\ ~task'[w].accepted /\ ~task'[w].acked /\ task'[w].sid = Record(w).sid /\ ~task'[w].active
        /\ task'[w].shown = task[w].shown \ Matching(Record(w)).known /\ task'[w].cut = task[w].cut
    BY <1>1, <1>13 DEF Recovers, Tasks
  <2>4. QED
    BY <1>1, <1>5, <2>1, <2>2, <2>3 DEF Running
<1>14. QED
  BY <1>2, <1>6, <1>7, <1>8, <1>9, <1>10, <1>11, <1>12, <1>13

LEMMA RunStep ==
  ASSUME Kept, [Next]_vars
  PROVE  RunInv'
<1>1. /\ \A w \in Workers : Running(w)
  BY AllRunning DEF Kept
<1>2. CASE Leaves
  <2>1. ASSUME NEW w \in Workers, task[w].at = "run"
        PROVE  /\ turn' = turn /\ UNCHANGED <<cache, task, has>>
               /\ \A i \in task[w].shown : logged'[i] = logged[i]
    <3>1. turn' = turn /\ UNCHANGED <<cache, task, has>>
      BY ZenonT(60), <1>2, <2>1 DEF Leaves, Logs, At
    <3>2. task[w].shown \subseteq 1..turn.seen /\ turn.seen <= Len(logged) /\ turn.seen \in Nat
      <4>1. task[w].shown \subseteq 1..turn.seen
        BY <1>1, <2>1 DEF Running, At
      <4>2. turn.seen <= Len(logged) /\ turn.seen \in Nat
        BY Shape, Where
      <4>3. QED
        BY <4>1, <4>2
    <3>3. DOMAIN logged = 1..Len(logged) /\ Len(logged) \in Nat
      BY LenProperties DEF Kept, TypeOK
    <3>4. QED
      BY SMTT(30), <1>2, <3>1, <3>2, <3>3 DEF Leaves
  <2>2. ASSUME NEW w \in Workers
        PROVE  Running(w)'
    <3> SUFFICES ASSUME At(w, "run")' PROVE Running(w)'
      BY DEF Running
    <3>1. At(w, "run")
      BY <1>2 DEF Leaves, At
    <3>2. turn' = turn /\ UNCHANGED <<cache, task, has>> /\ \A i \in task[w].shown : logged'[i] = logged[i]
      BY <2>1, <3>1 DEF At
    <3>3. {logged'[i] : i \in task[w].shown} = {logged[i] : i \in task[w].shown}
      BY <3>2
    <3>4. Record(w)' = Record(w) /\ Matching(Record(w))' = Matching(Record(w))
      BY <3>2 DEF Record, Matching
    <3>5. QED
      BY <1>1, <3>1, <3>2, <3>3, <3>4 DEF Running
  <2>3. QED
    BY <2>2 DEF RunInv, Running
<1>3. CASE Resets
  <2>1. \A w \in Workers : ~At(w, "run")'
    BY <1>3 DEF Resets, Rests, At
  <2>2. QED
    BY <2>1 DEF RunInv
<1>4. CASE Deletes
  <2>1. UNCHANGED <<turn, cache, task, has, logged>>
    BY <1>4 DEF Deletes, provider
  <2>2. QED
    BY <1>1, <2>1 DEF RunInv, Running, At, Record, Matching
<1>5. ASSUME NEW w \in Workers, WorkerStep(w)
      PROVE  RunInv'
  <2>1. ASSUME NEW v \in Workers \ {w}
        PROVE  Running(v)'
    <3> SUFFICES ASSUME At(v, "run")' PROVE Running(v)'
      BY DEF Running
    <3>1. task'[v] = task[v] /\ turn' = turn /\ logged' = logged
      BY <1>5, WorkerTask, WorkerRest
    <3>2. At(v, "run") /\ task[v].at \in Held
      BY <3>1 DEF At, Held
    <3>3. cache' = cache /\ has' = has
      BY <1>5, <3>2, OthersWait
    <3>4. Record(v)' = Record(v) /\ Matching(Record(v))' = Matching(Record(v))
      BY <3>1, <3>3 DEF Record, Matching
    <3>5. QED
      BY <1>1, <3>1, <3>2, <3>3, <3>4 DEF Running
  <2>2. Running(w)'
    BY <1>5, RunningStep
  <2>3. QED
    BY <2>1, <2>2 DEF RunInv, Running
<1>6. ASSUME NEW w \in Workers, AcksLog(w)
      PROVE  RunInv'
  <2>1. turn.pair # 0 /\ task' = task
    BY <1>6, OwedFacts DEF AcksLog
  <2>2. \A v \in Workers : ~At(v, "run")'
    BY <2>1, NoneLeft DEF At
  <2>3. QED
    BY <2>2 DEF RunInv
<1>7. QED
  BY <1>2, <1>3, <1>4, <1>5, <1>6, SessionSteps

-----------------------------------------------------------------------------
(* What the log owes the ledgers.                                          *)

\* What the invariant says of one worker's delivery, and of the notes owed.
Told(w) ==
  /\ task[w].answered => task[w].delivered # None
  /\ task[w].delivered # None =>
       /\ task[w].delivered \in DOMAIN has /\ Request(JobOf[w]) \in has[task[w].delivered]
       /\ task[w].answered => Reply(w, turns) \in has[task[w].delivered]
OwedInv ==
  turn.owed # {} =>
    /\ turn.pair > 0 /\ turn.pair + 1 \in DOMAIN logged
    /\ logged[turn.pair] = Request(turn.job) /\ logged[turn.pair + 1] = turn.reply
    /\ \A w \in turn.owed : /\ JobOf[w] = turn.job /\ task[w].delivered # None
                            /\ turn.reply = Reply(w, turns) => task[w].answered

LEMMA AllTold == LogInv <=> (\A w \in Workers : Told(w)) /\ OwedInv
  BY DEF LogInv, Told, OwedInv

LEMMA NotesOwed ==
  ASSUME Kept, Logs
  PROVE  OwedInv'
<1>1. /\ logged \in Seq(Said) /\ Len(logged) \in Nat /\ task' = task /\ turns' = turns /\ turn.pair = 0
      /\ turn \in [job : Maybe(Jobs), seen : Nat, section : 0..MaxEvents, pair : Nat,
                   reply : Maybe(Said), owed : SUBSET Workers]
      /\ turn.owed = {}
  BY LenProperties, OwedFacts DEF Kept, TypeOK, Logs, counts
<1>2. CASE turn' = [turn EXCEPT !.pair = Len(logged) + 1] /\ UNCHANGED logged
  <2>1. turn'.owed = {}
    BY <1>1, <1>2
  <2>2. QED
    BY <2>1 DEF OwedInv
<1>3. ASSUME NEW r \in {Reply(w, turns) : w \in {v \in Mine(turn.job) : task[v].answered}} \cup {Reply("own", turns)},
             logged' = logged \o <<Request(turn.job), r>>,
             turn' = [turn EXCEPT !.pair = Len(logged) + 1, !.reply = r,
                        !.owed = {w \in Mine(turn.job) : task[w].delivered # None}]
      PROVE  OwedInv'
  <2> DEFINE owed == {w \in Mine(turn.job) : task[w].delivered # None}
             n == Len(logged)
             more == <<Request(turn.job), r>>
  <2>1. turn' = [turn EXCEPT !.pair = n + 1, !.reply = r, !.owed = owed]
    BY <1>3
  <2>2. \A w \in owed : w \in Workers /\ JobOf[w] = turn.job /\ task[w].delivered # None
    BY DEF Mine
  <2> HIDE DEF owed
  <2>3. turn'.pair = n + 1 /\ turn'.reply = r /\ turn'.owed = owed /\ turn'.job = turn.job
    BY <1>1, <2>1
  <2>4. DOMAIN logged' = 1..n + 2 /\ logged'[n + 1] = Request(turn.job) /\ logged'[n + 2] = r
    <3> DEFINE S == UNION {Said, {Request(turn.job), r}}
    <3>1. logged \in Seq(S) /\ more \in Seq(S) /\ Len(more) = 2 /\ more[1] = Request(turn.job) /\ more[2] = r
      BY <1>1, SeqDef
    <3> HIDE DEF S, more
    <3>2. /\ logged \o more \in Seq(S) /\ Len(logged \o more) = n + Len(more)
          /\ \A i \in 1..n + Len(more) : (logged \o more)[i] = IF i <= n THEN logged[i] ELSE more[i - n]
      BY <3>1, ConcatProperties
    <3>3. logged' = logged \o more
      BY <1>3 DEF more
    <3>4. n \in Nat /\ Len(logged') = n + 2
      BY <1>1, <3>1, <3>2, <3>3
    <3>5. n + 1 \in 1..n + 2 /\ n + 2 \in 1..n + 2 /\ ~(n + 1 <= n) /\ ~(n + 2 <= n)
          /\ (n + 1) - n = 1 /\ (n + 2) - n = 2
      BY <3>4
    <3> HIDE DEF n
    <3>6. QED
      BY <3>1, <3>2, <3>3, <3>4, <3>5, LenProperties
  <2>5. ASSUME NEW w \in owed, r = Reply(w, turns)
        PROVE  task[w].answered
    <3>1. w # "own"
      BY <2>2, NativeAssumption DEF NativeAssumption
    <3>2. \A v : Reply(v, turns) = Reply(w, turns) => v = w
      BY DEF Reply
    <3>3. QED
      BY <1>3, <2>5, <3>1, <3>2
  <2>6. n + 1 > 0 /\ (n + 1) + 1 \in 1..n + 2 /\ (n + 1) + 1 = n + 2
    BY <1>1
  <2> HIDE DEF n
  <2>7. QED
    BY <1>1, <2>2, <2>3, <2>4, <2>5, <2>6 DEF OwedInv
<1>4. QED
  BY <1>2, <1>3 DEF Logs

LEMMA ToldStep ==
  ASSUME Kept, NEW w \in Workers, WorkerStep(w)
  PROVE  Told(w)'
<1>1. /\ task \in [Workers -> Tasks] /\ task[w] \in Tasks /\ Placed(w) /\ Told(w) /\ Running(w)
      /\ turns' = turns /\ DOMAIN has \subseteq DOMAIN has'
      /\ \A s \in DOMAIN has : has[s] \subseteq has'[s]
  BY AllPlaced, AllTold, AllRunning, WorkerRest, HasGrows DEF Kept, TypeOK
<1>2. ASSUME task'[w].delivered = task[w].delivered, task'[w].answered = task[w].answered
      PROVE  Told(w)'
  BY <1>1, <1>2 DEF Told
<1>3. CASE Enters(w) \/ Pins(w) \/ Quits(w) \/ Flushes(w) \/ Publishes(w)
  <2>1. task'[w].delivered = task[w].delivered /\ task'[w].answered = task[w].answered
    BY <1>1, <1>3 DEF Enters, Pins, Quits, Flushes, Publishes, Go, Tasks
  <2>2. QED
    BY <1>2, <2>1
<1>4. CASE Selects(w)
  <2>1. PICK g \in Nat, r \in Records : SelectsGen(w, g, r)
    BY <1>4, SelectParts
  <2> DEFINE b == task'[w].at
             f == task'[w].expected
  <2>2. task' = [task EXCEPT ![w].at = b, ![w].gen = g, ![w].expected = f]
    BY <2>1 DEF SelectsGen
  <2> HIDE DEF b, f
  <2>3. task'[w].delivered = task[w].delivered /\ task'[w].answered = task[w].answered
    BY <1>1, <2>2 DEF Tasks
  <2>4. QED
    BY <1>2, <2>3
<1>5. CASE Ends(w)
  <2>1. CASE task' = [task EXCEPT ![w] = Ended(w, FALSE)]
    <3>1. task'[w].delivered = task[w].delivered /\ task'[w].answered = FALSE
      BY <1>1, <2>1, EndedFacts
    <3>2. QED
      BY <1>1, <3>1 DEF Told
  <2>2. CASE /\ task[w].acked /\ task' = [task EXCEPT ![w] = Ended(w, TRUE)]
             /\ has' = [has EXCEPT ![task[w].sid] = @ \cup {Reply(w, turns)}]
    <3>1. task'[w].delivered = task[w].delivered
      BY <1>1, <2>2, EndedFacts
    <3>2. task[w].delivered = task[w].sid /\ task[w].sid # None
      BY <1>1, <2>2 DEF Placed, Running
    <3>3. task[w].sid \in DOMAIN has /\ Reply(w, turns) \in has'[task[w].sid]
      BY <1>1, <2>2, <3>2 DEF Told
    <3>4. QED
      BY <1>1, <3>1, <3>2, <3>3 DEF Told
  <2>3. QED
    BY <1>5, <2>1, <2>2 DEF Ends
<1>6. CASE Acks(w)
  <2>1. /\ At(w, "run") /\ task[w].active /\ Record(w).sid # None /\ has' = has
    BY <1>6 DEF Acks, Acknowledgeable, provider
  <2>2. /\ Record(w).sid = task[w].sid /\ Request(JobOf[w]) \in has[task[w].sid] /\ ~task[w].answered
    BY <1>1, <2>1 DEF Running, Placed, At
  <2>3. task[w].sid \in DOMAIN has
    BY <2>1, <2>2 DEF Kept, ConversationsApart, Maybe
  <2>4. task'[w].delivered = Record(w).sid /\ task'[w].answered = task[w].answered
    BY <1>1, <1>6 DEF Acks, Tasks
  <2>5. QED
    BY <1>1, <2>1, <2>2, <2>3, <2>4 DEF Told
<1>7. CASE Launches(w) \/ Relaunches(w) \/ Accepts(w) \/ Adopts(w) \/ Works(w) \/ Written(w) \/ Recovers(w)
  BY <1>2, <1>6, <1>7, StaysRunning, RunsFrom
<1>8. QED
  BY <1>3, <1>4, <1>5, <1>6, <1>7 DEF WorkerStep

LEMMA LogStep ==
  ASSUME Kept, [Next]_vars
  PROVE  LogInv'
<1>1. /\ (\A w \in Workers : Told(w)) /\ OwedInv
      /\ turn \in [job : Maybe(Jobs), seen : Nat, section : 0..MaxEvents, pair : Nat,
                   reply : Maybe(Said), owed : SUBSET Workers]
      /\ logged \in Seq(Said) /\ DOMAIN logged = 1..Len(logged) /\ Len(logged) \in Nat
  BY AllTold, LenProperties DEF Kept, TypeOK
<1>2. CASE Leaves
  <2>1. \A w \in Workers : Told(w)'
    BY <1>1, <1>2 DEF Leaves, Told
  <2>2. OwedInv'
    <3>1. CASE turn' = turn
      <4> SUFFICES ASSUME turn.owed # {} PROVE OwedInv'
        BY <3>1 DEF OwedInv
      <4>1. turn.pair \in DOMAIN logged /\ turn.pair + 1 \in DOMAIN logged
        BY <1>1 DEF OwedInv
      <4>2. QED
        BY <1>1, <1>2, <3>1, <4>1 DEF OwedInv, Leaves
    <3>2. QED
      BY <1>2, <3>1, NotesOwed DEF Leaves
  <2>3. QED
    BY <2>1, <2>2 DEF LogInv, Told, OwedInv
<1>3. CASE Resets
  <2>1. ASSUME NEW w \in Workers
        PROVE  Told(w)'
    <3>1. task'[w].delivered = None /\ ~task'[w].answered
      BY <1>3 DEF Resets, Rests
    <3>2. QED
      BY <3>1 DEF Told
  <2>2. OwedInv'
    BY <1>3 DEF Resets, OwedInv
  <2>3. QED
    BY <2>1, <2>2 DEF LogInv, Told, OwedInv
<1>4. CASE Deletes
  <2>1. UNCHANGED <<task, turn, has, logged, turns>>
    BY <1>4 DEF Deletes, Event, provider
  <2>2. QED
    BY <1>1, <2>1 DEF LogInv, Told, OwedInv
<1>5. ASSUME NEW w \in Workers, WorkerStep(w)
      PROVE  LogInv'
  <2>1. /\ UNCHANGED <<turn, turns, logged>> /\ DOMAIN has \subseteq DOMAIN has'
        /\ \A s \in DOMAIN has : has[s] \subseteq has'[s]
    BY <1>5, WorkerRest, HasGrows
  <2>2. ASSUME NEW v \in Workers \ {w}
        PROVE  Told(v)'
    <3>1. task'[v] = task[v]
      BY <1>5, WorkerTask
    <3>2. QED
      BY <1>1, <2>1, <3>1 DEF Told
  <2>3. Told(w)'
    BY <1>5, ToldStep
  <2>4. turn.owed = {}
    <3>1. task[w].at # "off"
      BY <1>5 DEF WorkerStep, Enters, Selects, Pins, Quits, Launches, Relaunches, Accepts, Adopts, Works,
                  Written, Acks, Acknowledgeable, Recovers, Ends, Flushes, Publishes, At
    <3>2. turn.pair = 0
      BY <3>1 DEF Kept, WorkersInv
    <3>3. QED
      BY SMTT(30), <1>1, <3>2 DEF OwedInv
  <2>5. OwedInv'
    BY <2>1, <2>4 DEF OwedInv
  <2>6. QED
    BY <2>2, <2>3, <2>5 DEF LogInv, Told, OwedInv
<1>6. ASSUME NEW w \in Workers, AcksLog(w)
      PROVE  LogInv'
  <2>1. /\ UNCHANGED <<task, turns, logged, has>> /\ turn' = [turn EXCEPT !.owed = @ \ {w}] /\ w \in turn.owed
    BY <1>6 DEF AcksLog, provider, counts
  <2>2. /\ turn'.job = turn.job /\ turn'.pair = turn.pair /\ turn'.reply = turn.reply
        /\ turn'.owed \subseteq turn.owed
    BY <1>1, <2>1
  <2>3. QED
    BY <1>1, <2>1, <2>2 DEF LogInv, Told, OwedInv
<1>7. QED
  BY <1>2, <1>3, <1>4, <1>5, <1>6, SessionSteps

-----------------------------------------------------------------------------
(* Ledgers are true.                                                       *)

\* True after the step, of a record.
TrueNext(r) ==
  r.told.sid # None =>
    /\ r.told.sid \in DOMAIN has' /\ r.told.known \subseteq DOMAIN logged'
    /\ {logged'[i] : i \in r.told.known} \cup {Section(r.told.section), Request(r.told.request)}
         \subseteq has'[r.told.sid]

LEMMA TrueStays ==
  ASSUME DOMAIN has \subseteq DOMAIN has', \A s \in DOMAIN has : has[s] \subseteq has'[s],
         DOMAIN logged \subseteq DOMAIN logged', \A i \in DOMAIN logged : logged'[i] = logged[i],
         NEW r, True(r)
  PROVE  TrueNext(r)
<1> SUFFICES ASSUME r.told.sid # None PROVE TrueNext(r)
  BY DEF TrueNext
<1>1. /\ r.told.sid \in DOMAIN has /\ r.told.known \subseteq DOMAIN logged
      /\ {logged[i] : i \in r.told.known} \cup {Section(r.told.section), Request(r.told.request)}
           \subseteq has[r.told.sid]
  BY DEF True
<1>2. {logged'[i] : i \in r.told.known} = {logged[i] : i \in r.told.known}
  BY <1>1
<1>3. QED
  BY <1>1, <1>2 DEF TrueNext

LEMMA AckedTrue ==
  ASSUME Kept, NEW w \in Workers, Acks(w)
  PROVE  True(Acked(w))
<1>1. /\ At(w, "run") /\ task[w].active /\ Record(w).sid # None
  BY DEF Acks, Acknowledgeable
<1>2. /\ Record(w) \in Records /\ True(Record(w))
  BY <1>1, WorkerFacts DEF At, Held
<1>3. /\ Record(w).sid = task[w].sid /\ task[w].shown \subseteq 1..turn.seen
      /\ {logged[i] : i \in task[w].shown} \cup {Section(turn.section), Request(JobOf[w])}
           \subseteq has[task[w].sid]
  BY <1>1 DEF Kept, RunInv
<1>4. task[w].sid \in DOMAIN has
  BY <1>1, <1>3 DEF Kept, ConversationsApart, Maybe
<1>5. task[w].shown \subseteq DOMAIN logged
  BY <1>3, LenProperties DEF Kept, WorkersInv, TypeOK
<1>6. /\ Matching(Record(w)).known \subseteq DOMAIN logged
      /\ \A i \in Matching(Record(w)).known : logged[i] \in has[Record(w).sid]
  BY <1>2, KnownTrue
<1>7. Acked(w).told = [sid |-> Record(w).sid, section |-> turn.section, request |-> JobOf[w],
                       known |-> Matching(Record(w)).known \cup task[w].shown]
  BY <1>1, AckedRecord
<1>8. /\ Acked(w).told.sid = task[w].sid /\ Acked(w).told.section = turn.section
      /\ Acked(w).told.request = JobOf[w]
      /\ Acked(w).told.known = Matching(Record(w)).known \cup task[w].shown
  BY <1>3, <1>7
<1>9. QED
  BY <1>3, <1>4, <1>5, <1>6, <1>8 DEF True

LEMMA LoggedTrue ==
  ASSUME Kept, NEW w \in turn.owed, Delivered(w)
  PROVE  True(Logged(w))
<1>1. /\ w \in Workers /\ Record(w) \in Records /\ True(Record(w))
      /\ turn.pair \in DOMAIN logged /\ turn.pair + 1 \in DOMAIN logged
      /\ logged[turn.pair] = Request(turn.job) /\ logged[turn.pair + 1] = turn.reply
      /\ JobOf[w] = turn.job /\ task[w].delivered # None
      /\ turn.reply = Reply(w, turns) => task[w].answered
  BY OwedFacts
<1>2. /\ Request(turn.job) \in has[task[w].delivered]
      /\ task[w].answered => Reply(w, turns) \in has[task[w].delivered]
  BY <1>1, AllTold DEF Kept, Told
<1>3. /\ Logged(w).told.sid = Record(w).told.sid /\ Logged(w).told.section = Record(w).told.section
      /\ Logged(w).told.request = Record(w).told.request
      /\ Logged(w).told.known = Record(w).told.known \cup {turn.pair} \cup
           (IF turn.reply = Reply(w, turns) THEN {turn.pair + 1} ELSE {})
  BY LoggedRecord
<1>4. Record(w).told.sid = task[w].delivered
  BY DEF Delivered
<1>5. QED
  BY <1>1, <1>2, <1>3, <1>4 DEF True

LEMMA LedgerStep ==
  ASSUME Kept, [Next]_vars
  PROVE  LedgerTrue'
<1>1. /\ \A g \in DOMAIN gens : True(gens[g])
      /\ \A g \in DOMAIN cache : True(cache[g])
  BY DEF Kept, LedgerTrue
<1>2. ASSUME DOMAIN has \subseteq DOMAIN has', \A s \in DOMAIN has : has[s] \subseteq has'[s],
             DOMAIN logged \subseteq DOMAIN logged', \A i \in DOMAIN logged : logged'[i] = logged[i],
             \A g \in DOMAIN gens' : True(gens'[g]), \A g \in DOMAIN cache' : True(cache'[g])
      PROVE  LedgerTrue'
  <2>1. \A r : True(r) => TrueNext(r)
    BY <1>2, TrueStays
  <2>2. /\ \A g \in DOMAIN gens' : TrueNext(gens'[g])
        /\ \A g \in DOMAIN cache' : TrueNext(cache'[g])
    BY <1>2, <2>1
  <2>3. QED
    BY <2>2 DEF LedgerTrue, True, TrueNext
<1>3. CASE Leaves
  BY <1>1, <1>2, <1>3 DEF Leaves
<1>4. CASE Resets
  BY <1>1, <1>2, <1>4 DEF Resets
<1>5. CASE Deletes
  <2>1. DOMAIN gens' = {} /\ UNCHANGED <<cache, has, logged>>
    <3>1. gens' = <<>> /\ UNCHANGED <<cache, has, logged>>
      BY <1>5 DEF Deletes, provider
    <3>2. QED
      BY <3>1
  <2>2. QED
    BY <1>1, <1>2, <2>1
<1>6. ASSUME NEW w \in Workers, WorkerStep(w) \/ AcksLog(w)
      PROVE  LedgerTrue'
  <2>1. /\ DOMAIN has \subseteq DOMAIN has' /\ \A s \in DOMAIN has : has[s] \subseteq has'[s]
        /\ DOMAIN logged \subseteq DOMAIN logged' /\ \A i \in DOMAIN logged : logged'[i] = logged[i]
    BY <1>6, HasGrows, WorkerRest DEF AcksLog, provider
  <2>2. CASE UNCHANGED <<gens, cache>>
    BY <1>1, <1>2, <2>1, <2>2
  <2>3. CASE Selects(w)
    <3>1. PICK g0 \in Nat, r \in Records : SelectsGen(w, g0, r)
      BY <2>3, SelectParts
    <3>2. True(r)
      <4>1. (g0 \in DOMAIN gens /\ r = gens[g0]) \/ r = Blank
        BY <3>1 DEF SelectsGen
      <4>2. True(Blank)
        BY RecordsMade DEF True
      <4>3. QED
        BY <1>1, <4>1, <4>2
    <3>3. \A g \in DOMAIN cache' : cache'[g] = r \/ (g \in DOMAIN cache /\ cache'[g] = cache[g])
      BY SMTT(30), <3>1 DEF SelectsGen
    <3>4. \A g \in DOMAIN gens' : gens'[g] = r \/ (g \in DOMAIN gens /\ gens'[g] = gens[g])
      BY <2>3, <3>1, SelectParts DEF SelectsGen
    <3>5. /\ \A g \in DOMAIN gens' : True(gens'[g])
          /\ \A g \in DOMAIN cache' : True(cache'[g])
      BY <1>1, <3>2, <3>3, <3>4
    <3>6. QED
      BY <1>2, <2>1, <3>5
  <2>4. CASE \E r \in Records : Replaces(w, r)
    <3>1. PICK r \in Records : Replaces(w, r)
      BY <2>4
    <3>2. True(r)
      <4>1. CASE r.told = Record(w).told
        <5>1. task[w].gen \in DOMAIN cache /\ Record(w) = cache[task[w].gen]
          BY <3>1 DEF Replaces, Puts, Record
        <5>2. QED
          BY <1>1, <4>1, <5>1 DEF True
      <4>2. CASE Acks(w) /\ r = Acked(w)
        BY <4>2, AckedTrue
      <4>3. CASE AcksLog(w) /\ Delivered(w) /\ r = Logged(w)
        BY <4>3, LoggedTrue DEF AcksLog
      <4>4. QED
        BY <3>1, <4>1, <4>2, <4>3 DEF Replaces
    <3>3. /\ \A g \in DOMAIN cache' : cache'[g] = r \/ (g \in DOMAIN cache /\ cache'[g] = cache[g])
          /\ \A g \in DOMAIN gens' : gens'[g] = r \/ (g \in DOMAIN gens /\ gens'[g] = gens[g])
      BY <3>1 DEF Replaces, Puts, Kept, TypeOK
    <3>4. /\ \A g \in DOMAIN gens' : True(gens'[g])
          /\ \A g \in DOMAIN cache' : True(cache'[g])
      BY <1>1, <3>2, <3>3
    <3>5. QED
      BY <1>2, <2>1, <3>4
  <2>5. QED
    BY <1>6, <2>2, <2>3, <2>4, WorkerRecords
<1>7. QED
  BY <1>3, <1>4, <1>5, <1>6, SessionSteps

-----------------------------------------------------------------------------
(* Lines.                                                                  *)

LEMMA KeptDriven ==
  ASSUME Kept
  PROVE  DrivenOnce
<1>1. ASSUME NEW v \in Workers, NEW w \in Workers, v # w, At(v, "run"), At(w, "run")
      PROVE  FALSE
  BY <1>1, LaneOnce DEF At, Held
<1>2. ASSUME NEW g \in DOMAIN gens, NEW h \in DOMAIN gens, gens[g].sid # None, gens[g].sid = gens[h].sid
      PROVE  g = h
  <2>1. gens[g].sid \in DOMAIN has
    BY <1>2 DEF Kept, ConversationsApart, Maybe
  <2>2. Uses(g, gens[g].sid) /\ Uses(h, gens[g].sid)
    BY <1>2 DEF Uses
  <2>3. QED
    BY <2>1, <2>2 DEF Kept, ConversationsApart
<1>3. QED
  BY <1>1, <1>2 DEF DrivenOnce

\* What no step does.
Stable ==
  /\ \A w \in Workers : pin[w] # None /\ pin'[w] # pin[w] => job'[JobOf[w]] = "done"
  /\ head # None /\ head' # None => head' >= head
  /\ \A g \in DOMAIN gens \cap DOMAIN gens' :
       gens[g].sid # None /\ gens'[g].sid # gens[g].sid => gens[g].sid \in gone
  /\ \A w \in Workers : ~task[w].accepted /\ task'[w].accepted /\ ~task[w].cut =>
       {logged[i] : i \in 1..turn.seen} \cup {Section(turn.section), Request(JobOf[w])}
         \subseteq has'[task'[w].sid]

\* A process that accepts a prompt nothing was cut from knows the history.
LEMMA AcceptsKnows ==
  ASSUME Kept, NEW w \in Workers, WorkerStep(w), ~task[w].accepted, task'[w].accepted, ~task[w].cut
  PROVE  {logged[i] : i \in 1..turn.seen} \cup {Section(turn.section), Request(JobOf[w])}
           \subseteq has'[task'[w].sid]
<1>1. task \in [Workers -> Tasks] /\ task[w] \in Tasks /\ None \notin Nat
  BY Shape, NativeAssumption DEF NativeAssumption
<1>2. CASE Accepts(w)
  <2>1. /\ task'[w].sid \in DOMAIN has'
        /\ task[w].sid # None => task'[w].sid = task[w].sid
        /\ {logged[i] : i \in task[w].shown} \cup {Section(turn.section), Request(JobOf[w])}
             \subseteq has'[task'[w].sid]
    BY <1>2, AcceptsTold
  <2>2. At(w, "run")
    BY <1>2 DEF Accepts
  <2>3. /\ task[w].sid = Record(w).sid
        /\ 1..turn.seen \subseteq task[w].shown \cup Matching(Record(w)).known
    BY <2>2 DEF Kept, RunInv
  <2>4. Record(w) \in Records /\ True(Record(w))
    BY <2>2, WorkerFacts DEF At, Held
  <2>5. ASSUME NEW i \in Matching(Record(w)).known
        PROVE  logged[i] \in has'[task'[w].sid]
    <3>1. Record(w).sid \in DOMAIN has /\ logged[i] \in has[Record(w).sid]
      BY <2>4, KnownTrue
    <3>2. Record(w).sid # None /\ has[Record(w).sid] \subseteq has'[Record(w).sid]
      BY SMTT(30), <1>1, <3>1, HasGrows, LenProperties DEF Kept, TypeOK
    <3>3. task'[w].sid = Record(w).sid
      BY <2>1, <2>3, <3>2
    <3>4. QED
      BY <3>1, <3>2, <3>3
  <2>6. QED
    BY <2>1, <2>3, <2>5
<1>3. CASE Enters(w) \/ Pins(w) \/ Quits(w) \/ Flushes(w) \/ Publishes(w) \/ Adopts(w) \/ Written(w)
  BY <1>1, <1>3 DEF Enters, Pins, Quits, Flushes, Publishes, Go, Tasks, Adopts, Written
<1>4. CASE Selects(w)
  <2>1. PICK g \in Nat, r \in Records : SelectsGen(w, g, r)
    BY <1>4, SelectParts
  <2> DEFINE b == task'[w].at
             f == task'[w].expected
  <2>2. task' = [task EXCEPT ![w].at = b, ![w].gen = g, ![w].expected = f]
    BY <2>1 DEF SelectsGen
  <2> HIDE DEF b, f
  <2>3. task'[w].accepted = task[w].accepted
    BY <1>1, <2>2 DEF Tasks
  <2>4. QED
    BY <2>3
<1>5. CASE Works(w) \/ Acks(w)
  <2>1. task[w].accepted
    BY <1>5 DEF Works, Acks, Acknowledgeable, Kept, RunInv
  <2>2. QED
    BY <2>1
<1>6. CASE Recovers(w)
  BY <1>1, <1>6 DEF Recovers, Tasks
<1>7. CASE Ends(w)
  <2>1. PICK b \in BOOLEAN : task' = [task EXCEPT ![w] = Ended(w, b)]
    BY <1>7 DEF Ends
  <2>2. QED
    BY <1>1, <2>1, EndedFacts
<1>8. CASE Launches(w) \/ Relaunches(w)
  BY <1>8, StaysRunning
<1>9. QED
  BY <1>2, <1>3, <1>4, <1>5, <1>6, <1>7, <1>8 DEF WorkerStep

LEMMA StableStep ==
  ASSUME Kept, [Next]_vars
  PROVE  Stable
<1>1. /\ TypeOK /\ LinesInv /\ None \notin Nat
  BY NativeAssumption DEF Kept, NativeAssumption
<1>2. head # None => head >= head
  BY <1>1 DEF TypeOK, Maybe
<1>3. CASE Leaves
  BY <1>2, <1>3 DEF Leaves, Stable
<1>4. CASE Resets
  BY <1>2, <1>4 DEF Resets, Stable, Rests
<1>5. CASE Deletes
  <2>1. gens' = <<>> /\ DOMAIN gens' = {} /\ head' = None /\ pin' = pin /\ task' = task
    <3>1. gens' = <<>> /\ head' = None /\ pin' = pin /\ task' = task
      BY <1>5 DEF Deletes
    <3>2. QED
      BY <3>1
  <2>2. QED
    BY <2>1 DEF Stable
<1>6. ASSUME NEW w \in Workers, WorkerStep(w) \/ AcksLog(w)
      PROVE  Stable
  <2>1. ASSUME NEW v \in Workers, pin[v] # None
        PROVE  pin'[v] = pin[v]
    <3>1. pin' = pin \/ (pin[w] = None /\ pin' = [pin EXCEPT ![w] = task[w].gen])
      BY <1>6, WorkerRest DEF Pins, Kept, WorkersInv, AcksLog
    <3>2. QED
      BY <1>1, <2>1, <3>1 DEF TypeOK
  <2>2. head # None => head' >= head
    <3>1. CASE head' = head
      BY <1>2, <3>1
    <3>2. CASE Publishes(w)
      <4>1. /\ head' = head \/ (head' = task[w].gen /\ Promotes(w))
            /\ task[w].gen \in Nat /\ task[w].expected \in Maybe({g \in Nat : g <= task[w].gen})
        BY <3>2, WorkerFacts DEF Publishes, At, Held, Kept, WorkersInv
      <4>2. Promotes(w) /\ head # None => head = task[w].expected \/ head = task[w].gen
        BY DEF Promotes
      <4>3. QED
        BY <1>2, <4>1, <4>2 DEF Maybe
    <3>3. QED
      BY <1>6, <3>1, <3>2, WorkerRest DEF AcksLog
  <2>3. ASSUME NEW g \in DOMAIN gens, g \in DOMAIN gens', gens[g].sid # None, gens'[g].sid # gens[g].sid
        PROVE  gens[g].sid \in gone
    <3>1. CASE Selects(w)
      BY <2>3, <3>1, SelectParts
    <3>2. CASE \E r \in Records : Replaces(w, r)
      <4>1. PICK r \in Records : Replaces(w, r)
        BY <3>2
      <4>2. g = task[w].gen /\ gens'[g] = r /\ g \in DOMAIN cache /\ Record(w) = cache[g]
        BY <2>3, <4>1 DEF Replaces, Puts, Record
      <4>3. gens[g].sid = cache[g].sid \/ gens[g].sid \in gone
        BY <1>1, <2>3, <4>2 DEF LinesInv
      <4>4. QED
        BY <2>3, <4>1, <4>2, <4>3 DEF Replaces
    <3>3. QED
      BY <1>6, <2>3, <3>1, <3>2, WorkerRecords
  <2>4. ASSUME NEW v \in Workers, ~task[v].accepted, task'[v].accepted, ~task[v].cut
        PROVE  {logged[i] : i \in 1..turn.seen} \cup {Section(turn.section), Request(JobOf[v])}
                 \subseteq has'[task'[v].sid]
    <3>1. WorkerStep(w) /\ v = w
      BY <1>6, <2>4, WorkerTask DEF AcksLog
    <3>2. QED
      BY <2>4, <3>1, AcceptsKnows
  <2>5. QED
    BY <2>1, <2>2, <2>3, <2>4 DEF Stable
<1>7. QED
  BY <1>3, <1>4, <1>5, <1>6, SessionSteps

-----------------------------------------------------------------------------
(* What holds of every run of the session.                                 *)

LEMMA InitKept ==
  ASSUME Init
  PROVE  Kept
<1>1. /\ None \notin Jobs \cup Workers \cup Nat /\ MaxTurns \in Nat /\ MaxEvents \in Nat
  BY NativeAssumption DEF NativeAssumption
<1>2. /\ logged = <<>> /\ gens = <<>> /\ has = <<>> /\ cache = <<>> /\ section = 0 /\ head = None
      /\ deleted = FALSE /\ lane = None /\ gone = {} /\ turns = 0 /\ events = 0 /\ turn = NoTurn
      /\ job = [j \in Jobs |-> "new"] /\ pin = [w \in Workers |-> None] /\ task = [w \in Workers |-> Off]
  BY DEF Init, NoCache
<1>3. /\ DOMAIN gens = {} /\ DOMAIN has = {} /\ DOMAIN cache = {} /\ Len(logged) = 0
      /\ logged \in Seq(Said) /\ gens \in Seq(Records) /\ has \in Seq(SUBSET Texts)
  BY <1>2, EmptySeq
<1>4. /\ turn.seen = 0 /\ turn.owed = {} /\ turn.pair = 0 /\ turn.job = None
      /\ turn \in [job : Maybe(Jobs), seen : Nat, section : 0..MaxEvents, pair : Nat,
                   reply : Maybe(Said), owed : SUBSET Workers]
  BY <1>1, <1>2 DEF NoTurn, Maybe
<1>5. ASSUME NEW w \in Workers
      PROVE  /\ task[w].at = "off" /\ task[w].sid = None /\ task[w].delivered = None
             /\ task[w].acked = FALSE /\ task[w].answered = FALSE
  BY <1>2 DEF Off
<1>6. TypeOK
  <2>1. /\ section \in 0..MaxEvents /\ section <= events /\ turns \in 0..MaxTurns /\ events \in 0..MaxEvents
    BY <1>1, <1>2
  <2>2. /\ job \in [Jobs -> {"new", "run", "paused", "done"}] /\ pin \in [Workers -> Maybe(Nat)]
        /\ task \in [Workers -> Tasks]
    BY <1>2, TasksMade DEF Maybe
  <2>3. DOMAIN cache \subseteq Nat /\ cache \in [DOMAIN cache -> Records]
    BY <1>2, <1>3
  <2>4. head \in Maybe(Nat) /\ deleted \in BOOLEAN /\ lane \in Maybe(Workers) /\ gone \subseteq DOMAIN has
    BY <1>2 DEF Maybe
  <2>5. QED
    BY <1>3, <1>4, <2>1, <2>2, <2>3, <2>4 DEF TypeOK
<1>7. LinesInv
  BY <1>2, <1>3 DEF LinesInv, Maybe
<1>8. WorkersInv
  <2>1. ASSUME NEW w \in Workers
        PROVE  Placed(w)
    <3>1. lane # w /\ task[w].at \notin Held /\ task[w].at # "pin"
      BY <1>1, <1>2, <1>5 DEF Held
    <3>2. QED
      BY <1>5, <3>1 DEF Placed, At
  <2>2. turn.seen <= Len(logged)
    BY <1>3, <1>4
  <2>3. QED
    BY <2>1, <2>2, AllPlaced
<1>9. ConversationsApart
  BY <1>3, <1>5 DEF ConversationsApart, Maybe
<1>10. RunInv /\ LogInv
  BY <1>4, <1>5 DEF RunInv, LogInv, At
<1>11. LedgerTrue
  BY <1>3 DEF LedgerTrue
<1>12. QED
  BY <1>6, <1>7, <1>8, <1>9, <1>10, <1>11 DEF Kept

LEMMA KeptAlways == Spec => []Kept
<1>1. Init => Kept
  BY InitKept
<1>2. Kept /\ [Next]_vars => Kept'
  <2> SUFFICES ASSUME Kept, [Next]_vars PROVE Kept'
    OBVIOUS
  <2>1. TypeOK' /\ LinesInv' /\ WorkersInv' /\ ConversationsApart' /\ RunInv' /\ LogInv' /\ LedgerTrue'
    BY TypeStep, LinesStep, WorkersStep, ApartStep, RunStep, LogStep, LedgerStep
  <2>2. QED
    BY <2>1 DEF Kept
<1>3. QED
  BY <1>1, <1>2, PTL DEF Spec

\* What pins, heads, leases, processes and ledgers say of one another stays so,
\* for all jobs, workers and turns, faults and deletions (execution_state.py
\* backend_scope, native_prompt.py).
THEOREM NativeCorrect == Spec => []NativeInv
<1>1. Kept => NativeInv
  BY KeptDriven DEF Kept, NativeInv
<1>2. QED
  BY <1>1, KeptAlways, PTL

\* A ledger names nothing its conversation has not been told (native_prompt.py
\* matching_ledger, acknowledge).
THEOREM LedgersTrue == Spec => []LedgerTrue
<1>1. Kept => LedgerTrue
  BY DEF Kept
<1>2. QED
  BY <1>1, KeptAlways, PTL

\* No conversation is driven by two workers or belongs to two generations
\* (execution_state.py backend_scope).
THEOREM DrivenByOne == Spec => []DrivenOnce
<1>1. Kept => DrivenOnce
  BY KeptDriven
<1>2. QED
  BY <1>1, KeptAlways, PTL

\* Pins are kept, heads move on, a conversation is given up only when it is
\* lost, and a prompt nothing was cut from leaves its reader with the whole
\* history (execution_state.py publish_native_head, native_prompt.py).
THEOREM LinesHold == Spec => LinesStable
<1>1. Kept /\ [Next]_vars => [Stable]_vars
  BY StableStep
<1>2. Spec => [][Stable]_vars
  BY <1>1, KeptAlways, PTL DEF Spec
<1>3. QED
  BY <1>2 DEF Stable, LinesStable
=============================================================================
