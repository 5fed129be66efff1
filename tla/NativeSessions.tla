----------------------------- MODULE NativeSessions -----------------------------
(***************************************************************************)
(* Native conversations of one session on one lane: execution_state.py,    *)
(* native_prompt.py and agent.py _drive_backend.                           *)
(*                                                                         *)
(* A worker of a job drives a conversation the provider keeps under an id  *)
(* of its own.  The bot keeps a record per generation of the lane: that    *)
(* id, and a ledger of what the conversation has been told, so that a      *)
(* resumed one is told only what it does not know.  A job pins its         *)
(* generation before it works; the lane's head is the generation new jobs  *)
(* take up.  Turns are serial (the run lock); workers of a job are not.    *)
(***************************************************************************)
EXTENDS Naturals, Sequences, FiniteSets

CONSTANTS Jobs, Workers, JobOf,  \* the workers of a job with records of their own
          None,
          MaxTurns,  \* bound: turns
          MaxEvents  \* bound: notes, edits, recoveries, crashes, lost conversations, deletions

ASSUME NativeAssumption ==
  /\ JobOf \in [Workers -> Jobs] /\ None \notin Jobs \cup Workers \cup Nat
  /\ "own" \notin Workers  \* who says what is put together from several
  /\ MaxTurns \in Nat /\ MaxEvents \in Nat

VARIABLES
  logged,   \* the history of the session: what each message says
  section,  \* version of the named context (policy, colony, memory, summary)
  job,      \* "new", "run", "paused" or "done"
  pin,      \* native_record_id of each worker's job record
  gens,     \* the generations' records on disk, in the order they were made
  head,     \* the lane's head
  deleted,  \* _ConversationLifetime.discarded
  cache,    \* the same records in the memory of the turn's Execution
  lane,     \* the lease of the lane
  task,     \* where each worker is
  turn,     \* the turn that has the run lock
  has,      \* what each conversation of the provider has been told, by its id
  gone,     \* the conversations the provider has lost
  turns, events

disk == <<pin, gens, head, deleted>>
provider == <<has, gone>>
counts == <<turns, events>>
vars == <<logged, section, job, disk, cache, lane, task, turn, provider, counts>>

\* What is said.  A reply is a worker's, or put together from several.
Request(j) == <<"request", j>>
Reply(by, n) == <<"reply", by, n>>
Section(v) == <<"section", v>>

NoLedger == [sid |-> None, known |-> {}, section |-> None, request |-> None]
Blank == [sid |-> None, told |-> NoLedger]
Off == [at |-> "off", gen |-> None, expected |-> None, sid |-> None, shown |-> {}, cut |-> FALSE,
        accepted |-> FALSE, active |-> FALSE, acked |-> FALSE, delivered |-> None,
        answered |-> FALSE, fresh |-> FALSE]
NoTurn == [job |-> None, seen |-> 0, section |-> 0, pair |-> 0, reply |-> None, owed |-> {}]
NoCache == <<>>

Init ==
  /\ logged = <<>> /\ section = 0
  /\ job = [j \in Jobs |-> "new"] /\ pin = [w \in Workers |-> None]
  /\ gens = <<>> /\ head = None /\ deleted = FALSE
  /\ cache = NoCache /\ lane = None
  /\ task = [w \in Workers |-> Off] /\ turn = NoTurn
  /\ has = <<>> /\ gone = {}
  /\ turns = 0 /\ events = 0

Mine(j) == {w \in Workers : JobOf[w] = j}
Record(w) == cache[task[w].gen]
At(w, step) == task[w].at = step
Go(w, step) == task' = [task EXCEPT ![w].at = step]
Event == events < MaxEvents /\ events' = events + 1 /\ UNCHANGED turns

\* (mutant) A ledger counts for whatever conversation the record has.
MatchesAny(r) == IF r.sid = None THEN NoLedger ELSE r.told
\* matching_ledger: it counts for the conversation it was written about.
Matching(r) == IF r.sid # None /\ r.told.sid = r.sid THEN r.told ELSE NoLedger

\* A write of a record: a deleted session's records are not written again.
Wrote(g, r) == gens' = IF deleted THEN gens ELSE [gens EXCEPT ![g] = r]
Saves(g, r) == cache' = [cache EXCEPT ![g] = r] /\ Wrote(g, r)
Loads(g, r) == cache' = [x \in DOMAIN cache \cup {g} |-> IF x = g THEN r ELSE cache[x]]
-------------------------------------------------------------------------------
(* Turns, and what else changes a session.                                  *)

Begins(j) ==
  /\ turn = NoTurn /\ job[j] \in {"new", "paused"} /\ ~deleted
  /\ turns < MaxTurns /\ turns' = turns + 1
  /\ turn' = [NoTurn EXCEPT !.job = j, !.seen = Len(logged), !.section = section]
  /\ job' = [job EXCEPT ![j] = "run"] /\ cache' = NoCache
  /\ task' = [w \in Workers |-> [Off EXCEPT !.at = IF w \in Mine(j) THEN "want" ELSE "off"]]
  /\ UNCHANGED <<logged, section, disk, lane, provider, events>>

\* The turn is logged as a pair of messages, or cannot be.  Conversations that
\* were given its request are owed a note of that in their ledgers.
Logs ==
  /\ turn.job # None /\ turn.pair = 0 /\ \A w \in Workers : At(w, "off")
  /\ \/ \E r \in {Reply(w, turns) : w \in {v \in Mine(turn.job) : task[v].answered}} \cup {Reply("own", turns)} :
          /\ logged' = logged \o <<Request(turn.job), r>>
          /\ turn' = [turn EXCEPT !.pair = Len(logged) + 1, !.reply = r,
                        !.owed = {w \in Mine(turn.job) : task[w].delivered # None}]
     \/ turn' = [turn EXCEPT !.pair = Len(logged) + 1] /\ UNCHANGED logged
  /\ UNCHANGED <<section, job, disk, cache, lane, task, provider, counts>>
\* native_request_deliveries: the conversation that was given the request is
\* still the one of the record, and of its ledger.
Delivered(w) == Record(w).sid = task[w].delivered /\ Record(w).told.sid = task[w].delivered
\* acknowledge_logged_turn, for the same conversation only.
Logged(w) ==
  LET r == Record(w) IN
  [r EXCEPT !.told.known = @ \cup {turn.pair} \cup
              (IF turn.reply = Reply(w, turns) THEN {turn.pair + 1} ELSE {})]
AcksLog(w) ==
  /\ w \in turn.owed /\ turn' = [turn EXCEPT !.owed = @ \ {w}]
  /\ IF Delivered(w)
     THEN Saves(task[w].gen, Logged(w)) ELSE UNCHANGED <<cache, gens>>
  /\ UNCHANGED <<logged, section, job, pin, head, deleted, lane, task, provider, counts>>
\* The job is done, and its directory removed, or goes on some day.
TurnEnds ==
  /\ turn.pair # 0 /\ turn.owed = {} /\ turn' = NoTurn
  /\ \E st \in {"done", "paused"} :
       /\ job' = [job EXCEPT ![turn.job] = st]
       /\ pin' = [w \in Workers |-> IF w \in Mine(turn.job) /\ st = "done" THEN None ELSE pin[w]]
  /\ task' = [w \in Workers |-> Off] /\ cache' = NoCache
  /\ UNCHANGED <<logged, section, gens, head, deleted, lane, provider, counts>>

\* A message of a task or another backend; an edit of the context.
NoteArrives ==
  /\ Event /\ logged' = Append(logged, <<"note", events>>)
  /\ UNCHANGED <<section, job, disk, cache, lane, task, turn, provider>>
SectionEdited ==
  /\ Event /\ section' = section + 1
  /\ UNCHANGED <<logged, job, disk, cache, lane, task, turn, provider>>
-------------------------------------------------------------------------------
(* backend_scope: the lease, the generation and the pin.                    *)

LaneFree == lane = None
Enters(w) ==
  /\ At(w, "want") /\ LaneFree /\ ~deleted /\ lane' = w /\ Go(w, "select")
  /\ UNCHANGED <<logged, section, job, disk, cache, turn, provider, counts>>
Takes(w, g, expected, next) ==
  task' = [task EXCEPT ![w].at = next, ![w].gen = g, ![w].expected = expected]
\* The pinned generation; else the head, if it has a conversation; else a new one.
Selects(w) ==
  /\ At(w, "select") /\ ~deleted
  /\ \/ /\ pin[w] # None /\ Takes(w, pin[w], pin[w], "ready")
        /\ Loads(pin[w], gens[pin[w]]) /\ UNCHANGED gens
     \/ /\ pin[w] = None /\ head # None /\ gens[head].sid # None /\ Takes(w, head, head, "pin")
        /\ Loads(head, gens[head]) /\ UNCHANGED gens
     \/ /\ pin[w] = None /\ (head # None => gens[head].sid = None)
        /\ gens' = Append(gens, Blank) /\ Loads(Len(gens) + 1, Blank)
        /\ Takes(w, Len(gens) + 1, head, "pin")
  /\ UNCHANGED <<logged, section, job, pin, head, deleted, lane, turn, provider, counts>>
Pins(w) ==
  /\ At(w, "pin") /\ pin' = [pin EXCEPT ![w] = task[w].gen] /\ Go(w, "ready")
  /\ UNCHANGED <<logged, section, job, gens, head, deleted, cache, lane, turn, provider, counts>>
\* Cancelled before that, not started at all, or the session has been deleted.
Quits(w) ==
  /\ task[w].at \in {"want", "select", "pin"} /\ Go(w, "off")
  /\ lane' = IF lane = w THEN None ELSE lane
  /\ UNCHANGED <<logged, section, job, disk, cache, turn, provider, counts>>
-------------------------------------------------------------------------------
(* The prompt and the process.                                              *)

\* The newest unknown messages a budget has room for, and the section if it
\* is not the one the conversation has.
Launched(w, r, oldest) ==
  LET unknown == 1..turn.seen \ Matching(r).known IN
  [task[w] EXCEPT !.at = "run", !.sid = r.sid, !.shown = {i \in unknown : i >= oldest},
                  !.cut = \E i \in unknown : i < oldest,
                  !.accepted = FALSE, !.active = FALSE, !.acked = FALSE]
Launches(w) ==
  /\ At(w, "ready")
  /\ \E oldest \in 1..turn.seen + 1 : task' = [task EXCEPT ![w] = Launched(w, Record(w), oldest)]
  /\ Wrote(task[w].gen, Record(w))
  /\ UNCHANGED <<logged, section, job, pin, head, deleted, cache, lane, turn, provider, counts>>
\* The exact conversation is missing, before any work: once, a fresh one is
\* told everything.
Relaunches(w) ==
  /\ At(w, "run") /\ ~task[w].accepted /\ task[w].sid \in gone /\ ~task[w].fresh
  /\ LET blank == [Record(w) EXCEPT !.sid = None] IN
     /\ Saves(task[w].gen, blank)
     /\ \E oldest \in 1..turn.seen + 1 :
          task' = [task EXCEPT ![w] = [Launched(w, blank, oldest) EXCEPT !.fresh = TRUE]]
  /\ UNCHANGED <<logged, section, job, pin, head, deleted, lane, turn, provider, counts>>

\* The conversation, resumed or new, has the prompt.
Prompt(w) ==
  LET L == Matching(Record(w)) IN
  {logged[i] : i \in task[w].shown}
    \cup {Section(v) : v \in {turn.section} \ {L.section}}
    \cup {Request(j) : j \in {JobOf[w]} \ {L.request}}
Accepts(w) ==
  /\ At(w, "run") /\ ~task[w].accepted /\ task[w].sid \notin gone
  /\ IF task[w].sid # None
     THEN has' = [has EXCEPT ![task[w].sid] = @ \cup Prompt(w)]
     ELSE has' = Append(has, Prompt(w))
  /\ task' = [task EXCEPT ![w].accepted = TRUE, ![w].sid = IF @ = None THEN Len(has') ELSE @]
  /\ UNCHANGED <<logged, section, job, disk, cache, lane, turn, gone, counts>>

\* Events: the id is kept unless the record has one, work has begun, and the
\* writer's task writes what was set.
Adopts(w) ==
  /\ At(w, "run") /\ task[w].accepted /\ Record(w).sid = None
  /\ cache' = [cache EXCEPT ![task[w].gen].sid = task[w].sid]
  /\ UNCHANGED <<logged, section, job, disk, lane, task, turn, provider, counts>>
Works(w) ==
  /\ At(w, "run") /\ task[w].accepted /\ ~task[w].active /\ task' = [task EXCEPT ![w].active = TRUE]
  /\ UNCHANGED <<logged, section, job, disk, cache, lane, turn, provider, counts>>
Written(w) ==
  /\ At(w, "run") /\ ~deleted /\ gens[task[w].gen] # Record(w) /\ Wrote(task[w].gen, Record(w))
  /\ UNCHANGED <<logged, section, job, pin, head, deleted, cache, lane, task, turn, provider, counts>>

\* NativePrompt.acknowledge, once work has begun in a conversation with an id.
Acknowledgeable(w) == At(w, "run") /\ task[w].active /\ Record(w).sid # None /\ ~task[w].acked
Acks(w) ==
  /\ Acknowledgeable(w)
  /\ Saves(task[w].gen,
           [Record(w) EXCEPT !.told = [sid |-> Record(w).sid, section |-> turn.section, request |-> JobOf[w],
                                       known |-> Matching(Record(w)).known \cup task[w].shown]])
  /\ task' = [task EXCEPT ![w].acked = TRUE, ![w].shown = {}, ![w].delivered = Record(w).sid]
  /\ UNCHANGED <<logged, section, job, pin, head, deleted, lane, turn, provider, counts>>

\* A hang or an interrupted stream: the same prompt again, without what the
\* ledger has by now, in the conversation that is kept.
Recovers(w) ==
  /\ At(w, "run") /\ ~Acknowledgeable(w) /\ Event
  /\ task' = [task EXCEPT ![w].sid = Record(w).sid, ![w].shown = @ \ Matching(Record(w)).known,
                          ![w].accepted = FALSE, ![w].active = FALSE, ![w].acked = FALSE]
  /\ Wrote(task[w].gen, Record(w))
  /\ UNCHANGED <<logged, section, job, pin, head, deleted, cache, lane, turn, provider>>
\* The process ends, with an answer the conversation knows or without, or is
\* cancelled.
Ended(w, answered) ==
  [Off EXCEPT !.at = "flush", !.gen = task[w].gen, !.expected = task[w].expected,
              !.delivered = task[w].delivered, !.answered = answered]
Ends(w) ==
  /\ task[w].at \in {"ready", "run"} /\ ~Acknowledgeable(w)
  /\ \/ task' = [task EXCEPT ![w] = Ended(w, FALSE)] /\ UNCHANGED has
     \/ /\ task[w].acked /\ task' = [task EXCEPT ![w] = Ended(w, TRUE)]
        /\ has' = [has EXCEPT ![task[w].sid] = @ \cup {Reply(w, turns)}]
  /\ UNCHANGED <<logged, section, job, disk, cache, lane, turn, gone, counts>>
-------------------------------------------------------------------------------
(* The end of backend_scope.                                                *)

Flushes(w) ==
  /\ At(w, "flush") /\ Wrote(task[w].gen, Record(w)) /\ Go(w, "publish")
  /\ UNCHANGED <<logged, section, job, pin, head, deleted, cache, lane, turn, provider, counts>>

\* (mutant) Whoever ends last is the head.
PromotesLast(w) == Record(w).sid # None /\ ~deleted
\* publish_native_head: unless another generation has become the head since.
Promotes(w) ==
  /\ Record(w).sid # None /\ ~deleted
  /\ head = task[w].expected \/ head = task[w].gen \/ (head = None /\ task[w].expected = task[w].gen)
Publishes(w) ==
  /\ At(w, "publish") /\ Go(w, "off") /\ lane' = None
  /\ head' = IF Promotes(w) THEN task[w].gen ELSE head
  /\ UNCHANGED <<logged, section, job, pin, gens, deleted, cache, turn, provider, counts>>
-------------------------------------------------------------------------------
(* Faults.                                                                  *)

Crashes ==
  /\ Event /\ turn # NoTurn /\ turn' = NoTurn
  /\ job' = [job EXCEPT ![turn.job] = "paused"]
  /\ cache' = NoCache /\ lane' = None /\ task' = [w \in Workers |-> Off]
  /\ UNCHANGED <<logged, section, disk, provider>>
ProviderLoses(s) ==
  /\ Event /\ s \in DOMAIN has \ gone /\ gone' = gone \cup {s}
  /\ \A w \in Workers : task[w].sid = s => ~task[w].accepted
  /\ UNCHANGED <<logged, section, job, disk, cache, lane, task, turn, has>>
\* discard_native_conversation, with the session of a scheduled job.
Deletes ==
  /\ Event /\ ~deleted /\ deleted' = TRUE /\ gens' = <<>> /\ head' = None
  /\ UNCHANGED <<logged, section, job, pin, cache, lane, task, turn, provider>>
-------------------------------------------------------------------------------
WorkerStep(w) ==
  \/ Enters(w) \/ Selects(w) \/ Pins(w) \/ Quits(w)
  \/ Launches(w) \/ Relaunches(w) \/ Accepts(w) \/ Adopts(w) \/ Works(w) \/ Written(w)
  \/ Acks(w) \/ Recovers(w) \/ Ends(w) \/ Flushes(w) \/ Publishes(w)
Next ==
  \/ \E j \in Jobs : Begins(j)
  \/ \E w \in Workers : WorkerStep(w) \/ AcksLog(w)
  \/ Logs \/ TurnEnds \/ NoteArrives \/ SectionEdited
  \/ Crashes \/ (\E s \in DOMAIN has : ProviderLoses(s)) \/ Deletes
Spec == Init /\ [][Next]_vars
-------------------------------------------------------------------------------
(* Properties.                                                              *)

Said == {Request(j) : j \in Jobs} \cup {<<"note", n>> : n \in 0..MaxEvents}
          \cup {Reply(by, n) : by \in Workers \cup {"own"}, n \in 0..MaxTurns}
Texts == Said \cup {Section(v) : v \in 0..MaxEvents}
Maybe(S) == S \cup {None}
Records == [sid : Maybe(Nat), told : [sid : Maybe(Nat), known : SUBSET Nat,
                                      section : Maybe(0..MaxEvents), request : Maybe(Jobs)]]
Held == {"select", "pin", "ready", "run", "flush", "publish"}
Tasks == [at : Held \cup {"off", "want"}, gen : Maybe(Nat), expected : Maybe(Nat), sid : Maybe(Nat),
          shown : SUBSET Nat, cut : BOOLEAN, accepted : BOOLEAN, active : BOOLEAN, acked : BOOLEAN,
          delivered : Maybe(Nat), answered : BOOLEAN, fresh : BOOLEAN]
TypeOK ==
  /\ logged \in Seq(Said) /\ section \in 0..MaxEvents /\ section <= events
  /\ job \in [Jobs -> {"new", "run", "paused", "done"}] /\ pin \in [Workers -> Maybe(Nat)]
  /\ gens \in Seq(Records) /\ head \in Maybe(Nat) /\ deleted \in BOOLEAN
  /\ DOMAIN cache \subseteq Nat /\ cache \in [DOMAIN cache -> Records]
  /\ lane \in Maybe(Workers) /\ task \in [Workers -> Tasks]
  /\ turn \in [job : Maybe(Jobs), seen : Nat, section : 0..MaxEvents, pair : Nat,
               reply : Maybe(Said), owed : SUBSET Workers]
  /\ has \in Seq(SUBSET Texts) /\ gone \subseteq DOMAIN has
  /\ turns \in 0..MaxTurns /\ events \in 0..MaxEvents

\* A ledger names nothing its conversation has not been told: what a prompt
\* leaves out as known is known (native_prompt.py matching_ledger, acknowledge).
True(r) ==
  r.told.sid # None =>
    /\ r.told.sid \in DOMAIN has /\ r.told.known \subseteq DOMAIN logged
    /\ {logged[i] : i \in r.told.known} \cup {Section(r.told.section), Request(r.told.request)}
         \subseteq has[r.told.sid]
LedgerTrue ==
  /\ \A g \in DOMAIN gens : True(gens[g])
  /\ \A g \in DOMAIN cache : True(cache[g])

\* No two workers drive one conversation, and no two generations share one
\* (backend_scope: "parallel workers can never drive the same native session").
DrivenOnce ==
  /\ \A v, w \in Workers : v # w /\ At(v, "run") /\ At(w, "run") => task[v].gen # task[w].gen
  /\ \A g, h \in DOMAIN gens : g # h /\ gens[g].sid # None => gens[g].sid # gens[h].sid

\* Pins and head name generations there are, of which the turn has some in its
\* memory; a deleted session has none.  A conversation that memory and disk do
\* not agree about is lost or not written yet.
LinesInv ==
  /\ deleted => gens = <<>> /\ head = None
  /\ ~deleted => /\ DOMAIN cache \subseteq DOMAIN gens /\ head \in Maybe(DOMAIN gens)
                 /\ \A w \in Workers : pin[w] \in Maybe(DOMAIN gens)
  /\ \A g \in DOMAIN gens \cap DOMAIN cache :
       gens[g].sid # None => gens[g].sid = cache[g].sid \/ gens[g].sid \in gone

\* A conversation is one generation's, on the disk, in memory and at work.
Uses(g, s) ==
  \/ g \in DOMAIN gens /\ gens[g].sid = s
  \/ g \in DOMAIN cache /\ cache[g].sid = s
  \/ \E w \in Workers : At(w, "run") /\ task[w].gen = g /\ task[w].sid = s
ConversationsApart ==
  /\ \A g, h \in DOMAIN gens \cup DOMAIN cache, s \in DOMAIN has : Uses(g, s) /\ Uses(h, s) => g = h
  /\ \A g \in DOMAIN gens : gens[g].sid \in Maybe(DOMAIN has)
  /\ \A g \in DOMAIN cache : cache[g].sid \in Maybe(DOMAIN has)
  /\ \A w \in Workers : task[w].sid \in Maybe(DOMAIN has)

\* The workers of the turn take the lane in turns, and what one of them works on
\* is in memory.
WorkersInv ==
  /\ \A w \in Workers :
       /\ lane = w <=> task[w].at \in Held
       /\ task[w].at # "off" => JobOf[w] = turn.job /\ turn.pair = 0
       /\ task[w].at \in Held \ {"select"} =>
            /\ task[w].gen \in DOMAIN cache
            /\ task[w].expected \in Maybe({g \in Nat : g <= task[w].gen})
       /\ At(w, "pin") => pin[w] = None
       /\ task[w].delivered # None => task[w].gen \in DOMAIN cache
       /\ task[w].acked => At(w, "run")
       /\ task[w].answered => task[w].at \in {"flush", "publish", "off"}
  /\ turn.seen <= Len(logged)

\* A process has been told its prompt, and with its conversation's ledger that
\* is the history but for what was cut.
RunInv ==
  \A w \in Workers : At(w, "run") =>
    /\ IF ~task[w].accepted THEN task[w].sid = Record(w).sid
       ELSE /\ task[w].sid # None /\ Record(w).sid \in {None, task[w].sid}
            /\ {logged[i] : i \in task[w].shown} \cup {Section(turn.section), Request(JobOf[w])}
                 \subseteq has[task[w].sid]
    /\ task[w].active => task[w].accepted
    /\ task[w].acked => task[w].active /\ task[w].delivered = task[w].sid
    /\ task[w].shown \subseteq 1..turn.seen
    /\ ~task[w].cut => 1..turn.seen \subseteq task[w].shown \cup Matching(Record(w)).known

\* A conversation that was given the request knows it, and the answer if the
\* worker had one; the ones that are owed a note are told of what was logged.
LogInv ==
  /\ \A w \in Workers :
       /\ task[w].answered => task[w].delivered # None
       /\ task[w].delivered # None =>
            /\ task[w].delivered \in DOMAIN has /\ Request(JobOf[w]) \in has[task[w].delivered]
            /\ task[w].answered => Reply(w, turns) \in has[task[w].delivered]
  /\ turn.owed # {} =>
       /\ turn.pair > 0 /\ turn.pair + 1 \in DOMAIN logged
       /\ logged[turn.pair] = Request(turn.job) /\ logged[turn.pair + 1] = turn.reply
       /\ \A w \in turn.owed : /\ JobOf[w] = turn.job /\ task[w].delivered # None
                               /\ turn.reply = Reply(w, turns) => task[w].answered

\* With the types and what keeps them, the inductive invariant.
NativeInv ==
  /\ TypeOK /\ LinesInv /\ WorkersInv /\ ConversationsApart /\ RunInv /\ LogInv
  /\ LedgerTrue /\ DrivenOnce

\* A job keeps its generation until it is done; the head only moves on to a
\* generation made later (native_record: "A resumed old job must not replace a
\* newer conversation head"); a conversation is given up only when the provider
\* has lost it; and one that accepts a prompt nothing was cut from knows the
\* whole history the turn saw.
LinesStable ==
  [][/\ \A w \in Workers : pin[w] # None /\ pin'[w] # pin[w] => job'[JobOf[w]] = "done"
     /\ head # None /\ head' # None => head' >= head
     /\ \A g \in DOMAIN gens \cap DOMAIN gens' :
          gens[g].sid # None /\ gens'[g].sid # gens[g].sid => gens[g].sid \in gone
     /\ \A w \in Workers : ~task[w].accepted /\ task'[w].accepted /\ ~task[w].cut =>
          {logged[i] : i \in 1..turn.seen} \cup {Section(turn.section), Request(JobOf[w])}
            \subseteq has'[task'[w].sid]]_vars
===============================================================================
