----------------------------- MODULE SessionMemory -----------------------------
(***************************************************************************)
(* The durable memory of one workspace (session.py, compaction.py,         *)
(* titling.py, colony.py, router.py, and their use in agent.py and         *)
(* backends_bot/base.py): sessions with a raw history, a summary and       *)
(* long-term facts, the colony of shared facts, and which session a user   *)
(* is in.                                                                  *)
(*                                                                         *)
(* A writer reads a session, changes it and replaces the file in a thread, *)
(* under the workspace's lock: held is what it has read and will write.    *)
(* Models are external: they answer anything their prompts allow, about    *)
(* what they were shown, or fail.  How much they are shown depends on      *)
(* sizes and is left open.                                                 *)
(***************************************************************************)
EXTENDS Naturals, Sequences, FiniteSets

CONSTANTS Chats, Jobs,     \* sessions of the user, temporary sessions of scheduled jobs
          Facts,
          None,
          KeepRecent,      \* KEEP_RECENT_AFTER_COMPACT
          LongCap,         \* LONG_TERM_CAP
          ColonyCap,       \* COLONY_CAP
          ColonyEvery,     \* colony_interval
          MaxWrites,       \* bound on turns and notes
          MaxEvents        \* bound on commands (/newsession, /sessions, /stop,
                           \* /colony now) and crashes

Sessions == Chats \cup Jobs
\* A message has two parts: a summary may cover the first of an oversized one.
Whole == {1, 2}
File == [raw : Seq([n : Nat, parts : SUBSET Whole]), sum : SUBSET (Nat \X Whole),
         long : SUBSET Facts, name : {"default", "named"}, count : Nat]
Maps(set) == UNION {[D -> set] : D \in SUBSET Sessions}
Holding == [by : {"log", "note", "compact", "title"}, s : Sessions, data : File,
            drops : SUBSET Facts]
             \cup [by : {"colony"}, lists : Maps(SUBSET Facts), drops : SUBSET Facts]

ASSUME MemoryAssumption ==
  /\ Chats \cap Jobs = {} /\ IsFiniteSet(Sessions) /\ IsFiniteSet(Facts)
  /\ None \notin Sessions \cup Facts /\ None \notin File /\ None \notin Holding
  /\ {KeepRecent, LongCap, ColonyCap, MaxWrites, MaxEvents} \subseteq Nat
  /\ ColonyEvery \in Nat \ {0}

VARIABLES
  files,    \* the session files
  colony,   \* colony.json: items
  bumps,    \* and compact_count, modulo the interval
  last,     \* last_session.json
  held,     \* the writer between its read and its write, with the workspace lock
  mlock,    \* get_memory_maintenance_lock
  turn,     \* the turn that has the run lock
  pending,  \* the session a pending write of a turn is for (_PENDING_SESSION_WRITES)
  jobs,     \* each scheduled job
  waiting,  \* _run_post_turn_maintenance calls per session
  pipe,     \* the one that has the session's pipeline lock
  pass,     \* the colony pass
  said,     \* history: messages written to each session
  wish,     \* history: the session the user chose last
  writes, events

actors == <<turn, pending, jobs>>
upkeep == <<mlock, waiting, pipe, pass>>
memoryVars == <<files, colony, bumps, last, held, actors, upkeep, said, wish, writes, events>>

Existing == {s \in Sessions : files[s] # None}
Fresh(name) == [raw |-> <<>>, sum |-> {}, long |-> {}, name |-> name, count |-> 0]
Memories == [s \in Existing |-> files[s].long]
Memory == colony \cup UNION {files[s].long : s \in Existing}

Message(n) == [n |-> n, parts |-> Whole]
Pieces(raw) == UNION {{raw[i].n} \X raw[i].parts : i \in DOMAIN raw}

Idle == [at |-> "idle", s |-> None, before |-> None, shown |-> {}]
NoPass == [at |-> "idle", colony |-> {}, mem |-> <<>>]
NoPipe == [at |-> "idle", snap |-> None]

\* An empty workspace, or one with a session and its facts.
MemoryInit ==
  /\ colony = {}
  /\ \E s \in Chats, L \in {L \in SUBSET Facts : Cardinality(L) = LongCap} :
       files \in {[x \in Sessions |-> None],
                  [x \in Sessions |-> IF x = s THEN [Fresh("named") EXCEPT !.long = L] ELSE None]}
  /\ bumps = 0 /\ last \in {None} \cup Existing
  /\ held = None /\ mlock = None /\ turn = Idle /\ pending = None
  /\ jobs = [z \in Jobs |-> "none"]
  /\ waiting = [s \in Sessions |-> 0] /\ pipe = [s \in Sessions |-> NoPipe] /\ pass = NoPass
  /\ said = [s \in Sessions |-> 0] /\ wish = None
  /\ writes = 0 /\ events = 0
-------------------------------------------------------------------------------
(* Writers.                                                                 *)

Reads(by, s, data, drops) ==
  held = None /\ held' = [by |-> by, s |-> s, data |-> data, drops |-> drops]
Writing(by) == held # None /\ held.by = by
Replaces(by) ==
  /\ Writing(by) /\ held' = None
  /\ files' = [files EXCEPT ![held.s] = held.data]
Appended(s, k) ==
  [files[s] EXCEPT !.raw = @ \o [i \in 1..k |-> Message(said[s] + i)]]
-------------------------------------------------------------------------------
(* Turns.  A turn resumes the user's session; without one a model chooses.  *)

MayBegin == turn = Idle /\ pending = None /\ writes < MaxWrites /\ writes' = writes + 1
Runs(s) == turn' = [Idle EXCEPT !.at = "run", !.s = s]

\* A session the user chose while the turn was routed stays.
Routed(s, before) == last' = IF last = before THEN s ELSE last

BeginRest == UNCHANGED <<colony, bumps, held, pending, jobs, upkeep, said, wish, events>>
Resumes ==
  /\ MayBegin /\ last \in Existing /\ Runs(last)
  /\ UNCHANGED <<files, last>> /\ BeginRest
TurnRoutes ==
  /\ MayBegin /\ last \notin Existing /\ Existing # {}
  /\ turn' = [at |-> "route", s |-> None, before |-> last, shown |-> Existing]
  /\ UNCHANGED <<files, last>> /\ BeginRest
Opens ==
  /\ MayBegin /\ Existing = {}
  /\ \E c \in Chats : files' = [files EXCEPT ![c] = Fresh("default")] /\ Runs(c) /\ Routed(c, last)
  /\ BeginRest
RouterAnswers ==
  /\ turn.at = "route" /\ UNCHANGED writes /\ BeginRest
  /\ \/ \E s \in turn.shown \cap Existing :
          Runs(s) /\ Routed(s, turn.before) /\ UNCHANGED files
     \/ \E c \in Chats \ Existing :
          /\ files' = [files EXCEPT ![c] = Fresh("default")]
          /\ Runs(c) /\ Routed(c, turn.before)

\* The turn's log, and the note of an interrupted one, are written by a task
\* of their own; the next turn waits for it.
TurnAnswers ==
  /\ turn.at = "run" /\ turn' = [turn EXCEPT !.at = "log"] /\ pending' = turn.s
  /\ UNCHANGED <<files, colony, bumps, last, held, jobs, upkeep, said, wish, writes, events>>
\* A turn whose log is settled ends; upkeep follows.  A job is done, or paused.
TurnSettles ==
  /\ pending' = None
  /\ IF turn.at = "log"
     THEN /\ turn' = Idle /\ waiting' = [waiting EXCEPT ![pending] = @ + 1]
          /\ IF pending \in Jobs /\ jobs[pending] = "run"
             THEN \E st \in {"done", "paused"} : jobs' = [jobs EXCEPT ![pending] = st]
             ELSE UNCHANGED jobs
     ELSE UNCHANGED <<turn, waiting, jobs>>
LogRest == UNCHANGED <<colony, bumps, last, mlock, pipe, pass, wish, writes, events>>
LogReads ==
  /\ pending \in Existing /\ Reads("log", pending, Appended(pending, 2), {})
  /\ UNCHANGED <<files, turn, pending, jobs, waiting, said>> /\ LogRest
LogMissed ==
  /\ pending # None /\ pending \notin Existing /\ held = None /\ TurnSettles
  /\ UNCHANGED <<files, held, said>> /\ LogRest
LogSaved ==
  /\ Replaces("log") /\ said' = [said EXCEPT ![pending] = @ + 2] /\ TurnSettles
  /\ LogRest

\* A detached task's outcome.
NoteReads(s) ==
  /\ s \in Existing /\ writes < MaxWrites /\ writes' = writes + 1
  /\ Reads("note", s, Appended(s, 1), {})
  /\ UNCHANGED <<files, colony, bumps, last, actors, upkeep, said, wish, events>>
NoteSaved ==
  /\ Replaces("note") /\ said' = [said EXCEPT ![held.s] = @ + 1]
  /\ UNCHANGED <<colony, bumps, last, actors, upkeep, wish, writes, events>>
-------------------------------------------------------------------------------
(* The user's commands.                                                     *)

Event == events < MaxEvents /\ events' = events + 1
NewSession(c) ==
  /\ Event /\ c \notin Existing /\ files' = [files EXCEPT ![c] = Fresh("default")]
  /\ last' = c /\ wish' = c
  /\ UNCHANGED <<colony, bumps, held, actors, upkeep, said, writes>>
\* The choice is not seen by a turn that was routed because this very session,
\* removed since, had been the last one and is back.
Unseen(s) == turn.at = "route" /\ turn.before = s
SwitchSession(s) ==
  /\ Event /\ s \in Existing /\ last' = s /\ wish' = IF Unseen(s) THEN None ELSE s
  /\ UNCHANGED <<files, colony, bumps, held, actors, upkeep, said, writes>>
ColonyNow ==
  /\ Event /\ pass.at = "idle" /\ pass' = [pass EXCEPT !.at = "due"]
  /\ UNCHANGED <<files, colony, bumps, last, held, actors, mlock, waiting, pipe, said, wish, writes>>

\* Stopping ends the turn at once and leaves its log to its task.
StopsTurn ==
  /\ Event /\ turn # Idle /\ turn' = Idle
  /\ pending' = IF turn.at = "run" THEN turn.s ELSE pending
  /\ jobs' = [z \in Jobs |-> IF z = turn.s /\ jobs[z] = "run" THEN "done" ELSE jobs[z]]
  /\ UNCHANGED <<files, colony, bumps, last, held, upkeep, said, wish, writes>>
-------------------------------------------------------------------------------
(* Scheduled jobs, in sessions that are removed.                            *)

JobRest == UNCHANGED <<colony, bumps, held, pending, upkeep, said>>
JobOpens(z) ==
  /\ jobs[z] = "none" /\ held = None /\ jobs' = [jobs EXCEPT ![z] = "ready"]
  /\ files' = [files EXCEPT ![z] = Fresh("named")]
  /\ UNCHANGED <<last, turn, wish, writes, events>> /\ JobRest
JobRuns(z) ==
  /\ jobs[z] \in {"ready", "paused"} /\ z \in Existing /\ MayBegin
  /\ jobs' = [jobs EXCEPT ![z] = "run"] /\ Runs(z)
  /\ UNCHANGED <<files, last, wish, events>> /\ JobRest
Removes(z) ==
  /\ files' = [files EXCEPT ![z] = None] /\ jobs' = [jobs EXCEPT ![z] = "gone"]
  /\ wish' = IF wish = z THEN None ELSE wish
JobCloses(z) ==
  /\ jobs[z] = "done" /\ held = None /\ Removes(z)
  /\ UNCHANGED <<last, turn, writes, events>> /\ JobRest
\* /stop clears a paused job, and its session, without the workspace's lock: a
\* writer that has read it writes it back.
StopClears(z) ==
  /\ Event /\ jobs[z] = "paused" /\ Removes(z)
  /\ UNCHANGED <<last, turn, writes>> /\ JobRest
-------------------------------------------------------------------------------
(* Upkeep after a turn: compaction, then a title.                           *)

Fits(keep, must) == Cardinality(keep \cup must) <= LongCap
\* What the model was not shown stays.
Rewritten(long, shown, kept) == (long \ shown) \cup kept

\* New long-term lists, and the facts a model that was shown them left out or
\* that found no room in a full list.
LongAnswers(long) ==
  {[long |-> long, drops |-> {}]} \cup
  {[long |-> Rewritten(long, c.shown, c.kept), drops |-> c.shown \ c.kept] :
     c \in {c \in [shown : SUBSET long, said : SUBSET Facts, kept : SUBSET Facts] :
              /\ Cardinality(c.said \ c.shown) <= 1 /\ c.kept \subseteq c.said
              /\ Fits(c.kept, long \ c.shown)
              /\ \A f \in c.said \ c.kept : ~Fits(c.kept \cup {f}, long \ c.shown)}}

\* What a summary of the first k messages replaces.  Of an oversized message
\* only the first part is covered, and the rest of it stays.
Trimmed(k) == IF k > KeepRecent THEN k - KeepRecent ELSE 1
\* (mutant) Everything is trimmed that is there by now.
CompactedAll(f, k) ==
  LET t == Trimmed(Len(f.raw)) IN
  [f EXCEPT !.raw = SubSeq(@, t + 1, Len(@)), !.count = @ + t, !.sum = @ \cup Pieces(SubSeq(f.raw, 1, k))]
Compacted(f, k) ==
  [f EXCEPT !.raw = SubSeq(@, Trimmed(k) + 1, Len(@)), !.count = @ + Trimmed(k),
            !.sum = @ \cup Pieces(SubSeq(f.raw, 1, k))]
Shortened(f) ==
  [f EXCEPT !.raw[1].parts = {2}, !.sum = @ \cup {<<f.raw[1].n, 1>>}]

PipeRest == UNCHANGED <<colony, last, actors, said, wish, writes, events>>
Goes(s, at) == pipe' = [pipe EXCEPT ![s] = [NoPipe EXCEPT !.at = at]]
UpkeepBegins(s) ==
  /\ pipe[s].at = "idle" /\ waiting[s] > 0 /\ Goes(s, "compact")
  /\ UNCHANGED <<files, bumps, held, mlock, waiting, pass>> /\ PipeRest
\* Nothing is due, or the history is shown to the model.
CompactLooks(s) ==
  /\ pipe[s].at = "compact" /\ mlock = None
  /\ \/ Goes(s, "title") /\ UNCHANGED mlock
     \/ /\ s \in Existing /\ files[s].raw # <<>> /\ mlock' = s
        /\ pipe' = [pipe EXCEPT ![s] = [at |-> "ask", snap |-> files[s]]]
  /\ UNCHANGED <<files, bumps, held, waiting, pass>> /\ PipeRest

Unchanged(s, k) ==
  LET snap == pipe[s].snap IN
  /\ s \in Existing /\ k \in DOMAIN files[s].raw /\ files[s].sum = snap.sum /\ files[s].long = snap.long
  /\ SubSeq(files[s].raw, 1, k) = SubSeq(snap.raw, 1, k)
CompactReads(s) ==
  /\ pipe[s].at = "ask"
  /\ \E k \in DOMAIN pipe[s].snap.raw, a \in LongAnswers(pipe[s].snap.long), title \in BOOLEAN :
       /\ Unchanged(s, k)
       /\ \E f \in {Compacted(files[s], k)} \cup
                   {Shortened(files[s]) : i \in {i \in {1} : files[s].raw[i].parts = Whole}} :
            Reads("compact", s,
                  [f EXCEPT !.long = a.long, !.name = IF title THEN "named" ELSE @], a.drops)
  /\ UNCHANGED <<files, bumps, upkeep>> /\ PipeRest
\* (mutant) The maintenance lock is kept.
KeepsLock(s) == mlock' = IF pipe[s].at = "ask" THEN mlock ELSE None
Frees(s) == mlock' = None
CompactFails(s) ==
  /\ pipe[s].at = "ask" /\ ~Writing("compact") /\ Goes(s, "title") /\ Frees(s)
  /\ UNCHANGED <<files, bumps, held, waiting, pass>> /\ PipeRest
CompactWritten(s) ==
  /\ pipe[s].at = "ask" /\ Replaces("compact") /\ Goes(s, "title") /\ mlock' = None
  /\ bumps' = (bumps + 1) % ColonyEvery
  /\ pass' = IF bumps' = 0 /\ pass.at = "idle" THEN [pass EXCEPT !.at = "due"] ELSE pass
  /\ UNCHANGED waiting /\ PipeRest

UpkeepEnds(s) == pipe' = [pipe EXCEPT ![s] = NoPipe] /\ waiting' = [waiting EXCEPT ![s] = @ - 1]
Untitled(s) == s \in Existing /\ files[s].name = "default"
TitleLooks(s) ==
  /\ pipe[s].at = "title"
  /\ IF Untitled(s) /\ files[s].raw # <<>> THEN Goes(s, "name") /\ UNCHANGED waiting ELSE UpkeepEnds(s)
  /\ UNCHANGED <<files, bumps, held, mlock, pass>> /\ PipeRest
TitleReads(s) ==
  /\ pipe[s].at = "name" /\ Untitled(s)
  /\ Reads("title", s, [files[s] EXCEPT !.name = "named"], {})
  /\ UNCHANGED <<files, bumps, upkeep>> /\ PipeRest
TitleFails(s) ==
  /\ pipe[s].at = "name" /\ ~(Writing("title") /\ held.s = s) /\ UpkeepEnds(s)
  /\ UNCHANGED <<files, bumps, held, mlock, pass>> /\ PipeRest
TitleWritten(s) ==
  /\ pipe[s].at = "name" /\ Writing("title") /\ held.s = s /\ Replaces("title") /\ UpkeepEnds(s)
  /\ UNCHANGED <<bumps, mlock, pass>> /\ PipeRest
-------------------------------------------------------------------------------
(* The colony pass: facts of all sessions are promoted to the colony.       *)

\* (mutant) What the model did not mention is taken for retired.
NewColonyOnly(old, new, complete) == new
NewColony(old, new, complete) == IF complete THEN new ELSE old \cup new

PassRest == UNCHANGED <<bumps, last, actors, waiting, pipe, said, wish, writes, events>>
PassOver == pass' = NoPass /\ mlock' = None
PassLooks ==
  /\ pass.at = "due" /\ mlock = None
  /\ IF Existing = {} /\ colony = {} THEN pass' = NoPass /\ UNCHANGED mlock
     ELSE pass' = [at |-> "ask", colony |-> colony, mem |-> Memories] /\ mlock' = "colony"
  /\ UNCHANGED <<files, colony, held>> /\ PassRest
Stale == colony # pass.colony \/ Memories # pass.mem
\* Without sessions the colony is cleared.
PassClears ==
  /\ pass.at = "ask" /\ DOMAIN pass.mem = {} /\ held = None /\ ~Stale
  /\ colony' = {} /\ PassOver /\ UNCHANGED <<files, held>> /\ PassRest
\* The answer: a new colony, and a new list for sessions that were shown in full.
PassReads ==
  /\ pass.at = "ask" /\ DOMAIN pass.mem # {} /\ held = None /\ ~Stale
  /\ \E full \in SUBSET DOMAIN pass.mem, all \in BOOLEAN, C \in SUBSET Memory :
       \E P \in [full -> SUBSET Facts] :
         LET complete == all /\ full = DOMAIN pass.mem
             shown == (UNION {pass.mem[s] : s \in full}) \cup (IF complete THEN colony ELSE {})
         IN /\ \A s \in full : P[s] \subseteq pass.mem[s]
            /\ Cardinality(C) <= ColonyCap
            /\ colony' = NewColony(colony, C, complete) /\ Cardinality(colony') <= ColonyCap
            /\ held' = [by |-> "colony", lists |-> P, drops |-> shown \ (C \cup UNION {P[s] : s \in full})]
  /\ pass' = [pass EXCEPT !.at = "write"]
  /\ UNCHANGED <<files, mlock>> /\ PassRest
PassFails ==
  /\ pass.at = "ask" /\ PassOver
  /\ UNCHANGED <<files, colony, held>> /\ PassRest
Rewrites(s) ==
  /\ pass.at = "write" /\ s \in DOMAIN held.lists
  /\ files' = IF s \in Existing THEN [files EXCEPT ![s].long = held.lists[s]] ELSE files
  /\ held' = [held EXCEPT !.lists = [x \in DOMAIN @ \ {s} |-> @[x]]]
  /\ UNCHANGED <<colony, mlock, pass>> /\ PassRest
PassEnds ==
  /\ pass.at = "write" /\ DOMAIN held.lists = {} /\ held' = None /\ PassOver
  /\ UNCHANGED <<files, colony>> /\ PassRest
-------------------------------------------------------------------------------
\* The process is killed, between any two writes.
Crashes ==
  /\ Event
  /\ held' = None /\ mlock' = None /\ turn' = Idle /\ pending' = None
  /\ waiting' = [s \in Sessions |-> 0] /\ pipe' = [s \in Sessions |-> NoPipe] /\ pass' = NoPass
  /\ jobs' = [z \in Jobs |-> IF jobs[z] \in {"run", "ready", "done"} THEN "paused" ELSE jobs[z]]
  /\ UNCHANGED <<files, colony, bumps, last, said, wish, writes>>

Upkeep(s) ==
  \/ UpkeepBegins(s) \/ CompactLooks(s) \/ CompactReads(s) \/ CompactFails(s) \/ CompactWritten(s)
  \/ TitleLooks(s) \/ TitleReads(s) \/ TitleFails(s) \/ TitleWritten(s)
Pass == PassLooks \/ PassClears \/ PassReads \/ PassFails \/ (\E s \in Sessions : Rewrites(s)) \/ PassEnds
Logging == LogReads \/ LogMissed \/ LogSaved \/ NoteSaved
MemoryNext ==
  \/ Resumes \/ TurnRoutes \/ Opens \/ RouterAnswers \/ TurnAnswers \/ Logging
  \/ \E s \in Sessions : NoteReads(s) \/ SwitchSession(s) \/ Upkeep(s)
  \/ \E c \in Chats : NewSession(c)
  \/ ColonyNow \/ StopsTurn \/ Pass \/ Crashes
  \/ \E z \in Jobs : JobOpens(z) \/ JobRuns(z) \/ JobCloses(z) \/ StopClears(z)
MemorySpec == MemoryInit /\ [][MemoryNext]_memoryVars
\* Threads finish, waiters get their locks, models answer or time out.
MemoryFairSpec == MemorySpec /\ WF_memoryVars(Logging) /\ WF_memoryVars(Pass) /\ WF_memoryVars(\E s \in Sessions : Upkeep(s))
-------------------------------------------------------------------------------
(* Properties.                                                              *)

\* Every message of a session is in its history or was shown to the model that
\* wrote its summary, and counted once (session.py set_summary; README: "text
\* that was not sent to the summarizer is never discarded"); and what the user
\* chose is where the next turn goes (agent.py _resolve_or_create_user_session).
Covers(f, n) ==
  /\ (1..n) \X Whole \subseteq f.sum \cup Pieces(f.raw)
  /\ f.count + Len(f.raw) = n
  /\ Cardinality(f.long) <= LongCap
HistoryKept ==
  /\ \A s \in Existing : Covers(files[s], said[s])
  /\ Cardinality(colony) <= ColonyCap
ChoiceKept == wish # None => last = wish

\* Why: what a writer is about to write is what it read and its own change,
\* since no other writer comes between, and it never writes over a session
\* that is begun meanwhile.
MemoryTypeOK ==
  /\ files \in [Sessions -> File \cup {None}] /\ colony \in SUBSET Facts
  /\ last \in Sessions \cup {None} /\ mlock \in Sessions \cup {"colony", None}
  /\ held \in Holding \cup {None}
  /\ turn \in [at : {"idle", "route", "run", "log"}, s : Sessions \cup {None},
               before : Sessions \cup {None}, shown : SUBSET Sessions]
  /\ pending \in Sessions \cup {None} /\ said \in [Sessions -> Nat]
  /\ jobs \in [Jobs -> {"none", "ready", "run", "paused", "done", "gone"}]
  /\ pipe \in [Sessions -> [at : {"idle", "compact", "ask", "title", "name"}, snap : File \cup {None}]]
  /\ pass \in [at : {"idle", "due", "ask", "write"}, colony : SUBSET Facts, mem : Maps(SUBSET Facts)]
  /\ wish \in Sessions \cup {None}
Own(by) == CASE by = "log" -> 2 [] by = "note" -> 1 [] OTHER -> 0
WriterInv ==
  held # None /\ held.by # "colony" =>
    /\ Covers(held.data, said[held.s] + Own(held.by))
    /\ held.by = "log" => held.s = pending
    /\ held.s \in Existing => files[held.s].long \ held.data.long \subseteq held.drops
Begun(s) == s \in Existing \/ (s \in Jobs /\ jobs[s] # "none")
BegunInv ==
  /\ \A s \in Sessions : ~Begun(s) => said[s] = 0 /\ ~(held # None /\ held.by # "colony" /\ held.s = s)
  /\ \A z \in Jobs \cap Existing : jobs[z] # "none"
\* A turn that is routed or runs has no log yet.  The last chat is still there.
RouteInv ==
  /\ turn.at \in {"route", "run"} => pending = None
  /\ turn.at \in {"run", "log"} => turn.s \in Sessions
  /\ last \in Chats => last \in Existing
  /\ turn.at = "route" => turn.before \notin Chats
  /\ wish # None => wish \in Existing /\ ~(turn.at = "route" /\ turn.before = wish)
\* What a colony pass has yet to write takes facts only from where they were,
\* and what is gone then is elsewhere or dropped.
Elsewhere ==
  colony \cup (UNION {files[t].long : t \in Existing \ DOMAIN held.lists})
         \cup UNION {held.lists[t] : t \in DOMAIN held.lists}
PassInv ==
  /\ pass.at = "write" <=> held # None /\ held.by = "colony"
  /\ Chats \cap DOMAIN pass.mem \subseteq Existing
  /\ pass.at = "write" =>
       /\ DOMAIN held.lists \subseteq DOMAIN pass.mem /\ Jobs \cap Existing \subseteq DOMAIN pass.mem
       /\ \A t \in DOMAIN held.lists : Cardinality(held.lists[t]) <= LongCap
       /\ DOMAIN pass.mem \subseteq Existing =>
            \A t \in DOMAIN held.lists :
              /\ held.lists[t] \subseteq files[t].long
              /\ files[t].long \ held.lists[t] \subseteq held.drops \cup Elsewhere
SessionInv ==
  /\ MemoryTypeOK /\ HistoryKept /\ ChoiceKept
  /\ WriterInv /\ BegunInv /\ RouteInv /\ PassInv

\* No fact is lost but by the answer of a model that was shown it, for want of
\* room in a full list, or with its session; also if the process is killed
\* between the writes of a pass (README: "a preview cannot silently erase
\* memory the model never received").
Dropped == (IF held = None THEN {} ELSE held.drops) \cup (IF held' = None THEN {} ELSE held'.drops)
FactsKept ==
  [][\/ Memory \ Memory' \subseteq Dropped
     \/ ~(Existing \subseteq Existing') \/ Existing = {}
     \/ pass.at = "write" /\ ~(DOMAIN pass.mem \subseteq Existing)]_memoryVars

\* When no more turns come, upkeep and colony passes come to rest, with or
\* without answers: the locks they take are given back.
MemorySettles ==
  []<>(held = None /\ mlock = None /\ pass.at = "idle" /\ \A s \in Sessions : waiting[s] = 0)
===============================================================================
