------------------------------ MODULE AgentTurn ------------------------------
(***************************************************************************)
(* One turn of a direct backend: agent.run, _run_turn_impl's loop of       *)
(* phases, judge and restarts, _drive_backend with its recoveries, the     *)
(* supervision of the native worker (supervision.wait_owned), the inject   *)
(* window of /inject, the landing of /stop, and the session log.           *)
(*                                                                         *)
(* A step is what runs between two awaits.  What a prompt or a reply says  *)
(* is left out; which injected messages a prompt carries is kept.          *)
(***************************************************************************)
EXTENDS Naturals, FiniteSets

CONSTANTS Messages,       \* what the user may inject during the turn
          MaxRounds,      \* flexible.JUDGE_MAX_CONTINUES
          MaxRecoveries,  \* recoveries of one call of the backend before it gives up
          MaxStops        \* bound on /stop

ASSUME TurnAssumption ==
  MaxRounds \in Nat \ {0} /\ MaxRecoveries \in Nat \ {0} /\ MaxStops \in Nat

VARIABLES
  at,          \* where the turn's task is
  msg,         \* what became of each message
  told,        \* messages the prompt of the current attempt carries
  overtaken,   \* history: messages taken by an attempt that a recovery replaced
  window,      \* whether the inject queue still accepts
  worker,      \* the owned process of the backend
  restarting,  \* the watcher has killed the worker for a message
  outcome,     \* how the worker ended
  tools,       \* native_tools_started: work may have been done
  relaunched,  \* a missing native session was already replaced
  review,      \* the diagnosis of a possible hang
  fresh,       \* the worker made no progress since the diagnosis began
  recoveries, rounds,
  draft,       \* the result so far
  session,     \* the turn has a session to log to
  stop, stops, \* /stop: the cancellation of the turn's task
  log, note,   \* the background writes of the turn and of its interruption
  entries,     \* history: writes that reached the session file
  next         \* the workspace's next turn has read the session

inject == <<msg, told, overtaken, window>>
process == <<worker, restarting, outcome, tools, relaunched>>
doctor == <<review, fresh>>
counts == <<recoveries, rounds>>
stopping == <<stop, stops>>
written == <<log, note, entries, next>>
vars == <<at, draft, session, inject, process, doctor, counts, stopping, written>>

Steps == {"route", "prompt", "launch", "run", "dismiss", "settle", "after", "recover",
          "drafted", "judge", "abandon", "log", "done"}
Outcomes == {"none", "ok", "error", "stream", "missing", "tools", "restart", "cancelled"}
Drafts == {"none", "draft", "error", "blocked", "tools", "partial", "limit",
           "verified", "unverified", "unavailable", "cancelled"}

\* Types; and at most one worker, owned by a call that has not returned, and no
\* diagnosis without it.
TypeOK ==
  /\ at \in Steps /\ draft \in Drafts /\ session \in BOOLEAN
  /\ msg \in [Messages -> {"new", "queued", "taken", "dropped", "later"}]
  /\ told \in SUBSET Messages /\ overtaken \in SUBSET Messages /\ window \in BOOLEAN
  /\ worker \in {"none", "running", "killed", "cancelled", "ended"}
  /\ restarting \in BOOLEAN /\ outcome \in Outcomes
  /\ tools \in BOOLEAN /\ relaunched \in BOOLEAN
  /\ review \in {"off", "asking"} /\ fresh \in BOOLEAN
  /\ recoveries \in 0..MaxRecoveries /\ rounds \in 0..MaxRounds
  /\ stop \in {"no", "asked", "swallowed"} /\ stops \in 0..MaxStops
  /\ log \in {"none", "writing", "kept", "failed"}
  /\ note \in {"none", "waiting", "kept", "failed"}
  /\ entries \in Nat /\ next \in BOOLEAN
  /\ worker # "none" => at \in {"run", "dismiss", "settle", "after", "recover"}
  /\ review = "asking" => at \in {"run", "dismiss"}

Init ==
  /\ at = "route" /\ draft = "none" /\ session = FALSE
  /\ msg = [m \in Messages |-> "new"] /\ told = {} /\ overtaken = {} /\ window = TRUE
  /\ worker = "none" /\ restarting = FALSE /\ outcome = "none"
  /\ tools = FALSE /\ relaunched = FALSE
  /\ review = "off" /\ fresh = TRUE /\ recoveries = 0 /\ rounds = 0
  /\ stop = "no" /\ stops = 0
  /\ log = "none" /\ note = "none" /\ entries = 0 /\ next = FALSE

\* The task goes on from where it waits, unless a cancellation comes first.
At(step) == at = step /\ stop # "asked"

Queued == {m \in Messages : msg[m] = "queued"}
Taken == {m \in Messages : msg[m] = "taken"}

\* _drain_queue into turn.injected, and the same without keeping the messages.
TakesQueue == msg' = [m \in Messages |-> IF msg[m] = "queued" THEN "taken" ELSE msg[m]]
DropsQueue == msg' = [m \in Messages |-> IF msg[m] = "queued" THEN "dropped" ELSE msg[m]]
-------------------------------------------------------------------------------
(* /inject.                                                                 *)

\* put_if_active while the window is open; afterwards the text is admitted as
\* a request of its own.
Inject(m) ==
  /\ msg[m] = "new" /\ at # "done"
  /\ msg' = [msg EXCEPT ![m] = IF window THEN "queued" ELSE "later"]
  /\ UNCHANGED <<at, draft, session, told, overtaken, window, process, doctor, counts,
                 stopping, written>>
-------------------------------------------------------------------------------
(* The turn's loop.                                                         *)

\* A turn that cannot run: its session is gone or its CLI is not installed.
GivesUp ==
  /\ at' = "done" /\ draft' = "unavailable" /\ window' = FALSE /\ DropsQueue

Routes ==
  /\ At("route")
  /\ \/ at' = "prompt" /\ session' = TRUE /\ UNCHANGED <<draft, inject>>
     \/ GivesUp /\ UNCHANGED <<session, told, overtaken>>
  /\ UNCHANGED <<process, doctor, counts, stopping, written>>

\* The loop starts over with everything that was injected, what a recovery has
\* overtaken included.
Prompts ==
  /\ At("prompt")
  /\ at' = "launch" /\ told' = Taken /\ overtaken' = {} /\ draft' = "none"
  /\ recoveries' = 0 /\ rounds' = 0 /\ relaunched' = FALSE /\ outcome' = "none"
  /\ UNCHANGED <<session, msg, window, worker, restarting, tools, doctor,
                 stopping, written>>

Launches ==
  /\ At("launch")
  /\ \/ /\ at' = "run" /\ worker' = "running" /\ restarting' = FALSE
        /\ outcome' = "none" /\ tools' = FALSE /\ review' = "off" /\ fresh' = TRUE
        /\ UNCHANGED <<draft, inject, relaunched>>
     \/ GivesUp /\ UNCHANGED <<told, overtaken, process, doctor>>
  /\ UNCHANGED <<session, counts, stopping, written>>
-------------------------------------------------------------------------------
(* The worker, its watcher and the diagnosis.                               *)

\* Output, a command or a file: native_tools_started, and a newer version.
WorkerProgresses ==
  /\ worker = "running" /\ (fresh \/ ~tools)
  /\ tools' = TRUE /\ fresh' = FALSE
  /\ UNCHANGED <<at, draft, session, inject, worker, restarting, outcome, relaunched,
                 review, counts, stopping, written>>

\* How a worker can end by itself.
Ends == {"ok", "error", "tools"} \cup (IF tools THEN {"stream"} ELSE {"missing"})

\* The worker's stream ends; a message that came meanwhile is taken with it.
WorkerEnds ==
  /\ worker = "running" /\ worker' = "ended"
  /\ \/ Queued # {} /\ TakesQueue /\ outcome' = "restart"
     \/ Queued = {} /\ UNCHANGED msg /\ outcome' \in Ends
  /\ UNCHANGED <<at, draft, session, told, overtaken, window, restarting, tools,
                 relaunched, doctor, counts, stopping, written>>

\* _watch_inject takes one message and kills the process.
WatcherTakes(m) ==
  /\ worker = "running" /\ msg[m] = "queued" /\ msg' = [msg EXCEPT ![m] = "taken"]
  /\ restarting' = TRUE /\ worker' = "killed"
  /\ UNCHANGED <<at, draft, session, told, overtaken, window, outcome, tools,
                 relaunched, doctor, counts, stopping, written>>

\* Teardown ends.  A cancelled worker may also come to its end regardless.
TornDown ==
  /\ worker \in {"killed", "cancelled"} /\ worker' = "ended"
  /\ outcome' \in (IF worker = "killed" THEN {"restart"}
                   ELSE {"cancelled", IF restarting THEN "restart" ELSE "ok"})
  /\ UNCHANGED <<at, draft, session, inject, restarting, tools, relaunched, doctor,
                 counts, stopping, written>>

\* wait_owned asks for a diagnosis of a worker that is quiet or slow.
ReviewBegins ==
  /\ At("run") /\ review = "off" /\ worker # "ended"
  /\ review' = "asking" /\ fresh' = TRUE
  /\ UNCHANGED <<at, draft, session, inject, process, counts, stopping, written>>

\* It finds progress, nothing certain, fails, or is stale by now.
ReviewSpares ==
  /\ At("run") /\ review = "asking" /\ worker # "ended" /\ review' = "off"
  /\ UNCHANGED <<at, draft, session, inject, process, fresh, counts, stopping, written>>

\* A confirmed hang without any progress since: the worker is cancelled.
StillHung == fresh /\ worker # "ended"
ReviewConfirms ==
  /\ At("run") /\ review = "asking" /\ StillHung
  /\ at' = "settle" /\ worker' = "cancelled" /\ review' = "off"
  /\ UNCHANGED <<draft, session, inject, restarting, outcome, tools, relaunched, fresh,
                 counts, stopping, written>>

\* The worker's completion wins over a diagnosis, which is cancelled first.
CompletionWins ==
  /\ At("run") /\ worker = "ended"
  /\ at' = (IF review = "asking" THEN "dismiss" ELSE "after")
  /\ UNCHANGED <<draft, session, inject, process, doctor, counts, stopping, written>>

Dismissed ==
  /\ At("dismiss") /\ review' = "off" /\ at' = "after"
  /\ UNCHANGED <<draft, session, inject, process, fresh, counts, stopping, written>>

\* The cancelled worker has settled: a recovery, unless it finished after all.
HangSettles ==
  /\ At("settle") /\ worker = "ended"
  /\ at' = (IF outcome = "cancelled" THEN "recover" ELSE "after")
  /\ UNCHANGED <<draft, session, inject, process, doctor, counts, stopping, written>>
-------------------------------------------------------------------------------
(* After the worker.                                                        *)

\* recover_attempt: continue the same request in the saved native session,
\* restart for a message, or stop trying.
CallEnds == worker' = "none" /\ outcome' = "none"
Recovers ==
  /\ (at = "recover" \/ (at = "after" /\ outcome = "stream"))
  /\ recoveries' = recoveries + 1 /\ CallEnds /\ TakesQueue
  /\ \/ Queued # {} /\ at' = "prompt" /\ UNCHANGED <<draft, overtaken>>
     \/ /\ Queued = {} /\ overtaken' = overtaken \cup (Taken \ told)
        /\ IF recoveries' >= MaxRecoveries THEN at' = "drafted" /\ draft' = "blocked"
           ELSE at' = "launch" /\ UNCHANGED draft
  /\ UNCHANGED <<session, told, window, restarting, tools, relaunched, doctor, rounds,
                 stopping, written>>

\* (mutant) The replacement is not remembered.
RelaunchesAgain ==
  /\ at = "after" /\ outcome = "missing" /\ ~relaunched
  /\ at' = "launch" /\ recoveries' = 0 /\ CallEnds
  /\ UNCHANGED <<draft, session, inject, restarting, tools, relaunched, doctor, rounds,
                 stopping, written>>

\* A native session the provider no longer has, before any work: once, a fresh
\* launch with the whole context.
Relaunches ==
  /\ at = "after" /\ outcome = "missing" /\ ~relaunched
  /\ at' = "launch" /\ relaunched' = TRUE /\ recoveries' = 0 /\ CallEnds
  /\ UNCHANGED <<draft, session, inject, restarting, tools, doctor, rounds, stopping,
                 written>>

\* The call returns, to the start of the loop when a message was taken.
Returned == CASE outcome = "ok" -> "draft" [] outcome = "tools" -> "tools" [] OTHER -> "error"
Returns ==
  /\ at = "after" /\ outcome # "stream" /\ (outcome = "missing" => relaunched)
  /\ TakesQueue /\ CallEnds
  /\ IF outcome = "restart" \/ Queued # {} THEN at' = "prompt" /\ UNCHANGED draft
     ELSE at' = "drafted" /\ draft' = Returned
  /\ UNCHANGED <<session, told, overtaken, window, restarting, tools, relaunched,
                 doctor, counts, stopping, written>>
-------------------------------------------------------------------------------
(* The judge and the end of the turn.                                       *)

\* (mutant) What is waiting when the window closes is dropped.
FinishesAtOnce(result) ==
  /\ told' = told /\ DropsQueue
  /\ at' = "log" /\ window' = FALSE /\ log' = "writing" /\ draft' = result

\* The inject window closes and the log of the turn begins, in one step; a
\* message that is still waiting starts the loop over instead.
Finishes(result) ==
  /\ told' = told
  /\ IF Queued # {}
     THEN /\ TakesQueue /\ at' = "prompt" /\ UNCHANGED <<window, log, draft>>
     ELSE /\ UNCHANGED msg /\ at' = "log" /\ window' = FALSE /\ log' = "writing"
          /\ draft' = result

\* The tool budget is exhausted, the one limit of a turn's budget that a direct
\* backend meets (workers are claimed in _run_flexible alone): what was accepted
\* becomes part of the checkpoint.
Exhausted ==
  /\ draft = "tools" /\ TakesQueue /\ told' = Taken \cup Queued
  /\ at' = "log" /\ window' = FALSE /\ log' = "writing" /\ draft' = "partial"

\* A draft goes to the judge, unless it failed, is empty or asks the user.
Drafted ==
  /\ At("drafted")
  /\ \/ Exhausted
     \/ draft = "draft" /\ at' = "judge" /\ UNCHANGED <<draft, msg, told, window, log>>
     \/ draft = "draft" /\ Finishes("unverified")
     \/ draft \in {"error", "blocked"} /\ Finishes(draft)
  /\ UNCHANGED <<session, overtaken, process, doctor, counts, stopping, note, entries, next>>

\* _run_with_inject_watch: a message wins over the judge, whose process is torn
\* down first.
JudgeInterrupted(m) ==
  /\ At("judge") /\ msg[m] = "queued"
  /\ msg' = [msg EXCEPT ![m] = "taken"] /\ at' = "abandon"
  /\ UNCHANGED <<draft, session, told, overtaken, window, process, doctor, counts,
                 stopping, written>>

Abandoned ==
  /\ At("abandon") /\ TakesQueue /\ at' = "prompt"
  /\ UNCHANGED <<draft, session, told, overtaken, window, process, doctor, counts,
                 stopping, written>>

\* The judge wants more, and more rounds are allowed: another phase with the
\* draft and its follow-up, but the same request.
JudgeContinues ==
  /\ At("judge") /\ Queued = {} /\ rounds < MaxRounds
  /\ rounds' = rounds + 1 /\ recoveries' = 0 /\ relaunched' = FALSE
  /\ at' = "launch" /\ draft' = "none"
  /\ UNCHANGED <<session, inject, worker, restarting, outcome, tools, doctor, stopping,
                 written>>

\* It is content, has no verdict, is blocked, or has reached its limit.
JudgeDecides ==
  /\ At("judge")
  /\ \/ \E verdict \in {"verified", "unverified", "blocked"} : Finishes(verdict)
     \/ rounds = MaxRounds /\ Finishes("limit")
  /\ UNCHANGED <<session, overtaken, process, doctor, counts, stopping, note, entries, next>>

\* asyncio.wait for the write and the acknowledgement of native messages, then
\* maintenance in the background.
TurnReturns ==
  /\ At("log") /\ log \in {"kept", "failed"} /\ at' = "done"
  /\ UNCHANGED <<draft, session, inject, process, doctor, counts, stopping, written>>
-------------------------------------------------------------------------------
(* /stop.                                                                   *)

Stop ==
  /\ at # "done" /\ stop # "asked" /\ stops < MaxStops
  /\ stop' = "asked" /\ stops' = stops + 1
  /\ UNCHANGED <<at, draft, session, inject, process, doctor, counts, written>>

\* _log_interrupted_turn: a note of its own, unless the turn is already logged.
LogsInterruption == note' = IF session /\ log # "kept" THEN "waiting" ELSE note

\* The turn's task ends with the cancellation; worker and doctor have settled.
Cancelled ==
  /\ at' = "done" /\ draft' = "cancelled" /\ stop' = "no"
  /\ worker' = "none" /\ outcome' = "none" /\ review' = "off"
  /\ window' = FALSE /\ DropsQueue /\ LogsInterruption
  /\ UNCHANGED <<session, told, overtaken, restarting, tools, relaunched, fresh, counts,
                 stops, log, entries, next>>

\* It is raised at the await the task is at; an await that tears down a doctor
\* or a judge swallows it.
StopLands ==
  /\ stop = "asked"
  /\ \/ at \in {"route", "prompt", "launch", "run", "drafted", "judge", "log"} /\ Cancelled
     \/ at = "settle" /\ worker = "ended" /\ Cancelled
     \/ /\ at \in {"dismiss", "abandon"} /\ stop' = "swallowed"
        /\ UNCHANGED <<at, draft, session, inject, process, doctor, counts, stops, written>>
-------------------------------------------------------------------------------
(* The session log.                                                         *)

\* _persist_session_write under the session lock; an append may fail.
LogWritten ==
  /\ log = "writing"
  /\ \/ log' = "kept" /\ entries' = entries + 1
     \/ log' = "failed" /\ UNCHANGED entries
  /\ UNCHANGED <<at, draft, session, inject, process, doctor, counts, stopping, note, next>>

\* (mutant) It does not wait for the write of the turn.
NoteWrittenAtOnce ==
  /\ note = "waiting" /\ note' = "kept" /\ entries' = entries + 1
  /\ UNCHANGED <<at, draft, session, inject, process, doctor, counts, stopping, log, next>>

\* The note of an interruption waits for a live write, so that it stays single.
NoteWritten ==
  /\ note = "waiting" /\ log # "writing"
  /\ \/ log = "kept" /\ note' = "none" /\ UNCHANGED entries
     \/ log # "kept" /\ note' = "kept" /\ entries' = entries + 1
     \/ log # "kept" /\ note' = "failed" /\ UNCHANGED entries
  /\ UNCHANGED <<at, draft, session, inject, process, doctor, counts, stopping, log, next>>

\* The next turn of the workspace has the run lock, and reads the session once
\* the writes of this one have settled.
WritesSettled == log # "writing" /\ note # "waiting"
NextTurn ==
  /\ at = "done" /\ ~next /\ WritesSettled /\ next' = TRUE
  /\ UNCHANGED <<at, draft, session, inject, process, doctor, counts, stopping, log,
                 note, entries>>
-------------------------------------------------------------------------------
TurnStep ==
  \/ Routes \/ Prompts \/ Launches \/ CompletionWins \/ HangSettles
  \/ Recovers \/ Relaunches \/ Returns \/ Drafted
  \/ JudgeContinues \/ JudgeDecides \/ TurnReturns
WorkerStep == WorkerEnds \/ TornDown
Teardown == Dismissed \/ Abandoned
Writes == LogWritten \/ NoteWritten

Next ==
  \/ \E m \in Messages : Inject(m) \/ WatcherTakes(m) \/ JudgeInterrupted(m)
  \/ TurnStep \/ WorkerStep \/ WorkerProgresses \/ Teardown
  \/ ReviewBegins \/ ReviewSpares \/ ReviewConfirms
  \/ Stop \/ StopLands \/ Writes \/ NextTurn

Spec == Init /\ [][Next]_vars

\* The loop runs what is ready: tasks go on, processes that were killed end,
\* the judge answers.  That a worker ends is assumed: its hang may be confirmed,
\* but nothing bounds its time (supervision.py: elapsed time is never a deadline).
Fairness ==
  /\ WF_vars(TurnStep) /\ WF_vars(WorkerStep) /\ WF_vars(Teardown)
  /\ WF_vars(StopLands) /\ WF_vars(Writes) /\ WF_vars(NextTurn)
FairSpec == Spec /\ Fairness
-------------------------------------------------------------------------------
(* What the user can rely on.                                               *)

\* A message /inject acknowledged is part of the request that was answered or
\* checkpointed, unless the user stopped the turn or it could not run, and but
\* for one case: a message whose watcher was killing the worker for it when a
\* confirmed hang made recover_attempt launch the same request again, which
\* looks at the queue and not at what was taken, if no later message starts the
\* loop over.  The docstring of _take_pending_injections (agent.py 1369-1377)
\* makes no such exception.
InjectionsAnswered ==
  at \in {"log", "done"} /\ draft \notin {"cancelled", "unavailable"} =>
    /\ Taken \subseteq told \cup overtaken
    /\ \A m \in Messages : msg[m] \notin {"queued", "dropped"}

\* Messages the current attempt does not know of.
Untold == Taken \ (told \cup overtaken)

\* A worker that was started is waited for, a cancelled one until it settles;
\* and a call that is running has a recovery left.
CallInv ==
  /\ at \in {"run", "dismiss", "settle", "after", "recover"} => worker # "none"
  /\ at \in {"dismiss", "after", "recover"} => worker = "ended"
  /\ at = "settle" => worker \in {"cancelled", "ended"}
  /\ worker = "cancelled" => at = "settle"
  /\ worker = "ended" /\ outcome = "cancelled" => at \in {"settle", "recover"}
  /\ worker = "killed" => restarting
  /\ at \in {"launch", "run", "dismiss", "settle", "after", "recover"} => recoveries < MaxRecoveries

\* A message the attempt does not know of is why its worker ends; and the inject
\* window is open until the turn has nothing left to take.
InjectInv ==
  /\ at \in {"launch", "drafted", "judge"} => Untold = {}
  /\ at \in {"run", "dismiss", "settle", "after", "recover"} /\ Untold # {} =>
       \/ worker \in {"killed", "cancelled"} /\ restarting
       \/ worker = "ended" /\ outcome \in {"restart", "cancelled"}
  /\ at # "done" => \A m \in Messages : msg[m] # "dropped"
  /\ at \in {"log", "done"} => ~window /\ Queued = {}

\* What reached the session file is the log of the turn or the note of its
\* interruption, and a turn with a session began one of them.
LogInv ==
  /\ at \notin {"log", "done"} => log = "none"
  /\ at = "log" => log # "none"
  /\ at # "done" => note = "none"
  /\ next => at = "done" /\ WritesSettled
  /\ entries = (IF log = "kept" THEN 1 ELSE 0) + (IF note = "kept" THEN 1 ELSE 0)
  /\ note = "kept" => log \in {"none", "failed"}
  /\ at = "done" /\ session /\ draft # "unavailable" => log # "none" \/ note # "none"

\* With the types, the inductive invariant behind it.
TurnInv == TypeOK /\ CallInv /\ InjectInv /\ LogInv /\ InjectionsAnswered

\* A turn with a session leaves one entry in it, however it ends, before the
\* next turn reads it; none only if the write failed or nothing could run.
LoggedOnce ==
  /\ entries <= 1
  /\ next /\ session /\ draft # "unavailable" /\ "failed" \notin {log, note} => entries = 1

\* Every turn ends, and so does every one that is asked to stop.
TurnEnds == <>(at = "done")
StopSettles == stop = "asked" ~> stop # "asked"
TurnsEnd == TurnEnds /\ StopSettles
===============================================================================
