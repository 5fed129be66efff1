# Cozter in TLA+

Cozter is a chat bot that runs coding agents: it takes messages from Telegram,
Slack, Signal or a terminal, runs one agent turn at a time for each user in a
workspace on the host, and sends the answer back. What makes it hard is not the
answer but everything around it: a request that was accepted must survive
failures, `/stop`, a restart for an update and a crash, and it must not be
answered twice. These modules model that core and the parts it rests on, check
them with TLC on small instances and prove the main safety properties of ten of
them, and of three that they cannot go on for ever, with TLAPS for every instance.

Line references are to `src/`; `base.py` means `src/backends_bot/base.py` unless
another directory is named.

## Contents

1. The system's parts
2. Modules
3. The turn queue
4. Schedules
5. Background tasks
6. Updates
7. One turn
8. The HTTP agent loop
9. The flexible agent
10. The Signal client
11. Sessions and shared memory
12. Native conversations
13. Runs and bounds
14. Fairness
15. Proofs
16. Where the code and its documentation part
17. What is only model-checked, and what is not modelled
18. Plan

## 1. The system's parts

Everything runs in one process and, but for worker threads that do file
operations and native agent processes, on one asyncio event loop. Two pieces of
code interleave only at an `await`. A step of a model is therefore what the code
does between two awaits, or one durable file operation together with the code
that runs when it completes. Where a part names its module, section 17
says what of the part the module leaves out.

**Turn queue** (`base.py` 741-1080, 1355-1600, 2660-3191, 4440-4690, 5341-5443).
*State*: per owner an `asyncio.Queue` in memory, the same entries with their job
checkpoints in the queue store, the id of the active entry, the paused job, the
pause after `[[await]]`, the restart gate, a cancel generation and a cancel
depth. *Operations*: admit a request (`_admit_queue_entry`), promote an answer,
pop, run a turn with its checkpoints, retain or complete the entry, pause after a
failure, resume by guidance or by the retry poll, `/stop`, `/inject`, restore
after a restart. *Interacts with* the scheduler and the transports (which
admit), the agent runtime (which the turn awaits), the reply ledger. *Hard*: six
kinds of tasks edit the same queue file and the same list; each awaits between
its two writes; the process can end anywhere. *Correct if* nothing accepted is
lost, nothing answered runs again, jobs start in durable order, memory is what a
restart would restore, and nobody waits for ever.
Modelled by `TurnQueue`.

**Reply ledger** (`base.py` 3193-3564). *State*: one JSON document with a record
for each owner whose reply was staged but not removed, and a lock for each
owner. *Operations*: stage, consume the prompt's queue entry, send, arm the
await pause, remove; recovery by poll; discard on `/stop` or when a chat is no
longer authorized. *Hard*: four durable steps with a message in the middle, and
two deliverers. *Correct if* a staged reply is sent or discarded, its prompt is
consumed exactly with it, and the owner's next job waits for it.
Modelled by `TurnQueue`.

**Scheduler and queue store** (`base.py` 2793-2900 and 4200-4356, `queue_store.py`,
`schedules.py`). *State*: `schedules.json`, which users edit, with a `last_fired`
stamp; a SQLite file with the queue entries and a watermark for each schedule.
*Operations*: the tick, admission with its watermark in one transaction, the
projection of the stamp, `/reserve`, deletion. *Hard*: two files cannot be
written together; a tick reads before it awaits its locks; the queue can be full
or under `/stop`. *Correct if* each due time becomes at most one entry, a missed
time is caught up, and a deleted schedule is quiet.
Modelled by `ScheduleAdmission`.

**Detached tasks** (`base.py` 2531-2659 and 3566-4196, `agent.py` 3890-4050,
`backends_agent/base.py`, `claude_code.py`, `claude_background_guard.py`). *State*:
a JSON ledger of the tasks whose result is owed, each with a staged result and
the last state reported; the launches and the deliveries in flight; the
provider's own background sessions. *Operations*: launch by `/bg` or for an agent,
register a task that was found, poll, report a wait, stage and deliver a result,
stop and dismiss. *Hard*: a launch that `/stop` overtakes owns a provider session
no record knows; the poll, `/stop` and a launch edit one ledger; a result goes out
before its record is removed. *Correct if* every provider session is recorded or
stopped, `/stop` is silent and leaves nothing behind, and a result is delivered,
once unless its record could not be removed.
Modelled by `DetachedTasks`.

**Attachment uploads** (`base.py` 1600-2100). *State*: a chain of uploads for
each chat, a batch waiting five seconds for text. *Hard*: text, upload and
`/stop` in any order. *Correct if* a message carries the files sent before it.
Not modelled (section 17).

**Update gate and supervisor** (`__main__.py` 476-660, `updater.py`,
`launch_job.py`). *State*: the gate of every owner on every platform, the
commit at start. *Operations*: fetch, wait for a quiet moment, close the gates,
pull, re-execute, or reopen. *Hard*: the quiet moment is read before the gates
close. *Correct if* no turn is killed by an update and a failed one reopens
every gate.
Modelled by `UpdateHandoff`.

**Agent runtime** (`agent.py`). *State*: the turn budget, the inject queue, the
phase of a turn, pending session writes. *Operations*: build the prompt, drive a
backend, restart it with injected messages, recover from a hang, hand over when
the budget is spent, log the turn, maintain the session. *Hard*: an injection
that arrives while the stream ends; a budget that ends inside a tool. *Correct
if* every injected message reaches the agent or the next turn, and a turn is
logged once, also when interrupted.
Modelled by `AgentTurn`.

**Execution records** (`execution_state.py`). *State*: a JSON snapshot for each
run, native conversation heads with a generation. *Operations*: set, save,
flush, reload, publish a head, discard. *Hard*: writes from several workers of
one turn, a cancel during a write, a discard while another turn holds the
conversation. *Correct if* a snapshot never goes back, and a discarded
conversation is not revived.
Modelled by `NativeSessions` and `HttpLoop`.

**Flexible meta-agent** (`flexible.py`, `agent.py` 2462-3757). *State*: plan,
leases, owner obligations, consultations, escalations and reports, all
checkpointed. *Hard*: a restart between a worker's report and its use. *Correct
if* no report is lost or merged twice, and the bounds on workers hold.
Modelled by `FlexibleJob`.

**HTTP agent loop** (`backends_agent/_openai_agent.py`, `_http_context.py`,
`_http_process.py`, `llama.py`, `meta.py`, `zai.py`). *State*: the conversation
with its tool calls, retry counters, the stream. *Hard*: a retry after tools had
effects, a context that must shrink without separating a call from its result.
*Correct if* each tool call is run once and answered.
Modelled by `HttpLoop`.

**Native backends** (`backends_agent/claude_code.py`, `codex.py`, `copilot.py`,
`grok.py`, `antigravity_cli.py`, `native_prompt.py`). Adapters that start a
command-line agent and translate its events. Mostly parsing; what they share, a
conversation that is resumed and told only what it does not know, is in
`NativeSessions`.

**Hang supervision** (`supervision.py`, `process_observation.py`). *State*: an
operation with its progress marks, the last review. *Operations*: observe,
diagnose, stop, extend. *Hard*: progress during a diagnosis. *Correct if* a
worker that moves is not stopped and one that hangs is.
Modelled by `AgentTurn`.

**Processes** (`process_launch.py`, `launch_job.py`, `agent_tools/owned_worker.py`,
part of `utils.py`). Launch, cancel and reap process trees. What a cancelled
caller does to its worker is in `UpdateHandoff` and `AgentTurn`; the rest is
operating-system calls.

**Sessions and compaction** (`session.py`, `compaction.py`, `titling.py`,
`router.py`). *State*: session files with messages, a summary and a count of
compacted messages. *Hard*: compaction asks a model while turns append. *Correct
if* no message is dropped that is not in the summary.
Modelled by `SessionMemory`.

**Workspaces, configuration, memory** (`workspace.py`, `config.py`, `colony.py`,
`skills.py`). Settings files behind one lock for each workspace. The locks and the shared
memory are in `SessionMemory`.

**Tools** (`agent_tools/`). Single calls: files, shell, search, web, git, notes.
A patch is staged and then applied file by file, which is its only protocol.
`HttpLoop` sees their calls and outcomes; the tools and the plugins that run
external commands are not modelled.

**Transports** (`backends_bot/telegram.py`, `slack.py`, `signal.py`, `cli.py`).
*State worth modelling*: Signal's JSON-RPC client, its reconnection and its
journal of outbound messages, which keeps the bot from answering itself.
Modelled by `SignalClient`.

**Durable file operations** (`base.py` 105-153, `utils.py`). An operation runs in
a thread under a lock; if its caller is cancelled meanwhile, the operation ends,
its completion callback runs, and only then the caller unwinds. The models of
the queue and of the scheduler rest on this.

**Status messages, commands and pickers** (`base.py`). Progress lines and
dialogues over settings: no state that outlives them. The commands that change a
component's state are actions of its module.

## 2. Modules

| module | what it is |
| --- | --- |
| `QueueOps` | the list edits both copies of the queue are built from |
| `TurnQueue` | one owner's queue, turns, reply ledger, `/stop`, retry poll, gate, restarts |
| `JobPromise` | what an accepted request is promised, without a queue |
| `MCTurnQueue` | instances of `TurnQueue` for TLC |
| `ScheduleAdmission` | ticks, queue store, `schedules.json`, the consumer, `/stop`, restarts |
| `ScheduleOccurrences` | what a due time is promised, without ticks or files |
| `MCSchedule` | instances of `ScheduleAdmission` for TLC |
| `DetachedTasks` | launches, the ledger of background tasks, poll, delivery, `/stop`, restarts |
| `TaskNotices` | what a tracked task is promised, without provider, poll or locks |
| `MCDetached` | instances of `DetachedTasks` for TLC |
| `UpdateHandoff` | the update task, `main()`, and of every platform its gate, scheduler, consumer and services |
| `AgentTurn` | one turn: phases, worker, diagnosis of hangs, `/inject`, judge, `/stop`, log |
| `HttpLoop`, `MCHttp` | the agent loop of the HTTP backends and its durable record |
| `FlexibleJob`, `MCFlexible` | a job of the flexible agent and its saved plan, over several turns |
| `SignalClient` | the JSON-RPC client of Signal, its reconnection, its journal |
| `SessionMemory` | sessions, routing, compaction, titles and the colony of a workspace |
| `NativeSessions`, `MCNative` | the conversations that native backends resume |
| `TurnQueueProofs` | what the list edits return, the invariants of `TurnQueue`, its safety properties, the queue at rest, the refinement |
| `ScheduleProofs` | the invariant of `ScheduleAdmission`, its safety properties, the refinement |
| `DetachedProofs` | the invariant of `DetachedTasks`, its safety properties, the refinement |
| `UpdateProofs` | the invariant of `UpdateHandoff` and its safety properties |
| `AgentProofs` | the invariants of `AgentTurn`, `SessionMemory` and `FlexibleJob`, and their safety properties |
| `HttpProofs` | the invariant of `HttpLoop`, true history, sound requests, durable order |
| `SignalProofs` | the invariant of `SignalClient` and its safety properties |
| `NativeProofs` | the invariant of `NativeSessions`, true ledgers, one driver, stable lines |

`TurnQueue` and `ScheduleAdmission` both use `QueueOps`. They meet in the queue
store: `TurnQueue` sees a scheduled request as an admission that may overtake an
await pause, and `ScheduleAdmission` sees the consumer as Take, Complete, Retain.
`DetachedTasks` meets `TurnQueue` in three places: `/stop`, whose wait for launches is
`SlowStop` there and `LaunchesSettled` here; a turn, which may launch; and an owed
reply, which is `owed` here and a staged record there.

The other modules each take one of these steps apart. `UpdateHandoff` has every
platform's queue as a number and a consumer, and is where `TurnQueue`'s gate
(`restarting`) comes from. `AgentTurn` is what `TurnQueue` calls a turn; its worker is
a run of `HttpLoop`, a phase of `FlexibleJob` or a native process, of which
`NativeSessions` has the conversation. What `AgentTurn` logs is what
`SessionMemory` appends. A run of `HttpLoop` or a turn of `FlexibleJob` that stops at a
limit is the unfinished turn of `TurnQueue`, whose retained entry is their next
run or turn. These boundaries are kept by reading: no module instantiates the
other, and each assumes of its neighbour only what the neighbour may do.
`AgentTurn`, `SessionMemory` and `FlexibleJob` have names apart (`MemoryNext`, `FlexNext`,
`memoryVars`, `flexVars`), since `AgentProofs` extends all three.

## 3. The turn queue

`TurnQueue` models one owner. Owners share only the ledger's file and the lock
of the queue file; what one owner's records do to another's is not in it.

State and code: `disk` and `ckpt` are the owner's entries in the queue store and
their job checkpoints; `mem` is `_message_queues[uid]`; `con`, `cur` and
`killed` are where the consumer task is between its awaits, its job and an
undelivered `cancel()`; `snd` is where each request's admission is; `dlv` is the turn
and the recovery poll inside a delivery; `claim` the job the retry poll has taken;
`paused`, `awaiting`, `pending`, `restarting` are the reasons not to pop; `gen` is the
cancel generation and `stop` where each `/stop` is. History variables remember
what was accepted, delivered, dropped or stopped, and no action reads them.

Conventions that the code justifies:

* **Atomicity.** A step ends at an await that can really wait. A durable file
  operation with its `on_complete` is one step, because
  `run_durable_file_operation` (105-153) keeps the lock until the callback has
  run and lets a cancelled caller unwind only after. The FIFO lock of the queue
  file is `QueueFileQuiet`, `QueueFileOpen` and `QueueFileFree`: who has committed
  publishes before anybody else reads or writes, and who asks after a `/stop` has
  asked is served after it.
* **Cancellation.** `/stop` marks the running turn `killed`; the next step of the
  consumer is then `Cancelled`, at whichever await it is.
* **Restart.** A crash and `restore_queues` are one step: the queue is restored
  before the platform connects (`telegram.py` 423, `slack.py` 401, `signal.py`
  437), so nothing happens in between. What lived in memory is gone.
* **Faults.** A fault is a write or a send that raises. It is possible wherever
  the code catches it or lets it end the task, and bounded by `MaxFaults`.
* **A turn** is its outcomes: finished, unfinished with more to do, blocked,
  waiting for a retry, or failed. `Asks` names the requests whose reply contains
  `[[await]]`; such a reply reaches the ledger also when an earlier text event of
  the turn held the marker (3293, 5303), because `_job_result_is_incomplete`
  (4771-4780) looks at the final text only.
* **`/stop`** first moves the generation and cancels the turn and the deliveries, in
  one step (`StopSignals`, 1536-1563). Then it may have to wait twice: for launches and
  uploads to settle, which `SlowStop` allows or excludes, and for the admission lock,
  which an admission between its commit and its publication, a retry claim or another
  `/stop` may hold (1568-1570). `StopAtOnce` is the invocation that finds nothing to
  wait for, `StopBegins` the one that waits, in "settle". Without `SlowStop` it has
  asked for the admission lock in the step that signalled. `asyncio.Lock` serves in
  order, so it comes before every later admission; and before what a task that was
  resumed later asks of the queue file, because the holder's operation is the only one
  ahead of it. `StopIsNext` is that situation. A consumer that a drain has not yet
  emptied may still pop during it: that turn finds its entry gone and never reaches the
  agent (`StopLeavesNothing`, the second half of `StartsDurableHead`).
* **Guidance** (`Guide`) is one durable step, and so is the write of a retry's claim: a
  `/stop` that signals while the write is out is taken to come after it. In the code
  guidance then finds another generation and leaves the pause to `/stop` (3023), which
  in the model lifts it first; either way `/stop` clears the file, and the request that
  brought the guidance is refused.

What it promises, in `TurnQueue` and `JobPromise`:

* `AcceptedAccounted`: an accepted request is on disk, staged, delivered, stopped
  or dropped with its chat. Nothing is lost.
* `NoRerunAfterAnswer`: a job whose reply was staged is not given to the agent
  again, also after a crash between the four steps of a delivery.
* `StartsDurableHead`: what starts is the first entry of the durable queue that
  may start, so that a restart does not change the order; what is popped from further
  back while a `/stop` is at work is not given to the agent.
* `OneStagedReply`: an owner has one staged reply at most.
* `QueueAtRest`: when everything has settled, no work waits without a reason
  (`NoStranding`), what holds the queue is there to be resumed (`HoldHasItsJob`),
  and memory holds what a restart would restore, in that order (`RestartParity`).
* `StopDiscipline`: what `/stop` reported as cancelled is not answered later
  (`StoppedIsFinal`), and what came after it is not cancelled
  (`StopSparesLaterWork`).
* `KeepsPromise`: all of it implements `JobPromise`, in which a request is open,
  answered, or closed, and every change is one of five.
* `EventuallySettles`, `KeepsLivePromise`: see section 14.

## 4. Schedules

`ScheduleAdmission` models one owner's schedules in one workspace. `Due` gives
the minutes that a schedule's days and time stand for and `IsSlot` is what
`most_recent_slot` answers from them, so the calendar itself is left out.
`marks` is the table of watermarks, `fired` the stamp in the document, `file` the
ids the document lists, `disk` the owner's scheduled entries as a set: their
order is a matter of `TurnQueue`, and a restart may restore them in any order.

The tick reads the clock, the watermarks and the document (`TickBegins`), repeats
the projection of receipts the document may lack (`TickProjects`), and then, for
each due schedule in the order of creation, takes the workspace lock and looks
again (`TickLooks`), admits the entry with its watermark (`TickAdmits`), publishes
it (`TickPublishes`), projects the stamp (`TickClaims`), announces and wakes
(`TickAnnounces`). A running bot has one tick at a time. `Ticks` may have several
because the source's documentation promises that the shared lock makes concurrent
ticks safe (`README.md` 1147 of the source), and because an overlap of ticks
explores more orders than any schedule of one.

`blind` is a document that could not be read when it was first needed:
`load_json_object` (`utils.py` 657-677) answers `{}`, which `_load_all` caches under
the file's modification time. Until the file changes the bot lists no schedules,
and a `/reserve` in that state rewrites the document from `{}` and so loses the
others. The safety properties hold nevertheless; `EveryDueTimeServed` excuses it.

What it promises:

* `OncePerOccurrence`: an occurrence becomes an entry once, whatever fails
  (`NeverTwice`); what was completed or stopped is not started again
  (`NeverRestarted`); and a schedule deleted after a tick found it due is not
  admitted by that tick (`DeletedStaysQuiet`).
* `StampFollowsReceipt`: the stamp runs behind the watermark; the other way a
  crash between the two writes would lose the occurrence.
* `KeepsOccurrences`: the admissions implement `ScheduleOccurrences`.
* `ScheduleServes`, which is `EveryDueTimeServed` and `EveryEntryEnds`: see
  section 14.

## 5. Background tasks

`DetachedTasks` models one owner's background tasks. Each launch is of one of three
kinds: `"bg"` for `/bg`, `"turn"` for a request in an agent's reply
(`_launch_result_detached_tasks`), `"found"` for a task the foreground run started
by itself and that is only registered (`_register_result_detached_tasks`).

`provider` is what Claude's supervisor would answer about each task. Tasks are
started, wait for input, end and may be forgotten by it; these two actions are
external. `pc` is where a launch is between two awaits, `killed` an undelivered
`cancel()`, `lgen` the cancel generation it captured. `records`, `staged` and `told`
are the ledger: who is listed, who has a `delivery_text`, whose
`last_reported_state` is "blocked". `poll`, `todo`, `cur` and `notice` are the pass
over the records with the delivery it awaits; `todo` keeps what the records said
when they were listed, which is what makes them stale. `stop` is where `/stop` is.

* A launch: the run lock and the session (`LaunchStarts`); the handshake, which has
  an owner and is settled before a cancellation is obeyed; the log entry; the
  provider's confirmation; the record, under the owner's admission lock; the
  acknowledgement. A cancelled launch stops the task it knows and removes its
  record (`Cleanup`, `Forgets`), and repeated cancellation does not interrupt that.
* The poll takes the listed records in any order. A staged result is delivered
  without asking again. A delivery looks at the ledger again under its locks, and
  not before the owed replies are out. A result goes out, then its record goes;
  a failure in between ends the pass, or only this record, and counts in `slips`.
* `/stop` moves the generation and cancels launches and deliveries before its first
  await, waits for the launches of `/bg`, takes the admission lock, clears the queue
  and the owed replies (`StopFails` if that fails), and then stops and removes what
  the ledger lists. A refusal keeps the record; a file error ends `/stop`. Both go
  to `kept`. That deliveries are awaited under the admission lock is weakened:
  `StopLists` takes the lock when they have ended, which allows more.
* `Shutdown` cancels the launches as `_stop_daemon_services` does; `Restart` is the
  end of the process, orderly or not, at any step.
* A fault is a write, a send or a command that fails, or an answer of the provider
  that says nothing; `MaxFaults` bounds them together.

What it promises:

* `Accounted` has two halves. `RunsKnown`: when a launch is over and its task still
  runs outside the ledger, a provider or a file refused (`kept`), a message or a line
  in the log gave it up (`disowned`), or the bot never had the means (`lost`: the process
  ended before there was a record, or a cancelled handshake gave no id). One case is
  left that nobody is told of and that has no such reason: a task the foreground run
  started by itself, when a `/stop` or a shutdown meets its registration
  (`interrupted`, `cutOff`; section 16). `PromisesHold`: a result that the user was
  promised is awaited, was sent, or was withdrawn by a `/stop`; only a `/bg` whose
  acknowledgement a shutdown meets takes its promise back by itself (`shed`, section
  16). Both exceptions need the interruption: neither holds for a launch no `/stop` and
  no shutdown has met at work (`CancelInv`).
* `StopForgetsAll`: nothing older than a finished `/stop` is in the ledger, but for
  refusals, although a launch may be anywhere when `/stop` comes.
* `StopSilences`: no notice begins while `/stop` is at work, and no result of a task
  it removed is sent, although the poll read the record before.
* `SentOnce`: a result is sent again only for a removal that did not happen.
* `LedgerIsTrue` is the conjunction of `Accounted` and `StopForgetsAll`; `SentOnce` is
  part of `DetachedInv`.
* `KeepsNotices`: it implements `TaskNotices`.
* `NothingHangs`, which is `ResultIsSent`, `WaitIsReported` and `StopsEnd`: see
  section 14.

## 6. Updates

`UpdateHandoff` models `__main__.py` with `updater.py` and `run_owned_worker`, and of
each platform what takes part in an update. `upd` is where the update task waits:
asleep, checking, until the platforms are idle (`IdleSeen`), closing one gate after
the other and joining the scheduler behind it (`GateCloses`, `SchedulerJoined`),
looking again (`LooksAgain`), pulling, installing, cancelling the startups that are
under way, notifying, stopping the platforms, re-executing; or releasing the gates
again (`Releases`, `why` says for what reason). `worker` is the thread that owns
`git pull` or `pip install`, which a cancelled caller waits for. `main` is the parent
task: it serves, joins the startups, cancels the update task, stops the platforms,
leaves. `moved` and `pulled` are the checkout: HEAD may be moved by the updater or by
an operator; `origin` is what a fetch would find.

* A platform's `queue` is a number, its `consumer` is away, about to look, or in a
  turn. `other` is an upload, a retry of a reply or a `/stop` ("ungated": the gate
  does not hold it back), or a `/bg` launch.
* `cancel` tells an undelivered cancellation from one that an await swallowed:
  `await_cancelled` (`utils.py` 277), with which `begin_update_restart` joins the
  scheduler, answers to its own cancellation and to its caller's. The next
  `run_owned_worker` notices (`Refused`).
* `Daemons` are the platforms with durable services; the CLI is one without.

What it promises: `HandoffIsQuiet`, that from the second look to the end of the
process no turn and no launch is at work; `IntakeOpen`, that outside a handoff
every gate is open and every scheduler runs, also for a platform whose startup fell
into a handoff that was given up; `NoTurnOnPulledCode`, that no turn starts in the
old process once its pull has changed the files, whether it was confirmed,
cancelled or failed; `QueuedWorkStarts` and `HandoffsEnd`, see section 14.
`HandoffInv` is the inductive invariant behind them.

## 7. One turn

`AgentTurn` models `agent.run` of a direct backend. `at` is where the turn's task
is: it picks a session (`Routes`), builds a prompt from what was asked and injected
(`Prompts`), starts the backend (`Launches`) and waits in `wait_owned` until the
worker ends, a message is injected, a hang is confirmed or `/stop` comes. `msg` is
what became of each injected message: in the inject queue, taken by a watcher,
dropped, or admitted as a request of its own because the window had closed. `told`
is what the prompt of the current attempt carries.

* `worker` and `restarting` are the process and the watcher that killed it for a
  message; `review` and `fresh` are the diagnosis: a worker that made progress since it
  began is spared, and one that completes while it is being stopped wins.
* A call recovers from a confirmed hang or an interrupted stream at most
  `MaxRecoveries` times, and replaces a missing native session once (`relaunched`),
  before any work.
* The judge may ask for another phase `MaxRounds` times; a message wins over it.
* The log of the turn, and the note of an interrupted one, are tasks of their own
  (`log`, `note`); the next turn waits for them.

What it promises: `InjectionsAnswered` (in `TurnInv`), that a message `/inject`
acknowledged is part of the request that was answered or checkpointed, but for one case
that the code does not intend: a message whose watcher was killing the worker for it when
a confirmed hang made the recovery launch the same request again, if no later message
starts the loop over (`overtaken`, section 16);
`LoggedOnce`, that a turn leaves one entry in its session, however it ends, before
the next turn reads it; `TurnsEnd`, see section 14. `TurnInv` joins the first to the
parts that keep it and the second: a worker that was started is waited for
(`CallInv`), a message the attempt does not know of is why its worker ends
(`InjectInv`), every write to the session is the log's or the note's (`LogInv`).

Of the limits of a turn's budget a direct backend meets one, its tools: workers are
claimed in `_run_flexible` only (`agent.py` 3011, 3223, 3370), so that limit is in
`FlexibleJob`. The acknowledgement of native messages that is awaited after the log
(4829) is part of `LogWritten`.

## 8. The HTTP agent loop

`HttpLoop` models `OpenAIChatBackend._run_agent_impl` with the record of
`execution_state.py` it goes on from. A message is its role and what it stands for.
`transcript` and `pending` are the run's copy, `disk` the record. A run restores the
record (`Restored`): a batch that was interrupted gets one result for every call,
"unknown" where no outcome is durable. It asks (`Attempt`), with retries,
recoveries of stalled generations and shrinking contexts (`Projected`,
`ContextRejected`: user messages and the newest groups stay, and what is sent must be
smaller than what was rejected, or than the window if the rejection names one; a run
starts with the window that is configured or listed, if any); saves an intent before its
calls begin (`Intends`); runs writes alone and reads in waves (`Begins`, `CallReturns`,
`Checkpoints`); renews its segment or asks for a last answer (`Collects`, `Renews`).
`Interrupted` is a cancellation or a crash at any await: calls in flight may have
taken effect or not. `ran` counts effects.

What it promises: `RequestsSound`, that every request is well formed and carries the
prompt once, and the loop gives up on a context only when its floor is too large;
`HistoryTruthful`, that no call takes effect twice, none without its intent on the
record, and no outcome that is told is untrue. `HttpInv` is both with what keeps
them: the record has what the run has, with its prompt once and its calls answered
but for those of the batch at work (`RecordInv`); each call of that batch has a
result in memory or is still to be made, and what the record has of it is true
(`BatchInv`); what was rejected is larger than what is sent next (`SizeInv`).
`OutcomesDurable`, that a call begins only when the outcomes
before it in the batch are saved, but for the reads beside it; `RunsEnd`.

Prompts are numbered and only grow. The code compares the digest of the prompt with the
last one on the record (757), so that a job asked A, then B, then A again has A twice in
its transcript, rightly; the model has no third prompt equal to the first.

## 9. The flexible agent

`FlexibleJob` models `_run_flexible`. A task is its tier and the scopes it stands for;
planners, workers, helpers and the judge answer anything in `Plans`, `Endings` and
`More`, of which `FlexAssumption` says what the parsers let through. `plan` is the plan in memory, `disk` the saved one; both hold the queue with
its cursor, outputs, leases (what a task asks of helpers), obligations of an owner,
what was not run, and the signature of the request with its aliases. A turn
resumes the plan if the request matches (`Matches`), or plans; runs workers, up to
`MaxParallel` readers in a wave; takes their reports in order (`Reports`): an
obligation, a help request, an escalation, follow-ups, a final report; merges,
answers and is judged. `Interrupted` is `/stop`, a shutdown or a crash at any await,
with the save that was under way done or not. `Guided` is a message injected.

What it promises: `ScopesKept`, that a scope somebody named is settled, or listed as
not run, before an answer, and until then is on the disk as something to do. A reply
that ends the job in another way names all but two kinds (`RepliesTell`): the open
obligations of an owner that asks or fails (`Unresolved`), and, if an account failed, the
follow-ups of a task that had escalated to it and was skipped (`Skipped`). The code
drops both with the plan, against its documentation (section 16).
`EvidenceKept`, that what has reported is not run again; `FlexInv`, the limits, and
that the plan at work was made with every message accepted so far.

What the code computes by passing over a list is stated here by positions: `Only` are
the elements of a sequence at some of its positions, `Joined` one task for each run of
neighbours of one tier (`coalesce_followups`), `CameBack` and `NewRows` the obligations
after a report. New obligations of one report stand in any fixed order, since nothing
depends on it. So the module has neither a fold nor a recursion, and can be proved about.

`FlexInv` has a part for each thing that goes wrong alone. `PlanSound` is about a plan,
in memory or saved: its limits (`Limited`), what an output stands for (`OutputsSound`),
the requests it is found under (`Signed`), what keeps an owner's task open
(`OwnerSound`), whose reports wait (`InterimSound`). `InStep` says which parts of the plan
may differ from the saved one, at which stage. `WaveSound` and `HelpersSound` are about the
workers in flight; `ScopesInv` is `ScopesKept` with what it needs: the reads a report may
leave out are settled.

## 10. The Signal client

`SignalClient` models `signal.py`. `pc` is where each caller of `_rpc_request` is:
`start()` or `stop()` ("main"), the reconnect task, a send, another request; `lock`
is the reconnect lock, `sending` the pace of sends. `link` is the connection, `sub`,
`started`, `subscribed` and `ready` the subscription. `jmem` and `jdisk` are the
provenance journal, `own` the timestamps the bot has sent with. The daemon is external:
it answers (`Answers`), refuses, posts what was written although nobody waits for it
any more (`Posts`), notifies (`Notifies`), and ends the stream at any time
(`StreamEnds`).

What it promises: `LinkInv`, that a bot which has started is subscribed or its
reconnect task is at work, and notifications are let in exactly while there is a
subscription on an open connection; `MessagesOnce`, that nothing is posted twice, no text of
the bot is taken for a request whenever its echo comes, also after a restart, and a
person's message is taken once; `HearsAgain`, see section 14. `SignalInv` is the
first two with what keeps them: `StoreInv` is about messages and the journal and holds
always, `WakeInv` about the connection, unless `LateWake`.

`LateWake` says whether the end of the stream may be seen before a coroutine that an
answer has woken runs. asyncio's selector loop does not order them so, and the runs
have it `FALSE` (section 16).

## 11. Sessions and shared memory

`SessionMemory` models one workspace. A file of `files` has a raw history, the parts
of messages its summary covers, long-term facts, a name and the count of compacted
messages. `held` is the writer that has read a file under the workspace lock and
has not yet replaced it; `mlock` the maintenance lock; `pipe` and `waiting` the
pipeline of upkeep after a turn: compaction, then a title; `pass` the colony pass,
which promotes facts of all sessions. `last` is the session the user is in, `wish`
the one he chose. Models answer anything about what they were shown. An oversized
message has two parts, of which a summary may cover the first.

What it promises: `SessionInv`, that every message is in the history or was shown
to the model that wrote the summary, counted once, and that the user's choice is
where his next turn goes, with the parts that keep these: what a writer holds is what
it read and its own change (`WriterInv`), nobody writes a session that has not begun
(`BegunInv`), where a routed turn may go (`RouteInv`), and what a pass has still to
write (`PassInv`). `wish` is given up where the code cannot see the choice (`Unseen`,
section 16). `FactsKept`, that a fact is lost only by the answer of a
model that was shown it, for want of room, or with its session, also when the
process is killed within a pass; `MemorySettles`, see section 14.

## 12. Native conversations

`NativeSessions` models one lane of one session. `gens` are the generations'
records: the id of the provider's conversation and a ledger of what it has been
told. `head` is the generation new jobs take up, `pin` the one each worker's job
keeps. A worker takes the lane (`Enters`), selects and pins a generation (`Selects`,
`Pins`), launches on its conversation with a prompt that leaves out what the ledger
has (`Launches`, `Prompt`), adopts the id the stream names (`Adopts`), acknowledges
the prompt once work has begun (`Acks`), recovers, ends and publishes its generation
(`Promotes`, `Publishes`). When the turn is logged its conversations are owed a note
of it (`AcksLog`). The provider loses conversations, the session may be deleted,
the process killed, at any step. `has` is what each conversation has been told in
truth.

`cache` has the records the turn has loaded, which the disk may be behind of.

What it promises: `LedgerTrue`, that a ledger says only what its conversation has
been told; `DrivenOnce`, that no two workers drive one conversation and no two
generations share one. `NativeInv` is both with what keeps them: pins and head name
records there are, a deleted session has none, and memory and disk disagree only
about a conversation that is lost or not written yet (`LinesInv`); a conversation is
one generation's, on the disk, in memory and at work (`ConversationsApart`); the
lease is with the worker that has a generation (`WorkersInv`); a process that has
accepted has been told what its prompt left out or the ledger has (`RunInv`); a note
that is owed is of a request and an answer its conversation knows (`LogInv`).
`LinesStable`, that a job keeps its generation until it is done, the head
goes forward only, and a conversation that accepts an uncut prompt knows all the
history the turn saw.

One lane is modelled, and a worker enters once in a turn. The version of a context
section only grows (section 16).

## 13. Runs and bounds

Bounds are guards on counters that the code does not have: `MaxFaults`,
`MaxRestarts`, `MaxUnfinished` (how often a turn ends unfinished), `MaxUpdates`,
`MaxStops`, `MaxTime`, `MaxBlocks` (how often a task waits for input), `MaxOwed` (how
often a reply is owed), `MaxWork`, `MaxOthers`, `MaxIntents`, `MaxPrompts`,
`MaxResumes`, `MaxGuidance`, `MaxStarts`, `MaxCopies`, `MaxWrites`, `MaxTurns`,
`MaxEvents`. The other `Max...` constants are limits of the code itself, smaller.
Everything else is finite by itself.

| run | instance | what it shows |
| --- | --- | --- |
| `turn_stop` | two requests, of which one asks the user and the other is scheduled; two `/stop` that may meet an admission, a claim or each other, with no upload or launch to settle; an update gate, a restart, an unfinished turn | `/stop` is final and precise; no lost wake, parity, durable order, with the invariant of the queue at rest; refinement of `JobPromise` |
| `turn_faults` | two requests, the first asks the user, the second is injected; two faults, a slow `/stop`, a chat that is revoked, an unfinished turn, a restart | the inductive invariant; nothing accepted is lost, nothing answered runs again |
| `turn_live` | two requests, one scheduled; a fault, an unfinished turn, a `/stop`, a restart; fair | everything settles |
| `schedule_live` | one schedule due twice in three minutes, capacity one; a `/stop`, a fault, a restart, a deletion, an unfinished job; fair | the inductive invariant; at most once; refinement of `ScheduleOccurrences`; missed times are caught up, entries end |
| `detached_live` | one launch, by `/bg`, by an agent or found; a `/stop`, a fault, a shutdown or crash, a task that waits once, an owed reply; fair | the inductive invariant; tasks and promises are accounted for but for the exceptions of section 5; `/stop` is complete and silent; refinement of `TaskNotices`; results and waits are reported, `/stop` ends |
| `update_handoff` | two platforms, one of them starting; a request, an upload or launch, a fault, a signal, HEAD moved by pull or operator; fair | updates are quiet, an aborted one reopens, shutdown ends |
| `agent_turn` | two messages, one judge round, two recoveries, a `/stop`; fair | injected messages are answered unless a recovery overtook them, one log entry, every turn ends |
| `http_loop` | two prompts, three runs, two batches, a provider that takes five messages or a hundred, a retry, a hang and a shrink; fair | no call twice, true history, durable outcomes, runs end |
| `flexible_job` | an owner with a specialist and a plan of three tasks on two tiers, four workers, three turns, a message, a judge round | every scope settled, listed, or given up where section 9 says; no result run again, guidance kept |
| `signal_client` | one text, one person's message, one repeatable request, two notifications, two faults, two starts; fair | sent once, no echo taken, it hears again |
| `session_memory` | a session of the user and one of a job, one fact, lists of one, two writes, a command or crash; fair | no message or fact lost, the choice of a session kept, locks given back |
| `native_sessions` | two workers of one job, one of another, two turns, one event out of notes, edits, recoveries, crashes, losses, deletion | true ledgers, one driver, the lane goes forward |

Why these are enough: two requests are needed for an order, and with one that asks
and one that is scheduled also for an await pause that one may overtake; a second
`/stop` may find the first one at work, and waits for the admission lock; one restart
reaches every state in which a crash can happen, and a second fault reaches the failure of a failure's own
handling. A schedule that is due twice has a time to miss. Capacity one fills the
queue with one entry. Two platforms are needed for a gate that is closed while the
next one is not, and one that starts for a startup that falls into a handoff. A
second message is one that comes while a worker is torn down for the first. Three
reads in waves of two leave one for the next wave, a write before a read must be
durable first, and three runs are an interruption, a resumption and the
resumption after it. Three tasks are a wave of readers and a writer behind it,
and three turns an allowance that ends, a resumption, and a judge that wants more.
Two starts are a journal that is read back. Two writes are a history that grows
during a compaction. Three workers on two jobs are siblings, and a job that takes up
the head another has left.

Larger instances were run by hand: three requests of three kinds against
everything in `turn_faults` with one fault (3.4 million states), two ticks at one document, two
launches with `AnyOrder` as symmetry. The definitions in the MC modules that no
configuration here uses are for those and for section 16. The inductive invariants
of these modules hold for every size (section 15); `RestInv` was also checked with three
requests, the first asking and the second scheduled, with two `/stop` (1.7 million
states) or one and a restart, and `HeldBehindPaused` with three of which none is
scheduled.

Deadlock is not checked in these runs: when all requests, entries and tasks have
settled and the bounds are used up the bot waits for messages, and the model
stops.

Each property of a run is listed with a mutant: an operator beside the one it
replaces, marked "Mutant", that changes it in the way a plausible slip in the code
would, and makes the run fail.

## 14. Fairness

* The event loop runs every task that can run, so each step of the consumer, of
  an admission that has begun, of a delivery, of `/stop` and of a tick is weakly
  fair. Failures, restarts, messages, `/stop` and the clock are not fair.
* The reply poll and the retry poll are loops with a sleep (`_detached_task_loop`,
  3745-3783); their attempts are weakly fair. That a delivery eventually succeeds
  follows from the bound on faults, not from fairness.
* The scheduler's loop catches every exception of a tick and goes on (4210-4220),
  so a tick is weakly fair as one process. With two ticks a claim could be
  overtaken for ever at the workspace lock unless its fairness were strong. The
  lock is FIFO, which would justify it, but a running bot has one tick, and
  `schedule_live` has one.
* The steps of a launch and of `/stop`, and the pass of the poll, are weakly fair, and
  so is the provider's answer to a launch: its command has a time limit. That a
  shutdown is followed by the end of the process is weakly fair too. What a task
  does, failures and crashes are not.
* In `UpdateHandoff` the tasks of a platform, its startup, the worker thread, the
  update task and `main()` are weakly fair while the process is up. Turns end,
  because they have a budget. Messages, signals and what moves HEAD are not fair.
* In `AgentTurn` the turn, its worker, teardown, the landing of a cancellation and the
  writes are weakly fair. That a worker ends by itself is assumed: a hang may be
  confirmed and the worker stopped, but `supervision.py` never takes elapsed time for
  a deadline, so nothing in the code bounds a worker that is not found to hang.
* In `HttpLoop` a generation is answered, fails or is found to hang, as its timeouts
  and its supervision provide, and a tool call returns.
* In `SignalClient` the loop's steps are weakly fair and the daemon answers what it
  was asked and posts what was written. Losses, timeouts and refusals are bounded
  faults.
* In `SessionMemory` a thread that writes finishes, a waiter at an asyncio lock (FIFO)
  gets it, and a model answers or fails.

`EventuallySettles` says that an accepted request is delivered, stopped or
dropped, unless the owner has been asked for guidance or a fault occurred: a
fault that ends the consumer while the owner's guidance arrives can leave a job
only on disk, where it waits for the next message or restart.
`KeepsLivePromise` says that a staged reply leaves the ledger whatever fails.
`EveryDueTimeServed` says that a time that has come is served, or a later one is,
unless the schedule is gone or its document cannot be read; `EveryEntryEnds` that
what was admitted ends. `ResultIsSent` says that the result of a recorded task that
has ended is sent or withdrawn, `WaitIsReported` that a wait is reported unless it is
over, `StopsEnd` that `/stop` gets through its waits for launches, the delivery and
the locks. `QueuedWorkStarts` says that a request which waits on a platform is
started or the process ends, so that a handoff that comes to nothing does not
leave it waiting; `HandoffsEnd` that a shutdown ends the process wherever the
update is, and a moved checkout leads to a restart. `TurnsEnd` says that every turn
ends and every `/stop` is obeyed, `RunsEnd` that every run of the HTTP loop ends,
`HearsAgain` that a bot that is up is subscribed again after a loss, `MemorySettles`
that upkeep and passes come to rest with their locks given back, whether or not
models answer.

`FlexibleJob` and `NativeSessions` state no liveness. That a turn of a job cannot go on
for ever between two messages of the user is proved without fairness (`JobsRunOut`,
section 15); when it ends is up to models.

## 15. Proofs

What TLC shows for small instances of ten modules is proved for every number of
requests, chats, stops, faults, restarts, schedules, due times, ticks, launches,
platforms, messages, batches, calls, windows, jobs, workers, sessions, facts and tasks. The
assumptions are those named in the modules: bounds are natural numbers, the schedules,
sessions and facts are finite sets (documents list finitely many), a batch has a call,
the sessions of users and of jobs are apart, and so are roles and sentinel values; a
plan has a task, an owner's plan one, and a task stands for finitely many scopes.

The lemmas about the list edits of `QueueOps` (removing, putting first, promoting,
enqueuing, taking the head and ordering a set give queues without repetitions, with
the members one expects) stand at the head of `TurnQueueProofs` and
`ScheduleProofs`, each with those it uses.

**`TurnQueueProofs`**: `QueueInv` is inductive. The properties are not by
themselves: that no accepted request is lost needs to know that an admission
between its commit and its publication holds the lock; that a turn about to
answer owns its entry on disk unless `/stop` has killed it; that a record in the
ledger has its prompt on disk until the input step; that a delivery holds the
owner's lock; that a pause has its job. `QueueInv` is the conjunction of these
parts. The proof first shows which steps write each variable, then how each part
of the state moves, then one lemma for each conjunct. What follows holds under
hypotheses about the constants or the history, because without them section 16 has
a counterexample to each:

* `~SlowStop`: there is no upload or launch for `/stop` to settle; for the admission
  lock it waits. `PromptStopInv` adds that a turn at the agent that is not cancelled
  owns its entry on disk and that no `/stop` stands between its signals and its clear
  then, that every staged reply is open, and that what a `/stop` is about to discard
  captured an earlier generation (`OnlyEarlierWork`). The last is where the order of the
  admission lock is needed: without it a request could be admitted between the signals
  and the clear. The refinement of `JobPromise` and `StopDiscipline` (`StopIsPrecise`)
  follow.
* `Undisturbed`: besides, no operation fails, no chat is withdrawn, and no answer to a
  question comes through `/inject` (either nobody is asked, or nothing is injected).
  `WakeInv` adds that nothing waits in memory from the drain of a `/stop` until it is
  done, and that a turn which is not cancelled meanwhile has yet to find its entry gone
  (`StopLeavesNothing`), that an entry of the file is in memory, about to be published, or the turn's (`FileIsKnown`), and
  that somebody will look at what waits (`NoLostWake`): the consumer at its loop, a
  turn that is not cancelled or was woken since, an admission that has yet to wake
  it, or a retry that holds its claim. `NoWorkStranded` is what is left of that when
  everything has settled.
* `Untangled`: so far no reply has asked the user or no scheduled job was accepted; a
  condition on the history, not on the constants. `OrderInv` says that the file is the
  turn's entry, what waits in memory, and what is being admitted, in this order
  (`SameOrder`); that whatever has begun is at the head of the file (`BegunIsFirst`); and
  that the owner is held exactly while the checkpoint of the head says so
  (`HoldMirrorsFile`). Each needs the others: a paused turn goes back to the front of
  both copies, which keeps one order only if it was at the head; that follows from
  what has begun being first; and a second job begins only when nothing is held.

`RestInv` is `WakeInv`, and `OrderInv` while the history is untangled; `RestInvariant`
proves it and `QueueRests` gets `QueueAtRest` from it. `DurableHeadFirst` is the action
property `StartsDurableHead`, and `NothingOvertakesHeld` that no turn starts while
another job waits for guidance or its retry time (`HeldBehindPaused`), for owners
without schedules or whom nobody asks anything: when a scheduled job has overtaken a
question, the answer is promoted ahead of that job's entry while it runs, and file and
memory no longer agree in order.

**`ScheduleProofs`**: `ScheduleInv` is inductive. `NeverTwice` says that an
occurrence outside the store was never admitted. It follows if every admitted
occurrence is covered by a watermark (`AdmittedMarked`), since a consumed
occurrence is refused, and that only helps if watermarks never fall, also under
`/stop`. `NeverRestarted` needs that what waits in memory is in the store
(`WaitingInv`) and that the store and what is over are apart (`StoredInv`); a tick
between commit and publication is why `CommittedInv` is needed, and it is kept
by the lock of the queue file. `StampFollowsReceipt` needs that the receipts a
tick has read are still covered when it projects them. `DeletedStaysQuiet` needs
that a tick past its second look holds a schedule that is not deleted, which the
workspace lock gives. `OncePerOccurrenceHolds` joins the three.

**`DetachedProofs`**: `DetachedInv` is inductive. That the exceptions of `Accounted` need
an interruption is `CancelInv`: a launch at work with an older generation was met by a
`/stop`, and one that is cancelled under its own generation by a shutdown. `Accounted`
needs to know, for each
place a launch can be in, what it has recorded (`RecordInv`), and that a record goes
only when its task has ended or the removal is charged to a `/stop` or a shutdown;
the former rests on what the provider says of a task that is staged, swept or
cleaned up (`ProviderInv`). `StopForgetsAll` needs that while `/stop` sweeps no
registration is inside the admission lock, and that one that comes later is
refused for its generation (`StopInv`). `StopSilences` needs that a delivery which
`/stop` meets has a cancellation to obey before it sends. `SentOnce` needs that what a
delivery is about to send has been sent no more often than its removal failed
(`DeliveryInv`). The refinement follows, since a record is made once.

**`UpdateProofs`**: `HandoffInv` is inductive. `HandoffIsQuiet` cannot come from the
quiet moment, which is stale when the last gate closes; it needs that every platform
up to `prep` is gated from the first gate on, whatever starts meanwhile (`GateInv`),
so that nothing begins between the second look and the end. `IntakeOpen` needs that a
scheduler is off only behind a closed gate, before its services, or in a stop
(`ServiceInv`). `NoTurnOnPulledCode` needs that the thread which pulls ends inside its
step of the update, cancelled or not, and that a pull which changed anything is
never answered by opening the gates (`PullInv`).

**`AgentProofs`**: `TurnInv` is inductive. `InjectionsAnswered` is not, and `InjectionsHeard` states it with its exceptions, the
overtaken messages included: a message may be
taken by a watcher between the end of the worker and the answer, so it needs that
whoever has a message the attempt does not know of is about to end that attempt
(`InjectInv`), and that a call that runs has a recovery left, so that it can be
started again (`CallInv`). `LoggedOnceHolds` follows from where the log's and the note's
tasks are (`LogInv`). `SessionSettles` is what the next turn relies on: once it has
read the session nothing of this turn is written to it any more. `TurnsRunOut` is
about its end, see below.

The second part is about `SessionMemory`: `SessionInv` is inductive. It begins with
what each edit of a record leaves covered (an append, the trim after a summary, the
shortened first message); every step is then shown to be one of seven moves (`Moves`)
of the files, the writer and the pass, and each part of the invariant is kept by each
move. That nothing is lost under a writer (`HistoryKept`) needs that the file it
replaces is still the one it read, which the lock gives for sessions that exist, and
that a session that was removed meanwhile is not begun again (`BegunInv`): a job's id
is never reused. That the choice stays needs that the last session, if it is a chat, is
still there, so that a routed turn began without one (`RouteInv`). `FactsCorrect` is the
action property: what a pass takes from a list is on the colony, in a list that is
written already or yet to be written, or dropped (`Elsewhere`), after every write of the
pass, and so after a kill between any two.

The third part is about `FlexibleJob`: `FlexInv` is inductive. It begins with
what the closed forms keep: the elements at some positions of a sequence are those
elements, joined tasks stand for every scope of the tasks they were made of, and the
obligations after a report have each scope it names open. `ScopesAlwaysKept` then
follows each report: a scope it names is queued, listed as not run, an obligation,
waiting with the task, or read and settled already, and the cursor passes a task only
with what it found. For an owner this needs that what waits for its task is among the
open obligations, and that its task is over only with them resolved, or with a question
or an error (`OwnerSound`); and that an account which failed is remembered
(`fatal`), because then the reply is an error, which names what is queued and passed over
but not what a skipped task had reported before (`RepliesTell`). That the plan
at work knows every message needs that each signature and alias stands for the messages
the plan was made with (`Signed`): a message that comes between the save and the next
turn gives a request no alias has. `JobsRunOut` is below. `EvidenceHolds` is the action property
`EvidenceKept`; it needs that a wave starts with the disk equal to the plan, and the cursor
at its first task (`InStep`, `WaveSound`).

**`SignalProofs`**: `StoreInv` is inductive whether or not `LateWake`, and so is
`SignalInv`. That a send is posted once (`NothingTwice`) needs that a send which may
still be written is neither with the daemon nor posted; that no echo is taken for a
request, that what may be posted is in the journal on the disk, and that a process
which hears has read it. `LinkKept` needs that a caller that waits has a connection,
and that a subscription the daemon has answered is its last one (`WakeInv`): with
`LateWake` that is false, and section 16 has the counterexample.

**`HttpProofs`**: `HttpInv` is inductive. The proof is about the shape of transcripts:
what an append, a result, a restored batch and a projected context leave of "every
call has its result, in its order". That no call takes effect twice
(`TruthfulHistory`) needs that a call without a result in memory has not begun, or is
in the wave, or is skipped (`BatchInv`); and that what the record has of an
interrupted batch is true, because the next run tells it. `RequestsHold` needs that
the open batch is the last thing on the record (`RecordInv`), and that a context
shrinks below what was rejected (`SizeInv`). That the segment renewal is reached only
with segments left is part of `SizeInv` too. `DurableFirst` is the action property
`OutcomesDurable`: a wave begins with what is on the disk equal to what is in
memory.

**`NativeProofs`**: `NativeInv` is inductive. `LedgersTrue` cannot come from the record
alone: an acknowledgement writes what the process was shown, so that the process must
have been told it (`RunInv`), in the conversation the record names, which another
generation must not share (`ConversationsApart`); and a note written after the turn
is true only if the conversation that was given the request is still the record's and
its ledger's, which `Delivered` asks (`LogInv`). `DrivenByOne` follows from the lease.
`LinesHold` is the action property `LinesStable`: the head goes forward since a worker
expects a generation no newer than its own; and a prompt that leaves out what the ledger
has leaves out nothing the conversation does not know, since the ledger is true when
it accepts.

**That things end.** Three theorems prove the half of termination that is safety: a
tuple of natural numbers falls, compared from the left, and `LexProductOrdering` of
`<` on such tuples is well founded (`FallingEnds`), so that it cannot fall for ever. That
a next step is possible and is taken is the other half, fairness, and stays with TLC.

* `RunsRunOut` (`HttpProofs`): every step within a run of the HTTP loop lowers segments,
  rounds of the segment, whether a round is still to be asked for or is due, then what is
  left of the request (recoveries of a hang and context reductions together, since either
  resets the retries) or the calls of the batch not looked at, then the retries or the
  calls in flight, then the step itself. That a wave gets the batch further needs
  that it begins after the position the last one ended at.
* `TurnsRunOut` (`AgentProofs`): for finitely many messages, every step of a turn lowers
  the messages that wait, the judge's rounds, the fresh launch, the recoveries, how far
  the call is, its process, or the writes. Going back to the prompt resets the rounds;
  what pays for it is the message that caused it, or the rounds count as more while the
  outcome of the call is to start over, which needs that a killed worker was killed for
  a message (`CallInv`). Excepted are the user's own steps, `Inject` and `Stop`, and the
  watch over a worker (its output, a diagnosis that spares it), which leaves the tuple as
  it is: a worker that goes on working is not stopped by anything in the code.
* `JobsRunOut` (`AgentProofs`): every step within a turn of a flexible job that takes no
  message lowers the judge's rounds, the stage, the tasks after the cursor, the workers of
  the allowance, how far the task is, and what is asked or in flight for it. The limits
  are those of `flexible.py` and of the turn's budget; what planners, workers, helpers and the judge answer does
  not matter. Helpers are paid for by the workers they count as (`HelpFalls`).

## 16. Where the code and its documentation part

Every configuration here passes. What was met on the way and is excluded by
constants, or kept apart by a variable, is listed here.

In `TurnQueue`, with other values of the constants in its configurations:

* With `SlowStop = TRUE` `StoppedIsFinal` is violated (so `StopDiscipline` holds, and is
  proved, only where nothing has to settle): `/stop` cancels the turn it
  finds and then waits for detached launches to settle (`base.py` 1565). A turn that
  the consumer starts during that wait is not cancelled; its request is cleared, its
  reply is delivered.
* With `SlowStop = TRUE` `StopSparesLaterWork` is violated: the admission lock is taken
  after that wait (1570), so a request that arrives during it is admitted and then
  discarded. The source's `README.md` 2259-2261 says that work that comes in meanwhile
  is not removed.
* With three requests (`JobsABC`), the first asking and the second scheduled,
  and one restart, `HeldBehindPaused` is violated: an answer that was admitted when a
  scheduled job had paused is promoted ahead of the paused entry; `restore_queues`
  looks for the hold at the first entry only, so after a restart the answer starts
  although a job waits.
* With the same three requests, no restart and nothing that fails, `HoldHasItsJob` is
  violated: the scheduled job runs while the user is asked, and pauses or waits for its
  retry time; the answer is then promoted ahead of it (`_resume_awaiting_answer`,
  1433-1478). The retry poll and guidance look at the head of the file, which is the
  answer, so the owner stays paused until `/stop` or a restart. This is why the proofs
  of section 15 need `Untangled`.
* With `Injects` and `Asks` both non-empty `NoStranding` is violated: `/inject`
  reads that the owner is waiting for an answer before it waits for the admission
  lock (about 2700) and afterwards does not wake the consumer.
* With `Revocable` and two rooms, a restart and no other failure, `NoStranding` is
  violated: a staged reply whose chat was revoked is dropped by the poll, which
  does not start the requests that waited behind it.
* With two faults `HoldHasItsJob` is violated: if the write that records a failed
  turn fails as well, the owner is held by a job whose checkpoint does not say so.

In the other modules:

* `ScheduleAdmission`: `blind`, see section 4.
* `DetachedTasks`: a shutdown that comes while the acknowledgement of `/bg` is being
  sent cancels the launch: the task is stopped and its record removed, though the
  user may have read that its result will follow. The source's `README.md`
  1091-1092 promises the message "even across a bot restart". The record is in
  `shed`, which `PromisesHold` allows for a `/bg` in `cutOff` alone.
* `DetachedTasks`: a task that the foreground run started by itself is only registered
  (4057-4066). A `/stop` before or during that makes `_register_detached_task` return
  False (3644-3647, 3703-3709), which its caller ignores, and a cancellation leaves it:
  the task is not stopped, has no record, and neither a message nor the log tells of it.
  The other launches stop their task in this situation (4133-4135), and
  `README.md` 1091-1096 of the source says that completions of tasks handed off by a
  foreground agent are posted. `RunsKnown` allows it for a "found" task that was
  `interrupted` or `cutOff`.
* `UpdateHandoff`: `cancel_update_restart` returns early on a platform without durable
  services, which the CLI is (`base.py` 1045), so a request the CLI accepted during an
  aborted handoff waits there until something else wakes the consumer (docstring 1043,
  source `README.md` 2637-2638). With `Daemons = {1}` `QueuedWorkStarts` is violated;
  in `update_handoff` every platform is one. A SIGTERM that comes while the update stops the
  platforms is lost to `os.execv`: the bot restarts instead of ending.
* `AgentTurn`: a message that a watcher has taken is forgotten when a recovery of a
  hang replaces the worker: the recovery looks at the queue only (`agent.py` about
  1866). The docstring at 1369-1377 and the source's `README.md` 1079-1085 ("cannot be
  silently lost") make no such exception. `overtaken` keeps it apart: `TurnInv` shows that
  a message is lost in no other case, and `InjectionsHeard` says no more. A `/stop`
  that lands while the diagnosis or the judge is being torn down is swallowed there
  (`supervision.py` 391-394); the turn goes on to its next await. A missing session or
  backend drops messages that were acknowledged.
* `HttpLoop`: a run that is resumed with the prompt it has already answered sends a
  history that ends with an answer.
* `FlexibleJob`: a plan that is held stays held for the same request, until guidance
  or settings change its signature. A crash between the removal of a finished plan
  and the judge's verdict plans the request anew. A worker that names follow-ups
  while it escalates to a tier whose account is exhausted is skipped (`agent.py`
  3329-3346), and the plan is removed: the reply (3677-3697) lists the task, but not what
  it had named. Likewise an owner that ends with a question or an error leaves its open
  obligations out of the reply. The source's `README.md` 1582-1589 ("interim follow-ups survive
  interruptions", "newly discovered obligations remain with the same completion owner,
  including after an escalation"), 1611-1613 and 1696 say that they stay explicit. `RepliesTell` allows these two kinds and
  no other.
* `SignalClient`: with `LateWake = TRUE` `LinkInv` is violated: `_connect_jsonrpc` marks
  a transport that has already ended as subscribed, and nobody renews it; only the start path
  looks again (docstring 715-727). With `Files` non-empty an attachment without text
  has no provenance before its acknowledgement, so its echo after a lost answer is
  dispatched (source `README.md` 764-769); `MessagesOnce` is about texts. A request that
  times out closes the connection that the others share, and their sends fail.
* `SessionMemory`: `/stop` removes the session of a paused scheduled job without the
  workspace lock (`base.py` 3126-3145; source `README.md` 2254), so a writer that has
  read it writes it back. If that session was the user's last one, a turn is being
  routed because it was gone, and the user then picks it from the list, the choice is
  overwritten when the router answers, although the comment at `agent.py` 3844 says that
  an explicit choice at that time wins: the code compares the id of the last session
  only, and that is what it was before. It takes four events; `Unseen` keeps it apart.
  Sessions of scheduled jobs that are retained are offered by
  the router and by `/sessions`. A pass in a workspace without sessions clears the
  colony. A pass writes the colony before the sessions, so that a kill in between
  leaves a fact twice; were a shared fact demoted, it would be lost there instead.
* `NativeSessions`: a context section that is edited, sent but not acknowledged, and
  edited back leaves a ledger that agrees with the new text while the conversation
  heard the other one last. Nothing here claims otherwise: versions only grow.

## 17. What is only model-checked, and what is not modelled

Liveness is model-checked only: TLAPS in this version does not handle fairness
and ENABLED. Of `RunsEnd` and `TurnEnds` the part that needs neither is proved, that
steps bring the end nearer (`RunsRunOut`, `TurnsRunOut`); what TLC adds is that there
always is such a step until the end and, under section 14, that it is taken. For
`TurnEnds` it also adds that the user's steps and the watch do not prevent it: the former
are bounded (`MaxStops`, each message once), the latter assumes that a worker ends.
Every safety property of the runs is proved, four of them under the
hypotheses that section 15 gives, since section 16 has what happens without:
`KeepsPromise` and `StopDiscipline` when `/stop` has only the admission lock to wait
for; `QueueAtRest` and `StartsDurableHead` for an undisturbed bot whose scheduled jobs overtake no
question. That the latter two also hold when one scheduled job does overtake one is
shown by `turn_stop` for its two requests only.

Left out of what is modelled:

* `TurnQueue`: attachments of a turn, the temporary session of a scheduled turn,
  more than one owner in the ledger, a ledger that reads as empty; a `/stop` that
  signals while the write of guidance or of a retry's claim is out (it comes after).
* `ScheduleAdmission`: several workspaces with schedules (they have separate locks and
  documents), and a schedule that another platform owns; the calendar.
* `DetachedTasks`: a chat whose authorization is revoked, a second registration of
  one task, a second `/stop` while the first one is at work, the session a result is
  logged to, the hook that denies background shells.
* `UpdateHandoff`: the Windows job object, the bootstrap of the virtual environment.
* `AgentTurn`: what prompts say, artifacts and usage, attachments, detached launches.
* `HttpLoop`: repairs of the arguments of stored calls, a record whose model or
  approval changed (it starts a new history), the catalogue of models, images. Its
  `MaxRounds` of one leaves one disjunct of `Collects`, the next round of a segment, to
  larger instances.
* `FlexibleJob`: prompts, usage, a damaged record; follow-ups of an output that is not
  complete are not recorded, as in the code.
* `SignalClient`: rich text, the files of attachments, the discovery of groups.
* `SessionMemory`: formatting, the tools that read memory, several workspaces, the
  colony's cap of a hundred items by age, upkeep that a killed process had not begun.
  With two writes the branch of `TurnSettles` for a job under `LogMissed` is not
  reached.
* `NativeSessions`: several lanes, a compaction between the log of a turn and its
  acknowledgement, damaged records, jobs from before there were conversations.

The order of keys, the JSON and the SQL are represented by what they store, and the
texts and languages of messages are nowhere.

Not modelled at all:

* **Attachment uploads**: a chain for each chat and a wait of five seconds. Their
  effect on the queue, that `/stop` may have to wait, is `SlowStop`; on an update,
  `other`. The chain itself is next in the plan.
* **Turn status messages**: best-effort edits of one chat message, nothing durable.
* **Tool plugins**: external commands and stateless computations.
* **The other transports**: Telegram's and Slack's connection is their library's.
* **Hazards without a property**: a ledger or a schedule document that reads as empty
  (`utils.py` 657, `schedules.py` 48), of which `blind` is the part that is modelled; the
  calendar of `most_recent_slot` (`schedules.py` 302); and the shutdown that stops an
  acknowledged task (`base.py` 923), which the code does on purpose.

## 18. Plan

What would add most, in this order; each with its invariant proved where it is
safety over sets, functions and sequences without recursion.

1. For `TurnQueue` what is left of the order of the two copies once a scheduled job
   has overtaken a question, and of `OrderInv` after a failure that was recorded.
2. `Uploads`: the chain, the batch that waits for text, and `/stop`.
3. The shared map of the reply ledger with several owners and an unreadable file.
4. `most_recent_slot`, the split of a compaction and the projection of a context as
   functions, checked against reference definitions over bounded inputs.
5. `DurableFile`: `run_durable_file_operation` with its cancellations, which the queue's
   and the scheduler's models take as one step.
