---------------------------- MODULE UpdateHandoff ----------------------------
(***************************************************************************)
(* The update task, the parent task that starts and stops the platforms     *)
(* (__main__.py, updater.py), and what of every platform takes part in an   *)
(* update: its gate, scheduler, queue consumer and durable services         *)
(* (backends_bot/base.py).  The checkout is moved by the updater's own pull *)
(* or by an operator.                                                       *)
(*                                                                          *)
(* A step ends at an await.  cancel() of the update task is delivered when  *)
(* the await returns, and await_cancelled, which begin_update_restart uses, *)
(* swallows it.                                                             *)
(***************************************************************************)
EXTENDS Integers

CONSTANTS
  N,          \* number of platforms; bots are visited in the order 1..N
  Daemons,    \* those that start durable services: all but the CLI
  Started,    \* those that run already when the history begins
  MaxWork,    \* bound: requests accepted by all platforms together
  MaxOthers,  \* bound: uploads, reply retries and /bg launches
  MaxFaults   \* bound: unreadable HEADs, failed startups

Platforms == 1..N

ASSUME HandoffAssumption ==
  /\ N \in Nat \ {0} /\ Daemons \subseteq Platforms /\ Started \subseteq Platforms
  /\ MaxWork \in Nat /\ MaxOthers \in Nat /\ MaxFaults \in Nat

VARIABLES
  moved,      \* HEAD is not the commit this process started with
  origin,     \* the fetched upstream is "level" or "ahead"
  pulled,     \* history: it was the updater's pull that moved it
  upd,        \* where the update task is
  prep,       \* how many platforms are in `prepared`
  why,        \* why _restart_after_update releases the gates
  cancel,     \* of the update task: "pending", or "swallowed" by an await
  worker,     \* the thread that owns pull or install
  result,     \* what the worker returned
  changed,    \* checkout_changed
  main,       \* where main() is
  crash,      \* main() is unwinding because a startup failed
  proc,       \* what became of the process
  start,      \* the startup of each platform
  gate,       \* _update_restart_pending
  daemon,     \* _daemon_services_started
  stopping,   \* _stopping
  halt,       \* the stop() of each platform
  sched,      \* its scheduler task
  queue,      \* accepted requests that wait, durable
  consumer,   \* its queue consumer: "ready" to look at the queue, or in a "turn"
  other,      \* "ungated" work (uploads, reply retries, /stop) or a "launch"
  works, others, faults   \* how often the bounded events happened

checkout == <<moved, origin, pulled>>
updater  == <<upd, prep, why, changed>>
thread   == <<worker, result>>
parent   == <<main, crash, proc>>
intake   == <<gate, sched, queue, consumer, other>>
services == <<start, daemon, stopping, halt>>
bounds   == <<works, others, faults>>
vars == <<checkout, updater, cancel, thread, parent, intake, services, bounds>>

\* The updater has seen every platform idle behind a closed gate.
Confirmed == {"pull", "install", "joinstarts", "notify", "stop"}

TypeOK ==
  /\ moved \in BOOLEAN /\ origin \in {"level", "ahead"} /\ pulled \in BOOLEAN
  /\ upd \in Confirmed \cup {"sleep", "check", "idle", "close", "closing", "release",
                             "released", "gone"}
  /\ prep \in 0..N /\ why \in {"busy", "current", "failed", "cancelled"}
  /\ cancel \in {"none", "pending", "swallowed"} /\ changed \in BOOLEAN
  /\ worker \in {"none", "fetch", "merged", "pip", "done"}
  /\ result \in {"restart", "current", "raised"}
  /\ main \in {"serve", "joining", "cancelling", "stopping"} /\ crash \in BOOLEAN
  /\ proc \in {"up", "exec", "exit"}
  /\ start \in [Platforms -> {"waiting", "trying", "restoring", "up", "ended", "failed"}]
  /\ gate \in [Platforms -> BOOLEAN] /\ daemon \in [Platforms -> BOOLEAN]
  /\ stopping \in [Platforms -> BOOLEAN]
  /\ halt \in [Platforms -> {"no", "halting", "halted"}]
  /\ sched \in [Platforms -> {"off", "on", "ending"}]
  /\ queue \in [Platforms -> Nat] /\ consumer \in [Platforms -> {"none", "ready", "turn"}]
  /\ other \in [Platforms -> {"none", "ungated", "launch"}]
  /\ works \in Nat /\ others \in Nat /\ faults \in Nat

Init ==
  /\ moved = FALSE /\ origin = "level" /\ pulled = FALSE
  /\ upd = "sleep" /\ prep = 0 /\ why = "busy" /\ changed = FALSE
  /\ cancel = "none" /\ worker = "none" /\ result = "current"
  /\ main = "serve" /\ crash = FALSE /\ proc = "up"
  /\ start = [p \in Platforms |-> IF p \in Started THEN "up" ELSE "waiting"]
  /\ gate = [p \in Platforms |-> FALSE]
  /\ daemon = [p \in Platforms |-> p \in Started \cap Daemons]
  /\ sched = [p \in Platforms |-> IF p \in Started \cap Daemons THEN "on" ELSE "off"]
  /\ stopping = [p \in Platforms |-> FALSE] /\ halt = [p \in Platforms |-> "no"]
  /\ queue = [p \in Platforms |-> IF p \in Started THEN 0 ELSE 1]   \* left by the last process
  /\ consumer = [p \in Platforms |-> "none"] /\ other = [p \in Platforms |-> "none"]
  /\ works = 0 /\ others = 0 /\ faults = 0

Faulty == faults < MaxFaults /\ faults' = faults + 1

----------------------------------------------------------------------------
(* A platform *)

HasActiveTurns(p) == consumer[p] = "turn" \/ other[p] # "none"

\* _start_queue_drain.  A wake during a turn is served when the consumer goes
\* round its loop again.
Woken(p, w) == IF stopping[p] \/ consumer[p] # "none" \/ p \notin w THEN consumer[p] ELSE "ready"

Accept(p) ==
  /\ start[p] = "up" /\ halt[p] = "no" /\ works < MaxWork
  /\ queue' = [queue EXCEPT ![p] = @ + 1] /\ works' = works + 1
  /\ consumer' = [q \in Platforms |-> Woken(q, {p})]
  /\ UNCHANGED <<checkout, updater, cancel, thread, parent, gate, sched, other, services,
                 others, faults>>

\* _scheduler_tick admits a due occurrence.
SchedulerAdmits(p) ==
  /\ sched[p] = "on" /\ works < MaxWork
  /\ queue' = [queue EXCEPT ![p] = @ + 1] /\ works' = works + 1
  /\ consumer' = [q \in Platforms |-> Woken(q, {p})]
  /\ UNCHANGED <<checkout, updater, cancel, thread, parent, gate, sched, other, services,
                 others, faults>>

SchedulerEnds(p) ==
  /\ sched[p] = "ending" /\ sched' = [sched EXCEPT ![p] = "off"]
  /\ UNCHANGED <<checkout, updater, cancel, thread, parent, gate, queue, consumer, other,
                 services, bounds>>

MayStart(p) == ~stopping[p] /\ queue[p] > 0 /\ ~gate[p]

ConsumerLooks(p) ==
  /\ consumer[p] = "ready"
  /\ IF MayStart(p)
     THEN consumer' = [consumer EXCEPT ![p] = "turn"] /\ queue' = [queue EXCEPT ![p] = @ - 1]
     ELSE consumer' = [consumer EXCEPT ![p] = "none"] /\ UNCHANGED queue
  /\ UNCHANGED <<checkout, updater, cancel, thread, parent, gate, sched, other, services, bounds>>

\* A job that is unfinished goes on in the same turn unless a gate closed
\* meanwhile: then its entry is retained and the consumer leaves the loop.
TurnEnds(p) ==
  /\ consumer[p] = "turn"
  /\ \/ consumer' = [consumer EXCEPT ![p] = "ready"] /\ UNCHANGED queue
     \/ /\ gate[p] /\ consumer' = [consumer EXCEPT ![p] = "none"]
        /\ queue' = [queue EXCEPT ![p] = @ + 1]
  /\ UNCHANGED <<checkout, updater, cancel, thread, parent, gate, sched, other, services, bounds>>

\* Uploads, retries of a staged reply and /stop do not look at the gate;
\* cmd_background does.
OtherBegins(p) ==
  /\ start[p] = "up" /\ halt[p] = "no" /\ other[p] = "none" /\ others < MaxOthers
  /\ \/ other' = [other EXCEPT ![p] = "ungated"]
     \/ ~gate[p] /\ other' = [other EXCEPT ![p] = "launch"]
  /\ others' = others + 1
  /\ UNCHANGED <<checkout, updater, cancel, thread, parent, gate, sched, queue, consumer,
                 services, works, faults>>

OtherEnds(p) ==
  /\ other[p] # "none" /\ other' = [other EXCEPT ![p] = "none"]
  /\ UNCHANGED <<checkout, updater, cancel, thread, parent, gate, sched, queue, consumer,
                 services, bounds>>

----------------------------------------------------------------------------
(* Startup and stop of a platform *)

Settled(p) == start[p] \in {"up", "ended", "failed"}

StartBegins(p) ==
  /\ start[p] = "waiting" /\ main = "serve" /\ upd # "joinstarts"
  /\ start' = [start EXCEPT ![p] = "trying"]
  /\ UNCHANGED <<checkout, updater, cancel, thread, parent, intake, daemon, stopping, halt, bounds>>

\* The adapter cleaned up; _start_platform waits and tries again.
StartNotReady(p) ==
  /\ start[p] = "trying" /\ Faulty
  /\ start' = [start EXCEPT ![p] = "waiting"]
  /\ stopping' = [stopping EXCEPT ![p] = TRUE]
  /\ UNCHANGED <<checkout, updater, cancel, thread, parent, intake, daemon, halt, works, others>>

StartRestores(p) ==
  /\ start[p] = "trying"
  /\ start' = [start EXCEPT ![p] = "restoring"]
  /\ stopping' = [stopping EXCEPT ![p] = FALSE]
  /\ UNCHANGED <<checkout, updater, cancel, thread, parent, intake, daemon, halt, bounds>>

\* _start_daemon_services ends; a gate that closed meanwhile keeps only the
\* scheduler from being started.
ServicesWithScheduler(p) == p \in Daemons /\ ~gate[p]   \* Mutant
ServicesStarted(p) == p \in Daemons

StartServices(p) ==
  /\ start[p] = "restoring"
  /\ start' = [start EXCEPT ![p] = "up"]
  /\ consumer' = [q \in Platforms |-> IF queue[q] > 0 THEN Woken(q, {p}) ELSE consumer[q]]
  /\ sched' = IF p \in Daemons /\ ~gate[p] THEN [sched EXCEPT ![p] = "on"] ELSE sched
  /\ daemon' = [daemon EXCEPT ![p] = ServicesStarted(p)]
  /\ UNCHANGED <<checkout, updater, cancel, thread, parent, gate, queue, other, stopping, halt,
                 bounds>>

StartFails(p) ==
  /\ start[p] \in {"trying", "restoring"} /\ Faulty
  /\ start' = [start EXCEPT ![p] = "failed"]
  /\ stopping' = [stopping EXCEPT ![p] = TRUE]
  /\ UNCHANGED <<checkout, updater, cancel, thread, parent, intake, daemon, halt, works, others>>

\* _cancel_platform_starts by the updater or by main, or stop_event is set.
StartCancelled(p) ==
  /\ start[p] \in {"waiting", "trying", "restoring"}
  /\ main # "serve" \/ upd = "joinstarts"
  /\ start' = [start EXCEPT ![p] = "ended"]
  /\ UNCHANGED <<checkout, updater, cancel, thread, parent, intake, daemon, stopping, halt, bounds>>

Stopping == upd = "stop" \/ main = "stopping"

\* _stop_daemon_services signals everything a platform owns; a turn that is
\* cancelled leaves its request in the durable queue.
HaltBegins(p) ==
  /\ Stopping /\ halt[p] = "no"
  /\ halt' = [halt EXCEPT ![p] = "halting"]
  /\ stopping' = [stopping EXCEPT ![p] = TRUE] /\ daemon' = [daemon EXCEPT ![p] = FALSE]
  /\ sched' = [sched EXCEPT ![p] = IF @ = "on" THEN "ending" ELSE @]
  /\ consumer' = [consumer EXCEPT ![p] = "none"]
  /\ queue' = [queue EXCEPT ![p] = IF consumer[p] = "turn" THEN @ + 1 ELSE @]
  /\ other' = [other EXCEPT ![p] = "none"]
  /\ UNCHANGED <<checkout, updater, cancel, thread, parent, gate, start, bounds>>

HaltEnds(p) ==
  /\ halt[p] = "halting" /\ sched[p] = "off"
  /\ halt' = [halt EXCEPT ![p] = "halted"]
  /\ UNCHANGED <<checkout, updater, cancel, thread, parent, intake, start, daemon, stopping, bounds>>

AllHalted == \A p \in Platforms : halt[p] = "halted"

----------------------------------------------------------------------------
(* The checkout *)

OperatorMoves ==
  /\ ~moved /\ moved' = TRUE
  /\ UNCHANGED <<origin, pulled, updater, cancel, thread, parent, intake, services, bounds>>

OriginAdvances ==
  /\ origin = "level" /\ ~moved /\ origin' = "ahead"
  /\ UNCHANGED <<moved, pulled, updater, cancel, thread, parent, intake, services, bounds>>

\* _head_changed: an unreadable HEAD counts as unchanged.
SeesHeadMoved == moved /\ UNCHANGED faults
SeesHeadSame  == IF moved THEN Faulty ELSE UNCHANGED faults

SkipOutcome(r) ==
  \/ SeesHeadMoved /\ r = "restart"
  \/ SeesHeadSame /\ r = "current"

\* fetch_and_pull up to git pull: HEAD had moved, or nothing is pulled.
PullSkipped ==
  /\ worker = "fetch" /\ worker' = "done"
  /\ \E r \in {"restart", "current"} : SkipOutcome(r) /\ result' = r /\ changed' = (r = "restart")
  /\ UNCHANGED <<checkout, upd, prep, why, cancel, parent, intake, services, works, others>>

GitPulls ==
  /\ worker = "fetch" /\ worker' = "merged" /\ SeesHeadSame
  /\ \/ origin = "ahead" /\ moved' = TRUE /\ origin' = "level" /\ pulled' = (pulled \/ ~moved)
     \/ UNCHANGED checkout
  /\ UNCHANGED <<updater, cancel, result, parent, intake, services, works, others>>

PullOutcomeReadsHead(r) ==   \* Mutant
  \/ moved /\ r = "restart" /\ UNCHANGED faults
  \/ ~moved /\ r \in {"current", "raised"} /\ UNCHANGED faults
  \/ Faulty /\ r = "current"

\* _restart_required_after_pull: here an unreadable HEAD counts as moved.  A
\* pull that raised with HEAD confirmed unchanged raises.
PullOutcome(r) ==
  \/ moved /\ r = "restart" /\ UNCHANGED faults
  \/ ~moved /\ r \in {"current", "raised"} /\ UNCHANGED faults
  \/ Faulty /\ r = "restart"

PullSettles ==
  /\ worker = "merged" /\ worker' = "done"
  /\ \E r \in {"restart", "current", "raised"} :
       PullOutcome(r) /\ result' = r /\ changed' = (r = "restart")
  /\ UNCHANGED <<checkout, upd, prep, why, cancel, parent, intake, services, works, others>>

\* A failed installation is logged: the restart repairs it.
InstallEnds ==
  /\ worker = "pip" /\ worker' = "done"
  /\ UNCHANGED <<checkout, updater, cancel, result, parent, intake, services, bounds>>

----------------------------------------------------------------------------
(* The update task *)

Cancelled == cancel = "pending"

CheckBegins ==
  /\ upd = "sleep" /\ ~Cancelled /\ upd' = "check" /\ changed' = FALSE
  /\ UNCHANGED <<checkout, prep, why, cancel, thread, parent, intake, services, bounds>>

CheckReturns ==
  /\ upd = "check" /\ ~Cancelled
  /\ \/ SeesHeadMoved /\ upd' = "idle"
     \/ SeesHeadSame /\ upd' \in (IF origin = "ahead" THEN {"idle", "sleep"} ELSE {"sleep"})
  /\ UNCHANGED <<checkout, prep, why, changed, cancel, thread, parent, intake, services, works,
                 others>>

\* CancelledError at the sleep, the thread or the notification ends the task.
UpdaterCancelled ==
  /\ Cancelled
  /\ \/ upd \in {"sleep", "check", "notify"}
     \/ upd = "joinstarts" /\ \A p \in Platforms : Settled(p)
     \/ upd = "stop" /\ AllHalted
  /\ upd' = "gone"
  /\ UNCHANGED <<checkout, prep, why, changed, cancel, thread, parent, intake, services, bounds>>

IdleCancelled ==
  /\ upd = "idle" /\ Cancelled
  /\ upd' = "release" /\ why' = "cancelled"
  /\ UNCHANGED <<checkout, prep, changed, cancel, thread, parent, intake, services, bounds>>

IdleSeen ==
  /\ upd = "idle" /\ ~Cancelled /\ \A p \in Platforms : ~HasActiveTurns(p)
  /\ upd' = "close"
  /\ UNCHANGED <<checkout, prep, why, changed, cancel, thread, parent, intake, services, bounds>>

\* begin_update_restart of the next platform, up to the wait for its scheduler.
GateCloses ==
  /\ upd = "close" /\ prep < N
  /\ LET p == prep + 1 IN
       /\ prep' = p /\ gate' = [gate EXCEPT ![p] = TRUE]
       /\ sched' = [sched EXCEPT ![p] = IF @ = "on" THEN "ending" ELSE @]
       /\ upd' = IF sched[p] = "off" THEN "close" ELSE "closing"
  /\ UNCHANGED <<checkout, why, changed, cancel, thread, parent, queue, consumer, other,
                 services, bounds>>

\* await_cancelled suppresses the update task's own cancellation as well.
SchedulerJoined ==
  /\ upd = "closing" /\ sched[prep] = "off"
  /\ upd' = "close" /\ cancel' = IF Cancelled THEN "swallowed" ELSE cancel
  /\ UNCHANGED <<checkout, prep, why, changed, thread, parent, intake, services, bounds>>

AnyTurn == \E p \in Platforms : consumer[p] = "turn"   \* Mutant
AnyActive == \E p \in Platforms : HasActiveTurns(p)

RefusedIfPending == Cancelled   \* Mutant
Refused == cancel # "none"

\* The second look, and the entry of run_owned_worker, which refuses a task
\* that was cancelled at any time before.
LooksAgain ==
  /\ upd = "close" /\ prep = N
  /\ IF AnyActive \/ Refused
     THEN /\ upd' = "release" /\ why' = (IF AnyActive THEN "busy" ELSE "cancelled")
          /\ UNCHANGED worker
     ELSE upd' = "pull" /\ worker' = "fetch" /\ UNCHANGED why
  /\ UNCHANGED <<checkout, prep, changed, cancel, result, parent, intake, services, bounds>>

ReopensQuietly ==   \* Mutant
  LET open == 1..prep IN
    /\ gate' = [p \in Platforms |-> gate[p] /\ p \notin open]
    /\ sched' = [p \in Platforms |-> IF p \in open /\ daemon[p] THEN "on" ELSE sched[p]]
    /\ UNCHANGED consumer

\* cancel_update_restart of every prepared platform.
Reopens ==
  LET open == 1..prep IN
    /\ gate' = [p \in Platforms |-> gate[p] /\ p \notin open]
    /\ sched' = [p \in Platforms |-> IF p \in open /\ daemon[p] THEN "on" ELSE sched[p]]
    /\ consumer' = [p \in Platforms |-> IF daemon[p] THEN Woken(p, open) ELSE consumer[p]]

Releases ==
  /\ upd = "release" /\ upd' = "released" /\ Reopens /\ prep' = 0
  /\ UNCHANGED <<checkout, why, changed, cancel, thread, parent, queue, other, services, bounds>>

\* The consumers that were woken run first: the event loop is FIFO.
ReleaseReturns ==
  /\ upd = "released" /\ \A p \in Platforms : consumer[p] # "ready"
  /\ upd' = CASE Cancelled \/ why = "cancelled" -> "gone"
              [] why = "busy" -> "idle"
              [] OTHER -> "sleep"
  /\ why' = "busy"
  /\ UNCHANGED <<checkout, prep, changed, cancel, thread, parent, intake, services, bounds>>

AfterPullAlwaysReleases ==   \* Mutant
  IF Cancelled THEN upd' = "release" /\ why' = "cancelled" /\ worker' = "none"
  ELSE CASE result = "restart" -> upd' = "install" /\ worker' = "pip" /\ UNCHANGED why
         [] result = "current" -> upd' = "release" /\ why' = "current" /\ worker' = "none"
         [] result = "raised"  -> upd' = "release" /\ why' = "failed" /\ worker' = "none"

\* The worker is done, whatever cancel() came in between.  Once the checkout
\* changed, a cancelled task keeps the gates closed.
AfterPull ==
  IF Cancelled
  THEN IF changed THEN upd' = "gone" /\ worker' = "none" /\ UNCHANGED why
       ELSE upd' = "release" /\ why' = "cancelled" /\ worker' = "none"
  ELSE CASE result = "restart" -> upd' = "install" /\ worker' = "pip" /\ UNCHANGED why
         [] result = "current" -> upd' = "release" /\ why' = "current" /\ worker' = "none"
         [] result = "raised"  -> upd' = "release" /\ why' = "failed" /\ worker' = "none"

PullReturns ==
  /\ upd = "pull" /\ worker = "done" /\ AfterPull /\ result' = "current"
  /\ UNCHANGED <<checkout, prep, changed, cancel, parent, intake, services, bounds>>

InstallReturns ==
  /\ upd = "install" /\ worker = "done" /\ worker' = "none"
  /\ upd' = IF Cancelled THEN "gone" ELSE "joinstarts"
  /\ UNCHANGED <<checkout, prep, why, changed, cancel, result, parent, intake, services, bounds>>

StartsJoined ==
  /\ upd = "joinstarts" /\ ~Cancelled /\ \A p \in Platforms : Settled(p)
  /\ upd' = "notify"
  /\ UNCHANGED <<checkout, prep, why, changed, cancel, thread, parent, intake, services, bounds>>

Notified ==
  /\ upd = "notify" /\ ~Cancelled /\ upd' = "stop"
  /\ UNCHANGED <<checkout, prep, why, changed, cancel, thread, parent, intake, services, bounds>>

\* restart_script.
Reexecutes ==
  /\ upd = "stop" /\ ~Cancelled /\ AllHalted /\ proc' = "exec"
  /\ UNCHANGED <<checkout, updater, cancel, thread, main, crash, intake, services, bounds>>

----------------------------------------------------------------------------
(* main() *)

Signalled ==
  /\ main = "serve" /\ main' = "joining"
  /\ UNCHANGED <<checkout, updater, cancel, thread, crash, proc, intake, services, bounds>>

\* task.result() raises what a startup raised: main unwinds without a message.
CancelsUpdater ==
  /\ \/ main = "joining" /\ (\A p \in Platforms : Settled(p)) /\ UNCHANGED crash
     \/ main \in {"serve", "joining"} /\ (\E p \in Platforms : start[p] = "failed") /\ crash' = TRUE
  /\ main' = "cancelling"
  /\ cancel' = IF upd = "gone" THEN cancel ELSE "pending"
  /\ UNCHANGED <<checkout, updater, thread, proc, intake, services, bounds>>

StopsPlatforms ==
  /\ main = "cancelling" /\ upd = "gone" /\ \A p \in Platforms : Settled(p)
  /\ main' = "stopping"
  /\ UNCHANGED <<checkout, updater, cancel, thread, crash, proc, intake, services, bounds>>

\* After a crash run() restarts the program.
Exits ==
  /\ main = "stopping" /\ AllHalted
  /\ proc' = IF crash THEN "exec" ELSE "exit"
  /\ UNCHANGED <<checkout, updater, cancel, thread, main, crash, intake, services, bounds>>

----------------------------------------------------------------------------

PlatformStep(p) ==
  \/ Accept(p) \/ SchedulerAdmits(p) \/ SchedulerEnds(p) \/ ConsumerLooks(p) \/ TurnEnds(p)
  \/ OtherBegins(p) \/ OtherEnds(p)
  \/ StartBegins(p) \/ StartNotReady(p) \/ StartRestores(p) \/ StartServices(p)
  \/ StartFails(p) \/ StartCancelled(p) \/ HaltBegins(p) \/ HaltEnds(p)

WorkerStep == PullSkipped \/ GitPulls \/ PullSettles \/ InstallEnds

UpdaterStep ==
  \/ CheckBegins \/ CheckReturns \/ UpdaterCancelled \/ IdleCancelled \/ IdleSeen
  \/ GateCloses \/ SchedulerJoined \/ LooksAgain \/ Releases \/ ReleaseReturns
  \/ PullReturns \/ InstallReturns \/ StartsJoined \/ Notified \/ Reexecutes

MainStep == CancelsUpdater \/ StopsPlatforms \/ Exits

Next ==
  /\ proc = "up"
  /\ \/ \E p \in Platforms : PlatformStep(p)
     \/ OperatorMoves \/ OriginAdvances \/ WorkerStep \/ UpdaterStep \/ Signalled \/ MainStep

Spec == Init /\ [][Next]_vars

\* The event loop runs what can run; threads, turns (which have a budget) and
\* other work end.  Messages, failures, signals and the checkout are not fair.
Running(p) ==
  \/ SchedulerEnds(p) \/ ConsumerLooks(p) \/ TurnEnds(p) \/ OtherEnds(p)
  \/ HaltBegins(p) \/ HaltEnds(p)

Starting(p) == StartBegins(p) \/ StartRestores(p) \/ StartServices(p) \/ StartCancelled(p)

FairSpec ==
  /\ Spec
  /\ \A p \in Platforms :
       /\ WF_vars(proc = "up" /\ Running(p)) /\ WF_vars(proc = "up" /\ Starting(p))
  /\ WF_vars(proc = "up" /\ WorkerStep) /\ WF_vars(proc = "up" /\ UpdaterStep)
  /\ WF_vars(proc = "up" /\ MainStep)

----------------------------------------------------------------------------
(* Properties *)

\* From the second look to the end of the process no turn and no /bg launch is
\* at work, so the update cuts neither off (_restart_after_update).
HandoffIsQuiet ==
  upd \in Confirmed => \A p \in Platforms : gate[p] /\ consumer[p] # "turn" /\ other[p] # "launch"

\* A gate is closed only during a handoff: after one that was aborted, whenever
\* the startup of a platform fell into it, the platform takes work and fires
\* its schedules again (_resume_update_intake, _start_daemon_services).
IntakeOpen ==
  upd \in {"sleep", "check", "idle", "released"} =>
    \A p \in Platforms :
      /\ ~gate[p]
      /\ start[p] = "up" /\ p \in Daemons => sched[p] = "on"

\* How far the gates are, and which steps may find them so.
GateInv ==
  /\ upd \in {"sleep", "check", "idle", "released"} => prep = 0 /\ \A p \in Platforms : ~gate[p]
  /\ upd \in {"close", "closing", "release"} => \A p \in Platforms : gate[p] => p <= prep
  /\ upd = "closing" => prep >= 1
  /\ upd \in Confirmed => prep = N
  /\ upd \in {"close", "closing"} \cup Confirmed => \A p \in Platforms : p <= prep => gate[p]

\* A scheduler is off behind an open gate only before its services started,
\* or when the platform is being stopped.
ServiceInv ==
  /\ main = "stopping" => upd = "gone"
  /\ \A p \in Platforms :
       /\ halt[p] # "no" => upd \in {"stop", "gone"}
       /\ daemon[p] => start[p] = "up"
       /\ start[p] = "up" /\ p \in Daemons /\ halt[p] = "no" => daemon[p] /\ (gate[p] \/ sched[p] = "on")

\* The worker belongs to its step of the update; what the pull changed is kept
\* behind closed gates without a turn.
PullInv ==
  /\ worker \in {"fetch", "merged"} => upd = "pull"
  /\ upd = "pull" => worker \in {"fetch", "merged", "done"}
  /\ worker = "fetch" => ~pulled
  /\ upd = "pull" /\ worker = "done" => changed = (result = "restart")
  /\ pulled =>
       /\ moved /\ upd \in Confirmed \cup {"gone"}
       /\ upd = "pull" /\ worker = "done" => changed
       /\ \A p \in Platforms : gate[p] /\ consumer[p] # "turn"

HandoffInv == TypeOK /\ HandoffIsQuiet /\ IntakeOpen /\ GateInv /\ ServiceInv /\ PullInv

\* No turn starts in the old process once its own pull has changed the code
\* under it, whether the pull could be confirmed, was cancelled or failed.
NoTurnOnPulledCode ==
  [][\A p \in Platforms : consumer[p] # "turn" /\ consumer'[p] = "turn" => ~pulled]_vars

\* A request that waits on a platform that runs is started, or the process
\* ends: a handoff that comes to nothing does not leave it waiting.
QueuedWorkStarts ==
  \A p \in Platforms :
    (start[p] = "up" /\ queue[p] > 0)
      ~> (consumer[p] = "turn" \/ queue[p] = 0 \/ proc # "up")

\* A shutdown ends the process, wherever the update is, although one await of
\* the update task swallows the cancellation (main, await_cancelled); and a
\* checkout that was moved leads to a restart, or somebody stops the bot.
HandoffsEnd ==
  /\ main # "serve" ~> proc # "up"
  /\ moved ~> (proc # "up" \/ main # "serve")
=============================================================================
