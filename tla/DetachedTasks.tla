---------------------------- MODULE DetachedTasks ----------------------------
(***************************************************************************)
(* Background tasks of one owner, run by a provider outside the bot: their  *)
(* launch (cmd_background, _launch_result_detached_tasks, launch_detached   *)
(* in agent.py), the durable ledger, the poll with its delivery task, /stop *)
(* and shutdowns, all in backends_bot/base.py.                              *)
(*                                                                          *)
(* The provider is external: a task runs, may wait for input, ends, and may *)
(* be forgotten.  A step ends at an await, or is one durable operation.     *)
(***************************************************************************)
EXTENDS Integers, FiniteSets

CONSTANTS
  Launches,   \* launches, each of at most one provider task
  Kinds,      \* who may launch: "bg" /bg, "turn" an agent's request, "found"
              \* for a task that the foreground run started by itself
  None,
  MaxStops, MaxFaults, MaxRestarts, MaxBlocks, MaxOwed   \* bounds

ASSUME DetachedAssumption ==
  /\ IsFiniteSet(Launches)
  /\ Kinds \subseteq {"bg", "turn", "found"}
  /\ None \notin Launches \cup Kinds
  /\ MaxStops \in Nat /\ MaxFaults \in Nat /\ MaxRestarts \in Nat
  /\ MaxBlocks \in Nat /\ MaxOwed \in Nat

VARIABLES
  provider,   \* what the provider says of each task
  pc,         \* where each launch is
  kind,       \* who launched it
  killed,     \* the launch has an undelivered cancel()
  lgen,       \* the cancel generation it captured
  records,    \* ledger: the tasks it lists
  staged,     \* ledger: those with a delivery_text
  told,       \* ledger: those whose last_reported_state is "blocked"
  poll,       \* where the poll, or the delivery it awaits, is
  todo,       \* the records it has still to check, with their stage
  cur,        \* the task it is checking
  notice,     \* what the delivery says: "result" or "blocked"
  dkilled,    \* the delivery has an undelivered cancel()
  gen,        \* _cancel_generations[uid]
  stop,       \* where /stop is; not "idle" while _cancel_work_depths > 0
  toStop,     \* records it has still to stop
  toDrop,     \* records it has still to remove
  owed,       \* uid is in _pending_reply_delivery_users
  closing,    \* _stopping: the services are being stopped
  sends, slips,        \* history: results sent; sent without removal
  dismissed, shed,     \* history: removed for /stop; for a shutdown
  kept,                \* history: the provider or the file refused /stop
  disowned,            \* history: given up with a message or a line in the log
  acked,               \* history: "I'll post its final result here"
  interrupted, cutOff, \* history: met at work by a /stop; by a shutdown
  lost,                \* history: at work, with no record, when the process ended,
                       \* or cancelled in a handshake that gave no id
  stops, faults, restarts, blocks, owes    \* how often the bounded events happened

launching == <<pc, kind, killed, lgen>>
ledger    == <<records, staged, told>>
polling   == <<poll, todo, cur, notice, dkilled>>
stopping  == <<gen, stop, toStop, toDrop>>
endings   == <<interrupted, cutOff, lost>>
history   == <<sends, slips, dismissed, shed, kept, disowned, acked, endings>>
bounds    == <<stops, faults, restarts, blocks, owes>>
vars == <<provider, launching, ledger, polling, stopping, owed, closing, history, bounds>>

Running == {"running", "blocked"}
Over    == {"ended", "gone"}
At == {"idle", "queue", "handshake", "unclaimed", "log", "validate", "admit",
       "written", "ack", "acking", "unverified", "cleanup", "forget", "done"}
\* A launch that knows the id of its task, and one that made no record yet.
Identified == At \ {"idle", "queue", "handshake", "done"}
Unrecorded == {"idle", "queue", "handshake", "unclaimed", "log", "validate", "admit"}
InDelivery == {"lock", "sending", "sent"}

LaunchesOK ==
  /\ provider \in [Launches -> Running \cup Over \cup {"none"}]
  /\ pc \in [Launches -> At] /\ killed \in [Launches -> BOOLEAN]
  /\ kind \in [Launches -> Kinds \cup {None}] /\ lgen \in [Launches -> Nat]
LedgerOK == records \subseteq Launches /\ staged \subseteq records /\ told \subseteq records
PollOK ==
  /\ poll \in InDelivery \cup {"sleep", "next", "ask", "clear", "stage", "open"}
  /\ todo \subseteq Launches \X BOOLEAN /\ cur \in Launches \cup {None}
  /\ notice \in {"result", "blocked"} /\ dkilled \in BOOLEAN
StopOK ==
  /\ gen \in Nat /\ stop \in {"idle", "settle", "sweep"}
  /\ toStop \subseteq Launches /\ toDrop \subseteq Launches
HistoryOK ==
  /\ sends \in [Launches -> Nat] /\ slips \in [Launches -> Nat]
  /\ dismissed \subseteq Launches /\ shed \subseteq Launches
  /\ kept \subseteq Launches /\ disowned \subseteq Launches /\ acked \subseteq Launches
  /\ interrupted \subseteq Launches /\ cutOff \subseteq Launches /\ lost \subseteq Launches
BoundsOK ==
  /\ stops \in 0..MaxStops /\ faults \in 0..MaxFaults
  /\ restarts \in 0..MaxRestarts /\ blocks \in 0..MaxBlocks /\ owes \in 0..MaxOwed

TypeOK == /\ LaunchesOK /\ LedgerOK /\ PollOK /\ StopOK /\ HistoryOK /\ BoundsOK
          /\ owed \in BOOLEAN /\ closing \in BOOLEAN

\* The poll has a record in hand.
Checking == poll \notin {"sleep", "next"}

Zeroes == [l \in Launches |-> 0]
Falses == [l \in Launches |-> FALSE]

Init ==
  /\ provider = [l \in Launches |-> "none"]
  /\ pc = [l \in Launches |-> "idle"] /\ kind = [l \in Launches |-> None] /\ killed = Falses /\ lgen = Zeroes
  /\ records = {} /\ staged = {} /\ told = {}
  /\ poll = "sleep" /\ todo = {} /\ cur = None /\ notice = "result" /\ dkilled = FALSE
  /\ gen = 0 /\ stop = "idle" /\ toStop = {} /\ toDrop = {}
  /\ owed = FALSE /\ closing = FALSE
  /\ sends = Zeroes /\ slips = Zeroes
  /\ dismissed = {} /\ shed = {} /\ kept = {} /\ disowned = {} /\ acked = {}
  /\ interrupted = {} /\ cutOff = {} /\ lost = {}
  /\ stops = 0 /\ faults = 0 /\ restarts = 0 /\ blocks = 0 /\ owes = 0

-------------------------------------------------------------------------------
(* What the steps are made of.                                              *)

Settled(l) == pc[l] \in {"idle", "done"}
AtWork == {l \in Launches : ~Settled(l)}

\* One turn runs at a time.
TurnFree == \A l \in Launches : kind[l] # "bg" => Settled(l)

\* get_run_lock, held from the handshake until the session is logged.
RunLockFree == \A l \in Launches : pc[l] \notin {"handshake", "unclaimed", "log"}

\* The owner's admission lock: a registration or /stop has it.
AdmissionFree == stop # "sweep" /\ \A l \in Launches : pc[l] # "written"

\* A cancel() is to be delivered, or /stop moved the generation.
Overtaken(l) == killed[l] \/ lgen[l] # gen

Fault == /\ faults < MaxFaults /\ faults' = faults + 1
         /\ UNCHANGED <<stops, restarts, blocks, owes>>

Goto(l, at) == pc' = [pc EXCEPT ![l] = at] /\ UNCHANGED <<kind, killed, lgen>>
\* The launch ends, and its cancel() with it.
Ends(l) == /\ pc' = [pc EXCEPT ![l] = "done"] /\ killed' = [killed EXCEPT ![l] = FALSE]
           /\ UNCHANGED <<kind, lgen>>

\* Mutant: the cancellation is swallowed and the validation tried again.
TriesAgain(l) == Goto(l, "validate")
\* A cancelled launch stops the task whose id it knows.  The registration of a
\* task that was only found just returns: the task runs on, and nobody is told.
GivesUp(l) == IF kind[l] = "found" THEN Ends(l) ELSE Goto(l, "cleanup")

\* stop_detached_task; what has ended stays as it is.
ProviderStops(l) ==
  provider' = [provider EXCEPT ![l] = IF @ \in Running THEN "ended" ELSE @]

\* _remove_detached_task_record
Removes(l) == /\ records' = records \ {l} /\ staged' = staged \ {l}
              /\ told' = told \ {l}

-------------------------------------------------------------------------------
(* A launch.                                                                *)

\* /bg and the agent's requests wait for the run lock and a session; a found
\* task runs already and is registered as it is.
LaunchBegins(l, k) ==
  /\ pc[l] = "idle"
  /\ IF k = "bg" THEN stop = "idle" /\ ~closing ELSE TurnFree
  /\ kind' = [kind EXCEPT ![l] = k] /\ lgen' = [lgen EXCEPT ![l] = gen]
  /\ IF k = "found"
     THEN /\ pc' = [pc EXCEPT ![l] = "validate"]
          /\ provider' = [provider EXCEPT ![l] = "running"]
     ELSE pc' = [pc EXCEPT ![l] = "queue"] /\ UNCHANGED provider
  /\ UNCHANGED <<killed, ledger, polling, stopping, owed, closing, history, bounds>>

\* launch_detached gives the handshake an owner, or is cancelled before it.
LaunchStarts(l) ==
  /\ pc[l] = "queue"
  /\ IF Overtaken(l) THEN Ends(l) ELSE RunLockFree /\ Goto(l, "handshake")
  /\ UNCHANGED <<provider, ledger, polling, stopping, owed, closing, history, bounds>>

\* The handshake is settled also when the launch was cancelled; only then is
\* the task stopped.
HandshakeReturns(l) ==
  /\ pc[l] = "handshake" /\ provider[l] # "none"
  /\ Goto(l, IF killed[l] THEN "unclaimed" ELSE "log")
  /\ UNCHANGED <<provider, ledger, polling, stopping, owed, closing, history, bounds>>

\* It can fail with no id although the provider did start the task.  The user
\* is told, unless the launch was cancelled.
HandshakeFails(l) ==
  /\ pc[l] = "handshake" /\ Fault /\ Ends(l)
  /\ IF killed[l] THEN lost' = lost \cup {l} /\ UNCHANGED disowned
                  ELSE disowned' = disowned \cup {l} /\ UNCHANGED lost
  /\ UNCHANGED <<provider, ledger, polling, stopping, owed, closing,
                 sends, slips, dismissed, shed, kept, acked, interrupted, cutOff>>

\* The start is logged to the session before the id leaves launch_detached.
LaunchLogs(l) ==
  /\ pc[l] = "log"
  /\ \/ Goto(l, IF killed[l] THEN "unclaimed" ELSE "validate") /\ UNCHANGED bounds
     \/ Goto(l, "unclaimed") /\ Fault
  /\ UNCHANGED <<provider, ledger, polling, stopping, owed, closing, history>>

\* _stop_unclaimed_detached_task; a refusal is logged.
LaunchUnclaimed(l) ==
  /\ pc[l] = "unclaimed" /\ Ends(l)
  /\ \/ ProviderStops(l) /\ UNCHANGED <<disowned, bounds>>
     \/ Fault /\ disowned' = disowned \cup {l} /\ UNCHANGED provider
  /\ UNCHANGED <<ledger, polling, stopping, owed, closing,
                 sends, slips, dismissed, shed, kept, acked, endings>>

\* _register_detached_task: the provider has to list the task.
Validates(l) ==
  /\ pc[l] = "validate"
  /\ \/ Overtaken(l) /\ GivesUp(l) /\ UNCHANGED bounds
     \/ /\ ~Overtaken(l) /\ UNCHANGED bounds
        /\ Goto(l, IF provider[l] = "gone" THEN "unverified" ELSE "admit")
     \/ ~Overtaken(l) /\ Fault /\ Goto(l, "unverified")
  /\ UNCHANGED <<provider, ledger, polling, stopping, owed, closing, history>>

\* Mutant: the generation is not looked at again under the admission lock.
WritableLate(l) == TRUE
\* The registration is still wanted when it has the admission lock.
Writable(l) == ~Overtaken(l)

\* Its write, under the admission lock, or the cancellation of its wait.
Admits(l) ==
  /\ pc[l] = "admit"
  /\ \/ /\ Writable(l) /\ AdmissionFree
        /\ \/ /\ records' = records \cup {l} /\ Goto(l, "written")
              /\ UNCHANGED bounds
           \/ Fault /\ Goto(l, "unverified") /\ UNCHANGED records
     \/ ~Writable(l) /\ GivesUp(l) /\ UNCHANGED <<records, bounds>>
  /\ UNCHANGED <<provider, staged, told, polling, stopping, owed, closing, history>>

\* The lock is released, and a cancel that came during the write is delivered.
\* The agent's own reply says at once that the result will follow.
Registered(l) ==
  /\ pc[l] = "written"
  /\ \/ Overtaken(l) /\ GivesUp(l) /\ UNCHANGED acked
     \/ /\ ~Overtaken(l)
        /\ IF kind[l] = "bg" THEN Goto(l, "ack") ELSE Ends(l)
        /\ acked' = IF kind[l] = "turn" THEN acked \cup {l} ELSE acked
  /\ UNCHANGED <<provider, ledger, polling, stopping, owed, closing,
                 sends, slips, dismissed, shed, kept, disowned, endings, bounds>>

\* After /bg a message of its own says so.
Acknowledges(l) ==
  /\ pc[l] = "ack"
  /\ \/ Overtaken(l) /\ Goto(l, "cleanup") /\ UNCHANGED <<acked, bounds>>
     \/ ~Overtaken(l) /\ Goto(l, "acking") /\ acked' = acked \cup {l} /\ UNCHANGED bounds
     \/ ~Overtaken(l) /\ Fault /\ Ends(l) /\ UNCHANGED acked
  /\ UNCHANGED <<provider, ledger, polling, stopping, owed, closing,
                 sends, slips, dismissed, shed, kept, disowned, endings>>

\* The message is out; its sender learns that, or is cancelled before.
AckReturns(l) ==
  /\ pc[l] = "acking"
  /\ IF killed[l] THEN Goto(l, "cleanup") ELSE Ends(l)
  /\ UNCHANGED <<provider, ledger, polling, stopping, owed, closing, history, bounds>>

\* The user is told that the task could not be verified, or it is logged.
Unverified(l) ==
  /\ pc[l] = "unverified"
  /\ IF Overtaken(l) THEN GivesUp(l) /\ UNCHANGED disowned
     ELSE Ends(l) /\ disowned' = disowned \cup {l}
  /\ UNCHANGED <<provider, ledger, polling, stopping, owed, closing,
                 sends, slips, dismissed, shed, kept, acked, endings, bounds>>

\* Mutant: the task of a cancelled launch is left running.
CleansUpNothing(l) == Ends(l) /\ UNCHANGED <<provider, kept, bounds>>
\* _stop_cancelled_detached_launch stops the task, or is refused.
CleansUp(l) ==
  \/ ProviderStops(l) /\ Goto(l, "forget") /\ UNCHANGED <<kept, bounds>>
  \/ Fault /\ kept' = kept \cup {l} /\ Ends(l) /\ UNCHANGED provider

Cleanup(l) ==
  /\ pc[l] = "cleanup" /\ CleansUp(l)
  /\ UNCHANGED <<ledger, polling, stopping, owed, closing,
                 sends, slips, dismissed, shed, disowned, acked, endings>>

\* Whose fault it is that a record goes: a /stop, or the shutdown.
Charges(l) ==
  IF l \notin records THEN UNCHANGED <<dismissed, shed>>
  ELSE IF lgen[l] # gen THEN dismissed' = dismissed \cup {l} /\ UNCHANGED shed
  ELSE shed' = shed \cup {l} /\ UNCHANGED dismissed

\* Its record goes too, if it has one.
Forgets(l) ==
  /\ pc[l] = "forget" /\ Ends(l)
  /\ \/ Removes(l) /\ Charges(l) /\ UNCHANGED <<kept, bounds>>
     \/ Fault /\ kept' = kept \cup {l} /\ UNCHANGED <<ledger, dismissed, shed>>
  /\ UNCHANGED <<provider, polling, stopping, owed, closing,
                 sends, slips, disowned, acked, endings>>

LaunchStep(l) ==
  \/ LaunchStarts(l) \/ HandshakeReturns(l) \/ LaunchLogs(l) \/ LaunchUnclaimed(l)
  \/ Validates(l) \/ Admits(l) \/ Registered(l) \/ Acknowledges(l) \/ AckReturns(l)
  \/ Unverified(l) \/ Cleanup(l) \/ Forgets(l)

-------------------------------------------------------------------------------
(* The provider and the reply ledger, as the bot sees them.                 *)

ProviderStarts(l) ==
  /\ pc[l] = "handshake" /\ provider[l] = "none"
  /\ provider' = [provider EXCEPT ![l] = "running"]
  /\ UNCHANGED <<launching, ledger, polling, stopping, owed, closing, history, bounds>>

ProviderMoves(l) ==
  /\ \/ provider[l] = "running" /\ blocks < MaxBlocks /\ blocks' = blocks + 1
        /\ provider' = [provider EXCEPT ![l] = "blocked"]
     \/ /\ \/ provider[l] = "blocked" /\ provider' = [provider EXCEPT ![l] = "running"]
           \/ provider[l] = "running" /\ provider' = [provider EXCEPT ![l] = "ended"]
           \/ provider[l] = "ended" /\ provider' = [provider EXCEPT ![l] = "gone"]
        /\ UNCHANGED blocks
  /\ UNCHANGED <<launching, ledger, polling, stopping, owed, closing, history,
                 stops, faults, restarts, owes>>

\* A final reply is staged, and keeps the notices back until it was sent.
ReplyOwed ==
  /\ ~owed /\ owes < MaxOwed /\ owes' = owes + 1 /\ owed' = TRUE
  /\ UNCHANGED <<provider, launching, ledger, polling, stopping, closing, history,
                 stops, faults, restarts, blocks>>

ReplySent ==
  /\ owed /\ owed' = FALSE
  /\ UNCHANGED <<provider, launching, ledger, polling, stopping, closing, history, bounds>>

-------------------------------------------------------------------------------
(* The poll.  One pass checks the owner's records one by one.               *)

NextRecord == poll' = "next" /\ cur' = None /\ notice' = "result" /\ dkilled' = FALSE
\* An exception ends the pass over this owner's records.
PassFails == /\ poll' = "sleep" /\ todo' = {} /\ cur' = None /\ notice' = "result"
             /\ dkilled' = FALSE
Proceed(at) == poll' = at /\ UNCHANGED <<cur, notice, dkilled>>

\* Mutant: a staged result is left to the delivery that failed.
ListsUnstaged == {<<l, FALSE>> : l \in records \ staged}
\* _list_detached_task_records, with what is staged.
Listed == {<<l, l \in staged>> : l \in records}

PollBegins ==
  /\ poll = "sleep" /\ records # {} /\ todo' = Listed /\ NextRecord
  /\ UNCHANGED <<provider, launching, ledger, stopping, owed, closing, history, bounds>>

PollEnds ==
  /\ poll = "next" /\ todo = {} /\ poll' = "sleep"
  /\ UNCHANGED <<provider, launching, ledger, todo, cur, notice, dkilled, stopping, owed,
                 closing, history, bounds>>

\* _check_detached_task: a staged result is delivered, others are asked for.
PollTakes(e) ==
  /\ poll = "next" /\ e \in todo /\ todo' = todo \ {e}
  /\ cur' = e[1] /\ poll' = IF e[2] THEN "open" ELSE "ask"
  /\ UNCHANGED <<provider, launching, ledger, notice, dkilled, stopping, owed, closing,
                 history, bounds>>

\* The provider's answer: a failure or an unknown state is left for later.
PollAsks ==
  /\ poll = "ask"
  /\ \/ Fault /\ NextRecord
     \/ /\ UNCHANGED bounds
        /\ \/ provider[cur] = "running" /\ cur \notin told /\ NextRecord
           \/ provider[cur] = "running" /\ cur \in told /\ Proceed("clear")
           \/ provider[cur] = "blocked" /\ cur \in told /\ NextRecord
           \/ /\ provider[cur] = "blocked" /\ cur \notin told
              /\ poll' = "open" /\ notice' = "blocked" /\ UNCHANGED <<cur, dkilled>>
           \/ provider[cur] \in Over /\ Proceed("stage")
  /\ UNCHANGED <<provider, launching, ledger, todo, stopping, owed, closing, history>>

\* _update_detached_task_record: the task works again.
PollClears ==
  /\ poll = "clear"
  /\ \/ told' = told \ {cur} /\ NextRecord /\ UNCHANGED <<todo, bounds>>
     \/ Fault /\ PassFails /\ UNCHANGED told
  /\ UNCHANGED <<provider, launching, records, staged, stopping, owed, closing, history>>

\* Mutant: the record is not looked for.
StagesBlindly == staged' = staged \cup {cur} /\ UNCHANGED records
\* The result is saved in the record, if there still is one.
Stages == staged' = staged \cup ({cur} \cap records) /\ UNCHANGED records

PollStages ==
  /\ poll = "stage"
  /\ \/ Stages /\ Proceed("open") /\ UNCHANGED <<todo, bounds>>
     \/ Fault /\ PassFails /\ UNCHANGED <<records, staged>>
  /\ UNCHANGED <<provider, launching, told, stopping, owed, closing, history>>

\* Mutant: deliveries start during a /stop as well.
NoticesOpen == TRUE
\* _run_detached_delivery starts no delivery while a /stop is at work.
NoticesAllowed == stop = "idle"

PollOpens ==
  /\ poll = "open"
  /\ IF NoticesAllowed THEN Proceed("lock") ELSE NextRecord
  /\ UNCHANGED <<provider, launching, ledger, todo, stopping, owed, closing, history, bounds>>

\* The record is read again under the owner's delivery lock.
StillWanted == cur \in records /\ (notice = "blocked" => cur \notin told)

DeliveryReads ==
  /\ poll = "lock" /\ ~dkilled
  /\ IF ~owed /\ StillWanted THEN Proceed("sending") ELSE NextRecord
  /\ UNCHANGED <<provider, launching, ledger, todo, stopping, owed, closing, history, bounds>>

\* A message that went out, and one its sender does not learn about.  Only
\* results are counted.
Out == IF notice = "result" THEN sends' = [sends EXCEPT ![cur] = @ + 1]
       ELSE UNCHANGED sends
Slips == IF notice = "result" THEN slips' = [slips EXCEPT ![cur] = @ + 1]
         ELSE UNCHANGED slips

\* Mutant: the record goes although its result could not be sent.
SendFailsForGood == NextRecord /\ Removes(cur)
\* A result that could not be sent stays in the ledger.
SendFails == NextRecord /\ UNCHANGED ledger

DeliverySends ==
  /\ poll = "sending" /\ ~dkilled
  /\ \/ Out /\ Proceed("sent") /\ UNCHANGED <<ledger, bounds>>
     \/ Fault /\ SendFails /\ UNCHANGED sends
  /\ UNCHANGED <<provider, launching, todo, stopping, owed, closing,
                 slips, dismissed, shed, kept, disowned, acked, endings>>

\* Mutant: the record of a result that was sent stays in the ledger.
DeliveryKeeps == UNCHANGED ledger
\* A sent result leaves the ledger; a task that waits is marked as reported.
DeliveryRecords ==
  IF notice = "result" THEN Removes(cur)
  ELSE told' = told \cup ({cur} \cap records) /\ UNCHANGED <<records, staged>>

\* The sender returns, the result is logged to its session, and the record
\* changes; or the send or the write fails after the message went out.
DeliveryEnds ==
  /\ poll = "sent"
  /\ \/ DeliveryRecords /\ NextRecord /\ UNCHANGED <<slips, todo, bounds>>
     \/ /\ Fault /\ Slips /\ UNCHANGED ledger
        /\ PassFails \/ (NextRecord /\ UNCHANGED todo)
  /\ UNCHANGED <<provider, launching, stopping, owed, closing,
                 sends, dismissed, shed, kept, disowned, acked, endings>>

\* /stop cancels the delivery wherever it is.
DeliveryCancelled ==
  /\ poll \in InDelivery /\ dkilled /\ NextRecord
  /\ IF poll = "sent" THEN Slips ELSE UNCHANGED slips
  /\ UNCHANGED <<provider, launching, ledger, todo, stopping, owed, closing,
                 sends, dismissed, shed, kept, disowned, acked, bounds, endings>>

PollStep ==
  \/ PollBegins \/ PollEnds \/ PollAsks \/ PollClears \/ PollStages \/ PollOpens
  \/ DeliveryReads \/ DeliverySends \/ DeliveryEnds \/ DeliveryCancelled
  \/ \E e \in todo : PollTakes(e)

-------------------------------------------------------------------------------
(* /stop, shutdowns and restarts.                                           *)

\* Before its first await /stop cancels the owner's delivery.
SignalsDelivery == dkilled' = (dkilled \/ poll \in InDelivery)

KillsLaunches == killed' = [l \in Launches |-> killed[l] \/ ~Settled(l)]

StopSignals ==
  /\ stop = "idle" /\ stops < MaxStops /\ stops' = stops + 1
  /\ gen' = gen + 1 /\ stop' = "settle"
  /\ KillsLaunches /\ SignalsDelivery
  /\ interrupted' = interrupted \cup AtWork
  /\ UNCHANGED <<provider, pc, kind, lgen, ledger, poll, todo, cur, notice, toStop, toDrop,
                 owed, closing, sends, slips, dismissed, shed, kept, disowned, acked,
                 cutOff, lost, faults, restarts, blocks, owes>>

\* _cancel_owned_deliveries(uid, _detached_launch_tasks)
LaunchesSettled == \A l \in Launches : kind[l] = "bg" => Settled(l)

\* When the launches of /bg and the delivery have ended, /stop takes the
\* admission and the delivery lock and lists the records.
StopLists ==
  /\ stop = "settle" /\ AdmissionFree /\ LaunchesSettled /\ poll \notin InDelivery
  /\ stop' = "sweep" /\ toDrop' = staged /\ toStop' = records \ staged
  /\ UNCHANGED <<provider, launching, ledger, polling, gen, owed, closing, history, bounds>>

\* Under the admission lock the queue and the owed replies are cleared first,
\* and a failure there ends /stop with the records as they are.
StopFails ==
  /\ stop = "settle" /\ AdmissionFree /\ LaunchesSettled /\ Fault
  /\ stop' = "idle" /\ kept' = kept \cup records
  /\ UNCHANGED <<provider, launching, ledger, polling, gen, toStop, toDrop, owed, closing,
                 sends, slips, dismissed, shed, disowned, acked, endings>>

\* A task with no staged result is stopped first; a refusal keeps its record.
StopStops(l) ==
  /\ stop = "sweep" /\ l \in toStop /\ toStop' = toStop \ {l}
  /\ \/ ProviderStops(l) /\ toDrop' = toDrop \cup {l} /\ UNCHANGED <<kept, bounds>>
     \/ Fault /\ kept' = kept \cup {l} /\ UNCHANGED <<provider, toDrop>>
  /\ UNCHANGED <<launching, ledger, polling, gen, stop, owed, closing,
                 sends, slips, dismissed, shed, disowned, acked, endings>>

\* Its record is removed; a failure ends /stop with what is left.
StopDrops(l) ==
  /\ stop = "sweep" /\ l \in toDrop
  /\ \/ /\ Removes(l) /\ toDrop' = toDrop \ {l}
        /\ dismissed' = IF l \in records THEN dismissed \cup {l} ELSE dismissed
        /\ UNCHANGED <<stop, toStop, kept, bounds>>
     \/ /\ Fault /\ stop' = "idle" /\ toStop' = {} /\ toDrop' = {}
        /\ kept' = kept \cup toStop \cup toDrop
        /\ UNCHANGED <<ledger, dismissed>>
  /\ UNCHANGED <<provider, launching, polling, gen, owed, closing,
                 sends, slips, shed, disowned, acked, endings>>

StopEnds ==
  /\ stop = "sweep" /\ toStop = {} /\ toDrop = {} /\ stop' = "idle"
  /\ UNCHANGED <<provider, launching, ledger, polling, gen, toStop, toDrop, owed, closing,
                 history, bounds>>

StopStep == StopLists \/ StopFails \/ StopEnds \/ \E l \in Launches : StopStops(l) \/ StopDrops(l)

\* _stop_daemon_services cancels the launches, with no new generation.
Shutdown ==
  /\ ~closing /\ restarts < MaxRestarts /\ closing' = TRUE /\ KillsLaunches
  /\ cutOff' = cutOff \cup AtWork
  /\ UNCHANGED <<provider, pc, kind, lgen, ledger, polling, stopping, owed, bounds,
                 sends, slips, dismissed, shed, kept, disowned, acked, interrupted, lost>>

\* The process ends, after a shutdown or by a crash, and starts again.  What
\* it was doing is not resumed.
Restart ==
  /\ restarts < MaxRestarts /\ restarts' = restarts + 1
  /\ IF poll = "sent" THEN Slips ELSE UNCHANGED slips
  /\ lost' = lost \cup (AtWork \ records)
  /\ pc' = [l \in Launches |-> IF Settled(l) THEN pc[l] ELSE "done"]
  /\ killed' = Falses /\ lgen' = Zeroes
  /\ PassFails
  /\ gen' = 0 /\ stop' = "idle" /\ toStop' = {} /\ toDrop' = {} /\ closing' = FALSE
  /\ UNCHANGED <<provider, kind, ledger, owed, sends, dismissed, shed, kept, disowned,
                 acked, interrupted, cutOff, stops, faults, blocks, owes>>

-------------------------------------------------------------------------------
Next ==
  \/ \E l \in Launches : \/ \E k \in Kinds : LaunchBegins(l, k)
                         \/ HandshakeFails(l) \/ LaunchStep(l)
                         \/ ProviderStarts(l) \/ ProviderMoves(l)
  \/ ReplyOwed \/ ReplySent
  \/ PollStep
  \/ StopSignals \/ StopStep \/ Shutdown \/ Restart

Spec == Init /\ [][Next]_vars

\* Launches, the poll and /stop go on, a reply is sent, a shutdown ends, and
\* the provider answers a launch.
Fairness ==
  /\ \A l \in Launches : WF_vars(LaunchStep(l)) /\ WF_vars(ProviderStarts(l))
  /\ WF_vars(PollStep) /\ WF_vars(StopStep) /\ WF_vars(ReplySent)
  /\ WF_vars(closing /\ Restart)
FairSpec == Spec /\ Fairness
-------------------------------------------------------------------------------
(* What the owner can rely on.                                              *)

\* When its launch is over, a task runs on outside the ledger only where the
\* provider or the file refused to stop it, a message or a line in the log gave
\* it up, or the bot never had the means to: the process ended first, or a
\* cancelled handshake gave no id.  One case is left, and goes unsaid: a task
\* that the foreground run started by itself, and whose registration a /stop or
\* a shutdown met.
RunsKnown ==
  \A l \in Launches : pc[l] = "done" /\ provider[l] \in Running =>
    \/ l \in records \cup kept \cup disowned \cup lost
    \/ kind[l] = "found" /\ l \in interrupted \cup cutOff

\* A result that was promised to the user is awaited, was sent, or was withdrawn
\* by a /stop; only the launch of a /bg that a shutdown met, with its message
\* still on the way, takes the promise back by itself.
PromisesHold ==
  \A l \in acked : \/ l \in records \cup dismissed \/ sends[l] > 0
                   \/ kind[l] = "bg" /\ l \in shed \cap cutOff

Accounted == RunsKnown /\ PromisesHold

\* When a /stop is over, nothing launched before it is in the ledger, unless
\* the provider or the file refused.
StopForgetsAll ==
  stop = "idle" => \A l \in records : lgen[l] = gen \/ l \in kept

\* The ledger knows every task that is the bot's but for those exceptions, and
\* none that is older than a /stop which met no refusal.
LedgerIsTrue == Accounted /\ StopForgetsAll

\* A result is sent once, and again only for a removal that did not happen: a
\* failed write, a cancelled delivery or the end of the process.
SentOnce == \A l \in Launches : sends[l] <= slips[l] + 1

\* No notice is begun during a /stop, and no result of a task it removed is
\* sent, although the poll may have read its record before.
StopSilences ==
  [][/\ poll' = "sending" /\ poll # "sending" => stop = "idle"
     /\ \A l \in dismissed \ kept : sends'[l] = sends[l]]_vars

\* Under fair scheduling the result of a tracked task is sent, or the task was
\* withdrawn.
ResultIsSent ==
  \A l \in Launches :
    (l \in records /\ provider[l] \in Over) ~> (sends[l] > 0 \/ l \in dismissed \cup shed)

\* A task that waits for input is reported, unless it goes on.
WaitIsReported ==
  \A l \in Launches :
    (l \in records /\ provider[l] = "blocked")
      ~> (l \in told \/ provider[l] # "blocked" \/ l \notin records)

\* A /stop ends, although it waits for launches, a delivery and locks.
StopsEnd == stop # "idle" ~> stop = "idle"

\* Results, questions and /stop all come to their end.
NothingHangs == ResultIsSent /\ WaitIsReported /\ StopsEnd

\* Where each launch, record and notice is, in terms of the provider.
ProviderInv ==
  /\ \A l \in Launches : pc[l] \in {"idle", "queue"} => provider[l] = "none"
  /\ \A l \in Launches : pc[l] \in Identified => provider[l] # "none"
  /\ \A l \in records \cup toStop : provider[l] # "none"
  /\ \A l \in staged \cup toDrop : provider[l] \in Over
  /\ \A e \in todo : provider[e[1]] # "none" /\ (e[2] => provider[e[1]] \in Over)
  /\ \A l \in Launches : pc[l] = "forget" => provider[l] \in Over
  /\ Checking => provider[cur] # "none"
  /\ poll = "stage" \/ (poll \in InDelivery \cup {"open"} /\ notice = "result") =>
       provider[cur] \in Over

\* A record is made once, and what is gone from the ledger is accounted for.
RecordInv ==
  /\ \A l \in Launches : pc[l] \in Unrecorded =>
       l \notin records \cup dismissed \cup shed /\ sends[l] = 0
  /\ records \cap (dismissed \cup shed) = {}
  /\ \A l \in Launches : pc[l] \in {"written", "ack", "acking", "done"} =>
       \/ provider[l] \notin Running \/ l \in records \cup kept \cup disowned \cup lost
       \/ pc[l] = "done" /\ kind[l] = "found" /\ l \in interrupted \cup cutOff
  /\ \A l \in Launches : l \in acked \/ pc[l] \in {"written", "ack", "acking"} =>
       l \in records \cup dismissed \cup shed \/ sends[l] > 0

\* A launch is cancelled by whoever met it at work, and only one whose message
\* is still on the way can take its promise back.
CancelInv ==
  /\ \A l \in Launches : lgen[l] <= gen
  /\ \A l \in Launches : Settled(l) => ~killed[l]
  /\ \A l \in AtWork : lgen[l] # gen => l \in interrupted
  /\ \A l \in Launches : killed[l] /\ lgen[l] = gen => l \in cutOff
  /\ \A l \in Launches : pc[l] \in {"cleanup", "forget"} => Overtaken(l)
  /\ shed \subseteq cutOff /\ \A l \in shed : pc[l] = "done"
  /\ \A l \in Launches : kind[l] # "bg" =>
       pc[l] \notin {"ack", "acking"} /\ (l \in acked => pc[l] = "done" /\ l \notin shed)

\* What the delivery holds, and what it has counted.
DeliveryInv ==
  /\ Checking => cur \in Launches
  /\ poll \in {"sending", "sent"} /\ notice = "result" =>
       cur \in records \cup dismissed \cup shed
  /\ poll = "sent" /\ notice = "result" => sends[cur] > 0
  /\ poll = "sending" /\ notice = "result" => sends[cur] <= slips[cur]
  /\ \A l \in records : sends[l] <= slips[l] \/ (poll = "sent" /\ notice = "result" /\ cur = l)

\* A /stop silences the delivery, and leaves nothing that is older than it.
StopInv ==
  /\ poll \in InDelivery /\ stop # "idle" => dkilled /\ stop = "settle"
  /\ poll = "sending" /\ ~dkilled => cur \notin dismissed \ kept
  /\ stop = "sweep" => \A l \in Launches : pc[l] # "written"
  /\ \A l \in records :
       \/ lgen[l] = gen \/ l \in kept \/ stop = "settle"
       \/ stop = "sweep" /\ l \in toStop \cup toDrop
  /\ stop # "sweep" => toStop = {} /\ toDrop = {}

\* The inductive invariant.
DetachedInv ==
  TypeOK /\ ProviderInv /\ RecordInv /\ CancelInv /\ DeliveryInv /\ StopInv /\ SentOnce

\* What has become of each task.
TaskPhase ==
  [l \in Launches |->
     IF l \in dismissed \cup shed THEN "withdrawn"
     ELSE IF l \in records THEN (IF sends[l] > 0 THEN "told" ELSE "tracked")
     ELSE IF sends[l] > 0 THEN "closed" ELSE "new"]

Abstract == INSTANCE TaskNotices WITH Tasks <- Launches, phase <- TaskPhase

\* The ledger, the poll and /stop implement TaskNotices: a tracked task stays
\* tracked until its result was sent or it was withdrawn, and both are final.
KeepsNotices == Abstract!Notices
===============================================================================
