------------------------------- MODULE TurnQueue -------------------------------
(***************************************************************************)
(* The per-owner job queue of a Cozter chat bot (backends_bot/base.py): one *)
(* owner's queue, its single FIFO consumer, the checkpointed turn, the      *)
(* ledger of staged replies with its two delivery paths, /stop, the retry   *)
(* poll, the update gate and process restarts.                              *)
(*                                                                          *)
(* Everything a bot does for one owner runs on one event loop, so a step    *)
(* here is the code between two awaits, or one durable file operation       *)
(* together with the synchronous code that follows it.  The queue file lock *)
(* and the ledger file lock are only held inside such a step, with one      *)
(* exception that is visible: an admission holds the queue file lock from   *)
(* its commit until it has published the entry in memory.                   *)
(***************************************************************************)
EXTENDS Integers, Sequences, FiniteSets, QueueOps

CONSTANTS
  Jobs,        \* identities of the requests that may arrive
  Schedules,   \* those admitted by the scheduler (ephemeral entries)
  Injects,     \* those that arrive through /inject
  Asks,        \* those whose reply carries an [[await]] marker in a text event
               \* that is not its last
  Chats,       \* the chats the owner writes from
  ChatOf,      \* the chat of each request
  Revocable,   \* the chats that may lose their authorization at a restart
  Stops,       \* invocations of /stop or /cancel
  SlowStop,    \* may /stop find uploads or task handoffs to wait for?
  Capacity,    \* max_queue_size
  NoJob,
  MaxRestarts, MaxFaults, MaxUpdates, MaxUnfinished  \* bounds

ASSUME TurnQueueAssumption ==
  /\ Schedules \subseteq Jobs
  /\ Injects \subseteq Jobs \ Schedules
  /\ Asks \subseteq Jobs
  /\ ChatOf \in [Jobs -> Chats]
  /\ Revocable \subseteq Chats
  /\ SlowStop \in BOOLEAN
  /\ Capacity \in Nat \ {0}
  /\ NoJob \notin Jobs
  /\ MaxRestarts \in Nat /\ MaxFaults \in Nat
  /\ MaxUpdates \in Nat /\ MaxUnfinished \in Nat

VARIABLES
  disk,       \* queue file: the owner's entries, oldest first
  ckpt,       \* queue file: state of each entry's job checkpoint
  ledger,     \* reply ledger: jobs whose final reply is staged
  mem,        \* _message_queues[uid]
  paused,     \* uid \in _paused_jobs
  awaiting,   \* uid \in _awaiting_answer
  pending,    \* uid \in _pending_reply_delivery_users
  con,        \* where the consumer task is
  cur,        \* _active_queue_entries[uid]
  killed,     \* the consumer task has an undelivered cancel()
  request,    \* uid \in _queue_drain_requests
  snd,        \* where the handler of each inbound request is
  sgen,       \* the cancel generation that handler captured
  swait,      \* cmd_inject's was_awaiting
  gen,        \* _cancel_generations[uid]
  stop,       \* where each /stop invocation is
  dlv,        \* the foreground delivery task and the recovery poll's
  claim,      \* job claimed by the retry poll, still holding admission
  claimGen,   \* the generation that poll captured
  restarting, \* _update_restart_pending
  auth,       \* the chats authorized() accepts
  accepted,   \* history: requests whose admission committed
  answered,   \* history: jobs whose reply was ever staged
  outcome,    \* history: how the bot got rid of each job
  restarts, faults, updates, unfinished   \* how often the bounded events happened

durable  == <<disk, ckpt, ledger>>
flags    == <<paused, awaiting, pending>>
consumer == <<con, cur, killed, request>>
senders  == <<snd, sgen, swait>>
stopping == <<gen, stop>>
retry    == <<claim, claimGen>>
history  == <<accepted, answered, outcome>>
bounds   == <<restarts, faults, updates, unfinished>>
vars == <<durable, mem, flags, consumer, senders, stopping, dlv, retry,
          restarting, auth, history, bounds>>

CkptStates == {"fresh", "running", "paused", "waiting"}
\* Where the consumer is while it owns a turn (a row in _running_tasks).
TurnAt == {"load", "save", "pin", "work", "more", "block", "retry", "stage",
           "deliver", "complete", "notice", "retain", "failSave", "failRetain",
           "failNotice"}
SenderAt  == {"idle", "guide", "admit", "committed", "promote", "ack", "done"}
StopAt    == {"idle", "settle", "clear", "replies", "done"}
Deliverer == {"turn", "poll"}
DeliveryAt == {"off", "lock", "input", "send", "remove", "discard"}
Outcomes  == {"open", "delivered", "stopped", "dropped"}
Off == [at |-> "off", job |-> NoJob]

QueuesOK ==
  /\ disk \in Seq(Jobs) /\ NoRepeat(disk)
  /\ mem \in Seq(Jobs) /\ NoRepeat(mem)
  /\ ckpt \in [Jobs -> CkptStates]
  /\ ledger \subseteq Jobs
FlagsOK == paused \in BOOLEAN /\ awaiting \in BOOLEAN /\ pending \in BOOLEAN
ConsumerOK ==
  /\ con \in TurnAt \cup {"off", "loop"} /\ cur \in Jobs \cup {NoJob}
  /\ killed \in BOOLEAN /\ request \in BOOLEAN
SendersOK ==
  snd \in [Jobs -> SenderAt] /\ sgen \in [Jobs -> Nat] /\ swait \in [Jobs -> BOOLEAN]
StoppingOK == gen \in Nat /\ stop \in [Stops -> StopAt]
DeliveriesOK == dlv \in [Deliverer -> [at : DeliveryAt, job : Jobs \cup {NoJob}]]
RetryOK == claim \in Jobs \cup {NoJob} /\ claimGen \in Nat
GateOK == restarting \in BOOLEAN /\ auth \subseteq Chats
HistoryOK == accepted \subseteq Jobs /\ answered \subseteq Jobs /\ outcome \in [Jobs -> Outcomes]
BoundsOK == /\ restarts \in 0..MaxRestarts /\ faults \in 0..MaxFaults
            /\ updates \in 0..MaxUpdates /\ unfinished \in 0..MaxUnfinished

TypeOK == /\ QueuesOK /\ FlagsOK /\ ConsumerOK /\ SendersOK /\ StoppingOK
          /\ DeliveriesOK /\ RetryOK /\ GateOK /\ HistoryOK /\ BoundsOK

Init ==
  /\ disk = <<>> /\ mem = <<>> /\ ledger = {}
  /\ ckpt = [j \in Jobs |-> "fresh"]
  /\ paused = FALSE /\ awaiting = FALSE /\ pending = FALSE
  /\ con = "off" /\ cur = NoJob /\ killed = FALSE /\ request = FALSE
  /\ snd = [j \in Jobs |-> "idle"]
  /\ sgen = [j \in Jobs |-> 0] /\ swait = [j \in Jobs |-> FALSE]
  /\ gen = 0 /\ stop = [s \in Stops |-> "idle"]
  /\ dlv = [d \in Deliverer |-> Off]
  /\ claim = NoJob /\ claimGen = 0
  /\ restarting = FALSE /\ auth = Chats
  /\ accepted = {} /\ answered = {} /\ outcome = [j \in Jobs |-> "open"]
  /\ restarts = 0 /\ faults = 0 /\ updates = 0 /\ unfinished = 0

-------------------------------------------------------------------------------
(* What the steps are made of.                                              *)

OnDisk == ToSet(disk)
InMem  == ToSet(mem)

\* A turn holds the owner's task lock and its row in _running_tasks.
TurnRunning == con \in TurnAt

\* Mutant: the depth is not given back when a cancellation ends.
CancelDepthLeaks == \E s \in Stops : stop[s] # "idle"
\* _cancel_work_depths[uid] is positive.
Cancelling == \E s \in Stops : stop[s] \in {"settle", "clear", "replies"}

\* Mutant: /stop clears without the admission lock.
AdmissionUnlocked == claim = NoJob /\ \A j \in Jobs : snd[j] # "committed"
\* The dispatch-admission lock; admissions, /stop's clear and retry claims take it.
AdmissionFree ==
  /\ \A j \in Jobs : snd[j] # "committed"
  /\ \A s \in Stops : stop[s] \notin {"clear", "replies"}
  /\ claim = NoJob

\* The queue file lock is granted in the order it is asked for.  An admission
\* holds it until it has published; the promotion of an answer asks for it in
\* the step that publishes, and a /stop in the step that empties the queue in
\* memory, so whoever asks later is served after them.
QueueFileQuiet == \A j \in Jobs : snd[j] \notin {"committed", "promote"}
QueueFileOpen == QueueFileQuiet /\ \A s \in Stops : stop[s] # "clear"

\* A /stop that has no upload or handoff to settle has asked for the admission
\* lock in the step that signalled.  That lock is granted in order too, so the
\* /stop precedes every later admission, and it asks for the queue file right
\* after the holder's operation, before anything that is still to be asked for.
StopIsNext == ~SlowStop /\ \E s \in Stops : stop[s] = "settle"
QueueFileFree == QueueFileOpen /\ ~StopIsNext

\* Mutant: a wake during a turn is forgotten.
StartDrainForgets(held) ==
  IF held \/ con # "off" THEN UNCHANGED <<con, request>>
  ELSE con' = "loop" /\ request' = FALSE

\* _start_queue_drain, given the value of `paused' at that point.
StartDrain(held) ==
  IF held THEN UNCHANGED <<con, request>>
  ELSE IF con = "off" THEN con' = "loop" /\ request' = FALSE
  ELSE request' = TRUE /\ UNCHANGED con

\* The consumer task ends; its done callback owns a wake that came meanwhile.
ConsumerEnds(held) ==
  /\ con' = IF request /\ ~held THEN "loop" ELSE "off"
  /\ request' = FALSE
  /\ cur' = NoJob /\ killed' = FALSE

\* The consumer returns to the top of its loop; _cleanup_turn has run.
NextTurn == con' = "loop" /\ cur' = NoJob /\ killed' = FALSE /\ UNCHANGED request

At(pc) == con = pc /\ ~killed
Goto(pc) == con' = pc /\ UNCHANGED <<cur, killed, request>>

\* The next entry an idle consumer may take; while an answer is awaited only
\* scheduled entries are runnable.
Runnable == IF awaiting THEN InMem \cap Schedules ELSE InMem

\* _persist_complete: the entry leaves the queue file with its checkpoint.
PersistComplete(j) ==
  /\ disk' = Without(disk, j)
  /\ ckpt' = [ckpt EXCEPT ![j] = "fresh"]

\* _save_job_checkpoint of an entry that is still in the queue file.
SaveCheckpoint(j, state) ==
  /\ disk' = Promoted(disk, j)
  /\ ckpt' = [ckpt EXCEPT ![j] = state]

Fault == faults < MaxFaults /\ faults' = faults + 1
         /\ UNCHANGED <<restarts, updates, unfinished>>
-------------------------------------------------------------------------------
(* Inbound requests: _dispatch_ai, cmd_inject, _admit_schedule.             *)

Leaves(m) == /\ snd' = [snd EXCEPT ![m] = "done"]
             /\ swait' = [swait EXCEPT ![m] = FALSE] /\ UNCHANGED sgen
Sender(m, pc) == snd' = [snd EXCEPT ![m] = pc] /\ UNCHANGED <<sgen, swait>>

\* A handler starts: it captures the cancel generation, and /inject also
\* whether the owner is awaiting.  /inject refuses when no turn is active.
Arrive(m) ==
  /\ snd[m] = "idle" /\ ChatOf[m] \in auth
  /\ IF m \in Injects /\ ~TurnRunning /\ ~pending
     THEN Leaves(m)
     ELSE /\ snd' = [snd EXCEPT ![m] =
               IF paused /\ m \notin Schedules \cup Injects THEN "guide" ELSE "admit"]
          /\ sgen' = [sgen EXCEPT ![m] = gen]
          /\ swait' = [swait EXCEPT ![m] = awaiting /\ m \in Injects]
  /\ UNCHANGED <<durable, mem, flags, consumer, stopping, dlv, retry,
                 restarting, auth, history, bounds>>

\* _resume_paused_job: guidance for the unfinished job at the durable head.
Guides(m) == /\ sgen[m] = gen /\ disk # <<>>
             /\ ChatOf[Head(disk)] = ChatOf[m]
             /\ ckpt[Head(disk)] \in {"paused", "waiting"}
Guide(m) ==
  /\ snd[m] = "guide" /\ AdmissionFree /\ QueueFileFree
  /\ \/ /\ Guides(m)
        /\ ckpt' = [ckpt EXCEPT ![Head(disk)] = "running"]
        /\ paused' = FALSE /\ awaiting' = FALSE
        /\ StartDrain(FALSE)
        /\ Leaves(m)
     \/ /\ ~Guides(m)
        /\ Sender(m, "admit")
        /\ UNCHANGED <<ckpt, paused, awaiting, con, request>>
  /\ UNCHANGED <<disk, ledger, mem, pending, cur, killed, stopping, dlv, retry,
                 restarting, auth, history, bounds>>

\* _admit_queue_entry up to the commit: refused after a /stop or when the
\* waiting queue is full, otherwise the entry is durable.
Admit(m) ==
  /\ snd[m] = "admit" /\ AdmissionFree
  /\ sgen[m] = gen => ~StopIsNext
  /\ IF sgen[m] # gen \/ Len(mem) >= Capacity
     THEN Leaves(m) /\ UNCHANGED <<disk, accepted>>
     ELSE /\ Sender(m, "committed")
          /\ disk' = Append(disk, m) /\ accepted' = accepted \cup {m}
  /\ UNCHANGED <<ckpt, ledger, mem, flags, consumer, stopping, dlv, retry,
                 restarting, auth, answered, outcome, bounds>>

\* Does the admitted request answer the pause?  cmd_inject asks its earlier
\* reading as well, _admit_schedule does not ask.
AnswersAwait(m) == awaiting /\ m \notin Schedules /\ (m \in Injects => swait[m])

\* The commit returns: publish(), and the synchronous part of
\* _resume_awaiting_answer.  A generation that moved on publishes nothing.
Publish(m) ==
  /\ snd[m] = "committed"
  /\ IF sgen[m] # gen
     THEN Leaves(m) /\ UNCHANGED <<mem, awaiting>>
     ELSE LET queue == IF cur = m THEN mem ELSE Enqueued(mem, m) IN
          /\ mem' = IF AnswersAwait(m) THEN Promoted(queue, m) ELSE queue
          /\ awaiting' = (awaiting /\ ~AnswersAwait(m))
          /\ Sender(m, IF AnswersAwait(m) THEN "promote" ELSE "ack")
  /\ UNCHANGED <<durable, paused, pending, consumer, stopping, dlv, retry,
                 restarting, auth, history, bounds>>

\* Mutant: the answer is promoted in memory only.
PromotesMemoryOnly(m) ==
  /\ snd[m] = "promote" /\ Sender(m, "ack")
  /\ UNCHANGED <<durable, mem, flags, consumer, stopping, dlv, retry,
                 restarting, auth, history, bounds>>

\* _persist_promote
PersistPromote(m) ==
  /\ snd[m] = "promote"
  /\ disk' = Promoted(disk, m)
  /\ Sender(m, "ack")
  /\ UNCHANGED <<ckpt, ledger, mem, flags, consumer, stopping, dlv, retry,
                 restarting, auth, history, bounds>>

\* The handler has replied; it wakes the consumer unless a /stop came between.
Ack(m) ==
  /\ snd[m] = "ack"
  /\ IF sgen[m] = gen THEN StartDrain(paused) ELSE UNCHANGED <<con, request>>
  /\ Leaves(m)
  /\ UNCHANGED <<durable, mem, flags, cur, killed, stopping, dlv, retry,
                 restarting, auth, history, bounds>>

-------------------------------------------------------------------------------
(* The consumer: _drain_message_queue and the turn it runs.                 *)

\* Mutant: the loop does not ask for a staged reply.
HeldUnlessAnswered == restarting \/ paused
\* The checks at the top of the loop: nothing may start.
Held == pending \/ restarting \/ paused

DrainEnds ==
  /\ At("loop") /\ (Held \/ Runnable = {})
  /\ ConsumerEnds(paused)
  /\ UNCHANGED <<durable, mem, flags, senders, stopping, dlv, retry,
                 restarting, auth, history, bounds>>

\* The consumer pops an entry; one from a chat no longer authorized is dropped.
Pop ==
  /\ At("loop") /\ ~Held /\ Runnable # {}
  /\ LET j == FirstIn(mem, Runnable) IN
     /\ mem' = Without(mem, j)
     /\ \/ /\ ChatOf[j] \in auth
           /\ con' = "load" /\ cur' = j /\ UNCHANGED <<durable, outcome>>
        \/ /\ ChatOf[j] \notin auth /\ QueueFileOpen
           /\ PersistComplete(j)
           /\ outcome' = [outcome EXCEPT ![j] = IF j \in OnDisk THEN "dropped" ELSE @]
           /\ UNCHANGED <<con, cur, ledger>>
  /\ UNCHANGED <<flags, killed, request, senders, stopping, dlv, retry,
                 restarting, auth, accepted, answered, bounds>>

\* _load_job_checkpoint at the start of a turn.  A paused job stays paused; a
\* scheduled entry without its checkpoint has no workspace to run in.  The read
\* was asked for in the step that popped the entry.
Load ==
  /\ At("load") /\ QueueFileOpen
  /\ \/ /\ cur \in OnDisk => ckpt[cur] \notin {"paused", "waiting"}
        /\ cur \in Schedules => cur \in OnDisk
        /\ Goto("save") /\ UNCHANGED paused
     \/ /\ IF cur \in OnDisk THEN ckpt[cur] \in {"paused", "waiting"}
                              ELSE cur \in Schedules
        /\ paused' = TRUE /\ Goto("retain")
  /\ UNCHANGED <<durable, mem, awaiting, pending, senders, stopping, dlv, retry,
                 restarting, auth, history, bounds>>

\* One _save_job_checkpoint of the running turn: what follows it, and what
\* follows when the entry is gone.
Saves(state, next, missing) ==
  /\ QueueFileFree
  /\ IF cur \in OnDisk THEN SaveCheckpoint(cur, state) /\ Goto(next)
                        ELSE Goto(missing) /\ UNCHANGED <<disk, ckpt>>
  /\ UNCHANGED <<ledger, mem, awaiting, pending, senders, stopping, dlv, retry,
                 restarting, auth, history, bounds>>

\* The top of _run_turn's loop.
SaveRunning == At("save") /\ Saves("running", "pin", "retain") /\ UNCHANGED paused

\* session_ready: the agent has chosen its session; a missing entry cancels
\* the turn from inside.
PinSession ==
  /\ At("pin") /\ UNCHANGED <<paused, ledger, mem, awaiting, pending, senders,
                   stopping, dlv, retry, restarting, auth, history, bounds>>
  /\ QueueFileFree
  /\ IF cur \in OnDisk THEN SaveCheckpoint(cur, "running") /\ Goto("work")
                        ELSE ConsumerEnds(paused) /\ UNCHANGED <<disk, ckpt>>

\* agent.run returns: a complete answer, or one of the unfinished results.
\* An automatic retry pauses the owner before it saves the checkpoint.
Work ==
  /\ At("work")
  /\ \/ Goto("stage") /\ UNCHANGED <<paused, unfinished>>
     \/ /\ unfinished < MaxUnfinished /\ unfinished' = unfinished + 1
        /\ \E next \in {"more", "block", "retry"} :
             Goto(next) /\ paused' = (paused \/ next = "retry")
  /\ UNCHANGED <<durable, mem, awaiting, pending, senders, stopping, dlv, retry,
                 restarting, auth, history, restarts, faults, updates>>

\* Progress is saved; the same job goes on unless an update is waiting.
SaveMore == At("more") /\ Saves("running", IF restarting THEN "retain" ELSE "save", "retain")
            /\ UNCHANGED paused

\* The job needs guidance: saved as paused, then the owner is held.
SaveBlocked == /\ At("block") /\ Saves("paused", "notice", "retain")
               /\ paused' = (paused \/ cur \in OnDisk)

\* The job waits for its retry time.
SaveWaiting == At("retry") /\ Saves("waiting", "retain", "retain") /\ UNCHANGED paused

\* Mutant: a job left for guidance counts as completed.
NoticeCompletes ==
  /\ At("notice") /\ Goto("complete")
  /\ UNCHANGED <<durable, mem, flags, senders, stopping, dlv, retry,
                 restarting, auth, history, bounds>>

\* The pause notice has been sent.
Notice == /\ At("notice") /\ Goto("retain")
          /\ UNCHANGED <<durable, mem, flags, senders, stopping, dlv, retry,
                         restarting, auth, history, bounds>>

\* Where a /stop has first waited for something else, a read it overlaps may
\* have been served before the clear and put the entry back after the drain.
RetainReads == IF SlowStop THEN QueueFileQuiet ELSE QueueFileFree

\* _retain_job_entry, then back to the top of the loop.
Retain ==
  /\ At("retain") /\ RetainReads
  /\ mem' = IF cur \in OnDisk THEN PutFirst(mem, cur) ELSE mem
  /\ NextTurn
  /\ UNCHANGED <<durable, flags, senders, stopping, dlv, retry,
                 restarting, auth, history, bounds>>

\* _stage_reply_delivery, and _deliver_staged_reply up to its first await.
Stage ==
  /\ At("stage")
  /\ ledger' = ledger \cup {cur}
  /\ pending' = (pending \/ cur \notin ledger)
  /\ answered' = answered \cup {cur}
  /\ IF ~Cancelling
     THEN /\ dlv' = [dlv EXCEPT !["turn"] = [at |-> "lock", job |-> cur]]
          /\ Goto("deliver") /\ UNCHANGED paused
     ELSE Goto("complete") /\ paused' = FALSE /\ UNCHANGED dlv
  /\ UNCHANGED <<disk, ckpt, mem, awaiting, senders, stopping, retry,
                 restarting, auth, accepted, outcome, bounds>>

\* The delivery task this turn was awaiting has ended.
Delivered ==
  /\ At("deliver") /\ dlv["turn"] = Off
  /\ Goto("complete") /\ paused' = FALSE
  /\ UNCHANGED <<durable, mem, awaiting, pending, senders, stopping, dlv, retry,
                 restarting, auth, history, bounds>>

\* _persist_complete of a turn that returned True.
Complete ==
  /\ At("complete") /\ QueueFileFree
  /\ PersistComplete(cur)
  /\ NextTurn
  /\ UNCHANGED <<ledger, mem, flags, senders, stopping, dlv, retry,
                 restarting, auth, history, bounds>>
\* A cancel() reaches the consumer at its next await, wherever it is.
Cancelled ==
  /\ TurnRunning /\ killed
  /\ ConsumerEnds(paused)
  /\ UNCHANGED <<durable, mem, flags, senders, stopping, dlv, retry,
                 restarting, auth, history, bounds>>

-------------------------------------------------------------------------------
(* Failures of the turn.                                                    *)

\* The workspace directory is missing: the job is saved as paused.
WorkspaceLost ==
  /\ At("load") /\ Fault
  /\ QueueFileFree
  /\ IF cur \in OnDisk THEN SaveCheckpoint(cur, "paused") ELSE UNCHANGED <<disk, ckpt>>
  /\ paused' = TRUE /\ Goto("retain")
  /\ UNCHANGED <<ledger, mem, awaiting, pending, senders, stopping, dlv, retry,
                 restarting, auth, history>>

\* The turn raises (a file operation, the agent): _pause_job_after_failure.
TurnFails ==
  /\ con \in {"load", "save", "pin", "work", "more", "block", "retry", "stage"}
  /\ ~killed /\ Fault
  /\ paused' = TRUE /\ Goto("failSave")
  /\ UNCHANGED <<durable, mem, awaiting, pending, senders, stopping, dlv, retry,
                 restarting, auth, history>>

\* It saves the job as paused; a write that fails is only logged.
FailSave ==
  /\ At("failSave") /\ QueueFileFree
  /\ \/ /\ IF cur \in OnDisk THEN SaveCheckpoint(cur, "paused")
                             ELSE UNCHANGED <<disk, ckpt>>
        /\ Goto("failRetain") /\ UNCHANGED bounds
     \/ /\ Fault /\ Goto("failNotice") /\ UNCHANGED <<disk, ckpt>>
  /\ UNCHANGED <<ledger, mem, flags, senders, stopping, dlv, retry,
                 restarting, auth, history>>

\* Then it retains the job, which may fail as well.
FailRetain ==
  /\ At("failRetain") /\ RetainReads
  /\ \/ /\ mem' = IF cur \in OnDisk THEN PutFirst(mem, cur) ELSE mem
        /\ UNCHANGED bounds
     \/ Fault /\ UNCHANGED mem
  /\ Goto("failNotice")
  /\ UNCHANGED <<durable, flags, senders, stopping, dlv, retry,
                 restarting, auth, history>>

\* The failure notice has been sent; the loop looks at the queue again.
FailNotice ==
  /\ At("failNotice") /\ NextTurn
  /\ UNCHANGED <<durable, mem, flags, senders, stopping, dlv, retry,
                 restarting, auth, history, bounds>>

\* A queue file error in _persist_complete or _retain_job_entry ends the
\* consumer task; only a wake that was already requested restarts it.
ConsumerDies ==
  /\ con \in {"complete", "retain"} /\ ~killed /\ Fault
  /\ ConsumerEnds(paused)
  /\ UNCHANGED <<durable, mem, flags, senders, stopping, dlv, retry,
                 restarting, auth, history>>

-------------------------------------------------------------------------------
(* Delivery of staged replies: the turn's own task, and the recovery poll.  *)

\* _check_reply_deliveries picks a record it has listed.
PollReply ==
  /\ dlv["poll"] = Off /\ ~Cancelling
  /\ \E j \in ledger : dlv' = [dlv EXCEPT !["poll"] = [at |-> "lock", job |-> j]]
  /\ UNCHANGED <<durable, mem, flags, consumer, senders, stopping, retry,
                 restarting, auth, history, bounds>>

\* A delivery that holds the delivery locks.
InTransit == {"input", "send", "remove", "discard"}
Delivering(d, pc) == dlv[d].at = pc
DeliveryEnds(d) == dlv' = [dlv EXCEPT ![d] = Off]
DeliveryGoes(d, pc) == dlv' = [dlv EXCEPT ![d].at = pc]

\* _remove_reply_delivery_record: the last one lifts the owner's hold.
RemoveRecord(j, how) ==
  /\ ledger' = ledger \ {j}
  /\ pending' = IF ledger' = {} /\ j \in ledger THEN FALSE ELSE pending
  /\ outcome' = [outcome EXCEPT ![j] = IF j \in ledger THEN how ELSE @]

\* Mutant: the two paths do not share a lock.
DeliversUnlocked(d) ==
  /\ Delivering(d, "lock")
  /\ \/ dlv[d].job \notin ledger /\ DeliveryEnds(d)
     \/ dlv[d].job \in ledger /\ DeliveryGoes(d, "input")
  /\ UNCHANGED <<durable, mem, flags, consumer, senders, stopping, retry,
                 restarting, auth, history, bounds>>
\* The delivery locks are free: re-read the record.
DeliveryLocks(d) ==
  /\ Delivering(d, "lock")
  /\ \A e \in Deliverer : dlv[e].at \notin InTransit
  /\ \/ dlv[d].job \notin ledger /\ DeliveryEnds(d)
     \/ dlv[d].job \in ledger /\ DeliveryGoes(d, "input")
  /\ UNCHANGED <<durable, mem, flags, consumer, senders, stopping, retry,
                 restarting, auth, history, bounds>>

\* _complete_reply_input: the prompt is consumed before its reply is sent, or
\* discarded where its chat is no longer authorized.
DeliveryInput(d) ==
  /\ Delivering(d, "input") /\ QueueFileFree
  /\ PersistComplete(dlv[d].job) /\ mem' = Without(mem, dlv[d].job)
  /\ DeliveryGoes(d, IF ChatOf[dlv[d].job] \in auth THEN "send" ELSE "discard")
  /\ UNCHANGED <<ledger, flags, consumer, senders, stopping, retry,
                 restarting, auth, history, bounds>>

\* The record of the chat no longer authorized goes after its prompt.
DeliveryDiscards(d) ==
  /\ Delivering(d, "discard")
  /\ RemoveRecord(dlv[d].job, "dropped")
  /\ DeliveryEnds(d)
  /\ UNCHANGED <<disk, ckpt, mem, paused, awaiting, consumer, senders, stopping,
                 retry, restarting, auth, accepted, answered, bounds>>

\* The reply is out; _arm_awaiting_answer honours [[await]] unless ordinary
\* requests are queued.
DeliverySend(d) ==
  /\ Delivering(d, "send")
  /\ awaiting' = \/ awaiting
                 \/ dlv[d].job \in Asks \ Schedules /\ InMem \subseteq Schedules
  /\ DeliveryGoes(d, "remove")
  /\ UNCHANGED <<durable, mem, paused, pending, consumer, senders, stopping, retry,
                 restarting, auth, history, bounds>>

\* Mutant: nobody wakes the owner's consumer.
RemovesQuietly(d) ==
  /\ Delivering(d, "remove")
  /\ RemoveRecord(dlv[d].job, "delivered")
  /\ DeliveryEnds(d)
  /\ UNCHANGED <<disk, ckpt, mem, paused, awaiting, consumer, senders, stopping,
                 retry, restarting, auth, accepted, answered, bounds>>
\* The record goes, then the owner's consumer is woken.
DeliveryRemoves(d) ==
  /\ Delivering(d, "remove")
  /\ RemoveRecord(dlv[d].job, "delivered")
  /\ StartDrain(paused)
  /\ DeliveryEnds(d)
  /\ UNCHANGED <<disk, ckpt, mem, paused, awaiting, cur, killed, senders, stopping,
                 retry, restarting, auth, accepted, answered, bounds>>

\* A file operation or the platform refuses: the record is retained.
DeliveryFails(d) ==
  /\ dlv[d].at \in InTransit /\ Fault
  /\ DeliveryEnds(d)
  /\ UNCHANGED <<durable, mem, flags, consumer, senders, stopping, retry,
                 restarting, auth, history>>

-------------------------------------------------------------------------------
(* /stop and /cancel: _cancel_user_work.                                    *)

\* Mutant: the turn is not cancelled.
SignalsDeliveriesOnly ==
  /\ gen' = gen + 1 /\ UNCHANGED killed
  /\ dlv' = [d \in Deliverer |-> Off]

\* Before its first await: a new generation, a cancel() for the running turn
\* and for the deliveries.
StopSignals ==
  /\ gen' = gen + 1
  /\ killed' = (killed \/ TurnRunning)
  /\ dlv' = [d \in Deliverer |-> Off]

\* Holding the admission lock, with uploads and handoffs settled.
StopDrains == mem' = <<>> /\ awaiting' = FALSE

\* Nothing to wait for, the admission lock included: the waiting work goes in
\* the same step.
StopAtOnce(s) ==
  /\ stop[s] = "idle" /\ AdmissionFree /\ ~StopIsNext
  /\ StopSignals /\ StopDrains
  /\ stop' = [stop EXCEPT ![s] = "clear"]
  /\ UNCHANGED <<durable, paused, pending, con, cur, request, senders, retry,
                 restarting, auth, history, bounds>>

\* It signals, and then waits: for uploads and task handoffs, for an admission
\* or a retry claim in progress, or for another /stop.
StopBegins(s) ==
  /\ stop[s] = "idle" /\ (SlowStop \/ ~AdmissionFree \/ StopIsNext)
  /\ StopSignals
  /\ stop' = [stop EXCEPT ![s] = "settle"]
  /\ UNCHANGED <<durable, mem, flags, con, cur, request, senders, retry,
                 restarting, auth, history, bounds>>

\* A turn popped meanwhile has asked for its checkpoint before.
StopSettled(s) ==
  /\ stop[s] = "settle" /\ AdmissionFree
  /\ StopIsNext => ~At("load")
  /\ StopDrains
  /\ stop' = [stop EXCEPT ![s] = "clear"]
  /\ UNCHANGED <<durable, paused, pending, consumer, senders, gen, dlv, retry,
                 restarting, auth, history, bounds>>

\* Mutant: the hold of the cleared job is left in place.
ClearsFileOnly ==
  disk' = <<>> /\ ckpt' = [j \in Jobs |-> "fresh"] /\ UNCHANGED paused
\* _clear_persistent_queue
ClearPersistentQueue ==
  disk' = <<>> /\ ckpt' = [j \in Jobs |-> "fresh"] /\ paused' = FALSE

StopClears(s) ==
  /\ stop[s] = "clear"
  /\ ClearPersistentQueue
  /\ outcome' = [j \in Jobs |-> IF j \in OnDisk \ ledger THEN "stopped" ELSE outcome[j]]
  /\ stop' = [stop EXCEPT ![s] = "replies"]
  /\ UNCHANGED <<ledger, mem, awaiting, pending, consumer, senders, gen, dlv, retry,
                 restarting, auth, accepted, answered, bounds>>

\* _clear_reply_deliveries, under the owner's delivery lock; then the
\* invocation is over.
StopClearsReplies(s) ==
  /\ stop[s] = "replies"
  /\ ledger' = {} /\ pending' = FALSE
  /\ outcome' = [j \in Jobs |-> IF j \in ledger THEN "stopped" ELSE outcome[j]]
  /\ stop' = [stop EXCEPT ![s] = "done"]
  /\ UNCHANGED <<disk, ckpt, mem, paused, awaiting, consumer, senders, gen, dlv, retry,
                 restarting, auth, accepted, answered, bounds>>

-------------------------------------------------------------------------------
(* The retry poll, the update gate, restarts.                               *)

\* _check_job_retries: the durable head's retry time has come.
RetryClaims ==
  /\ ~restarting /\ ~pending /\ ~Cancelling
  /\ AdmissionFree /\ QueueFileFree /\ ~TurnRunning
  /\ disk # <<>> /\ ckpt[Head(disk)] = "waiting"
  /\ ckpt' = [ckpt EXCEPT ![Head(disk)] = "running"]
  /\ paused' = FALSE
  /\ claim' = Head(disk) /\ claimGen' = gen
  /\ UNCHANGED <<disk, ledger, mem, awaiting, pending, consumer, senders, stopping,
                 dlv, restarting, auth, history, bounds>>

\* The claimed job is retained in memory and the consumer woken, unless a
\* /stop came between.
RetryWakes ==
  /\ claim # NoJob
  /\ IF claimGen = gen /\ ~Cancelling
     THEN /\ mem' = IF claim \in OnDisk THEN PutFirst(mem, claim) ELSE mem
          /\ IF restarting THEN UNCHANGED <<con, request>> ELSE StartDrain(paused)
     ELSE UNCHANGED <<mem, con, request>>
  /\ claim' = NoJob /\ claimGen' = 0
  /\ UNCHANGED <<durable, flags, cur, killed, senders, stopping, dlv,
                 restarting, auth, history, bounds>>

\* begin_update_restart closes the gate; the consumer finishes its turn.
BeginUpdate ==
  /\ ~restarting /\ updates < MaxUpdates
  /\ restarting' = TRUE /\ updates' = updates + 1
  /\ UNCHANGED <<durable, mem, flags, consumer, senders, stopping, dlv, retry,
                 auth, history, restarts, faults, unfinished>>

\* cancel_update_restart
CancelUpdate ==
  /\ restarting /\ restarting' = FALSE
  /\ StartDrain(paused)
  /\ UNCHANGED <<durable, mem, flags, cur, killed, senders, stopping, dlv, retry,
                 auth, history, bounds>>

\* The process ends, in an orderly way or not, and _start_daemon_services
\* restores the owner before the platform connects.  Chats may have been
\* removed from the configuration meanwhile.
Restart ==
  /\ restarts < MaxRestarts /\ restarts' = restarts + 1
  /\ mem' = disk
  /\ pending' = (ledger # {}) /\ awaiting' = FALSE
  /\ paused' = (disk # <<>> /\ ckpt[Head(disk)] \in {"paused", "waiting"})
  /\ con' = IF disk # <<>> /\ ~paused' THEN "loop" ELSE "off"
  /\ cur' = NoJob /\ killed' = FALSE /\ request' = FALSE
  /\ snd' = [m \in Jobs |-> IF snd[m] = "idle" THEN "idle" ELSE "done"]
  /\ sgen' = [m \in Jobs |-> 0] /\ swait' = [m \in Jobs |-> FALSE]
  /\ gen' = 0
  /\ stop' = [s \in Stops |-> IF stop[s] = "idle" THEN "idle" ELSE "done"]
  /\ dlv' = [d \in Deliverer |-> Off]
  /\ claim' = NoJob /\ claimGen' = 0
  /\ restarting' = FALSE
  /\ \E gone \in SUBSET Revocable : auth' = auth \ gone
  /\ UNCHANGED <<durable, history, faults, updates, unfinished>>

-------------------------------------------------------------------------------
SenderStep(m) == Guide(m) \/ Admit(m) \/ Publish(m) \/ PersistPromote(m) \/ Ack(m)
ConsumerStep ==
  \/ DrainEnds \/ Pop \/ Load \/ SaveRunning \/ PinSession \/ Work \/ SaveMore
  \/ SaveBlocked \/ SaveWaiting \/ Notice \/ Retain \/ Stage \/ Delivered
  \/ Complete \/ Cancelled \/ FailSave \/ FailRetain
  \/ FailNotice
FailureStep == WorkspaceLost \/ TurnFails \/ ConsumerDies
DeliveryStep(d) ==
  \/ DeliveryLocks(d) \/ DeliveryInput(d) \/ DeliverySend(d)
  \/ DeliveryRemoves(d) \/ DeliveryDiscards(d)
StopStep(s) == StopSettled(s) \/ StopClears(s) \/ StopClearsReplies(s)

Next ==
  \/ \E m \in Jobs : Arrive(m) \/ SenderStep(m)
  \/ ConsumerStep \/ FailureStep
  \/ PollReply \/ \E d \in Deliverer : DeliveryStep(d) \/ DeliveryFails(d)
  \/ \E s \in Stops : StopAtOnce(s) \/ StopBegins(s) \/ StopStep(s)
  \/ RetryClaims \/ RetryWakes
  \/ BeginUpdate \/ CancelUpdate \/ Restart

Spec == Init /\ [][Next]_vars

\* Every task the event loop has made ready runs; the polls come round again;
\* an update that found the bot busy gives up its gate.
Fairness ==
  /\ \A m \in Jobs : WF_vars(SenderStep(m))
  /\ WF_vars(ConsumerStep)
  /\ WF_vars(PollReply) /\ \A d \in Deliverer : WF_vars(DeliveryStep(d))
  /\ \A s \in Stops : WF_vars(StopStep(s))
  /\ WF_vars(RetryClaims) /\ WF_vars(RetryWakes)
  /\ WF_vars(CancelUpdate)

FairSpec == Spec /\ Fairness
-------------------------------------------------------------------------------
(* What the queue promises.                                                 *)

\* Nothing is in flight for the owner: no handler, turn, delivery, /stop,
\* retry claim or update gate.
Settled ==
  /\ con = "off" /\ claim = NoJob /\ ~restarting
  /\ \A m \in Jobs : snd[m] \in {"idle", "done"}
  /\ \A s \in Stops : stop[s] \in {"idle", "done"}
  /\ \A d \in Deliverer : dlv[d] = Off

\* A request the bot accepted is never lost, in whatever step it is stopped,
\* fails or the process dies: it is in the queue file, its answer is in the
\* reply ledger, or it was delivered, stopped or dropped.
AcceptedAccounted ==
  \A j \in accepted : j \in OnDisk \cup ledger \/ outcome[j] # "open"

\* Two replies of one owner are never staged together, so the poll has no
\* order to get wrong and a second answer cannot overtake the first.
OneStagedReply == \A i, j \in ledger : i = j

\* A job whose answer has been staged never reaches the agent again, whatever
\* is left of its prompt in the queue file, in memory or with the retry poll.
NoRerunAfterAnswer ==
  [][con' = "work" /\ con # "work" => cur' \notin answered]_vars

\* What /stop discarded is over: no reply to it is delivered afterwards.
StoppedIsFinal ==
  [][\A j \in Jobs : outcome[j] = "stopped" => outcome'[j] = "stopped"]_vars

\* A /stop does not discard what was requested after it.
StopSparesLaterWork ==
  [][\A j \in Jobs : outcome[j] = "open" /\ outcome'[j] = "stopped" => sgen[j] # gen]_vars

\* A /stop discards what came before it for good, and nothing that came after.
StopDiscipline == StoppedIsFinal /\ StopSparesLaterWork

\* No wake is lost: once everything has settled, an owner that is neither
\* paused nor owed a delivery has no waiting work.
NoStranding == Settled /\ ~paused /\ ~pending => mem = <<>>

\* An owner is only held by a job that guidance or the retry poll can resume.
HoldHasItsJob ==
  Settled /\ paused => disk # <<>> /\ ckpt[Head(disk)] \in {"paused", "waiting"}

\* A restart would restore the queue as it is.
RestartParity == Settled /\ ledger = {} => mem = disk

\* The queue at rest has forgotten no wake, holds nobody for nothing, and
\* agrees with its file.
QueueAtRest == NoStranding /\ HoldHasItsJob /\ RestartParity

\* The consumer starts the job at the head of the queue file, so a restart at
\* that moment would start the same one; only a scheduled job may overtake
\* requests that wait for the user's answer.  What it pops while a /stop is at
\* work may come from further back, and then never reaches the agent.
StartsDurableHead ==
  /\ [][con = "loop" /\ con' = "load" /\ ~awaiting /\ QueueFileQuiet /\ ~Cancelling
          => cur' = Head(disk)]_vars
  /\ [][con = "pin" /\ con' = "work" => ~Cancelling]_vars

\* No job starts while another is waiting for guidance or its retry time.
HeldBehindPaused ==
  [][con = "loop" /\ con' = "load"
       => \A j \in OnDisk \ {cur'} : ckpt[j] \notin {"paused", "waiting"}]_vars

\* As long as no file operation fails, an accepted job is eventually delivered,
\* stopped or dropped, unless the owner is left with a job that needs the
\* user's guidance.
NeedsGuidance == paused /\ disk # <<>> /\ ckpt[Head(disk)] = "paused"
EventuallySettles ==
  \A j \in Jobs : j \in accepted ~> (outcome[j] # "open" \/ NeedsGuidance \/ faults > 0)
\* The promise each request is given, as the durable state and the history
\* show it: the queue implements JobPromise.
JobStatus ==
  [j \in Jobs |-> CASE outcome[j] # "open" -> outcome[j]
                    [] outcome[j] = "open" /\ j \in ledger -> "answered"
                    [] outcome[j] = "open" /\ j \in OnDisk \ ledger -> "accepted"
                    [] OTHER -> "new"]
Abstract == INSTANCE JobPromise WITH status <- JobStatus

\* Every step of the queue, restarts and failures included, is a step of the
\* promise or leaves every request as it was.
KeepsPromise == Abstract!Promise

\* Under fair scheduling an answer also leaves the ledger.
KeepsLivePromise == Abstract!LivePromise
-------------------------------------------------------------------------------
(* Why the safety properties hold: the inductive invariant.                 *)

\* The consumer may still stage an answer to cur.
PreStage == TurnAt \ {"deliver", "complete"}
\* The request is not yet in the queue file, or not yet in memory.
Unadmitted  == {"idle", "guide", "admit"}
Unpublished == Unadmitted \cup {"committed"}
Clearing  == \E s \in Stops : stop[s] \in {"clear", "replies"}

\* A request in the making is nowhere yet.
NotYetAdmitted ==
  \A m \in Jobs : snd[m] \in Unadmitted =>
    m \notin OnDisk \cup accepted /\ outcome[m] = "open"
NotYetPublished ==
  \A m \in Jobs : snd[m] \in Unpublished => m \notin InMem \cup answered

\* The admission lock has one holder.
OneAdmission ==
  /\ \A m, k \in Jobs : snd[m] = "committed" /\ snd[k] = "committed" => m = k
  /\ (\E m \in Jobs : snd[m] = "committed") => claim = NoJob /\ ~Clearing
  /\ claim # NoJob => ~Clearing
  /\ \A s, t \in Stops : stop[s] \in {"clear", "replies"}
                       /\ stop[t] \in {"clear", "replies"} => s = t

\* While /stop discards replies the queue file is empty, and nothing answered
\* comes back to memory.
FileClearedFirst == \A s \in Stops : stop[s] = "replies" => OnDisk = {}
MemoryStaysClear ==
  Clearing => /\ InMem \cap answered = {}
              /\ con \in TurnAt \ {"failNotice"} => cur \notin InMem

\* A turn has a published job; until it stages an answer no reply is owed, and
\* that job has none.
TurnHasJob == con \in TurnAt => cur \in Jobs /\ snd[cur] \notin Unpublished
TurnOwesNothing == con \in PreStage => ledger = {} /\ cur \notin answered
TurnAnswered == con \in TurnAt \ PreStage => cur \in answered

\* The hold of the owner mirrors the ledger; an answer is in it or disposed
\* of, and whatever else is left of its request goes while it is.
HoldMirrorsLedger == ledger \subseteq answered /\ (pending <=> ledger # {})
AnswersAccounted == \A j \in answered : j \in ledger \/ outcome[j] # "open"
AnswersConsumed == answered \cap (OnDisk \cup InMem) \subseteq ledger
QueuedIsOpen == \A j \in OnDisk : outcome[j] = "open"

\* One delivery at a time, of a staged reply, whose prompt is consumed first;
\* none while /stop is at work.
DeliversStaged == \A d \in Deliverer : dlv[d].at \in InTransit => dlv[d].job \in ledger
DeliversConsumed == \A d \in Deliverer : dlv[d].at \in {"send", "remove", "discard"} =>
                      dlv[d].job \notin OnDisk \cup InMem
OneDelivery == \A d, e \in Deliverer :
                 dlv[d].at \in InTransit /\ dlv[e].at \in InTransit => d = e
StopEndsDeliveries == Cancelling => \A d \in Deliverer : dlv[d] = Off

\* Everything the queue relies on to keep accepted work, whatever /stop does.
QueueInv ==
  /\ TypeOK
  /\ NotYetAdmitted /\ NotYetPublished /\ OneAdmission /\ FileClearedFirst
  /\ MemoryStaysClear /\ TurnHasJob /\ TurnOwesNothing /\ TurnAnswered
  /\ HoldMirrorsLedger /\ OneStagedReply /\ AnswersAccounted /\ AnswersConsumed
  /\ QueuedIsOpen /\ DeliversStaged /\ DeliversConsumed /\ OneDelivery
  /\ StopEndsDeliveries /\ AcceptedAccounted

\* What a /stop is about to discard captured an earlier generation.
OnlyEarlierWork ==
  /\ \A j \in Jobs : sgen[j] <= gen
  /\ Cancelling => \A j \in OnDisk \cup ledger : sgen[j] < gen

\* What holds in addition when a /stop waits only for the admission lock: a turn
\* at the agent is one it has signalled, or comes after it.
PromptStopInv ==
  /\ con \in {"pin", "work", "more", "block", "retry", "stage"} /\ ~killed =>
       /\ con # "pin" => cur \in OnDisk
       /\ \A s \in Stops : stop[s] \notin {"settle", "clear"}
  /\ \A j \in ledger : outcome[j] = "open"
  /\ OnlyEarlierWork

\* From the drain until a /stop is done nothing waits in memory; while one is at
\* work a turn that is not cancelled was popped meanwhile, and will find its
\* entry gone.
StopLeavesNothing ==
  /\ Clearing => mem = <<>>
  /\ Cancelling /\ TurnRunning /\ ~killed =>
       con \in {"load", "save", "retain"} /\ (Clearing => con # "load")

\* Only a turn is cancelled; none fails, and no chat is withdrawn.
NothingFails ==
  /\ killed => TurnRunning
  /\ con \notin {"failSave", "failRetain", "failNotice"}
  /\ \A j \in Jobs : ChatOf[j] \in auth
  /\ \A d \in Deliverer : dlv[d].at # "discard"

\* What is in the queue file waits in memory, is about to, or runs.
FileIsKnown ==
  /\ ~Cancelling => \A m \in Jobs : snd[m] = "committed" => sgen[m] = gen
  /\ ~TurnRunning => cur = NoJob
  /\ con = "pin" /\ ~killed => cur \in OnDisk
  /\ ~Cancelling => \A j \in OnDisk : \/ j \in InMem \/ snd[j] = "committed"
                                      \/ TurnRunning /\ ~killed /\ cur = j

\* What is in a queue or runs was admitted.
OnlyAcceptedWork ==
  /\ OnDisk \cup InMem \subseteq accepted
  /\ \A m \in Jobs : snd[m] = "committed" => m \in accepted
  /\ con \in TurnAt => cur \in accepted

\* While the user is asked only scheduled jobs wait, run or come back.
AwaitSparesSchedules ==
  awaiting => /\ answered \cap Asks # {} /\ InMem \subseteq Schedules
              /\ con \in PreStage => cur \in Schedules
              /\ claim \in OnDisk => claim \in Schedules

\* Somebody will look at the queue, which a /stop at work is going to empty.
Awake ==
  \/ con = "loop"
  \/ TurnRunning /\ (~killed \/ request)
  \/ \E m \in Jobs : snd[m] \in {"promote", "ack"} /\ sgen[m] = gen
  \/ claim # NoJob /\ claimGen = gen
  \/ Cancelling
NoLostWake == mem # <<>> /\ ~paused /\ ~pending /\ ~restarting => Awake

\* Until a scheduled job overtakes a question the file and the memory agree in
\* order: the turn's entry, what waits, what is being admitted.
AtWork == IF TurnRunning /\ ~killed /\ cur \in OnDisk \ InMem THEN <<cur>> ELSE <<>>
Coming == LET committed == {m \in Jobs : snd[m] = "committed"}
        IN IF committed = {} THEN <<>> ELSE <<CHOOSE m \in committed : TRUE>>
SameOrder == ~Cancelling => disk = (AtWork \o mem) \o Coming

\* Whatever has begun is at the head of the file, unless a /stop is at work; only
\* a turn popped during one may have lost its entry.
Begun(j) == \/ j \in ledger \/ snd[j] = "promote" \/ claim = j
            \/ TurnRunning /\ ~killed /\ ~Cancelling /\ cur = j
BegunIsFirst == \A j \in OnDisk : Begun(j) => j = Head(disk)
TurnKeepsEntry ==
  ~killed => /\ ~Cancelling /\ con \in PreStage \ {"save", "retain"} => cur \in OnDisk
             /\ con = "complete" => cur \notin ledger
             /\ con = "deliver" /\ cur \in ledger => dlv["turn"].at # "off" /\ dlv["turn"].job = cur
AwaitIsDelivered == awaiting => ledger \cap OnDisk = {}

\* The owner is held exactly while the first entry waits for guidance or its time.
HeldState == {"paused", "waiting"}
FirstIsHeld == disk # <<>> /\ ckpt[Head(disk)] \in HeldState
UnqueuedIsFresh == \A j \in Jobs \ OnDisk : ckpt[j] = "fresh"
HeldIsFirst == \A j \in OnDisk : ckpt[j] \in HeldState => j = Head(disk) /\ ledger = {}
HeldIsPaused == ~Clearing /\ FirstIsHeld => paused
PausedIsHeld == ~Cancelling /\ paused => FirstIsHeld \/ (con = "retry" /\ ~killed)
PauseStopsTurns ==
  /\ con = "retry" /\ ~killed => paused /\ ~FirstIsHeld
  /\ con \in TurnAt \ {"retry", "retain", "notice"} /\ ~killed => ~paused
  /\ \A s \in Stops : stop[s] = "replies" => ~paused
HoldMirrorsFile ==
  UnqueuedIsFresh /\ HeldIsFirst /\ HeldIsPaused /\ PausedIsHeld /\ PauseStopsTurns
OrderInv ==
  SameOrder /\ BegunIsFirst /\ TurnKeepsEntry /\ AwaitIsDelivered /\ HoldMirrorsFile

\* What holds in addition when nothing fails, no chat is withdrawn, and no answer
\* comes through /inject.
WakeInv ==
  /\ PromptStopInv /\ StopLeavesNothing /\ NothingFails /\ FileIsKnown
  /\ OnlyAcceptedWork /\ AwaitSparesSchedules /\ NoLostWake

\* No scheduled job could yet overtake a question to the user.
Untangled == answered \cap Asks = {} \/ accepted \cap Schedules = {}
RestInv == WakeInv /\ (Untangled => OrderInv)
===============================================================================
