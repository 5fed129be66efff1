-------------------------- MODULE ScheduleAdmission --------------------------
(***************************************************************************)
(* Recurring prompts of one owner in one workspace: the scheduler's tick    *)
(* (_scheduler_tick in backends_bot/base.py), QueueStore.admit, the editable *)
(* schedules.json with its last_fired stamps, /reserve, the deletion of a   *)
(* schedule, /stop, the owner's consumer and restarts.                      *)
(*                                                                          *)
(* A tick reads the clock and the watermarks, repeats projections that are  *)
(* still missing, then for each due schedule takes the workspace lock, looks *)
(* again, and admits an entry to the queue store.  The steps are the pieces *)
(* between its awaits.  Ticks do not overlap in a running bot, but the locks *)
(* are to make that safe as well: Ticks may have several.                   *)
(***************************************************************************)
EXTENDS Integers, Sequences, FiniteSets, QueueOps

CONSTANTS
  Schedules,   \* schedule ids
  MaxTime,     \* bound: the last minute on the clock
  Due,         \* the minutes each schedule's days and time stand for
  Ticks,       \* concurrent invocations of _scheduler_tick
  Capacity,    \* max_queue_size
  NoJob,
  MaxStops, MaxFaults, MaxRestarts, MaxUnfinished   \* bounds

Times == 1..MaxTime
Occurrence == Schedules \X Times

ASSUME ScheduleAssumption ==
  /\ IsFiniteSet(Schedules)
  /\ MaxTime \in Nat \ {0}
  /\ Due \in [Schedules -> SUBSET Times]
  /\ Capacity \in Nat \ {0}
  /\ NoJob \notin Occurrence
  /\ MaxStops \in Nat /\ MaxFaults \in Nat
  /\ MaxRestarts \in Nat /\ MaxUnfinished \in Nat

VARIABLES
  now,        \* the clock
  file,       \* schedules.json: the schedules it lists
  created,    \* schedules.json: when each was created
  fired,      \* schedules.json: its last_fired, 0 if it has none
  blind,      \* the cached schedules.json is one that could not be read
  marks,      \* queue store: the watermark of each schedule, 0 if it has none
  disk,       \* queue store: the owner's scheduled entries
  mem,        \* _message_queues[uid]
  active,     \* _active_queue_entries[uid]
  killed,     \* the running turn has an undelivered cancel()
  woken,      \* the consumer was started and has not run dry
  at,         \* where each tick is
  instant,    \* the tick's `now'
  receipts,   \* the watermarks it read
  todo,       \* schedules whose receipt it still has to project
  due,        \* schedules it still has to look at again
  job,        \* the occurrence it is admitting
  tgen,       \* the cancel generation it captured
  gen,        \* _cancel_generations[uid]
  stop,       \* where /stop is
  admitted,   \* history: occurrences that became an entry
  over,       \* history: occurrences completed or stopped
  deleted,    \* history: schedules the user deleted
  stops, faults, restarts, unfinished     \* how often the bounded events happened

document == <<file, created, fired, blind>>
store    == <<marks, disk>>
consumer == <<active, killed, woken>>
ticks    == <<at, instant, receipts, todo, due, job, tgen>>
stopping == <<gen, stop>>
history  == <<admitted, over, deleted>>
bounds   == <<stops, faults, restarts, unfinished>>
vars == <<now, document, store, mem, consumer, ticks, stopping, history, bounds>>

TickAt == {"sleep", "project", "look", "admit", "committed", "claim", "announce"}

DocumentOK ==
  /\ file \subseteq Schedules /\ blind \in BOOLEAN
  /\ created \in [Schedules -> 0..MaxTime] /\ fired \in [Schedules -> 0..MaxTime]
StoreOK == marks \in [Schedules -> 0..MaxTime] /\ disk \subseteq Occurrence
QueueOK == /\ mem \in Seq(Occurrence) /\ NoRepeat(mem) /\ active \in Occurrence \cup {NoJob}
           /\ killed \in BOOLEAN /\ woken \in BOOLEAN
TicksOK ==
  /\ at \in [Ticks -> TickAt] /\ instant \in [Ticks -> 0..MaxTime]
  /\ receipts \in [Ticks -> [Schedules -> 0..MaxTime]]
  /\ todo \in [Ticks -> SUBSET Schedules] /\ due \in [Ticks -> SUBSET Schedules]
  /\ job \in [Ticks -> Occurrence \cup {NoJob}] /\ tgen \in [Ticks -> Nat]
StopOK == gen \in Nat /\ stop \in {"idle", "settle"}
HistoryOK == /\ admitted \subseteq Occurrence /\ over \subseteq Occurrence
             /\ deleted \subseteq Schedules
BoundsOK == /\ stops \in 0..MaxStops /\ faults \in 0..MaxFaults
            /\ restarts \in 0..MaxRestarts /\ unfinished \in 0..MaxUnfinished

TypeOK == /\ now \in 0..MaxTime /\ DocumentOK /\ StoreOK /\ QueueOK /\ TicksOK
          /\ StopOK /\ HistoryOK /\ BoundsOK

NoReceipts == [s \in Schedules |-> 0]

Init ==
  /\ now = 0
  /\ file = {} /\ blind = FALSE
  /\ created = [s \in Schedules |-> 0] /\ fired = [s \in Schedules |-> 0]
  /\ marks = [s \in Schedules |-> 0] /\ disk = {}
  /\ mem = <<>> /\ active = NoJob /\ killed = FALSE /\ woken = FALSE
  /\ at = [k \in Ticks |-> "sleep"] /\ instant = [k \in Ticks |-> 0]
  /\ receipts = [k \in Ticks |-> NoReceipts]
  /\ todo = [k \in Ticks |-> {}] /\ due = [k \in Ticks |-> {}]
  /\ job = [k \in Ticks |-> NoJob] /\ tgen = [k \in Ticks |-> 0]
  /\ gen = 0 /\ stop = "idle"
  /\ admitted = {} /\ over = {} /\ deleted = {}
  /\ stops = 0 /\ faults = 0 /\ restarts = 0 /\ unfinished = 0

-------------------------------------------------------------------------------
(* What the steps are made of.                                              *)

\* most_recent_slot: the latest time a schedule was due, as of an instant.
IsSlot(s, t, d) == /\ d \in Due[s] /\ d <= t
                   /\ \A e \in Due[s] : e <= t => e <= d

\* list_schedules: a document that could not be read lists nothing.
Records == IF blind THEN {} ELSE file

\* Mutant: the lock is taken for the transaction only.
LooksUnlocked == \A k \in Ticks : at[k] # "committed"
\* The workspace lock is held from a tick's second look to its admission.
WorkspaceFree == \A k \in Ticks : at[k] \notin {"admit", "committed"}

\* Mutant: the lock ends with the transaction, before it is published.
FileUnlocked == TRUE
\* The queue file lock is held from a transaction until it is published.
QueueFileFree == \A k \in Ticks : at[k] # "committed"

Fault == faults < MaxFaults /\ faults' = faults + 1
         /\ UNCHANGED <<stops, restarts, unfinished>>

\* _claim_scheduled_slot: the stamp moves forward, in a schedule still listed.
Projected(s, t) ==
  IF s \in Records /\ fired[s] < t THEN [fired EXCEPT ![s] = t] ELSE fired

\* _project_schedule_receipt; a failure is logged and tried at a later tick.
Projects(s, t) ==
  \/ fired' = Projected(s, t) /\ UNCHANGED bounds
  \/ Fault /\ UNCHANGED fired

Goto(k, pc) == at' = [at EXCEPT ![k] = pc]
\* The tick goes on to the next due schedule.
NextDue(k, s) == /\ Goto(k, "look") /\ due' = [due EXCEPT ![k] = @ \ {s}]
                 /\ job' = [job EXCEPT ![k] = NoJob] /\ tgen' = [tgen EXCEPT ![k] = 0]

-------------------------------------------------------------------------------
(* The clock and the user.                                                  *)

Advance == /\ now < MaxTime /\ now' = now + 1
           /\ UNCHANGED <<document, store, mem, consumer, ticks, stopping, history, bounds>>

\* The last step of /reserve.  The document is rewritten from what was read.
Reserve(s) ==
  /\ WorkspaceFree /\ s \notin file \cup deleted /\ created[s] = 0
  /\ file' = Records \cup {s}
  /\ created' = [created EXCEPT ![s] = now] /\ blind' = FALSE
  /\ UNCHANGED <<now, fired, store, mem, consumer, ticks, stopping, history, bounds>>

\* /schedules: a listed schedule is deleted.
Delete(s) ==
  /\ WorkspaceFree /\ s \in Records
  /\ file' = file \ {s} /\ deleted' = deleted \cup {s}
  /\ UNCHANGED <<now, created, fired, blind, store, mem, consumer, ticks, stopping,
                 admitted, over, bounds>>

-------------------------------------------------------------------------------
(* The tick.                                                                *)

\* Mutant: only the current minute is looked at.
DueThisMinute(s, t) == t \in Due[s] /\ t > fired[s] /\ t > marks[s] /\ t > created[s]
\* Due by the stamp, the receipt and the creation of a schedule.
DueNow(s, t) == \E d \in Due[s] : /\ IsSlot(s, t, d) /\ d > fired[s]
                                  /\ d > marks[s] /\ d > created[s]

\* The clock, the watermarks and the document are read.
TickBegins(k) ==
  /\ at[k] = "sleep" /\ Goto(k, "project")
  /\ instant' = [instant EXCEPT ![k] = now]
  /\ receipts' = [receipts EXCEPT ![k] = marks]
  /\ todo' = [todo EXCEPT ![k] = {s \in Records :
                  marks[s] > 0 /\ \E d \in Due[s] : IsSlot(s, now, d)}]
  /\ due' = [due EXCEPT ![k] = {s \in Records : DueNow(s, now)}]
  /\ UNCHANGED <<now, document, store, mem, consumer, job, tgen, stopping, history, bounds>>

\* A receipt is projected again, in case an earlier projection failed.
TickProjects(k, s) ==
  /\ at[k] = "project" /\ s \in todo[k] /\ WorkspaceFree
  /\ Projects(s, receipts[k][s])
  /\ todo' = [todo EXCEPT ![k] = @ \ {s}]
  /\ UNCHANGED <<now, file, created, blind, store, mem, consumer, at, instant, receipts,
                 due, job, tgen, stopping, history>>

TickInspected(k) ==
  /\ at[k] = "project" /\ todo[k] = {} /\ Goto(k, "look")
  /\ receipts' = [receipts EXCEPT ![k] = NoReceipts]
  /\ UNCHANGED <<now, document, store, mem, consumer, instant, todo, due, job,
                 tgen, stopping, history, bounds>>

\* Is the schedule still listed, and its slot newer than its stamp?
StillDue(s, t, d) == s \in Records /\ IsSlot(s, t, d) /\ d > fired[s] /\ d > created[s]

\* The oldest due schedule is looked at again under the workspace lock.
TickLooks(k, s) ==
  /\ at[k] = "look" /\ s \in due[k] /\ WorkspaceFree
  /\ \A r \in due[k] : created[s] <= created[r]
  /\ \/ \E d \in Due[s] :
          /\ StillDue(s, instant[k], d)
          /\ Goto(k, "admit")
          /\ job' = [job EXCEPT ![k] = <<s, d>>]
          /\ tgen' = [tgen EXCEPT ![k] = gen]
          /\ UNCHANGED due
     \/ /\ ~\E d \in Due[s] : StillDue(s, instant[k], d)
        /\ NextDue(k, s)
  /\ UNCHANGED <<now, document, store, mem, consumer, instant, receipts, todo, stopping,
                 history, bounds>>

\* Mutant: the watermark is left to a later transaction.
CommitsEntryOnly(o) ==
  disk' = disk \cup {o} /\ admitted' = admitted \cup {o} /\ UNCHANGED marks
\* QueueStore.admit: the entry and the watermark in one transaction.
Commits(o) ==
  /\ disk' = disk \cup {o} /\ admitted' = admitted \cup {o}
  /\ marks' = [marks EXCEPT ![o[1]] = IF @ < o[2] THEN o[2] ELSE @]

\* QueueStore.admit: a watermark at or past the slot without its entry means
\* that the occurrence was consumed before.
Consumed(o) == o \notin disk /\ marks[o[1]] >= o[2]

\* _admit_queue_entry under the admission lock.  /stop, a full queue, a failed
\* write and a consumed occurrence leave nothing behind.
TickAdmits(k) ==
  /\ at[k] = "admit" /\ QueueFileFree
  /\ \/ /\ tgen[k] = gen /\ Len(mem) < Capacity /\ ~Consumed(job[k])
        /\ Commits(job[k])
        /\ Goto(k, "committed")
        /\ UNCHANGED <<due, job, tgen, bounds>>
     \/ /\ tgen[k] # gen \/ Len(mem) >= Capacity \/ Consumed(job[k])
        /\ NextDue(k, job[k][1])
        /\ UNCHANGED <<store, admitted, bounds>>
     \/ /\ tgen[k] = gen /\ Len(mem) < Capacity /\ Fault
        /\ NextDue(k, job[k][1])
        /\ UNCHANGED <<store, admitted>>
  /\ UNCHANGED <<now, document, mem, consumer, instant, receipts, todo, stopping,
                 over, deleted>>

\* Mutant: what is there already is published again.
PublishesAgain(o) == Append(mem, o)
\* _admit_queue_entry.publish: an entry that is waiting or running stays so.
Published(o) == IF active = o THEN mem ELSE Enqueued(mem, o)

\* The transaction returns to the loop; both locks are released.
TickPublishes(k) ==
  /\ at[k] = "committed"
  /\ \/ /\ tgen[k] = gen
        /\ mem' = Published(job[k]) /\ Goto(k, "claim")
        /\ UNCHANGED <<due, job, tgen>>
     \/ /\ tgen[k] # gen
        /\ NextDue(k, job[k][1]) /\ UNCHANGED mem
  /\ UNCHANGED <<now, document, store, consumer, instant, receipts, todo, stopping,
                 history, bounds>>

\* The new receipt is projected.
TickClaims(k) ==
  /\ at[k] = "claim" /\ WorkspaceFree
  /\ Projects(job[k][1], job[k][2])
  /\ Goto(k, "announce")
  /\ UNCHANGED <<now, file, created, blind, store, mem, consumer, instant, receipts, todo,
                 due, job, tgen, stopping, history>>

\* Mutant: the wake is left to the next message.
AnnouncesOnly(k) == UNCHANGED woken
\* _wake_schedule: the consumer is woken unless /stop came.
Wakes(k) == woken' = (woken \/ tgen[k] = gen)

\* The notice is sent or given up.
TickAnnounces(k) ==
  /\ at[k] = "announce"
  /\ Wakes(k)
  /\ NextDue(k, job[k][1])
  /\ UNCHANGED <<now, document, store, mem, active, killed, instant, receipts, todo,
                 stopping, history, bounds>>

TickEnds(k) ==
  /\ at[k] = "look" /\ due[k] = {} /\ Goto(k, "sleep")
  /\ instant' = [instant EXCEPT ![k] = 0]
  /\ UNCHANGED <<now, document, store, mem, consumer, receipts, todo, due, job,
                 tgen, stopping, history, bounds>>

-------------------------------------------------------------------------------
(* The owner's consumer, as far as scheduled entries go.                    *)

Take ==
  /\ woken /\ active = NoJob /\ mem # <<>>
  /\ active' = Head(mem) /\ mem' = Tail(mem)
  /\ UNCHANGED <<now, document, store, killed, woken, ticks, stopping, history, bounds>>

RunsDry ==
  /\ woken /\ active = NoJob /\ mem = <<>> /\ woken' = FALSE
  /\ UNCHANGED <<now, document, store, mem, active, killed, ticks, stopping, history, bounds>>

\* _persist_complete
Complete ==
  /\ active \in disk /\ ~killed /\ QueueFileFree
  /\ disk' = disk \ {active} /\ over' = over \cup {active}
  /\ UNCHANGED <<now, document, marks, mem, consumer, ticks, stopping, admitted, deleted, bounds>>

\* _cleanup_turn, after completion or on cancellation.
CleanupTurn ==
  /\ active # NoJob /\ (killed \/ active \notin disk)
  /\ active' = NoJob /\ killed' = FALSE
  /\ UNCHANGED <<now, document, store, mem, woken, ticks, stopping, history, bounds>>

\* _retain_job_entry: an unfinished job is put first again.
Retain ==
  /\ active \in disk /\ ~killed /\ QueueFileFree /\ unfinished < MaxUnfinished
  /\ unfinished' = unfinished + 1
  /\ mem' = PutFirst(mem, active) /\ active' = NoJob
  /\ UNCHANGED <<now, document, store, killed, woken, ticks, stopping, history,
                 stops, faults, restarts>>

-------------------------------------------------------------------------------
(* /stop and restarts.                                                      *)

\* Before its first await: the generation moves on, the turn is cancelled.
StopSignals ==
  /\ stop = "idle" /\ stops < MaxStops /\ stops' = stops + 1
  /\ stop' = "settle" /\ gen' = gen + 1 /\ killed' = (active # NoJob)
  /\ UNCHANGED <<now, document, store, mem, active, woken, ticks, history,
                 faults, restarts, unfinished>>

\* Mutant: the watermarks go with the entries.
ClearsReceipts == disk' = {} /\ marks' = [s \in Schedules |-> 0]
\* _clear_persistent_queue keeps the watermarks.
ClearsEntries == disk' = {} /\ UNCHANGED marks

\* Under the admission lock the waiting work goes, in memory and in the store.
StopClears ==
  /\ stop = "settle" /\ QueueFileFree
  /\ mem' = <<>> /\ ClearsEntries
  /\ over' = over \cup disk
  /\ stop' = "idle"
  /\ UNCHANGED <<now, document, consumer, ticks, gen, admitted, deleted, bounds>>

\* The process ends and restores the queue; the scheduler starts anew.  The
\* first reading of schedules.json may fail, and is then cached.
Restart ==
  /\ restarts < MaxRestarts /\ restarts' = restarts + 1
  /\ \/ blind' = FALSE /\ UNCHANGED faults
     \/ blind' = TRUE /\ faults < MaxFaults /\ faults' = faults + 1
  /\ \E order \in SetToSeqs(disk) : mem' = order
  /\ active' = NoJob /\ killed' = FALSE /\ woken' = (disk # {})
  /\ at' = [k \in Ticks |-> "sleep"] /\ instant' = [k \in Ticks |-> 0]
  /\ receipts' = [k \in Ticks |-> NoReceipts] /\ todo' = [k \in Ticks |-> {}]
  /\ due' = [k \in Ticks |-> {}] /\ job' = [k \in Ticks |-> NoJob]
  /\ tgen' = [k \in Ticks |-> 0] /\ gen' = 0 /\ stop' = "idle"
  /\ UNCHANGED <<now, file, created, fired, store, history, stops, unfinished>>

-------------------------------------------------------------------------------
TickStep(k) ==
  \/ TickBegins(k) \/ TickInspected(k) \/ TickAdmits(k) \/ TickPublishes(k)
  \/ TickClaims(k) \/ TickAnnounces(k) \/ TickEnds(k)
  \/ \E s \in Schedules : TickProjects(k, s) \/ TickLooks(k, s)
ConsumerStep == Take \/ RunsDry \/ Complete \/ CleanupTurn

Next ==
  \/ Advance \/ \E s \in Schedules : Reserve(s) \/ Delete(s)
  \/ \E k \in Ticks : TickStep(k)
  \/ ConsumerStep \/ Retain
  \/ StopSignals \/ StopClears \/ Restart

Spec == Init /\ [][Next]_vars

\* The scheduler's loop and the consumer go on, and /stop gets its lock.
Fairness == /\ \A k \in Ticks : WF_vars(TickStep(k))
            /\ WF_vars(ConsumerStep) /\ WF_vars(StopClears)
FairSpec == Spec /\ Fairness
-------------------------------------------------------------------------------
(* What scheduling promises.                                                *)

\* An occurrence becomes an entry at most once: completion, /stop, a failed
\* projection, overlapping ticks or a restart do not make it due again.
NeverTwice ==
  [][\A o \in Occurrence : o \notin disk /\ o \in disk' => o \notin admitted]_vars

\* What was completed or stopped is not started again.
NeverRestarted ==
  [][active' # active /\ active' # NoJob => active' \notin over]_vars

\* last_fired runs behind the queue store: were it ahead, a crash between the
\* two writes would lose the occurrence.
StampFollowsReceipt == \A s \in Schedules : fired[s] <= marks[s]

\* Watermarks cover all that was admitted, what the ticks read and what they
\* have committed.
AdmittedMarked == \A o \in admitted : o[2] <= marks[o[1]]
ReceiptsMarked == \A k \in Ticks, s \in Schedules : receipts[k][s] <= marks[s]
TicksHold == \A k \in Ticks :
  at[k] \in {"admit", "committed", "claim", "announce"} => job[k] \in Occurrence
CommittedMarked == \A k \in Ticks :
  at[k] \in {"committed", "claim"} => job[k][2] <= marks[job[k][1]]
MarksInv == AdmittedMarked /\ ReceiptsMarked /\ TicksHold /\ CommittedMarked

\* What waits is in the store and was never over; what runs does not wait.
StoredInv == disk \cup over \subseteq admitted /\ disk \cap over = {}
WaitingInv == ToSet(mem) \subseteq disk /\ active \notin ToSet(mem)
CommittedInv == \A k \in Ticks : at[k] = "committed" => job[k] \in disk
WorkInv == StoredInv /\ WaitingInv /\ CommittedInv

\* The workspace lock keeps a schedule from deletion until it is admitted.
DeletedInv ==
  /\ file \cap deleted = {}
  /\ \A k \in Ticks : at[k] = "admit" => job[k][1] \notin deleted

\* The inductive invariant: why an occurrence is neither lost nor repeated.
ScheduleInv == TypeOK /\ StampFollowsReceipt /\ MarksInv /\ WorkInv /\ DeletedInv

\* A schedule the user deleted never becomes an entry again, although the tick
\* that found it due may have waited since.
DeletedStaysQuiet ==
  [][\A o \in Occurrence : o \notin disk /\ o \in disk' => o[1] \notin deleted]_vars

\* An occurrence is admitted once, run once, and only for a schedule that exists.
OncePerOccurrence == NeverTwice /\ NeverRestarted /\ DeletedStaysQuiet

\* A missed time is caught up: under fair scheduling a time that has come since
\* the schedule was created is served, or a later one is, unless the schedule
\* is gone or its document cannot be read.
EveryDueTimeServed ==
  \A o \in Occurrence :
    (o[1] \in file /\ o[2] \in Due[o[1]] /\ created[o[1]] < o[2] /\ o[2] <= now)
      ~> (marks[o[1]] >= o[2] \/ o[1] \notin file \/ blind)

\* A woken or restored queue drains: what became an entry is completed or
\* stopped.
EveryEntryEnds == \A o \in Occurrence : o \in admitted ~> o \in over

\* Nothing due is forgotten on its way to the agent.
ScheduleServes == EveryDueTimeServed /\ EveryEntryEnds

\* Scheduling implements ScheduleOccurrences, whose memory is the watermarks.
Abstract == INSTANCE ScheduleOccurrences WITH served <- marks, jobs <- disk
KeepsOccurrences == Abstract!Occurrences
===============================================================================
