----------------------------- MODULE FlexibleJob -----------------------------
(***************************************************************************)
(* A job of the flexible agent (agent._run_flexible): a planner chooses an *)
(* owner or a list of tasks, workers on three tiers run them, ask helpers, *)
(* hand a task to the next tier, report more work; the plan is saved after *)
(* every step and taken up again by the next turn of the same request,     *)
(* after an allowance ended, a judge wanted more or the process died.      *)
(*                                                                         *)
(* A task is its tier and the scopes it stands for.  What models answer is *)
(* external: a member of Plans or Outcomes.                                *)
(***************************************************************************)
EXTENDS Integers, Sequences, FiniteSets, SequencesExt

CONSTANTS Scopes,      \* what there may be to do: instructions
          Plans,       \* what a planner may answer
          Endings,     \* how a worker may end
          More,        \* what a judge may still want
          Inspecting,  \* tiers whose backend can hold a worker to reading
          Top,         \* the highest tier
          MaxWorkers, MaxParallel, MaxQueue, MaxFollowups, MaxLeases, MaxRepeats,
          MaxObligations, MaxJudged,
          MaxGuidance, \* bound on messages injected
          MaxStarts    \* bound on turns of the job

\* A task has a tier, the scopes it stands for, and may be marked a reader.
TaskType == [tier : 1..Top, scopes : {S \in SUBSET Scopes : IsFiniteSet(S)}, read : BOOLEAN]
EndType == {"report", "await", "fail", "limit", "lease", "escalate", "tools", "prerequisite"}

\* An owner has one task; its specialists are on other tiers and in the
\* allowance of helpers (parse_plan); a lease names a tier.
ASSUME FlexAssumption ==
  /\ {Top, MaxWorkers, MaxParallel, MaxQueue} \subseteq Nat \ {0}
  /\ {MaxFollowups, MaxLeases, MaxRepeats, MaxObligations, MaxJudged, MaxGuidance,
      MaxStarts} \subseteq Nat
  /\ Inspecting \subseteq 1..Top
  /\ More \subseteq Scopes
  /\ Plans \subseteq [owner : BOOLEAN, queue : Seq(TaskType), specialists : Seq(1..Top)]
  /\ \A p \in Plans : /\ Len(p.queue) \in 1..MaxQueue /\ Len(p.specialists) <= MaxLeases
                      /\ p.owner => Len(p.queue) = 1
  /\ Endings \subseteq [end : EndType, tier : 0..Top, followups : Seq(TaskType), detached : BOOLEAN]

VARIABLES
  stage,     \* where the turn is
  plan,      \* the plan in memory
  disk,      \* the execution record flexible_plan
  wave, upto,        \* workers in flight, the last task of their wave
  helping,   \* helpers in flight, by their number
  workers,   \* workers_started of the allowance
  judged,    \* judged_rounds
  folded,    \* messages that are part of the saved request
  injected,  \* messages accepted in this turn
  starts, how,
  found, settled     \* history: scopes reported, scopes with a final report

allowance == <<wave, upto, helping, workers, judged>>
request == <<folded, injected>>
history == <<found, settled>>
flexVars == <<stage, plan, disk, allowance, request, starts, how, history>>

Indices == 1..MaxQueue
NoOutput == [end |-> "none", tier |-> 0, followups |-> <<>>, detached |-> FALSE,
             complete |-> FALSE, round |-> 0, processed |-> FALSE, held |-> FALSE]
NoPlan == [active |-> FALSE, owner |-> FALSE, queue |-> <<>>, cursor |-> 0,
           outputs |-> [i \in Indices |-> NoOutput], leases |-> [i \in Indices |-> <<>>],
           unrun |-> {}, obligations |-> <<>>, errors |-> 0, fatal |-> FALSE, asks |-> FALSE,
           unavailable |-> {}, read |-> {}, interim |-> [i \in Indices |-> <<>>],
           signature |-> <<0, 0>>, aliases |-> {}, knows |-> 0]
Running == stage # "idle"

FlexInit ==
  /\ stage = "idle" /\ plan = NoPlan /\ disk = NoPlan
  /\ wave = {} /\ upto = 0 /\ helping = {} /\ workers = 0 /\ judged = 0
  /\ folded = 0 /\ injected = 0 /\ starts = 0 /\ how = "none"
  /\ found = {} /\ settled = {}
-------------------------------------------------------------------------------
(* Turns of the job.                                                        *)

\* The request a plan was made for, and the form it has when the messages of
\* an allowance that ended are part of the request.
Signature == <<folded, injected>>
Aliases == IF injected > 0 THEN {<<folded + injected, 0>>} ELSE {}
\* (mutant) The plan of the request is taken up whatever was added to it.
MatchesRequest == disk.active /\ disk.signature[1] <= folded
Matches == disk.active /\ (disk.signature = Signature \/ Signature \in disk.aliases)

Saves == disk' = plan'
Invalidated == [disk EXCEPT !.active = FALSE]

Resumable == {"none", "budget", "deferred", "judged", "blocked", "interrupted", "held", "error"}
Starts ==
  /\ ~Running /\ how \in Resumable /\ starts < MaxStarts
  /\ stage' = "phase" /\ starts' = starts + 1 /\ how' = "none"
  /\ UNCHANGED <<plan, disk, allowance, request, history>>

\* The saved plan goes on where it was, or a planner is asked.
Phase ==
  /\ stage = "phase"
  /\ \/ /\ Matches /\ stage' = "run"
        /\ plan' = [disk EXCEPT !.signature = Signature,
                                !.aliases = IF injected = 0 THEN @ ELSE Aliases]
        /\ Saves
     \/ /\ ~Matches /\ stage' = "planning" /\ disk' = Invalidated /\ UNCHANGED plan
  /\ UNCHANGED <<allowance, request, starts, how, history>>

Leaves(h) ==
  /\ stage' = "idle" /\ how' = h /\ plan' = NoPlan
  /\ wave' = {} /\ upto' = 0 /\ helping' = {} /\ workers' = 0 /\ judged' = 0
  /\ injected' = 0 /\ UNCHANGED starts
\* The turn ends.  The next turn's request has the messages of this one; one
\* more may come before the window closes.
Continued == {"budget", "deferred", "judged", "blocked"}
JobEnds(h) ==
  /\ Leaves(h)
  /\ IF h \in Continued
     THEN \E late \in {0, 1} : folded + injected + late <= MaxGuidance
                               /\ folded' = folded + injected + late
     ELSE UNCHANGED folded

\* /stop, a shutdown or a crash at any await; a save has happened or has not.
Interrupted ==
  /\ Running /\ starts < MaxStarts /\ Leaves("interrupted")
  /\ UNCHANGED <<disk, folded, history>>

\* A message is injected: everything in flight is given up and planned again.
Guided ==
  /\ stage \in {"planning", "run", "work", "lease", "merge", "judge"}
  /\ folded + injected < MaxGuidance /\ injected' = injected + 1
  /\ stage' = "phase" /\ disk' = Invalidated /\ plan' = NoPlan
  /\ wave' = {} /\ upto' = 0 /\ helping' = {}
  /\ UNCHANGED <<workers, judged, folded, starts, how, history>>

\* Initial specialists are helpers of the owner that come first.
NewPlan(p) ==
  [NoPlan EXCEPT !.active = TRUE, !.owner = p.owner, !.queue = p.queue,
     !.leases = [i \in Indices |->
        IF i = 1 THEN [n \in DOMAIN p.specialists |->
                         [tier |-> p.specialists[n], state |-> "pending", initial |-> TRUE]]
        ELSE <<>>],
     !.signature = Signature, !.aliases = Aliases, !.knows = folded + injected]
Planned ==
  /\ stage = "planning" /\ stage' = "run"
  /\ \E p \in Plans : plan' = NewPlan(p)
  /\ Saves /\ found' = {} /\ settled' = {}
  /\ UNCHANGED <<allowance, request, starts, how>>
\* What an earlier plan had found is not part of its question.
PlannerAsks ==
  /\ stage = "planning" /\ JobEnds("question")
  /\ found' = {} /\ UNCHANGED <<disk, settled>>
-------------------------------------------------------------------------------
(* Workers.                                                                 *)

Current == plan.cursor + 1
Task(i) == plan.queue[i]
Done(i) == plan.outputs[i].complete
CanInspect(i) == Task(i).read /\ Task(i).tier \in Inspecting
Remaining == MaxWorkers - workers
PendingSpecialists ==
  {n \in DOMAIN plan.leases[1] : plan.leases[1][n].initial /\ plan.leases[1][n].state = "pending"}
AtTask == stage = "run" /\ helping = {} /\ PendingSpecialists = {} /\ Current <= Len(plan.queue)

\* A task of an account that is known to be exhausted is not run.
Skips ==
  /\ AtTask /\ Task(Current).tier \in plan.unavailable /\ ~Done(Current)
  /\ plan' = [plan EXCEPT !.cursor = @ + 1, !.errors = @ + 1, !.fatal = TRUE]
  /\ Saves /\ settled' = settled \cup Task(Current).scopes
  /\ UNCHANGED <<stage, allowance, request, starts, how, found>>

\* Independent readers that follow each other run together, as far as the
\* allowance goes; a writer runs alone.
SameWave(i) ==
  \A j \in Current..i : /\ CanInspect(j)
                        /\ j > Current => Task(j).tier \notin plan.unavailable
                        /\ \A k \in Current..(j - 1) : Task(j) # Task(k)
Undone(i) == {j \in Current..i : ~Done(j)}
WaveEnds ==
  {i \in Current..Len(plan.queue) :
     /\ i < Current + MaxParallel /\ (i = Current \/ SameWave(i))
     /\ Cardinality(Undone(i)) <= Remaining}
WaveEnd == CHOOSE i \in WaveEnds : \A j \in WaveEnds : j <= i

\* (mutant) The tasks of a wave are all run.
WaveBeginsAll ==
  /\ AtTask /\ (Task(Current).tier \notin plan.unavailable \/ Done(Current)) /\ WaveEnds # {}
  /\ stage' = "work" /\ upto' = WaveEnd /\ wave' = Current..WaveEnd
  /\ workers' = workers + Cardinality(Undone(WaveEnd))
  /\ plan' = IF Task(Current).read THEN plan ELSE [plan EXCEPT !.read = {}]
  /\ UNCHANGED <<disk, helping, judged, request, starts, how, history>>
WaveBegins ==
  /\ AtTask /\ (Task(Current).tier \notin plan.unavailable \/ Done(Current)) /\ WaveEnds # {}
  /\ stage' = "work" /\ upto' = WaveEnd /\ wave' = Undone(WaveEnd)
  /\ workers' = workers + Cardinality(wave')
  /\ plan' = IF Task(Current).read THEN plan ELSE [plan EXCEPT !.read = {}]
  /\ UNCHANGED <<disk, helping, judged, request, starts, how, history>>

AllowanceEnds ==
  /\ AtTask /\ (Task(Current).tier \notin plan.unavailable \/ Done(Current)) /\ WaveEnds = {}
  /\ JobEnds("budget") /\ UNCHANGED <<disk, history>>

\* encode_output; an output that is not complete is run again.
Output(o) == [NoOutput EXCEPT !.end = o.end, !.tier = o.tier, !.followups = o.followups,
                              !.detached = o.detached,
                              !.complete = o.end \notin {"tools", "prerequisite"}]
\* The siblings of a wave save on their own, a single worker is saved with
\* the step it leads to.
WorkerReturns(i) ==
  /\ stage = "work" /\ i \in wave
  /\ \E o \in Endings :
       LET after == [plan EXCEPT !.outputs[i] = Output(o)]
       IN \/ /\ o.end = "tools" /\ disk' = after /\ JobEnds("budget")
          \/ /\ o.end = "prerequisite" /\ disk' = after /\ JobEnds("deferred")
          \/ /\ Output(o).complete /\ plan' = after /\ wave' = wave \ {i}
             /\ IF upto > Current THEN Saves ELSE UNCHANGED disk
             /\ UNCHANGED <<stage, upto, helping, workers, judged, request, starts, how>>
  /\ UNCHANGED history
-------------------------------------------------------------------------------
(* What a report leads to, in the order of the tasks.                       *)

Settling == stage = "work" /\ wave = {}
It == plan.outputs[Current]
ScopesOf(tasks) == UNION {t.scopes : t \in ToSet(tasks)}
OpenRow(rows, scope) == {n \in DOMAIN rows : rows[n].scope = scope /\ ~rows[n].resolved}

\* The elements of a sequence at some of its positions, in their order.
Rank(P, i) == Cardinality({j \in P : j <= i})
Nth(P, k) == CHOOSE i \in P : Rank(P, i) = k
Only(s, P) == [k \in 1..Cardinality(P) |-> s[Nth(P, k)]]

\* A scope the owner names is one of its open obligations, that came back, or
\* a new one.
CameBack(rows, S) ==
  [n \in DOMAIN rows |->
     IF rows[n].scope \in S /\ ~rows[n].resolved /\ rows[n].repeats < MaxRepeats
     THEN [rows[n] EXCEPT !.repeats = @ + 1] ELSE rows[n]]
NewRow(s) == [scope |-> s, repeats |-> 0, resolved |-> FALSE]
NewRows(rows, S) ==
  LET scopes == SetToSeq({s \in S : OpenRow(rows, s) = {}})
  IN [n \in DOMAIN scopes |-> NewRow(scopes[n])]
Obligations ==
  IF ~plan.owner \/ It.processed THEN plan.obligations
  ELSE LET S == ScopesOf(It.followups)
       IN CameBack(plan.obligations, S) \o NewRows(plan.obligations, S)

\* What every report is recorded with.
Unheard == {k \in DOMAIN It.followups : It.followups[k] \notin ToSet(plan.interim[Current])}
Recorded ==
  [plan EXCEPT
     !.interim[Current] = @ \o Only(It.followups, Unheard),
     !.obligations = Obligations, !.outputs[Current].processed = TRUE,
     !.errors = IF It.end \in {"fail", "limit"} THEN @ + 1 ELSE @,
     !.fatal = @ \/ It.end = "limit",
     !.unavailable = IF It.end = "limit" THEN @ \cup {Task(Current).tier} ELSE @]
TooMany == Len(Obligations) > MaxObligations
\* What the owner names is open again, whatever became of it before.
Finds ==
  /\ found' = found \cup ScopesOf(It.followups)
  /\ settled' = IF plan.owner /\ ~It.processed THEN settled \ ScopesOf(It.followups) ELSE settled
Resets == wave' = {} /\ upto' = 0 /\ UNCHANGED <<helping, workers, judged>>

\* hold_current: the task stays, and stays held.
Kept == [Recorded EXCEPT !.obligations = SubSeq(@, 1, IF TooMany THEN MaxObligations ELSE Len(@))]
Holds ==
  /\ disk' = [Kept EXCEPT !.outputs[Current].held = TRUE]
  /\ JobEnds("held") /\ Finds
HeldAgain == Settling /\ It.held /\ JobEnds("held") /\ UNCHANGED <<disk, history>>

Handoff == \/ It.end \in {"lease", "escalate"}
           \/ plan.owner /\ It.followups # <<>>
Unsettled == It.detached /\ Handoff
AsksHelp == It.end = "lease" /\ ~Unsettled /\ ~TooMany
Escalates == It.end = "escalate" /\ ~Unsettled /\ ~TooMany
NamesMore == plan.owner /\ It.end = "report" /\ It.followups # <<>> /\ ~Unsettled /\ ~TooMany
Repeated == \E n \in DOMAIN Obligations : ~Obligations[n].resolved /\ Obligations[n].repeats >= MaxRepeats
Limits == \/ TooMany \/ Unsettled
          \/ AsksHelp /\ It.round = 0 /\ Len(plan.leases[Current]) >= MaxLeases
          \/ Escalates /\ Task(Current).tier = Top
          \/ NamesMore /\ Repeated
Held == Settling /\ ~It.held /\ Limits /\ Holds
Proceeds == Settling /\ ~It.held /\ ~Limits

\* The question is recorded before a helper runs, once for an output; a helper
\* of the task's own tier is refused.
HelpAsked ==
  /\ Proceeds /\ AsksHelp /\ stage' = "lease" /\ Resets /\ Finds
  /\ plan' = IF It.round # 0 THEN Recorded
             ELSE [Recorded EXCEPT
                     !.outputs[Current].round = Len(plan.leases[Current]) + 1,
                     !.leases[Current] = Append(@,
                        [tier |-> It.tier, initial |-> FALSE,
                         state |-> IF It.tier = Task(Current).tier THEN "complete" ELSE "pending"])]
  /\ Saves /\ UNCHANGED <<request, starts, how>>

\* The same task again, for the next tier or with what the owner has named.
Again == [Recorded EXCEPT !.outputs[Current] = NoOutput]
Escalated ==
  /\ Proceeds /\ Escalates /\ stage' = "run" /\ Resets /\ Finds
  /\ plan' = [Again EXCEPT !.queue[Current].tier = @ + 1]
  /\ Saves /\ UNCHANGED <<request, starts, how>>
OwnerContinues ==
  /\ Proceeds /\ NamesMore /\ stage' = "run" /\ Resets /\ Finds
  /\ plan' = [Again EXCEPT !.interim[Current] = <<>>]
  /\ Saves /\ UNCHANGED <<request, starts, how>>

\* coalesce_followups: what is not queued already, neighbours of a tier in one
\* task; only so many, and so many tasks in all.
Inspected == CanInspect(Current) /\ It.end = "report"
Identities(t) == {<<t.tier, s>> : s \in t.scopes}
Known ==
  plan.read \cup (UNION {Identities(t) : t \in plan.unrun})
            \cup (UNION {Identities(Task(i)) : i \in Current + 1..Len(plan.queue)})
            \cup (IF Inspected THEN Identities(Task(Current)) ELSE {})
Unknown ==
  LET heard == Recorded.interim[Current]
  IN Only(heard, {k \in DOMAIN heard : ~(Identities(heard[k]) \subseteq Known)})
Joined(tasks) ==
  LET first == {i \in DOMAIN tasks : i = 1 \/ tasks[i - 1].tier # tasks[i].tier}
  IN [k \in 1..Cardinality(first) |->
        [tier |-> tasks[Nth(first, k)].tier, read |-> FALSE,
         scopes |-> UNION {tasks[i].scopes : i \in {n \in DOMAIN tasks : Rank(first, n) = k}}]]
Coalesced == Joined(Unknown)
Room == IF MaxQueue - Len(plan.queue) < MaxFollowups THEN MaxQueue - Len(plan.queue) ELSE MaxFollowups
Fitting == SubSeq(Coalesced, 1, IF Len(Coalesced) < Room THEN Len(Coalesced) ELSE Room)
\* (mutant) What exceeds the number of follow-ups is dropped.
LeftNone == {}
Left == ToSet(SubSeq(Coalesced, Len(Fitting) + 1, Len(Coalesced)))

\* The report is final: the cursor moves, and with it what the task has found.
Advanced ==
  [Recorded EXCEPT !.cursor = @ + 1, !.interim[Current] = <<>>,
                   !.outputs[Current] = NoOutput, !.asks = @ \/ It.end = "await"]
OwnerReported ==
  [Advanced EXCEPT !.obligations =
     IF It.end # "report" THEN @ ELSE [n \in DOMAIN @ |-> [@[n] EXCEPT !.resolved = TRUE]]]
TaskReported ==
  [Advanced EXCEPT !.queue = @ \o Fitting, !.unrun = @ \cup Left,
                   !.read = IF Inspected THEN @ \cup Identities(Task(Current)) ELSE @]
Reports ==
  /\ Proceeds /\ ~AsksHelp /\ ~Escalates /\ ~NamesMore
  /\ plan' = (IF plan.owner THEN OwnerReported ELSE TaskReported)
  /\ Saves
  /\ IF Current < upto THEN stage' = "work" /\ UNCHANGED allowance ELSE stage' = "run" /\ Resets
  /\ found' = found \cup ScopesOf(It.followups)
  /\ settled' = settled \cup Task(Current).scopes
                  \cup {o.scope : o \in {r \in ToSet(plan'.obligations) : r.resolved}}
  /\ UNCHANGED <<request, starts, how>>
-------------------------------------------------------------------------------
(* Helpers: what a task asks of another tier, and the first consultations.  *)

Asked == Len(plan.leases[Current])
Item(n) == plan.leases[Current][n]
WithState(n, state) == [plan EXCEPT !.leases[Current][n].state = state]
Wanted == IF stage = "lease" THEN {Asked} \ {n \in {Asked} : Item(n).state = "complete"}
          ELSE IF stage = "run" /\ plan.owner /\ Current = 1 THEN PendingSpecialists ELSE {}
First(n) == \A k \in Wanted : n <= k

\* A helper on an exhausted account, or whose backend cannot be held to
\* reading, has no findings and costs nothing.
HelperRefused(n) ==
  /\ helping = {} /\ n \in Wanted /\ First(n)
  /\ Item(n).tier \in plan.unavailable \/ Item(n).tier \notin Inspecting
  /\ plan' = WithState(n, "complete") /\ Saves
  /\ UNCHANGED <<stage, allowance, request, starts, how, history>>

\* Consultations run together if the allowance has room for all of them.
Together == IF Cardinality(Wanted) > 1 /\ Cardinality(Wanted) <= MaxParallel
               /\ \A n \in Wanted : Item(n).tier \in Inspecting \ plan.unavailable
            THEN Wanted ELSE {n \in Wanted : First(n)}
HelpersBegin ==
  /\ helping = {} /\ Wanted # {}
  /\ \A n \in Wanted : First(n) => Item(n).tier \in Inspecting \ plan.unavailable
  /\ \/ /\ Remaining = 0 /\ JobEnds("budget")
     \/ /\ Remaining > 0
        /\ helping' = IF Cardinality(Together) <= Remaining THEN Together ELSE {n \in Wanted : First(n)}
        /\ workers' = workers + Cardinality(helping')
        /\ UNCHANGED <<stage, plan, wave, upto, judged, request, starts, how>>
  /\ UNCHANGED <<disk, history>>

HelperReturns(n) ==
  /\ n \in helping
  /\ \E end \in {"answer", "limit", "deferred"} :
       LET spoken == IF end = "deferred" THEN plan ELSE WithState(n, "complete")
           after == IF end = "limit" THEN [spoken EXCEPT !.unavailable = @ \cup {Item(n).tier}] ELSE spoken
       IN \/ /\ end = "deferred" /\ helping = {n} /\ disk' = after /\ JobEnds("deferred")
          \/ /\ end # "deferred" /\ plan' = after /\ Saves /\ helping' = helping \ {n}
             /\ UNCHANGED <<stage, wave, upto, workers, judged, request, starts, how>>
  /\ UNCHANGED history

\* The task goes on with what its helper found.
ParentContinues ==
  /\ stage = "lease" /\ helping = {} /\ Wanted = {} /\ stage' = "run"
  /\ plan' = [plan EXCEPT !.outputs[Current] = NoOutput]
  /\ Saves /\ UNCHANGED <<allowance, request, starts, how, history>>
-------------------------------------------------------------------------------
(* The reply, and the judge.                                                *)

Concludes == stage = "run" /\ plan.queue # <<>> /\ plan.cursor = Len(plan.queue)
Failed == plan.errors = Len(plan.queue) \/ plan.fatal
Single == Len(plan.queue) = 1 \/ Failed
\* The reply lists what was not run.
Told == settled' = settled \cup (UNION {t.scopes : t \in plan.unrun}) /\ UNCHANGED found

Answers(asks) ==
  /\ disk' = Invalidated /\ Told
  /\ IF Failed \/ asks THEN JobEnds(IF Failed THEN "error" ELSE "question")
     ELSE /\ stage' = "judge" /\ plan' = NoPlan
          /\ UNCHANGED <<allowance, request, starts, how>>
Finish == Concludes /\ Single /\ Answers(plan.asks)
Merges ==
  /\ Concludes /\ ~Single /\ stage' = "merge"
  /\ UNCHANGED <<plan, disk, allowance, request, starts, how, history>>
MergeReturns == stage = "merge" /\ \E asks \in BOOLEAN : Answers(plan.asks \/ asks)

\* _continue_flexible_owner: the same owner, with what the judge misses.
Reopened(s) ==
  [disk EXCEPT !.active = TRUE, !.cursor = 0, !.outputs = [i \in Indices |-> NoOutput],
               !.obligations = IF OpenRow(@, s) # {} THEN @
                               ELSE Append(@, NewRow(s)),
               !.errors = 0, !.asks = FALSE]
Full(s) == OpenRow(disk.obligations, s) = {} /\ Len(disk.obligations) >= MaxObligations
Reopens(s) ==
  IF ~disk.owner THEN UNCHANGED <<disk, history>>
  ELSE /\ disk' = Reopened(s) /\ found' = found \cup {s} /\ settled' = settled \ {s}
JudgeDone == stage = "judge" /\ JobEnds("answered") /\ UNCHANGED <<disk, history>>
JudgeReopens(s) ==
  /\ stage = "judge"
  /\ \/ /\ disk.owner /\ Full(s) /\ JobEnds("budget") /\ UNCHANGED <<disk, history>>
     \/ /\ ~(disk.owner /\ Full(s)) /\ judged < MaxJudged
        /\ stage' = "phase" /\ judged' = judged + 1 /\ Reopens(s)
        /\ UNCHANGED <<plan, wave, upto, helping, workers, request, starts, how>>
     \/ /\ ~(disk.owner /\ Full(s)) /\ judged = MaxJudged /\ Reopens(s) /\ JobEnds("judged")
JudgeBlocked(s) ==
  /\ stage = "judge"
  /\ IF disk.owner /\ Full(s) THEN JobEnds("budget") /\ UNCHANGED <<disk, history>>
     ELSE Reopens(s) /\ JobEnds("blocked")

FlexNext ==
  \/ Starts \/ Phase \/ Interrupted \/ Guided \/ Planned \/ PlannerAsks
  \/ Skips \/ WaveBegins \/ AllowanceEnds \/ \E i \in Indices : WorkerReturns(i)
  \/ HeldAgain \/ Held \/ HelpAsked \/ Escalated \/ OwnerContinues \/ Reports
  \/ \E n \in 1..MaxLeases : HelperRefused(n) \/ HelperReturns(n)
  \/ HelpersBegin \/ ParentContinues \/ Finish \/ Merges \/ MergeReturns \/ JudgeDone
  \/ \E s \in More : JudgeReopens(s) \/ JudgeBlocked(s)
FlexSpec == FlexInit /\ [][FlexNext]_flexVars
-------------------------------------------------------------------------------
(* Properties.                                                              *)

\* What is still to do in a plan.
OpenScopes(rows) == {o.scope : o \in {r \in ToSet(rows) : ~r.resolved}}
Open(p) == ScopesOf(SubSeq(p.queue, p.cursor + 1, Len(p.queue)))
             \cup (UNION {t.scopes : t \in p.unrun})
             \cup OpenScopes(p.obligations)
             \cup UNION {ScopesOf(p.interim[i]) : i \in Indices}

OutputType ==
  [end : EndType \cup {"none"}, tier : 0..Top, followups : Seq(TaskType), detached : BOOLEAN,
   complete : BOOLEAN, round : Nat, processed : BOOLEAN, held : BOOLEAN]
LeaseType == [tier : 0..Top, state : {"pending", "complete"}, initial : BOOLEAN]
RowType == [scope : Scopes, repeats : Nat, resolved : BOOLEAN]
PlanType ==
  [active : BOOLEAN, owner : BOOLEAN, queue : Seq(TaskType), cursor : Nat,
   outputs : [Indices -> OutputType], leases : [Indices -> Seq(LeaseType)],
   unrun : SUBSET TaskType, obligations : Seq(RowType), errors : Nat, fatal : BOOLEAN,
   asks : BOOLEAN, unavailable : SUBSET (0..Top), read : SUBSET (Nat \X Scopes),
   interim : [Indices -> Seq(TaskType)], signature : Nat \X Nat,
   aliases : SUBSET (Nat \X Nat), knows : Nat]
JobTypeOK ==
  /\ stage \in {"idle", "phase", "planning", "run", "work", "lease", "merge", "judge"}
  /\ plan \in PlanType /\ disk \in PlanType
  /\ upto \in Nat /\ workers \in 0..MaxWorkers /\ judged \in 0..MaxJudged
  /\ folded \in Nat /\ injected \in Nat /\ folded + injected <= MaxGuidance
  /\ found \subseteq Scopes /\ settled \subseteq Scopes

\* Queue, helpers, obligations within their limits.
Limited(p) ==
  /\ Len(p.queue) <= MaxQueue /\ p.cursor <= Len(p.queue) /\ (p.active => p.queue # <<>>)
  /\ \A i \in Indices : Len(p.leases[i]) <= MaxLeases
  /\ Len(p.obligations) <= MaxObligations

\* An output stands for a worker that ended; what it has reported is recorded
\* before it leads anywhere.
OutputsSound(p) ==
  \A i \in Indices :
    LET o == p.outputs[i]
    IN /\ o.complete => o.end \notin {"none", "tools", "prerequisite"}
       /\ o.held => o.complete
       /\ o.round <= Len(p.leases[i])
       /\ o.processed /\ ~o.held =>
            o.end = "lease" /\ ToSet(o.followups) \subseteq ToSet(p.interim[i])

\* A saved plan is found under a request only if it was made with each of its
\* messages.
Signed(p) == \A key \in p.aliases \cup {p.signature} : key[1] + key[2] = p.knows

\* The owner has one task, which is over only with its obligations resolved, or
\* with a question or an error; a list of tasks has none.
OwnerSound(p) ==
  /\ ~p.owner => p.obligations = <<>>
  /\ p.owner => p.read = {} /\ Len(p.queue) = 1
  /\ p.owner /\ p.cursor = 0 /\ ~p.outputs[1].held =>
       p.errors = 0 /\ ScopesOf(p.interim[1]) \subseteq OpenScopes(p.obligations)
  /\ p.owner /\ p.cursor = 1 =>
       p.fatal \/ p.asks \/ p.errors = 1 \/ OpenScopes(p.obligations) = {}

\* Only the current task has reports that wait for it, unless an account failed.
InterimSound(p) ==
  \A i \in Indices : p.interim[i] # <<>> => p.fatal \/ (i = p.cursor + 1 /\ i <= Len(p.queue))
PlanSound(p) ==
  Limited(p) /\ OutputsSound(p) /\ Signed(p) /\ OwnerSound(p) /\ InterimSound(p)

\* The disk has the plan but for results not yet saved; a stage has a plan
\* exactly while it works on one, and it knows every message accepted so far.
InStep ==
  /\ stage \in {"run", "lease", "merge"} => disk = plan
  /\ stage = "work" =>
       /\ disk.active /\ disk.owner = plan.owner /\ disk.queue = plan.queue
       /\ disk.cursor = plan.cursor /\ disk.unrun = plan.unrun
       /\ disk.obligations = plan.obligations /\ disk.interim = plan.interim
  /\ stage \in {"run", "work", "lease", "merge"} =>
       plan.active /\ plan.queue # <<>> /\ plan.knows = folded + injected
  /\ stage = "merge" => plan.cursor = Len(plan.queue)
  /\ stage \in {"idle", "phase", "planning", "judge"} => plan = NoPlan
  /\ stage \in {"planning", "judge"} => ~disk.active
  /\ stage # "idle" => how = "none"

\* The workers in flight are those of the wave that have no result.
WaveSound ==
  /\ stage # "work" => wave = {}
  /\ stage = "work" => /\ Current <= upto /\ upto <= Len(plan.queue) /\ wave \subseteq Current..upto
                       /\ \A i \in Current..upto : i \in wave <=> ~Done(i)
HelpersSound ==
  /\ stage \notin {"run", "lease"} => helping = {}
  /\ helping # {} => Current <= Len(plan.queue) /\ (stage = "run" => Current = 1)
  /\ \A n \in helping : n \in DOMAIN plan.leases[Current]
  /\ stage = "lease" => /\ Current <= Len(plan.queue) /\ plan.leases[Current] # <<>>
                        /\ ~plan.outputs[Current].held

\* What a reply that ends the job does not name: an owner that asks or fails
\* leaves its open obligations, a task that was skipped what it had reported
\* before it moved to the tier that failed.
Unresolved(p) == OpenScopes(p.obligations)
Skipped(p) == UNION {ScopesOf(p.interim[i]) : i \in Indices}
RepliesTell ==
  /\ how = "answered" => found \subseteq settled
  /\ how = "question" => found \subseteq settled \cup Unresolved(disk)
  /\ how = "error" => found \subseteq settled \cup Unresolved(disk) \cup Skipped(disk)

\* A scope that was found is settled or still open on the disk.
ScopesInv ==
  /\ disk.active => found \subseteq settled \cup Open(disk)
  /\ \A p \in {plan, disk} : \A key \in p.read : key[2] \in settled
  /\ stage = "judge" => /\ found \subseteq settled
                        /\ disk.cursor = Len(disk.queue) /\ ~disk.fatal
  /\ RepliesTell

\* Every plan is sound, the disk follows it, and the plan being worked on was
\* made with every message accepted so far, whether it is new, taken up, or
\* taken up under the request that the messages became part of (agent.py
\* request_signature, save_progress).
FlexInv ==
  /\ JobTypeOK /\ PlanSound(plan) /\ PlanSound(disk)
  /\ InStep /\ WaveSound /\ HelpersSound /\ ScopesInv

\* While a plan is saved, a scope that a worker or the judge has named has its
\* final report or is on the disk as something to do, across helpers,
\* escalations, limits, interruptions and judge rounds.  A reply that ends the
\* job reports or lists as not run each of them, but for two kinds that it
\* gives up with the plan: the open obligations of an owner that asks or fails,
\* and, in a reply about an account that failed, the follow-ups reported by a
\* task that escalated to that account and was skipped there (agent.py
\* 3329-3346).  The reply of a list of tasks without such a failure, be it an
\* answer or a question, names them all.  A message makes a new plan, and this
\* is about the scopes of one plan.
ScopesKept ==
  /\ disk.active => found \subseteq settled \cup Open(disk)
  /\ RepliesTell

\* A worker or a helper whose result is saved is never run again, and no task
\* before the saved cursor is (README: "without replaying completed workers").
EvidenceKept ==
  [][/\ \A i \in wave' \ wave : ~disk.outputs[i].complete /\ i > disk.cursor
     /\ \A n \in helping' \ helping : disk.leases[Current][n].state = "pending"]_flexVars
===============================================================================
