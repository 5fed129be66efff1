------------------------------ MODULE HttpLoop ------------------------------
(***************************************************************************)
(* The agent loop of the HTTP backends (OpenAIChatBackend._run_agent_impl) *)
(* with the durable record it continues from: generations with retries,    *)
(* hang recovery and shrinking context, batches of tool calls with their   *)
(* checkpoints, segments, the forced final answer, interruptions at any    *)
(* await and the next run of the same job on the same record.              *)
(*                                                                         *)
(* A message is its role and what it stands for; a size is a number of     *)
(* messages.  The record keeps its identity (model, approval, endpoint).   *)
(***************************************************************************)
EXTENDS Naturals, Sequences, FiniteSets

CONSTANTS Batches,     \* the batches a model may ask for: sequences of calls
          Reads,       \* the calls that may run side by side
          Windows,     \* what the provider may accept, unknown to the loop
          WaveSize,    \* _PARALLEL_READ_TOOLS
          Recent,      \* groups of messages that are never left out: 2 in the code
          MaxRounds, MaxSegments, MaxRetries, MaxHangs, MaxShrinks,
          RepeatLimit, BlockedLimit,
          MaxIntents,  \* bound on batches ever asked for
          MaxPrompts,  \* bound on prompts of the job
          MaxResumes   \* bound on runs of the job

Calls == UNION {{b[i] : i \in DOMAIN b} : b \in Batches}
Positions == UNION {DOMAIN b : b \in Batches}
ASSUME LoopAssumption ==
  /\ WaveSize \in Nat \ {0} /\ Recent \in Nat \ {0} /\ MaxRounds \in Nat \ {0}
  /\ MaxSegments \in Nat \ {0} /\ RepeatLimit \in Nat \ {0} /\ BlockedLimit \in Nat \ {0}
  /\ MaxRetries \in Nat /\ MaxHangs \in Nat /\ MaxShrinks \in Nat
  /\ MaxIntents \in Nat /\ MaxPrompts \in Nat /\ MaxResumes \in Nat
  /\ Windows \subseteq Nat /\ Batches \subseteq Seq(Calls) \ {<<>>}

Results == {"done", "refused"}
Unlimited == 1000

VARIABLES
  at,          \* where the run is
  transcript,  \* messages without the system prompt
  pending,     \* pending_results
  disk,        \* the execution record
  prompt,      \* the prompt of this run, numbered by its digest
  position,    \* the next call of the batch
  wave,        \* the calls in flight
  skip,        \* calls of the batch that are repeated too often
  repeats, blocked, rounds, segment, reason,
  sent,        \* size of the request in flight
  rejected,    \* last_rejected_bytes
  budget,      \* input_budget
  window,      \* what the provider accepts
  retries, hangs, shrinks,
  outcome,     \* how the run ended
  issued, resumes,
  ran          \* history: how often a call took effect

record == <<transcript, pending, disk, prompt>>
run == <<transcript, pending>>
batch == <<position, wave, skip>>
limits == <<repeats, blocked, rounds, segment, reason>>
request == <<sent, rejected, budget, retries, hangs, shrinks>>
bounds == <<window, issued, resumes>>
vars == <<at, outcome, ran, record, batch, limits, request, bounds>>

User(n) == [role |-> "user", n |-> n]
Text == [role |-> "text", n |-> 0]
Intent(n, calls) == [role |-> "intent", n |-> n, calls |-> calls]
Tool(n, p, result) == [role |-> "tool", n |-> n, p |-> p, result |-> result]

None == [p \in Positions |-> "none"]
Intents == 1..MaxIntents
Running == at # "idle"
Last(t) == t[Len(t)]
\* The batch that is being worked on.
Current == Last(transcript)
Size == Len(Current.calls)

Init ==
  /\ at = "idle" /\ outcome = "none" /\ transcript = <<>> /\ pending = None
  /\ disk = [messages |-> <<>>, pending |-> None, prompt |-> 0] /\ prompt = 0
  /\ position = 1 /\ wave = {} /\ skip = {}
  /\ repeats = [c \in Calls |-> 0] /\ blocked = 0 /\ rounds = 0 /\ segment = 1
  /\ reason = "none"
  /\ sent = 0 /\ rejected = 0 /\ budget = Unlimited /\ window \in Windows
  /\ retries = 0 /\ hangs = 0 /\ shrinks = 0
  /\ issued = 0 /\ resumes = 0 /\ ran = [i \in Intents \X Positions |-> 0]
-------------------------------------------------------------------------------
(* The record.                                                              *)

\* save_transcript: one atomic snapshot; save_pending_results: outcomes only.
SavesTranscript(messages) ==
  /\ transcript' = messages /\ pending' = None
  /\ disk' = [messages |-> messages, pending |-> None, prompt |-> prompt']
SavesPending == disk' = [disk EXCEPT !.pending = pending]

\* _restore_owned_http_messages: a batch that was interrupted gets one result
\* for every call, in its order; what has no durable result is unknown.
RestoredResult(p) == IF disk.pending[p] = "none" THEN "unknown" ELSE disk.pending[p]
Restored ==
  IF disk.messages = <<>> \/ Last(disk.messages).role # "intent" THEN disk.messages
  ELSE LET it == Last(disk.messages)
       IN disk.messages \o [p \in DOMAIN it.calls |-> Tool(it.n, p, RestoredResult(p))]

\* Nothing of a run outlives it but the record.
Forgets ==
  /\ position' = 1 /\ wave' = {} /\ skip' = {}
  /\ repeats' = [c \in Calls |-> 0] /\ blocked' = 0 /\ rounds' = 0 /\ segment' = 1
  /\ reason' = "none" /\ sent' = 0 /\ rejected' = 0 /\ budget' = Unlimited
  /\ retries' = 0 /\ hangs' = 0 /\ shrinks' = 0
Ends(how) ==
  /\ at' = "idle" /\ outcome' = how /\ transcript' = <<>> /\ pending' = None
  /\ Forgets

\* (mutant) It goes on with the calls that have no result.
ResumesBatch ==
  /\ ~Running /\ resumes < MaxResumes /\ resumes' = resumes + 1 /\ outcome' = "none"
  /\ \E p \in {prompt, prompt + 1} \cap 1..MaxPrompts :
       /\ prompt' = p
       /\ IF disk.messages # <<>> /\ Last(disk.messages).role = "intent"
          THEN /\ at' = "batch" /\ transcript' = disk.messages
               /\ pending' = disk.pending /\ UNCHANGED disk
          ELSE /\ at' = "ask"
               /\ SavesTranscript(IF disk.messages # <<>> /\ disk.prompt = p
                                  THEN disk.messages ELSE Append(disk.messages, User(p)))
  /\ UNCHANGED <<ran, window, issued, batch, limits, request>>
\* A run of the job starts: a phase, a retry or a continuation.  A prompt the
\* record has already is not asked again; a window that is configured or listed
\* for the model is what the run begins with, if there is one.
Resumes ==
  /\ ~Running /\ resumes < MaxResumes /\ resumes' = resumes + 1 /\ outcome' = "none"
  /\ \E p \in {prompt, prompt + 1} \cap 1..MaxPrompts :
       /\ prompt' = p /\ at' = "ask"
       /\ SavesTranscript(IF Restored # <<>> /\ disk.prompt = p THEN Restored
                          ELSE Append(Restored, User(p)))
  /\ budget' \in Windows \cup {Unlimited}
  /\ UNCHANGED <<ran, window, issued, batch, limits, sent, rejected, retries, hangs, shrinks>>

\* The history is already too long to be asked about.
Refuses ==
  /\ ~Running /\ disk.messages # <<>> /\ resumes < MaxResumes /\ resumes' = resumes + 1
  /\ outcome' = "toolong"
  /\ UNCHANGED <<at, ran, record, batch, limits, request, window, issued>>

\* The run is cancelled at an await or the process dies.  What is in flight may
\* have taken effect; a save that has begun ends, and so does a wave of reads
\* that is cancelled; a crash keeps what the record has.
Interrupted ==
  /\ Running /\ resumes < MaxResumes /\ Ends("interrupted")
  /\ \E effects \in SUBSET wave :
       ran' = [i \in Intents \X Positions |->
                 IF at = "batch" /\ i[1] = Current.n /\ i[2] \in effects
                 THEN ran[i] + 1 ELSE ran[i]]
  /\ \/ UNCHANGED disk
     \/ at = "checkpoint" /\ SavesPending
     \/ at = "batch" /\ wave # {} /\ Current.calls[position - 1] \in Reads /\ SavesPending
  /\ UNCHANGED <<prompt, bounds>>
-------------------------------------------------------------------------------
(* A generation.                                                            *)

Asking == at \in {"ask", "final"}
PayloadSize == 1 + Len(transcript)

\* Messages of the user and the newest groups are never left out.
Protected(t, i) ==
  \/ t[i].role = "user"
  \/ Cardinality({j \in i+1..Len(t) : t[j].role \in {"intent", "text"}}) < Recent
Floor(t) == 1 + Cardinality({i \in DOMAIN t : Protected(t, i)})

\* project_payload: nothing is lost while it fits; else any size from the floor
\* to the budget, or the floor itself as a probe.
Projected ==
  IF PayloadSize <= budget THEN {PayloadSize}
  ELSE IF Floor(transcript) > budget THEN {Floor(transcript)} ELSE Floor(transcript)..budget

\* Nothing is sent that is not smaller than what was rejected.
Sends ==
  /\ Asking /\ sent = 0
  /\ \E size \in Projected :
       \/ (rejected = 0 \/ size < rejected) /\ sent' = size
          /\ UNCHANGED <<at, outcome, run, batch, limits, rejected, budget, retries, hangs,
                         shrinks>>
       \/ rejected # 0 /\ size >= rejected /\ Ends("irreducible")
  /\ UNCHANGED <<ran, disk, prompt, bounds>>

\* The provider does not take it, and may name the window it has: less is sent,
\* and only so often.
Probe == sent = Floor(transcript) /\ Floor(transcript) > budget
Lower(a, b) == IF a < b THEN a ELSE b
Smaller == IF (sent * 7) \div 10 = 0 THEN 1 ELSE (sent * 7) \div 10
ContextRejected ==
  /\ Asking /\ sent > window
  /\ \/ Probe /\ Ends("irreducible")
     \/ ~Probe /\ (shrinks >= MaxShrinks \/ Smaller >= sent) /\ Ends("rejected")
     \/ /\ ~Probe /\ shrinks < MaxShrinks /\ Smaller < sent
        /\ sent' = 0 /\ rejected' = sent /\ shrinks' = shrinks + 1 /\ retries' = 0
        /\ \E limit \in {budget, Lower(budget, window)} : budget' = Lower(limit, Smaller)
        /\ UNCHANGED <<at, outcome, run, batch, limits, hangs>>
  /\ UNCHANGED <<ran, disk, prompt, bounds>>

\* (mutant) Recoveries are not counted.
HangsAgain ==
  /\ Asking /\ sent > 0 /\ sent' = 0 /\ retries' = 0
  /\ UNCHANGED <<at, outcome, ran, record, batch, limits, rejected, budget, hangs, shrinks,
                 bounds>>
\* A stalled generation is recovered: the same payload again.
Hangs ==
  /\ Asking /\ sent > 0
  /\ \/ /\ hangs < MaxHangs /\ hangs' = hangs + 1 /\ retries' = 0 /\ sent' = 0
        /\ UNCHANGED <<at, outcome, run, batch, limits, rejected, budget, shrinks>>
     \/ hangs >= MaxHangs /\ Ends("deferred")
  /\ UNCHANGED <<ran, disk, prompt, bounds>>

\* How a stream ends, and whether its tool calls came whole: what becomes of
\* the attempt (_post_completion_stream, _validate_tool_call_batch).
Endings == {"done", "length", "filter", "broken", "error"}
Attempt(ending, calls) ==
  CASE ending = "broken" -> "retry"                        \* no marker, 429, 5xx, too large
    [] ending = "error" -> "fatal"
    [] ending = "filter" -> IF calls = "none" THEN "ok" ELSE "fatal"
    [] ending = "length" -> IF calls = "none" THEN "ok" ELSE "retry"
    [] ending = "done" -> IF calls = "cut" THEN "retry" ELSE "ok"

Failed ==
  /\ Asking /\ sent > 0 /\ sent <= window
  /\ \E ending \in Endings, calls \in {"none", "whole", "cut"} :
       \/ /\ Attempt(ending, calls) = "retry" /\ retries < MaxRetries
          /\ retries' = retries + 1
          /\ UNCHANGED <<at, outcome, run, batch, limits, sent, rejected, budget, hangs, shrinks>>
       \/ /\ \/ Attempt(ending, calls) = "fatal"
             \/ Attempt(ending, calls) = "retry" /\ retries >= MaxRetries
          /\ Ends("failed")
  /\ UNCHANGED <<ran, disk, prompt, bounds>>

\* The next generation counts from nothing, but keeps what it learnt of the
\* provider's window.
Generated == sent' = 0 /\ rejected' = 0 /\ retries' = 0 /\ hangs' = 0 /\ shrinks' = 0
Accepted == Asking /\ sent > 0 /\ sent <= window

\* An answer without calls is saved and ends the run; so does the forced one,
\* with an error if it stands for work that is not done.
Final == CASE reason = "budget" -> "budget" [] reason = "refused" -> "refused" [] OTHER -> "answered"
Answers ==
  /\ Accepted /\ \E ending \in Endings : Attempt(ending, "none") = "ok"
  /\ \/ at = "ask" /\ outcome' = "answered"
     \/ at = "final" /\ outcome' = Final
  /\ at' = "idle" /\ transcript' = <<>> /\ pending' = None /\ Forgets
  /\ disk' = [disk EXCEPT !.messages = Append(transcript, Text), !.pending = None]
  /\ UNCHANGED <<ran, prompt, bounds>>

\* The forced answer is empty, or an answer or intent no longer fits into the record.
AnswerLost ==
  /\ Accepted
  /\ Ends("toolong") \/ (at = "final" /\ Ends("empty"))
  /\ UNCHANGED <<ran, disk, prompt, bounds>>

\* Calls: the intent is durable before any of them runs.
RepeatsAfter(calls) ==
  [c \in Calls |-> repeats[c] + Cardinality({p \in DOMAIN calls : calls[p] = c})]
SkippedOf(calls) ==
  {p \in DOMAIN calls :
     repeats[calls[p]] + Cardinality({q \in 1..p : calls[q] = calls[p]}) > RepeatLimit}
Intends(calls) ==
  /\ Accepted /\ Generated /\ at = "ask" /\ issued < MaxIntents
  /\ at' = "batch" /\ issued' = issued + 1 /\ UNCHANGED prompt
  /\ SavesTranscript(Append(transcript, Intent(issued', calls)))
  /\ position' = 1 /\ wave' = {} /\ skip' = SkippedOf(calls) /\ repeats' = RepeatsAfter(calls)
  /\ UNCHANGED <<outcome, ran, blocked, rounds, segment, reason, budget, window, resumes>>
-------------------------------------------------------------------------------
(* A batch.                                                                 *)

\* The reads that run with the one at position, up to the next write.
WaveEnd ==
  LET stops == {q \in position..Size : \/ Current.calls[q] \notin Reads
                                       \/ Cardinality((position..q) \ skip) > WaveSize}
  IN IF stops = {} THEN Size + 1 ELSE CHOOSE q \in stops : \A r \in stops : q <= r

Idle == at = "batch" /\ wave = {} /\ position <= Size

PassesOver ==
  /\ Idle /\ position \in skip /\ position' = position + 1
  /\ UNCHANGED <<at, outcome, ran, record, wave, skip, limits, request, bounds>>

\* A write runs alone; reads run in waves.
Begins ==
  /\ Idle /\ position \notin skip
  /\ IF Current.calls[position] \in Reads
     THEN wave' = (position..WaveEnd - 1) \ skip /\ position' = WaveEnd
     ELSE wave' = {position} /\ position' = position + 1
  /\ UNCHANGED <<at, outcome, ran, record, skip, limits, request, bounds>>

\* (mutant) Outcomes are saved with the batch.
CallReturnsUnsaved(p) ==
  /\ at = "batch" /\ p \in wave /\ wave' = wave \ {p}
  /\ \E result \in Results :
       /\ pending' = [pending EXCEPT ![p] = result]
       /\ ran' = IF result = "refused" THEN ran ELSE [ran EXCEPT ![<<Current.n, p>>] = @ + 1]
  /\ UNCHANGED <<at, outcome, transcript, disk, prompt, position, skip, limits, request, bounds>>
\* execute_tool: it is refused, or it takes effect.
CallReturns(p) ==
  /\ at = "batch" /\ p \in wave /\ wave' = wave \ {p}
  /\ \E result \in Results :
       /\ pending' = [pending EXCEPT ![p] = result]
       /\ ran' = IF result = "refused" THEN ran ELSE [ran EXCEPT ![<<Current.n, p>>] = @ + 1]
  /\ at' = IF wave' # {} \/ (position > Size /\ Current.calls[p] \in Reads) THEN "batch"
           ELSE "checkpoint"
  /\ UNCHANGED <<outcome, transcript, disk, prompt, position, skip, limits, request, bounds>>

Checkpoints ==
  /\ at = "checkpoint" /\ SavesPending /\ at' = "batch"
  /\ UNCHANGED <<outcome, ran, transcript, pending, prompt, batch, limits, request, bounds>>

BatchDone == at = "batch" /\ wave = {} /\ position > Size
ResultOf(p) == IF p \in skip THEN "skipped" ELSE pending[p]
Collected == transcript \o [p \in DOMAIN Current.calls |-> Tool(Current.n, p, ResultOf(p))]

\* Why no more tools are offered after this round, if so.
AllRefused == \A p \in DOMAIN Current.calls : p \notin skip /\ pending[p] = "refused"
BlockedNow == IF AllRefused THEN blocked + 1 ELSE 0
Stops ==
  CASE skip = DOMAIN Current.calls -> "stalled"
    [] BlockedNow >= BlockedLimit -> "refused"
    [] rounds + 1 = MaxRounds /\ segment = MaxSegments -> "budget"
    [] OTHER -> "none"

\* The results enter the record in the order of the calls.
Collects ==
  /\ BatchDone /\ UNCHANGED prompt /\ SavesTranscript(Collected)
  /\ position' = 1 /\ skip' = {} /\ wave' = {} /\ reason' = Stops
  /\ blocked' = IF skip = DOMAIN Current.calls THEN blocked ELSE BlockedNow
  /\ IF rounds + 1 = MaxRounds \/ Stops # "none"
     THEN at' = "renew" /\ rounds' = 0
     ELSE at' = "ask" /\ rounds' = rounds + 1
  /\ UNCHANGED <<outcome, ran, repeats, segment, request, bounds>>

\* A segment that ends adds its continuation, a run that stops the request for
\* a last answer without tools.
Renews ==
  /\ at = "renew" /\ UNCHANGED prompt /\ SavesTranscript(Append(transcript, User(0)))
  /\ IF reason = "none" THEN at' = "ask" /\ segment' = segment + 1
     ELSE at' = "final" /\ UNCHANGED segment
  /\ UNCHANGED <<outcome, ran, batch, repeats, blocked, rounds, reason, request, bounds>>

\* A result or a request no longer fits: the run ends, the record keeps what it has.
TooLong ==
  /\ BatchDone \/ at = "renew"
  /\ Ends("toolong")
  /\ UNCHANGED <<ran, disk, prompt, bounds>>
-------------------------------------------------------------------------------
Generation ==
  \/ Sends \/ ContextRejected \/ Failed \/ Answers \/ AnswerLost
  \/ \E b \in Batches : Intends(b)
Batch ==
  \/ PassesOver \/ Begins \/ (\E p \in Positions : CallReturns(p)) \/ Checkpoints
  \/ Collects \/ Renews \/ TooLong
Next == Resumes \/ Refuses \/ Interrupted \/ Hangs \/ Generation \/ Batch

Spec == Init /\ [][Next]_vars
\* A provider answers, fails or is found to hang; tools end; the disk works.
FairSpec == Spec /\ WF_vars(Generation \/ Batch \/ Hangs)
-------------------------------------------------------------------------------
Steps == {"idle", "ask", "final", "batch", "checkpoint", "renew"}
Outcomes == {"none", "interrupted", "answered", "budget", "refused", "irreducible", "rejected",
             "deferred", "failed", "empty", "toolong"}

\* Every call of every batch has one result, in its order, when a model is asked.
WellFormed(t) ==
  /\ \A i \in DOMAIN t : t[i].role = "intent" =>
       \A p \in DOMAIN t[i].calls :
         i + p \in DOMAIN t /\ t[i+p].role = "tool" /\ t[i+p].n = t[i].n /\ t[i+p].p = p
  /\ \A i \in DOMAIN t : t[i].role = "tool" =>
       i > t[i].p /\ t[i - t[i].p].role = "intent" /\ t[i - t[i].p].n = t[i].n
Asked(t) == Cardinality({i \in DOMAIN t : t[i] = User(prompt)})

Message ==
  {User(n) : n \in 0..MaxPrompts} \cup {Text} \cup {Intent(n, b) : n \in Intents, b \in Batches}
    \cup {Tool(n, p, r) : n \in Intents, p \in Positions, r \in Results \cup {"skipped", "unknown"}}
Pendings == [Positions -> Results \cup {"none"}]
TypeOK ==
  /\ at \in Steps /\ outcome \in Outcomes /\ prompt \in 0..MaxPrompts
  /\ transcript \in Seq(Message) /\ pending \in Pendings
  /\ disk \in [messages : Seq(Message), pending : Pendings, prompt : 0..MaxPrompts]
  /\ position \in Nat \ {0} /\ wave \subseteq Positions /\ skip \subseteq Positions
  /\ repeats \in [Calls -> Nat] /\ blocked \in Nat
  /\ rounds \in 0..MaxRounds - 1 /\ segment \in 1..MaxSegments
  /\ reason \in {"none", "stalled", "refused", "budget"}
  /\ sent \in Nat /\ rejected \in Nat /\ budget \in Nat /\ window \in Nat
  /\ retries \in 0..MaxRetries /\ hangs \in 0..MaxHangs /\ shrinks \in 0..MaxShrinks
  /\ issued \in 0..MaxIntents /\ resumes \in 0..MaxResumes
  /\ ran \in [Intents \X Positions -> Nat]

\* The requests are well formed, carry the prompt of the run once, and the run
\* gives up on a context only if not even its floor is accepted.
RequestsSound ==
  /\ Asking => WellFormed(transcript) /\ Asked(transcript) = 1
  /\ outcome = "irreducible" => Floor(disk.messages) > window

\* No call takes effect twice, none without its batch on the record, and what
\* the model and the record are told of a call is true.
Told(t) == {t[i] : i \in {j \in DOMAIN t : t[j].role = "tool"}}
HistoryTruthful ==
  /\ \A i \in Intents \X Positions :
       /\ ran[i] <= 1
       /\ ran[i] = 1 => \E k \in DOMAIN disk.messages :
                          disk.messages[k].role = "intent" /\ disk.messages[k].n = i[1]
  /\ \A e \in Told(transcript) \cup Told(disk.messages) :
       CASE e.result = "done" -> ran[<<e.n, e.p>>] = 1
         [] e.result \in {"refused", "skipped"} -> ran[<<e.n, e.p>>] = 0
         [] OTHER -> TRUE

\* The record has what the run has.  It carries its prompt once; only the batch
\* that is being worked on, or was when the run ended, has no results in it.
Follows(t) ==
  /\ \A i \in DOMAIN t : t[i].role = "intent" /\ i # Len(t) =>
       \A p \in DOMAIN t[i].calls :
         i + p \in DOMAIN t /\ t[i+p].role = "tool" /\ t[i+p].n = t[i].n /\ t[i+p].p = p
  /\ \A i \in DOMAIN t : t[i].role = "tool" =>
       i > t[i].p /\ t[i - t[i].p].role = "intent" /\ t[i - t[i].p].n = t[i].n
Open(t) == t # <<>> /\ Last(t).role = "intent"
CarriesOnce(t, n) ==
  /\ n > 0 /\ \E i \in DOMAIN t : t[i] = User(n) /\ \A j \in DOMAIN t : t[j] = User(n) => j = i
Working == at \in {"batch", "checkpoint"}
RecordInv ==
  /\ IF Running THEN disk.messages = transcript /\ transcript # <<>> /\ outcome = "none"
     ELSE transcript = <<>> /\ pending = None
  /\ disk.prompt = prompt /\ (disk.messages # <<>> => CarriesOnce(disk.messages, prompt))
  /\ Follows(disk.messages) /\ (Running => (Open(transcript) <=> Working))
  /\ \A i \in DOMAIN disk.messages :
       /\ disk.messages[i].role = "user" => disk.messages[i].n <= prompt
       /\ disk.messages[i].role \in {"intent", "tool"} =>
            disk.messages[i].n <= issued /\ (Working => (disk.messages[i].n = issued <=> i = Len(transcript)))

\* A call has a result in memory or is still to be made or skipped; what the
\* record has of the batch is a part of that, and all of it before a call begins.
BatchInv ==
  /\ Working =>
       /\ position <= Size + 1 /\ wave \subseteq 1..position - 1 /\ skip \subseteq 1..Size
       /\ wave \cap skip = {} /\ (at = "checkpoint" => wave = {})
       /\ \A p \in 1..Size :
            /\ pending[p] = "none" <=> p >= position \/ p \in wave \cup skip
            /\ ran[<<issued, p>>] = IF pending[p] = "done" THEN 1 ELSE 0
            /\ disk.pending[p] \in {"none", pending[p]}
       /\ at = "batch" /\ wave = {} /\ position <= Size => disk.pending = pending
  /\ \A n \in Intents, p \in Positions : n > issued => ran[<<n, p>>] = 0
  /\ Open(disk.messages) => \A p \in DOMAIN Last(disk.messages).calls :
       disk.pending[p] # "none" =>
         ran[<<Last(disk.messages).n, p>>] = IF disk.pending[p] = "done" THEN 1 ELSE 0

\* What was rejected is more than the provider accepts and than is sent next.
SizeInv ==
  /\ rejected # 0 => Running /\ rejected > window /\ budget < rejected
  /\ at = "renew" /\ reason = "none" => segment < MaxSegments

\* With the types and what keeps it, the inductive invariant.
HttpInv == TypeOK /\ RecordInv /\ BatchInv /\ SizeInv /\ RequestsSound /\ HistoryTruthful

\* A call begins only when the outcomes of the earlier calls of its batch that
\* it does not run beside are durable.
OutcomesDurable ==
  [][\A p \in wave' \ wave : \A q \in 1..p-1 :
       q \in wave' \cup skip \/ disk.pending[q] # "none"]_vars

\* Every run ends.
RunsEnd == Running ~> ~Running
===============================================================================
