---------------------------- MODULE HttpProofs ----------------------------
(***************************************************************************)
(* The invariant of HttpLoop: requests that are well formed, a record that *)
(* is true, and calls that begin after what came before them is durable,   *)
(* for all batches, windows and limits.                                    *)
(***************************************************************************)
EXTENDS HttpLoop, SequenceTheorems, FiniteSetTheorems, WellFoundedInduction, TLAPS

-----------------------------------------------------------------------------
(* Messages and transcripts.                                               *)

\* A batch has calls, at positions from one.
LEMMA BatchShape ==
  ASSUME LoopAssumption, NEW b \in Batches
  PROVE  /\ b \in Seq(Calls) /\ Len(b) \in Nat \ {0} /\ DOMAIN b = 1..Len(b)
         /\ DOMAIN b \subseteq Positions /\ Positions \subseteq Nat \ {0}
         /\ \A p \in DOMAIN b : b[p] \in Calls
<1>1. \A c \in Batches : c \in Seq(Calls) /\ c # <<>>
  BY DEF LoopAssumption
<1>2. \A c \in Batches : Len(c) \in Nat \ {0} /\ DOMAIN c = 1..Len(c)
  BY <1>1, LenProperties, EmptySeq
<1>3. Positions \subseteq Nat \ {0}
  BY <1>2 DEF Positions
<1>4. DOMAIN b \subseteq Positions
  BY DEF Positions
<1>5. QED
  BY <1>1, <1>2, <1>3, <1>4, ElementOfSeq

LEMMA PositionsNat ==
  ASSUME LoopAssumption
  PROVE  Positions \subseteq Nat \ {0}
<1>1. \A b \in Batches : DOMAIN b \subseteq Nat \ {0}
  BY BatchShape
<1>2. QED
  BY <1>1 DEF Positions

\* What messages there are.
LEMMA MessageKinds ==
  ASSUME NEW m \in Message
  PROVE  /\ m.role \in {"user", "text", "intent", "tool"}
         /\ m.role = "user" => m.n \in 0..MaxPrompts /\ m = User(m.n)
         /\ m.role = "intent" => m.n \in Intents /\ m.calls \in Batches
         /\ m.role = "tool" => /\ m.n \in Intents /\ m.p \in Positions
                               /\ m.result \in {"done", "refused", "skipped", "unknown"}
<1>1. CASE m \in {User(n) : n \in 0..MaxPrompts}
  BY <1>1 DEF User
<1>2. CASE m = Text
  BY <1>2 DEF Text
<1>3. CASE m \in {Intent(n, b) : n \in Intents, b \in Batches}
  BY <1>3 DEF Intent
<1>4. CASE m \in {Tool(n, p, r) : n \in Intents, p \in Positions, r \in Results \cup {"skipped", "unknown"}}
  BY <1>4 DEF Tool, Results
<1>5. QED
  BY <1>1, <1>2, <1>3, <1>4 DEF Message

LEMMA MessagesMade ==
  /\ \A n \in 0..MaxPrompts : User(n) \in Message /\ User(n).role = "user" /\ User(n).n = n
  /\ Text \in Message /\ Text.role = "text"
  /\ \A n \in Intents, b \in Batches :
       Intent(n, b) \in Message /\ Intent(n, b).role = "intent" /\ Intent(n, b).n = n
         /\ Intent(n, b).calls = b
  /\ \A n \in Intents, p \in Positions, r \in {"done", "refused", "skipped", "unknown"} :
       Tool(n, p, r) \in Message
<1>1. \A n \in 0..MaxPrompts : User(n) \in Message /\ User(n).role = "user" /\ User(n).n = n
  BY DEF Message, User
<1>2. Text \in Message /\ Text.role = "text"
  BY DEF Message, Text
<1>3. ASSUME NEW n \in Intents, NEW b \in Batches
      PROVE  Intent(n, b) \in Message /\ Intent(n, b).role = "intent" /\ Intent(n, b).n = n
               /\ Intent(n, b).calls = b
  BY DEF Message, Intent
<1>4. ASSUME NEW n \in Intents, NEW p \in Positions, NEW r \in {"done", "refused", "skipped", "unknown"}
      PROVE  Tool(n, p, r) \in Message
  <2>1. r \in Results \cup {"skipped", "unknown"}
    BY DEF Results
  <2>2. Tool(n, p, r) \in {Tool(a, b, c) : a \in Intents, b \in Positions, c \in Results \cup {"skipped", "unknown"}}
    BY <2>1
  <2>3. QED
    BY <2>2 DEF Message
<1>5. QED
  BY <1>1, <1>2, <1>3, <1>4, Zenon

LEMMA ToolParts ==
  ASSUME NEW n, NEW p, NEW r
  PROVE  Tool(n, p, r).role = "tool" /\ Tool(n, p, r).n = n /\ Tool(n, p, r).p = p
           /\ Tool(n, p, r).result = r
BY DEF Tool

\* The results of a batch.
ResultsOf(n, calls, R) == [p \in DOMAIN calls |-> Tool(n, p, R[p])]
LEMMA BatchResults ==
  ASSUME LoopAssumption, NEW n \in Intents, NEW calls \in Batches, NEW R,
         \A p \in DOMAIN calls : R[p] \in {"done", "refused", "skipped", "unknown"},
         NEW r, r = ResultsOf(n, calls, R)
  PROVE  /\ r \in Seq(Message) /\ Len(r) = Len(calls)
         /\ \A p \in 1..Len(calls) : r[p] = Tool(n, p, R[p])
<1> USE DEF ResultsOf
<1>1. DOMAIN calls = 1..Len(calls) /\ Len(calls) \in Nat /\ DOMAIN calls \subseteq Positions
  BY BatchShape
<1>2. \A p \in DOMAIN calls : r[p] = Tool(n, p, R[p]) /\ r[p] \in Message
  BY <1>1, MessagesMade, Zenon
<1>3. r \in Seq(Message) /\ Len(r) = Len(calls)
  BY <1>1, <1>2
<1>4. QED
  BY <1>1, <1>2, <1>3

\* Two sequences, one after the other.
LEMMA Joined ==
  ASSUME NEW S, NEW t \in Seq(S), NEW r \in Seq(S), NEW u, u = t \o r
  PROVE  /\ Len(t) \in Nat /\ Len(r) \in Nat /\ DOMAIN t = 1..Len(t)
         /\ u \in Seq(S) /\ Len(u) = Len(t) + Len(r) /\ DOMAIN u = 1..(Len(t) + Len(r))
         /\ \A i \in 1..Len(t) : u[i] = t[i]
         /\ \A p \in 1..Len(r) : u[Len(t) + p] = r[p]
<1>1. /\ Len(t) \in Nat /\ Len(r) \in Nat /\ DOMAIN t = 1..Len(t)
      /\ u \in Seq(S) /\ Len(u) = Len(t) + Len(r) /\ DOMAIN u = 1..(Len(t) + Len(r))
  BY ConcatProperties, LenProperties
<1>2. \A i \in 1..(Len(t) + Len(r)) : u[i] = IF i <= Len(t) THEN t[i] ELSE r[i - Len(t)]
  BY ConcatProperties, Zenon
<1>3. ASSUME NEW i \in 1..Len(t) PROVE u[i] = t[i]
  BY <1>1, <1>2
<1>4. ASSUME NEW p \in 1..Len(r) PROVE u[Len(t) + p] = r[p]
  <2>1. Len(t) + p \in 1..(Len(t) + Len(r)) /\ ~(Len(t) + p <= Len(t)) /\ (Len(t) + p) - Len(t) = p
    BY <1>1
  <2>2. QED
    BY <2>1, <1>2, Zenon
<1>5. QED
  BY <1>1, <1>3, <1>4

\* A transcript that is not open, with one more message that is no result.
LEMMA FollowsAppend ==
  ASSUME LoopAssumption, NEW t \in Seq(Message), Follows(t), ~Open(t), NEW m \in Message, m.role # "tool"
  PROVE  /\ Append(t, m) \in Seq(Message) /\ Follows(Append(t, m))
         /\ Len(Append(t, m)) = Len(t) + 1 /\ DOMAIN Append(t, m) = 1..(Len(t) + 1)
         /\ DOMAIN t = 1..Len(t) /\ Len(t) \in Nat
         /\ \A i \in 1..Len(t) : Append(t, m)[i] = t[i]
         /\ Append(t, m)[Len(t) + 1] = m /\ Last(Append(t, m)) = m /\ Append(t, m) # <<>>
         /\ Open(Append(t, m)) <=> m.role = "intent"
<1>1. PICK n \in Nat : n = Len(t) /\ DOMAIN t = 1..n
  BY LenProperties
<1>2. PICK u : u = Append(t, m)
  OBVIOUS
<1>3. /\ u \in Seq(Message) /\ Len(u) = n + 1 /\ DOMAIN u = 1..(n + 1) /\ u # <<>>
      /\ \A i \in 1..n : u[i] = t[i]
      /\ u[n + 1] = m
  BY <1>1, <1>2
<1>4. Last(u) = m /\ (Open(u) <=> m.role = "intent")
  BY <1>3 DEF Last, Open
<1>5. \A i \in 1..n : t[i] \in Message
  BY <1>1, ElementOfSeq
<1>6. ASSUME NEW i \in DOMAIN u, u[i].role = "intent", i # Len(u), NEW p \in DOMAIN u[i].calls
      PROVE  i + p \in DOMAIN u /\ u[i+p].role = "tool" /\ u[i+p].n = u[i].n /\ u[i+p].p = p
  <2>1. i \in 1..n /\ u[i] = t[i] /\ p \in Nat
    BY <1>3, <1>5, <1>6, MessageKinds, BatchShape
  <2>2. i # n
    BY <2>1, <1>1, <1>6, EmptySeq DEF Open, Last
  <2>3. i + p \in 1..n /\ t[i+p].role = "tool" /\ t[i+p].n = t[i].n /\ t[i+p].p = p
    BY <2>1, <2>2, <1>1, <1>6 DEF Follows
  <2>4. QED
    BY <2>1, <2>3, <1>3
<1>7. ASSUME NEW i \in DOMAIN u, u[i].role = "tool"
      PROVE  i > u[i].p /\ u[i - u[i].p].role = "intent" /\ u[i - u[i].p].n = u[i].n
  <2>1. i \in 1..n /\ u[i] = t[i] /\ t[i].p \in Nat \ {0}
    BY <1>3, <1>5, <1>7, MessageKinds, PositionsNat
  <2>2. i > t[i].p /\ t[i - t[i].p].role = "intent" /\ t[i - t[i].p].n = t[i].n
    BY <2>1, <1>1, <1>7 DEF Follows
  <2>3. i - t[i].p \in 1..n
    BY SMTT(30), <2>1, <2>2
  <2>4. QED
    BY <2>1, <2>2, <2>3, <1>3
<1>8. Follows(u)
  BY <1>6, <1>7 DEF Follows
<1>9. QED
  BY <1>1, <1>2, <1>3, <1>4, <1>8

\* An open one of n messages that k results follow.
Answered(t, u, n, k) ==
  /\ n \in Nat \ {0} /\ k \in Nat \ {0} /\ Follows(t) /\ DOMAIN t = 1..n /\ Len(t) = n
  /\ DOMAIN u = 1..(n + k) /\ Len(u) = n + k
  /\ \A i \in 1..n : u[i] = t[i]
  /\ \A p \in 1..k : u[n + p].role = "tool" /\ u[n + p].n = t[n].n /\ u[n + p].p = p
  /\ \A i \in 1..n : t[i].role = "tool" => t[i].p \in Nat \ {0}
  /\ \A i \in 1..n : t[i].role = "intent" => DOMAIN t[i].calls \subseteq Nat
  /\ t[n].role = "intent" /\ DOMAIN t[n].calls = 1..k

LEMMA FollowsAnswered ==
  ASSUME NEW t, NEW u, NEW n, NEW k, Answered(t, u, n, k)
  PROVE  Follows(u) /\ ~Open(u) /\ u # <<>>
<1> USE DEF Answered
<1>1. \A i \in 1..(n + k) : i \in 1..n \/ \E p \in 1..k : i = n + p
  <2> SUFFICES ASSUME NEW i \in 1..(n + k), i \notin 1..n PROVE i - n \in 1..k /\ i = n + (i - n)
    BY ZenonT(60)
  <2> QED
    OBVIOUS
<1>2. ASSUME NEW i \in DOMAIN u, u[i].role = "intent", i # Len(u), NEW p \in DOMAIN u[i].calls
      PROVE  i + p \in DOMAIN u /\ u[i+p].role = "tool" /\ u[i+p].n = u[i].n /\ u[i+p].p = p
  <2>1. i \in 1..n /\ u[i] = t[i] /\ p \in Nat /\ t[i].role = "intent"
    BY <1>1, <1>2
  <2>2. CASE i = n
    <3>1. p \in 1..k
      BY <2>1, <2>2, <1>2
    <3>2. n + p \in DOMAIN u
      BY <3>1
    <3>3. QED
      BY <3>1, <3>2, <2>1, <2>2
  <2>3. CASE i # n
    <3>1. i + p \in 1..n /\ t[i+p].role = "tool" /\ t[i+p].n = t[i].n /\ t[i+p].p = p
      BY <2>1, <2>3, <1>2 DEF Follows
    <3>2. i + p \in DOMAIN u
      BY <3>1
    <3>3. QED
      BY <3>1, <3>2, <2>1
  <2>4. QED
    BY <2>2, <2>3
<1>3. ASSUME NEW i \in DOMAIN u, u[i].role = "tool"
      PROVE  i > u[i].p /\ u[i - u[i].p].role = "intent" /\ u[i - u[i].p].n = u[i].n
  <2>1. CASE i \in 1..n
    <3>1. u[i] = t[i] /\ t[i].p \in Nat \ {0} /\ t[i].role = "tool"
      BY <2>1, <1>3
    <3>2. i > t[i].p /\ t[i - t[i].p].role = "intent" /\ t[i - t[i].p].n = t[i].n
      BY <2>1, <3>1, <1>3 DEF Follows
    <3>3. i - t[i].p \in 1..n
      BY <2>1, <3>1, <3>2
    <3>4. QED
      BY SMTT(30), <3>1, <3>2, <3>3
  <2>2. CASE i \notin 1..n
    <3>1. PICK p \in 1..k : i = n + p
      BY <2>2, <1>1
    <3>2. u[i].p = p /\ u[i].n = t[n].n
      BY <3>1
    <3>3. i - p = n /\ i > p
      BY <3>1
    <3>4. u[n] = t[n]
      OBVIOUS
    <3>5. QED
      BY <3>2, <3>3, <3>4
  <2>3. QED
    BY <2>1, <2>2
<1>4. Follows(u)
  BY <1>2, <1>3 DEF Follows
<1>5. ~Open(u) /\ u # <<>>
  <2>1. k \in 1..k /\ Last(u) = u[n + k]
    BY DEF Last
  <2>2. u # <<>>
    BY EmptySeq
  <2>3. QED
    BY <2>1, <2>2 DEF Open
<1>6. QED
  BY <1>4, <1>5

\* An open one, with a result for every call of its last batch.
WithResults(t, n, calls, R) == t \o ResultsOf(n, calls, R)
IsOpenWith(t, n, calls, R) ==
  /\ t \in Seq(Message) /\ Follows(t) /\ Open(t) /\ n = Last(t).n /\ calls = Last(t).calls
  /\ \A p \in DOMAIN calls : R[p] \in {"done", "refused", "skipped", "unknown"}

LEMMA FollowsResults ==
  ASSUME LoopAssumption, NEW t, NEW n, NEW calls, NEW R, IsOpenWith(t, n, calls, R),
         NEW u, u = WithResults(t, n, calls, R)
  PROVE  /\ u \in Seq(Message) /\ Follows(u) /\ ~Open(u) /\ u # <<>>
         /\ Len(t) \in Nat \ {0} /\ DOMAIN t = 1..Len(t) /\ Len(calls) \in Nat
         /\ Len(u) = Len(t) + Len(calls) /\ DOMAIN u = 1..(Len(t) + Len(calls))
         /\ calls \in Batches /\ n \in Intents
         /\ \A i \in 1..Len(t) : u[i] = t[i]
         /\ \A p \in 1..Len(calls) : u[Len(t) + p] = Tool(n, p, R[p])
<1> USE DEF IsOpenWith
<1>0. PICK r : r = ResultsOf(n, calls, R) /\ u = t \o r
  BY DEF WithResults
<1>1. Len(t) \in Nat \ {0} /\ DOMAIN t = 1..Len(t)
  BY LenProperties, EmptySeq DEF Open
<1>2. Last(t) = t[Len(t)] /\ t[Len(t)].role = "intent"
  BY DEF Open, Last
<1>3. \A i \in DOMAIN t : t[i] \in Message
  BY ElementOfSeq
<1>4. n \in Intents /\ calls \in Batches
  BY <1>1, <1>2, <1>3, MessageKinds
<1>6. r \in Seq(Message) /\ Len(r) = Len(calls) /\ \A p \in 1..Len(r) : r[p] = Tool(n, p, R[p])
  BY <1>4, <1>0, BatchResults
<1>7. Len(r) \in Nat \ {0} /\ DOMAIN calls = 1..Len(r)
  BY <1>4, <1>6, BatchShape
<1>8. /\ u \in Seq(Message) /\ Len(u) = Len(t) + Len(r) /\ DOMAIN u = 1..(Len(t) + Len(r))
      /\ \A i \in 1..Len(t) : u[i] = t[i]
      /\ \A p \in 1..Len(r) : u[Len(t) + p] = r[p]
  <2>1. r \in Seq(Message)
    BY <1>6
  <2>2. QED
    BY <2>1, <1>0, Joined, SMTT(30)
<1>9. ASSUME NEW p \in 1..Len(r)
      PROVE  /\ u[Len(t) + p] = Tool(n, p, R[p])
             /\ u[Len(t) + p].role = "tool" /\ u[Len(t) + p].n = n /\ u[Len(t) + p].p = p
  <2>1. u[Len(t) + p] = Tool(n, p, R[p])
    BY <1>6, <1>8, Zenon
  <2>2. QED
    BY <2>1 DEF Tool
<1>10. \A i \in 1..Len(t) : t[i].role = "tool" => t[i].p \in Nat \ {0}
  BY <1>1, <1>3, MessageKinds, PositionsNat
<1>11. \A i \in 1..Len(t) : t[i].role = "intent" => DOMAIN t[i].calls \subseteq Nat
  BY <1>1, <1>3, MessageKinds, BatchShape
<1>12. Answered(t, u, Len(t), Len(r))
  <2>1. t[Len(t)].role = "intent" /\ DOMAIN t[Len(t)].calls = 1..Len(r) /\ t[Len(t)].n = n
    BY <1>2, <1>7
  <2>2. \A p \in 1..Len(r) :
          u[Len(t) + p].role = "tool" /\ u[Len(t) + p].n = t[Len(t)].n /\ u[Len(t) + p].p = p
    BY <2>1, <1>9, Zenon
  <2>3. QED
    BY <2>1, <2>2, <1>1, <1>7, <1>8, <1>10, <1>11, Zenon DEF Answered
<1>13. Follows(u) /\ ~Open(u) /\ u # <<>>
  BY <1>12, FollowsAnswered
<1>14. QED
  BY <1>1, <1>4, <1>6, <1>7, <1>8, <1>9, <1>13, Zenon

\* A transcript that may be sent.
LEMMA FollowsWell ==
  ASSUME NEW t \in Seq(Message), Follows(t), ~Open(t)
  PROVE  WellFormed(t)
<1>1. PICK n \in Nat : n = Len(t) /\ DOMAIN t = 1..n
  BY LenProperties
<1>2. \A i \in DOMAIN t : t[i].role = "intent" => i # Len(t)
  BY <1>1, EmptySeq DEF Open, Last
<1>3. QED
  BY <1>2 DEF Follows, WellFormed

LEMMA OnceAsked ==
  ASSUME NEW t, CarriesOnce(t, prompt)
  PROVE  Asked(t) = 1
<1>1. PICK i \in DOMAIN t : t[i] = User(prompt) /\ \A j \in DOMAIN t : t[j] = User(prompt) => j = i
  BY DEF CarriesOnce
<1>2. {j \in DOMAIN t : t[j] = User(prompt)} = {i}
  BY <1>1
<1>3. QED
  BY <1>2, FS_Singleton DEF Asked

\* Sizes are numbers.
LEMMA FloorType ==
  ASSUME NEW t \in Seq(Message)
  PROVE  Floor(t) \in Nat \ {0}
<1>1. IsFiniteSet(DOMAIN t)
  BY LenProperties, FS_Interval
<1>2. IsFiniteSet({i \in DOMAIN t : Protected(t, i)})
  BY <1>1, FS_Subset
<1>3. QED
  BY <1>2, FS_CardinalityType DEF Floor

-----------------------------------------------------------------------------
(* What a longer record keeps.                                              *)

\* The prompts are up to a and the batches up to b.
Below(t, a, b) ==
  \A i \in DOMAIN t : /\ t[i].role = "user" => t[i].n <= a
                      /\ t[i].role \in {"intent", "tool"} => t[i].n <= b
Recorded(t, n) == \E k \in DOMAIN t : t[k].role = "intent" /\ t[k].n = n
\* What a result says is so, by the history f.
IsTrue(e, f) ==
  /\ e.result = "done" => f[<<e.n, e.p>>] = 1
  /\ e.result \in {"refused", "skipped"} => f[<<e.n, e.p>>] = 0
Truthful(t, f) == \A i \in DOMAIN t : t[i].role = "tool" => IsTrue(t[i], f)

\* One more message: not a result.
MayFollow(t, m, a, b) ==
  /\ t \in Seq(Message) /\ Follows(t) /\ ~Open(t) /\ m \in Message /\ m.role # "tool"
  /\ a \in Nat /\ b \in Nat /\ Below(t, a, b)
  /\ m.role = "user" => m.n <= a
  /\ m.role = "intent" => m.n <= b

LEMMA AppendRecord ==
  ASSUME LoopAssumption, NEW t, NEW m, NEW a, NEW b, MayFollow(t, m, a, b),
         NEW u, u = Append(t, m)
  PROVE  /\ u \in Seq(Message) /\ Follows(u) /\ u # <<>> /\ Below(u, a, b)
         /\ Last(u) = m /\ (Open(u) <=> m.role = "intent")
         /\ Len(u) \in Nat \ {0} /\ DOMAIN u = 1..Len(u) /\ u[Len(u)] = m
         /\ \A i \in DOMAIN u : i # Len(u) => i \in DOMAIN t /\ u[i] = t[i]
         /\ \A n : Recorded(t, n) => Recorded(u, n)
         /\ \A f : Truthful(t, f) => Truthful(u, f)
<1> USE DEF MayFollow
<1>1. /\ u \in Seq(Message) /\ Follows(u) /\ u # <<>> /\ Last(u) = m /\ (Open(u) <=> m.role = "intent")
      /\ Len(t) \in Nat /\ Len(u) = Len(t) + 1 /\ DOMAIN u = 1..(Len(t) + 1) /\ DOMAIN t = 1..Len(t)
      /\ u[Len(t) + 1] = m /\ \A i \in 1..Len(t) : u[i] = t[i]
  BY SMTT(30), FollowsAppend
<1>2. PICK n \in Nat : n = Len(t)
  BY <1>1
<1>3. /\ DOMAIN t = 1..n /\ DOMAIN u = 1..(n + 1) /\ Len(u) = n + 1 /\ u[n + 1] = m
      /\ \A i \in 1..n : u[i] = t[i]
  BY <1>1, <1>2
<1>4. \A i \in 1..(n + 1) : i \in 1..n \/ i = n + 1
  OBVIOUS
<1>5. 1..n \subseteq 1..(n + 1) /\ n + 1 \in 1..(n + 1) /\ n + 1 \notin 1..n
  OBVIOUS
<1>6. Below(u, a, b)
  BY <1>3, <1>4 DEF Below
<1>7. \A i \in DOMAIN u : i # Len(u) => i \in DOMAIN t /\ u[i] = t[i]
  BY <1>3, <1>4
<1>8. \A k : Recorded(t, k) => Recorded(u, k)
  BY <1>3, <1>5, Zenon DEF Recorded
<1>9. \A f : Truthful(t, f) => Truthful(u, f)
  BY <1>3, <1>4, Zenon DEF Truthful
<1>10. Len(u) \in Nat \ {0} /\ DOMAIN u = 1..Len(u) /\ u[Len(u)] = m
  BY <1>3
<1>11. QED
  BY <1>1, <1>6, <1>7, <1>8, <1>9, <1>10, Zenon

\* The prompt is asked once.
LEMMA AppendCarries ==
  ASSUME NEW t \in Seq(Message), NEW m, NEW a, NEW u, u = Append(t, m), CarriesOnce(t, a), m # User(a)
  PROVE  CarriesOnce(u, a)
<1>1. PICK n \in Nat : n = Len(t) /\ DOMAIN t = 1..n
  BY LenProperties
<1>2. DOMAIN u = 1..(n + 1) /\ u[n + 1] = m /\ \A i \in 1..n : u[i] = t[i]
  BY <1>1
<1>3. PICK i \in DOMAIN t : t[i] = User(a) /\ \A j \in DOMAIN t : t[j] = User(a) => j = i
  BY ZenonT(60) DEF CarriesOnce
<1>4. i \in DOMAIN u /\ u[i] = User(a)
  BY <1>1, <1>2, <1>3
<1>5. \A j \in 1..(n + 1) : j \in 1..n \/ j = n + 1
  OBVIOUS
<1>6. \A j \in DOMAIN u : u[j] = User(a) => j = i
  BY <1>1, <1>2, <1>3, <1>5
<1>7. QED
  BY <1>4, <1>6, Zenon DEF CarriesOnce

LEMMA AppendAsks ==
  ASSUME NEW t \in Seq(Message), NEW a, a > 0, \A i \in DOMAIN t : t[i] # User(a),
         NEW u, u = Append(t, User(a))
  PROVE  CarriesOnce(u, a)
<1>1. PICK n \in Nat : n = Len(t) /\ DOMAIN t = 1..n
  BY LenProperties
<1>2. DOMAIN u = 1..(n + 1) /\ u[n + 1] = User(a) /\ \A i \in 1..n : u[i] = t[i]
  BY <1>1
<1>3. n + 1 \in DOMAIN u
  BY <1>2
<1>4. \A j \in 1..(n + 1) : j \in 1..n \/ j = n + 1
  OBVIOUS
<1>5. \A j \in DOMAIN u : u[j] = User(a) => j = n + 1
  BY <1>1, <1>2, <1>4
<1>6. QED
  BY <1>2, <1>3, <1>5, Zenon DEF CarriesOnce

\* A result for every call of the last batch.
LEMMA ResultsRecord ==
  ASSUME LoopAssumption, NEW t, NEW n, NEW calls, NEW R, IsOpenWith(t, n, calls, R),
         NEW u, u = WithResults(t, n, calls, R), NEW a, NEW b, Below(t, a, b)
  PROVE  /\ u \in Seq(Message) /\ Follows(u) /\ ~Open(u) /\ u # <<>> /\ Below(u, a, b)
         /\ \A x : CarriesOnce(t, x) => CarriesOnce(u, x)
         /\ \A i \in DOMAIN u : u[i].role # "tool" => i \in DOMAIN t /\ u[i] = t[i]
         /\ \A k : Recorded(t, k) => Recorded(u, k)
         /\ \A f : Truthful(t, f) /\ (\A p \in DOMAIN calls : IsTrue(Tool(n, p, R[p]), f)) => Truthful(u, f)
<1>1. /\ u \in Seq(Message) /\ Follows(u) /\ ~Open(u) /\ u # <<>>
      /\ Len(t) \in Nat \ {0} /\ DOMAIN t = 1..Len(t) /\ Len(calls) \in Nat
      /\ DOMAIN u = 1..(Len(t) + Len(calls)) /\ calls \in Batches /\ n \in Intents
      /\ \A i \in 1..Len(t) : u[i] = t[i]
      /\ \A p \in 1..Len(calls) : u[Len(t) + p] = Tool(n, p, R[p])
  BY SMTT(30), FollowsResults
<1>2. PICK l \in Nat \ {0}, k \in Nat : l = Len(t) /\ k = Len(calls)
  BY <1>1
<1>3. DOMAIN calls = 1..k
  BY <1>1, <1>2, BatchShape
<1>4. /\ DOMAIN t = 1..l /\ DOMAIN u = 1..(l + k)
      /\ \A i \in 1..l : u[i] = t[i]
      /\ \A p \in 1..k : u[l + p] = Tool(n, p, R[p])
  BY <1>1, <1>2
<1>5. \A i \in 1..(l + k) : i \in 1..l \/ \E p \in 1..k : i = l + p
  <2> SUFFICES ASSUME NEW i \in 1..(l + k), i \notin 1..l PROVE i - l \in 1..k /\ i = l + (i - l)
    BY ZenonT(60)
  <2> QED
    OBVIOUS
<1>6. 1..l \subseteq 1..(l + k) /\ l \in 1..l
  OBVIOUS
<1>7. ASSUME NEW p \in 1..k
      PROVE  /\ u[l + p].role = "tool" /\ u[l + p].n = n /\ u[l + p].p = p
             /\ \A x : u[l + p] # User(x)
  <2>1. u[l + p] = Tool(n, p, R[p])
    BY <1>4, Zenon
  <2>2. u[l + p].role = "tool" /\ u[l + p].n = n /\ u[l + p].p = p
    BY <2>1 DEF Tool
  <2>3. \A x : User(x).role = "user"
    BY DEF User
  <2>4. QED
    BY <2>2, <2>3, Zenon
\* A message is one of before or a result.
<1>8. ASSUME NEW i \in DOMAIN u
      PROVE  \/ i \in DOMAIN t /\ u[i] = t[i]
             \/ \E p \in 1..k : i = l + p
  BY <1>4, <1>5, Zenon
<1>9. Below(u, a, b)
  <2>1. n <= b
    BY <1>2, <1>4, <1>6 DEF Below, Open, Last, IsOpenWith
  <2>2. SUFFICES ASSUME NEW i \in DOMAIN u
                 PROVE  /\ u[i].role = "user" => u[i].n <= a
                        /\ u[i].role \in {"intent", "tool"} => u[i].n <= b
    BY ZenonT(60) DEF Below
  <2>3. CASE i \in DOMAIN t /\ u[i] = t[i]
    BY <2>3, Zenon DEF Below
  <2>4. CASE \E p \in 1..k : i = l + p
    BY <2>1, <2>4, <1>7
  <2>5. QED
    BY <1>8, <2>3, <2>4
<1>10. ASSUME NEW x, CarriesOnce(t, x) PROVE CarriesOnce(u, x)
  <2>1. PICK i \in DOMAIN t : t[i] = User(x) /\ \A j \in DOMAIN t : t[j] = User(x) => j = i
    BY <1>10, Zenon DEF CarriesOnce
  <2>2. i \in DOMAIN u /\ u[i] = User(x)
    BY <2>1, <1>4, <1>6, Zenon
  <2>3. \A j \in DOMAIN u : u[j] = User(x) => j = i
    <3> SUFFICES ASSUME NEW j \in DOMAIN u, u[j] = User(x) PROVE j = i
      BY ZenonT(60)
    <3>1. \A p \in 1..k : j # l + p
      <4> SUFFICES ASSUME NEW p \in 1..k, j = l + p PROVE FALSE
        BY ZenonT(60)
      <4> QED
        BY <1>7, Zenon
    <3>2. j \in DOMAIN t /\ t[j] = User(x)
      BY <1>8, <3>1, Zenon
    <3>3. QED
      BY <2>1, <3>2, Zenon
  <2>4. QED
    BY <2>2, <2>3, <1>10, Zenon DEF CarriesOnce
<1>11. ASSUME NEW i \in DOMAIN u, u[i].role # "tool" PROVE i \in DOMAIN t /\ u[i] = t[i]
  <2>1. \A p \in 1..k : i # l + p
    BY ZenonT(60), <1>7, <1>11
  <2>2. QED
    BY <1>8, <2>1, Zenon
<1>12. \A x : Recorded(t, x) => Recorded(u, x)
  BY <1>4, <1>6, Zenon DEF Recorded
<1>13. ASSUME NEW f, Truthful(t, f), \A p \in DOMAIN calls : IsTrue(Tool(n, p, R[p]), f)
       PROVE  Truthful(u, f)
  <2>1. SUFFICES ASSUME NEW i \in DOMAIN u, u[i].role = "tool" PROVE IsTrue(u[i], f)
    BY ZenonT(60) DEF Truthful
  <2>2. CASE i \in DOMAIN t /\ u[i] = t[i]
    BY <2>1, <2>2, <1>13, Zenon DEF Truthful
  <2>3. CASE \E p \in 1..k : i = l + p
    BY <2>3, <1>3, <1>4, <1>13, Zenon
  <2>4. QED
    BY <1>8, <2>2, <2>3
<1>14. QED
  BY <1>1, <1>9, <1>10, <1>11, <1>12, <1>13, Zenon
-----------------------------------------------------------------------------
(* Where the steps lead.                                                    *)

\* The batch that is being worked on is the last that was asked for.
LEMMA CurrentBatch ==
  ASSUME LoopAssumption, TypeOK, RecordInv, Working
  PROVE  /\ Running /\ disk.messages = transcript /\ Open(transcript)
         /\ Last(transcript) = Current /\ Current.role = "intent" /\ Current.n = issued /\ issued \in Intents
         /\ Current.calls \in Batches /\ Size \in Nat \ {0} /\ DOMAIN Current.calls = 1..Size
         /\ 1..Size \subseteq Positions /\ Recorded(disk.messages, issued)
<1>1. Running /\ disk.messages = transcript /\ Open(transcript)
  BY DEF RecordInv, Running, Working
<1>2. transcript \in Seq(Message) /\ transcript # <<>> /\ Current.role = "intent"
  BY <1>1 DEF Open, TypeOK, Current
<1>3. Len(transcript) \in Nat \ {0} /\ DOMAIN transcript = 1..Len(transcript)
  BY <1>2, LenProperties, EmptySeq
<1>4. Len(transcript) \in DOMAIN transcript /\ Current = transcript[Len(transcript)]
  BY <1>3 DEF Current, Last
<1>5. Current \in Message
  BY <1>2, <1>4, ElementOfSeq
<1>6. Current.n \in Intents /\ Current.calls \in Batches
  BY <1>2, <1>5, MessageKinds
<1>7. Current.n = issued
  BY <1>1, <1>2, <1>4 DEF RecordInv
<1>8. Size \in Nat \ {0} /\ DOMAIN Current.calls = 1..Size /\ 1..Size \subseteq Positions
  BY <1>6, BatchShape DEF Size
<1>9. Recorded(disk.messages, issued)
  BY <1>1, <1>2, <1>4, <1>7, Zenon DEF Recorded
<1>10. QED
  BY <1>1, <1>2, <1>6, <1>7, <1>8, <1>9 DEF Current

\* A request is under way or the next one is, and the record is as it was.
Asks == Asking /\ UNCHANGED <<at, outcome, ran, record, batch, limits, bounds>>
\* The run ends, and the record is as it was.
EndsRun ==
  /\ Running /\ (\E how \in Outcomes \ {"none"} : Ends(how))
  /\ UNCHANGED <<ran, disk, prompt, bounds>>
\* What is known of the requests.
RequestOK ==
  /\ sent \in Nat /\ rejected \in Nat /\ budget \in Nat
  /\ retries \in 0..MaxRetries /\ hangs \in 0..MaxHangs /\ shrinks \in 0..MaxShrinks
  /\ rejected # 0 => rejected > window /\ budget < rejected
Irreducible == outcome = "irreducible" => Floor(disk.messages) > window

LEMMA RequestSteps ==
  ASSUME LoopAssumption, TypeOK, RecordInv, SizeInv,
         Sends \/ ContextRejected \/ Hangs \/ Failed \/ AnswerLost \/ TooLong
  PROVE  ((Asks /\ RequestOK') \/ EndsRun) /\ Irreducible'
<1>1. PICK f : f = Floor(transcript)
  OBVIOUS
<1>2. f \in Nat
  BY <1>1, FloorType DEF TypeOK
<1>3. Asking => Running /\ disk.messages = transcript /\ outcome = "none"
  BY DEF Asking, Running, RecordInv
<1>4. RequestOK
  BY DEF RequestOK, TypeOK, SizeInv
<1>5. ASSUME NEW how \in Outcomes \ {"none", "irreducible"}, Running, Ends(how), UNCHANGED <<ran, disk, prompt, bounds>>
      PROVE  EndsRun /\ Irreducible'
  BY <1>5 DEF EndsRun, Ends, Irreducible
<1>6. ASSUME Running, Ends("irreducible"), UNCHANGED <<ran, disk, prompt, bounds>>, disk.messages = transcript, f > window
      PROVE  EndsRun /\ Irreducible'
  <2>1. "irreducible" \in Outcomes \ {"none"}
    BY DEF Outcomes
  <2>2. EndsRun
    BY <2>1, <1>6, Zenon DEF EndsRun
  <2>3. disk' = disk /\ window' = window
    BY <1>6 DEF bounds
  <2>4. Floor(disk'.messages) > window'
    BY <2>3, <1>1, <1>6
  <2>5. QED
    BY <2>2, <2>4 DEF Irreducible
<1>7. CASE Sends
  <2>1. Asking /\ Running
    BY <1>3, <1>7 DEF Sends
  <2>2. PayloadSize \in Nat
    BY LenProperties DEF PayloadSize, TypeOK
  <2>3. PICK size \in Projected :
          \/ (rejected = 0 \/ size < rejected) /\ sent' = size
             /\ UNCHANGED <<at, outcome, run, batch, limits, rejected, budget, retries, hangs, shrinks>>
          \/ rejected # 0 /\ size >= rejected /\ Ends("irreducible")
    BY <1>7 DEF Sends
  <2>4. size \in Nat /\ (size <= budget \/ size = f)
    BY <2>2, <2>3, <1>1, <1>2 DEF Projected, TypeOK
  <2>5. CASE (rejected = 0 \/ size < rejected) /\ sent' = size
             /\ UNCHANGED <<at, outcome, run, batch, limits, rejected, budget, retries, hangs, shrinks>>
    <3>1. Asks
      BY <2>1, <2>5, <1>7 DEF Asks, Sends, record, run
    <3>2. RequestOK'
      BY <2>4, <2>5, <1>4, <3>1 DEF RequestOK, Asks, bounds
    <3>3. Irreducible'
      BY <2>1, <1>3, <3>1 DEF Irreducible, Asks
    <3>4. QED
      BY <3>1, <3>2, <3>3
  <2>6. CASE rejected # 0 /\ size >= rejected /\ Ends("irreducible")
    <3>1. f > window
      BY <2>4, <2>6, <1>2, <1>4 DEF RequestOK, TypeOK
    <3>2. UNCHANGED <<ran, disk, prompt, bounds>>
      BY <1>7 DEF Sends
    <3>3. QED
      BY <2>1, <2>6, <3>1, <3>2, <1>3, <1>6
  <2>7. QED
    BY <2>3, <2>5, <2>6
<1>8. CASE ContextRejected
  <2>1. Asking /\ Running /\ sent > window /\ UNCHANGED <<ran, disk, prompt, bounds>>
    BY <1>3, <1>8 DEF ContextRejected
  <2>2. CASE Probe /\ Ends("irreducible")
    <3>1. f > window
      BY <2>1, <2>2, <1>1 DEF Probe
    <3>2. QED
      BY <2>1, <2>2, <3>1, <1>3, <1>6
  <2>3. CASE Ends("rejected")
    <3>1. "rejected" \in Outcomes \ {"none", "irreducible"}
      BY DEF Outcomes
    <3>2. QED
      BY <2>1, <2>3, <3>1, <1>5
  <2>4. CASE /\ ~Probe /\ shrinks < MaxShrinks /\ Smaller < sent
             /\ sent' = 0 /\ rejected' = sent /\ shrinks' = shrinks + 1 /\ retries' = 0
             /\ \E limit \in {budget, Lower(budget, window)} : budget' = Lower(limit, Smaller)
             /\ UNCHANGED <<at, outcome, run, batch, limits, hangs>>
    <3>1. Smaller \in Nat
      BY DEF Smaller, TypeOK
    <3>2. Asks
      BY <2>1, <2>4 DEF Asks, record, run
    <3>3. budget' \in Nat /\ budget' < sent
      BY <2>4, <3>1 DEF TypeOK, Lower
    <3>4. window' = window
      BY <2>1 DEF bounds
    <3>5. RequestOK'
      BY <2>1, <2>4, <3>3, <3>4, LoopAssumption DEF RequestOK, TypeOK
    <3>6. Irreducible'
      BY <2>1, <1>3, <3>2 DEF Irreducible, Asks
    <3>7. QED
      BY <3>2, <3>5, <3>6
  <2>5. QED
    BY <1>8, <2>2, <2>3, <2>4 DEF ContextRejected
<1>9. CASE Hangs
  <2>1. Asking /\ Running /\ UNCHANGED <<ran, disk, prompt, bounds>>
    BY <1>3, <1>9 DEF Hangs
  <2>2. CASE /\ hangs < MaxHangs /\ hangs' = hangs + 1 /\ retries' = 0 /\ sent' = 0
             /\ UNCHANGED <<at, outcome, run, batch, limits, rejected, budget, shrinks>>
    <3>1. Asks
      BY <2>1, <2>2 DEF Asks, record, run
    <3>2. RequestOK'
      BY <2>1, <2>2, <1>4, LoopAssumption DEF RequestOK, bounds
    <3>3. Irreducible'
      BY <2>1, <1>3, <3>1 DEF Irreducible, Asks
    <3>4. QED
      BY <3>1, <3>2, <3>3
  <2>3. CASE Ends("deferred")
    <3>1. "deferred" \in Outcomes \ {"none", "irreducible"}
      BY DEF Outcomes
    <3>2. QED
      BY <2>1, <2>3, <3>1, <1>5
  <2>4. QED
    BY <1>9, <2>2, <2>3 DEF Hangs
<1>10. CASE Failed
  <2>1. Asking /\ Running /\ UNCHANGED <<ran, disk, prompt, bounds>>
    BY <1>3, <1>10 DEF Failed
  <2>2. CASE /\ retries < MaxRetries /\ retries' = retries + 1
             /\ UNCHANGED <<at, outcome, run, batch, limits, sent, rejected, budget, hangs, shrinks>>
    <3>1. Asks
      BY <2>1, <2>2 DEF Asks, record, run
    <3>2. RequestOK'
      BY <2>1, <2>2, <1>4, LoopAssumption DEF RequestOK, bounds
    <3>3. Irreducible'
      BY <2>1, <1>3, <3>1 DEF Irreducible, Asks
    <3>4. QED
      BY <3>1, <3>2, <3>3
  <2>3. CASE Ends("failed")
    <3>1. "failed" \in Outcomes \ {"none", "irreducible"}
      BY DEF Outcomes
    <3>2. QED
      BY <2>1, <2>3, <3>1, <1>5
  <2>4. QED
    BY <1>10, <2>2, <2>3 DEF Failed
<1>11. CASE AnswerLost
  <2>1. Running /\ UNCHANGED <<ran, disk, prompt, bounds>>
    BY <1>3, <1>11 DEF AnswerLost, Accepted
  <2>2. {"toolong", "empty"} \subseteq Outcomes \ {"none", "irreducible"}
    BY DEF Outcomes
  <2>3. QED
    BY <2>1, <2>2, <1>5, <1>11 DEF AnswerLost
<1>12. CASE TooLong
  <2>1. Running /\ Ends("toolong") /\ UNCHANGED <<ran, disk, prompt, bounds>>
    BY <1>12 DEF TooLong, BatchDone, Running
  <2>2. "toolong" \in Outcomes \ {"none", "irreducible"}
    BY DEF Outcomes
  <2>3. QED
    BY <2>1, <2>2, <1>5
<1>13. QED
  BY <1>7, <1>8, <1>9, <1>10, <1>11, <1>12

\* What a step is.
LEMMA StepKinds ==
  ASSUME LoopAssumption, TypeOK, RecordInv, SizeInv, [Next]_vars
  PROVE  \/ UNCHANGED vars \/ (Asks /\ RequestOK') \/ EndsRun
         \/ Resumes \/ Refuses \/ Interrupted \/ Answers \/ (\E b \in Batches : Intends(b))
         \/ PassesOver \/ Begins \/ (\E p \in Positions : CallReturns(p)) \/ Checkpoints \/ Collects \/ Renews
<1>1. Sends \/ ContextRejected \/ Hangs \/ Failed \/ AnswerLost \/ TooLong => (Asks /\ RequestOK') \/ EndsRun
  BY RequestSteps
<1>2. QED
  BY <1>1 DEF Next, Generation, Batch
-----------------------------------------------------------------------------
(* What is saved.                                                           *)

LEMMA HistoryParts ==
  HistoryTruthful <=>
    /\ \A i \in Intents \X Positions : ran[i] <= 1 /\ (ran[i] = 1 => Recorded(disk.messages, i[1]))
    /\ Truthful(transcript, ran) /\ Truthful(disk.messages, ran)
<1>1. ASSUME NEW t
      PROVE  (\A e \in Told(t) : CASE e.result = "done" -> ran[<<e.n, e.p>>] = 1
                                   [] e.result \in {"refused", "skipped"} -> ran[<<e.n, e.p>>] = 0
                                   [] OTHER -> TRUE) <=> Truthful(t, ran)
  BY DEF Told, Truthful, IsTrue
<1>2. QED
  BY <1>1 DEF HistoryTruthful, Recorded

\* The record is a longer one that is as good.
Saved ==
  /\ disk' = [messages |-> disk'.messages, pending |-> None, prompt |-> prompt']
  /\ disk'.messages \in Seq(Message) /\ disk'.messages # <<>> /\ prompt' \in 0..MaxPrompts
  /\ Follows(disk'.messages) /\ Below(disk'.messages, prompt', issued')
  /\ CarriesOnce(disk'.messages, prompt')
  /\ \A n : Recorded(disk.messages, n) => Recorded(disk'.messages, n)
  /\ Truthful(disk'.messages, ran) /\ ran' = ran
\* A record a run may go on with.
Sound(t) ==
  /\ t \in Seq(Message) /\ Follows(t) /\ ~Open(t) /\ Below(t, prompt, issued)
  /\ (t # <<>> => CarriesOnce(t, prompt)) /\ Truthful(t, ran)
  /\ \A n : Recorded(disk.messages, n) => Recorded(t, n)

\* Below and truthful, from the invariant.
LEMMA DiskSound ==
  ASSUME LoopAssumption, TypeOK, RecordInv, HistoryTruthful
  PROVE  /\ disk.messages \in Seq(Message) /\ Follows(disk.messages)
         /\ Below(disk.messages, prompt, issued)
         /\ (disk.messages # <<>> => CarriesOnce(disk.messages, prompt)) /\ Truthful(disk.messages, ran)
         /\ (~Open(disk.messages) => Sound(disk.messages))
<1>1. disk.messages \in Seq(Message) /\ Follows(disk.messages)
      /\ (disk.messages # <<>> => CarriesOnce(disk.messages, prompt))
  BY DEF TypeOK, RecordInv
<1>2. Below(disk.messages, prompt, issued)
  BY DEF RecordInv, Below
<1>3. Truthful(disk.messages, ran)
  BY HistoryParts
<1>4. QED
  BY <1>1, <1>2, <1>3 DEF Sound

LEMMA RestoredSound ==
  ASSUME LoopAssumption, TypeOK, RecordInv, BatchInv, HistoryTruthful
  PROVE  Sound(Restored) /\ (Restored = <<>> <=> disk.messages = <<>>)
<1>1. /\ disk.messages \in Seq(Message) /\ Follows(disk.messages)
      /\ Below(disk.messages, prompt, issued)
      /\ (disk.messages # <<>> => CarriesOnce(disk.messages, prompt)) /\ Truthful(disk.messages, ran)
  BY DiskSound
<1>2. CASE ~Open(disk.messages)
  BY <1>2, DiskSound DEF Restored, Open
<1>3. CASE Open(disk.messages)
  <2>1. PICK n, calls : n = Last(disk.messages).n /\ calls = Last(disk.messages).calls
    OBVIOUS
  <2>2. PICK R : R = [p \in DOMAIN calls |-> RestoredResult(p)]
    OBVIOUS
  <2>3. \A p \in DOMAIN calls : R[p] = RestoredResult(p)
    BY <2>2, Zenon
  <2>4. Restored = WithResults(disk.messages, n, calls, R)
    BY <1>3, <2>1, <2>3 DEF Restored, Open, WithResults, ResultsOf
  <2>5. /\ Len(disk.messages) \in DOMAIN disk.messages
        /\ Last(disk.messages) = disk.messages[Len(disk.messages)]
    BY <1>1, <1>3, LenProperties, EmptySeq DEF Open, Last
  <2>6. n \in Intents /\ calls \in Batches /\ DOMAIN calls \subseteq Positions
    <3>1. Last(disk.messages) \in Message
      BY <1>1, <2>5, ElementOfSeq
    <3>2. QED
      BY <3>1, <1>3, <2>1, MessageKinds, BatchShape DEF Open
  <2>7. ASSUME NEW p \in DOMAIN calls
        PROVE  /\ R[p] \in {"done", "refused", "skipped", "unknown"}
               /\ IsTrue(Tool(n, p, R[p]), ran)
    <3>1. disk.pending[p] \in {"done", "refused", "none"}
      BY <2>6 DEF TypeOK, Pendings, Results
    <3>2. disk.pending[p] # "none" => ran[<<n, p>>] = IF disk.pending[p] = "done" THEN 1 ELSE 0
      BY <1>3, <2>1 DEF BatchInv
    <3>3. R[p] = IF disk.pending[p] = "none" THEN "unknown" ELSE disk.pending[p]
      BY <2>3 DEF RestoredResult
    <3>4. /\ R[p] \in {"done", "refused", "skipped", "unknown"}
          /\ R[p] = "done" => ran[<<n, p>>] = 1
          /\ R[p] \in {"refused", "skipped"} => ran[<<n, p>>] = 0
      BY <3>1, <3>2, <3>3
    <3>5. QED
      BY <3>4 DEF IsTrue, Tool
  <2>8. IsOpenWith(disk.messages, n, calls, R)
    BY <1>1, <1>3, <2>1, <2>7 DEF IsOpenWith
  <2>9. PICK u : u = Restored
    OBVIOUS
  <2>10. /\ u \in Seq(Message) /\ Follows(u) /\ ~Open(u) /\ u # <<>> /\ Below(u, prompt, issued)
         /\ \A x : CarriesOnce(disk.messages, x) => CarriesOnce(u, x)
         /\ \A k : Recorded(disk.messages, k) => Recorded(u, k)
         /\ \A f : Truthful(disk.messages, f) /\ (\A p \in DOMAIN calls : IsTrue(Tool(n, p, R[p]), f))
                     => Truthful(u, f)
    BY <1>1, <2>4, <2>8, <2>9, ResultsRecord
  <2>11. disk.messages # <<>>
    BY <1>3 DEF Open
  <2>12. Truthful(u, ran)
    BY <1>1, <2>7, <2>10, Zenon
  <2>13. QED
    BY <1>1, <2>9, <2>10, <2>11, <2>12 DEF Sound
<1>4. QED
  BY <1>2, <1>3

\* A record to go on with and one more message that is no batch.
LEMMA SoundAppend ==
  ASSUME LoopAssumption, TypeOK, NEW t, Sound(t), NEW m \in Message, m.role \in {"user", "text"},
         NEW q \in 0..MaxPrompts, prompt <= q, m.role = "user" => m.n <= q,
         NEW u, u = Append(t, m),
         \/ t # <<>> /\ q = prompt /\ m # User(q)
         \/ q > 0 /\ m = User(q) /\ (t = <<>> \/ q > prompt)
  PROVE  /\ u \in Seq(Message) /\ u # <<>> /\ Follows(u) /\ ~Open(u) /\ Below(u, q, issued)
         /\ CarriesOnce(u, q) /\ Truthful(u, ran)
         /\ \A n : Recorded(disk.messages, n) => Recorded(u, n)
<1> USE DEF Sound
<1>1. q \in Nat /\ issued \in Nat /\ prompt \in Nat /\ MaxPrompts \in Nat
  BY LoopAssumption DEF TypeOK
<1>2. \A i \in DOMAIN t : t[i].role = "user" => t[i].n \in Nat
  BY ElementOfSeq, MessageKinds, LoopAssumption
<1>3. Below(t, q, issued)
  BY <1>1, <1>2 DEF Below
<1>4. /\ u \in Seq(Message) /\ Follows(u) /\ u # <<>> /\ Below(u, q, issued)
      /\ (Open(u) <=> m.role = "intent")
      /\ \A n : Recorded(t, n) => Recorded(u, n)
      /\ \A f : Truthful(t, f) => Truthful(u, f)
  <2>1. m.role # "tool" /\ (m.role = "intent" => m.n <= issued)
    OBVIOUS
  <2>2. QED
    <3>1. MayFollow(t, m, q, issued)
      BY <1>1, <1>3, <2>1 DEF MayFollow
    <3>2. QED
      BY <3>1, AppendRecord
<1>5. CarriesOnce(u, q)
  <2>1. CASE t # <<>> /\ q = prompt /\ m # User(q)
    BY <2>1, AppendCarries
  <2>2. CASE q > 0 /\ m = User(q) /\ (t = <<>> \/ q > prompt)
    <3>1. \A i \in DOMAIN t : t[i] # User(q)
      <4>1. CASE t = <<>>
        BY <4>1
      <4>2. CASE q > prompt
        <5> SUFFICES ASSUME NEW i \in DOMAIN t, t[i] = User(q) PROVE FALSE
          BY ZenonT(60)
        <5>1. t[i].role = "user" /\ t[i].n = q
          BY DEF User
        <5>2. QED
          BY <5>1, <4>2, <1>1 DEF Below
      <4>3. QED
        BY <2>2, <4>1, <4>2
    <3>2. QED
      BY <2>2, <3>1, AppendAsks
  <2>3. QED
    BY <2>1, <2>2
<1>6. QED
  BY <1>4, <1>5
LEMMA ResumesSaves ==
  ASSUME LoopAssumption, TypeOK, RecordInv, BatchInv, HistoryTruthful, Resumes
  PROVE  /\ Saved /\ ~Open(disk'.messages) /\ transcript' = disk'.messages /\ pending' = None
         /\ UNCHANGED <<ran, window, issued, batch, limits>> /\ ~Running
         /\ budget' \in Windows \cup {Unlimited}
         /\ UNCHANGED <<sent, rejected, retries, hangs, shrinks>>
         /\ at' = "ask" /\ outcome' = "none" /\ resumes' \in 0..MaxResumes
<1>1. PICK q \in {prompt, prompt + 1} \cap 1..MaxPrompts :
        /\ prompt' = q /\ at' = "ask"
        /\ SavesTranscript(IF Restored # <<>> /\ disk.prompt = q THEN Restored
                           ELSE Append(Restored, User(q)))
  BY DEF Resumes
<1>2. PICK t : t = Restored
  OBVIOUS
<1>3. Sound(t) /\ (t = <<>> <=> disk.messages = <<>>)
  BY <1>2, RestoredSound
<1>4. prompt \in Nat /\ MaxPrompts \in Nat /\ q \in 0..MaxPrompts /\ q > 0 /\ prompt <= q /\ disk.prompt = prompt
  BY <1>1, LoopAssumption DEF TypeOK, RecordInv
<1>5. PICK u : u = IF t # <<>> /\ disk.prompt = q THEN t ELSE Append(t, User(q))
  OBVIOUS
<1>6. /\ u \in Seq(Message) /\ u # <<>> /\ Follows(u) /\ ~Open(u) /\ Below(u, q, issued)
      /\ CarriesOnce(u, q) /\ Truthful(u, ran)
      /\ \A n : Recorded(disk.messages, n) => Recorded(u, n)
  <2>1. CASE t # <<>> /\ disk.prompt = q
    BY <2>1, <1>3, <1>4, <1>5 DEF Sound
  <2>2. CASE ~(t # <<>> /\ disk.prompt = q)
    <3>1. u = Append(t, User(q)) /\ (t = <<>> \/ q > prompt)
      BY <2>2, <1>4, <1>5
    <3>2. User(q) \in Message /\ User(q).role \in {"user", "text"} /\ User(q).n <= q
      BY <1>4, MessagesMade
    <3>3. QED
      BY <3>1, <3>2, <1>3, <1>4, SoundAppend
  <2>3. QED
    BY <2>1, <2>2
<1>7. /\ transcript' = u /\ pending' = None
      /\ disk' = [messages |-> u, pending |-> None, prompt |-> prompt']
  BY <1>1, <1>2, <1>5 DEF SavesTranscript
<1>8. issued' = issued /\ ran' = ran
  BY DEF Resumes
<1>9. disk'.messages = u
  BY <1>7
<1>10. Saved
  BY <1>1, <1>4, <1>6, <1>7, <1>8, <1>9 DEF Saved
<1>11. resumes' \in 0..MaxResumes
  BY LoopAssumption DEF Resumes, TypeOK
<1>12. QED
  BY <1>1, <1>6, <1>7, <1>9, <1>10, <1>11 DEF Resumes

LEMMA RenewsSaves ==
  ASSUME LoopAssumption, TypeOK, RecordInv, HistoryTruthful, Renews
  PROVE  Saved /\ ~Open(disk'.messages) /\ transcript' = disk'.messages /\ pending' = None
<1>1. Running /\ disk.messages = transcript /\ transcript # <<>> /\ ~Open(transcript)
  BY DEF Renews, Running, RecordInv, Working
<1>2. Sound(transcript)
  BY <1>1, DiskSound
<1>3. prompt' = prompt /\ prompt \in 0..MaxPrompts /\ issued' = issued /\ ran' = ran
  BY DEF Renews, bounds, TypeOK
<1>4. User(0) # User(prompt) /\ User(0) \in Message /\ User(0).role = "user" /\ User(0).n <= prompt
  <2>1. prompt # 0
    BY <1>1 DEF RecordInv, CarriesOnce
  <2>2. User(0).role = "user" /\ User(0).n = 0 /\ User(prompt).n = prompt
    BY DEF User
  <2>3. User(0) \in Message
    BY MessagesMade, LoopAssumption
  <2>4. QED
    BY <2>1, <2>2, <2>3, <1>3
<1>5. PICK u : u = Append(transcript, User(0))
  OBVIOUS
<1>6. /\ u \in Seq(Message) /\ u # <<>> /\ Follows(u) /\ ~Open(u) /\ Below(u, prompt, issued)
      /\ CarriesOnce(u, prompt) /\ Truthful(u, ran)
      /\ \A n : Recorded(disk.messages, n) => Recorded(u, n)
  <2>1. prompt <= prompt
    BY <1>3, LoopAssumption
  <2>2. QED
    BY <2>1, <1>1, <1>2, <1>3, <1>4, <1>5, SoundAppend
<1>7. transcript' = u /\ pending' = None /\ disk' = [messages |-> u, pending |-> None, prompt |-> prompt']
  BY <1>5 DEF Renews, SavesTranscript
<1>8. disk'.messages = u
  BY <1>7
<1>9. QED
  BY <1>3, <1>6, <1>7, <1>8 DEF Saved

LEMMA AnswersSaves ==
  ASSUME LoopAssumption, TypeOK, RecordInv, HistoryTruthful, Answers
  PROVE  /\ Saved /\ ~Open(disk'.messages) /\ at' = "idle" /\ transcript' = <<>> /\ pending' = None
         /\ Forgets /\ UNCHANGED <<ran, prompt, bounds>> /\ outcome' \in {"answered", "budget", "refused"}
<1>1. Running /\ disk.messages = transcript /\ transcript # <<>> /\ ~Open(transcript)
  BY DEF Answers, Accepted, Asking, Running, RecordInv, Working
<1>2. Sound(transcript)
  BY <1>1, DiskSound
<1>3. prompt' = prompt /\ prompt \in 0..MaxPrompts /\ issued' = issued /\ ran' = ran
  BY DEF Answers, bounds, TypeOK
<1>4. Text # User(prompt) /\ Text \in Message /\ Text.role = "text"
  BY DEF Text, User, Message
<1>5. PICK u : u = Append(transcript, Text)
  OBVIOUS
<1>6. /\ u \in Seq(Message) /\ u # <<>> /\ Follows(u) /\ ~Open(u) /\ Below(u, prompt, issued)
      /\ CarriesOnce(u, prompt) /\ Truthful(u, ran)
      /\ \A n : Recorded(disk.messages, n) => Recorded(u, n)
  <2>1. prompt <= prompt
    BY <1>3, LoopAssumption
  <2>2. QED
    BY <2>1, <1>1, <1>2, <1>3, <1>4, <1>5, SoundAppend
<1>7. disk' = [messages |-> u, pending |-> None, prompt |-> prompt']
  BY <1>3, <1>5 DEF Answers, TypeOK, RecordInv
<1>8. disk'.messages = u
  BY <1>7
<1>9. outcome' \in {"answered", "budget", "refused"}
  BY DEF Answers, Final
<1>10. QED
  BY <1>3, <1>6, <1>7, <1>8, <1>9 DEF Saved, Answers

\* The intent is the last message, and the only one of its batch.
LEMMA IntendsSaves ==
  ASSUME LoopAssumption, TypeOK, RecordInv, HistoryTruthful, NEW b \in Batches, Intends(b)
  PROVE  /\ Saved /\ Open(disk'.messages) /\ transcript' = disk'.messages /\ pending' = None
         /\ issued' = issued + 1 /\ issued' \in Intents /\ Last(disk'.messages) = Intent(issued', b)
         /\ \A i \in DOMAIN disk'.messages : disk'.messages[i].role \in {"intent", "tool"} =>
              (disk'.messages[i].n = issued' <=> i = Len(disk'.messages))
<1>1. Running /\ disk.messages = transcript /\ transcript # <<>> /\ ~Open(transcript)
  BY DEF Intends, Accepted, Asking, Running, RecordInv, Working
<1>2. Sound(transcript) /\ transcript \in Seq(Message) /\ Follows(transcript) /\ Below(transcript, prompt, issued)
      /\ Truthful(transcript, ran) /\ CarriesOnce(transcript, prompt)
  BY <1>1, DiskSound DEF Sound
<1>3. /\ prompt' = prompt /\ prompt \in 0..MaxPrompts /\ ran' = ran /\ issued' = issued + 1
      /\ issued \in Nat /\ issued' \in Nat /\ prompt \in Nat /\ issued' \in Intents
  BY LoopAssumption DEF Intends, Intents, TypeOK
<1>4. PICK m : m = Intent(issued', b)
  OBVIOUS
<1>5. m \in Message /\ m.role = "intent" /\ m.n = issued' /\ m # User(prompt)
  <2>1. m \in Message /\ m.role = "intent" /\ m.n = issued'
    BY <1>3, <1>4, MessagesMade
  <2>2. User(prompt).role = "user"
    BY DEF User
  <2>3. QED
    BY <2>1, <2>2
<1>6. PICK u : u = Append(transcript, m)
  OBVIOUS
<1>7. Below(transcript, prompt, issued')
  <2>1. \A i \in DOMAIN transcript : transcript[i].role \in {"intent", "tool"} => transcript[i].n \in Nat
    BY <1>2, ElementOfSeq, MessageKinds, LoopAssumption DEF Intents
  <2>2. QED
    BY <2>1, <1>2, <1>3 DEF Below
<1>8. /\ u \in Seq(Message) /\ Follows(u) /\ u # <<>> /\ Below(u, prompt, issued')
      /\ Last(u) = m /\ (Open(u) <=> m.role = "intent")
      /\ Len(u) \in Nat \ {0} /\ DOMAIN u = 1..Len(u) /\ u[Len(u)] = m
      /\ \A i \in DOMAIN u : i # Len(u) => i \in DOMAIN transcript /\ u[i] = transcript[i]
      /\ CarriesOnce(u, prompt)
      /\ \A n : Recorded(transcript, n) => Recorded(u, n)
      /\ \A f : Truthful(transcript, f) => Truthful(u, f)
  <2>1. m.role # "tool" /\ (m.role = "user" => m.n <= prompt) /\ (m.role = "intent" => m.n <= issued')
    BY <1>3, <1>5
  <2>2. QED
    <3>1. MayFollow(transcript, m, prompt, issued')
      BY <2>1, <1>1, <1>2, <1>3, <1>5, <1>7 DEF MayFollow
    <3>2. PICK q, t, x : q = issued' /\ t = transcript /\ x = prompt
      OBVIOUS
    <3>3. MayFollow(t, m, x, q) /\ u = Append(t, m)
      BY <3>1, <3>2, <1>6, Zenon
    <3>4. /\ u \in Seq(Message) /\ Follows(u) /\ u # <<>> /\ Below(u, x, q)
          /\ Last(u) = m /\ (Open(u) <=> m.role = "intent")
      BY <3>3, AppendRecord
    <3>5. Len(u) \in Nat \ {0} /\ DOMAIN u = 1..Len(u) /\ u[Len(u)] = m
      BY <3>3, AppendRecord
    <3>6. \A i \in DOMAIN u : i # Len(u) => i \in DOMAIN t /\ u[i] = t[i]
      BY <3>3, AppendRecord
    <3>7. CarriesOnce(u, prompt)
      BY <1>2, <1>5, <1>6, AppendCarries
    <3>8. \A n : Recorded(t, n) => Recorded(u, n)
      BY <3>3, AppendRecord
    <3>9. \A f : Truthful(t, f) => Truthful(u, f)
      BY <3>3, AppendRecord
    <3>10. QED
      BY <3>2, <3>4, <3>5, <3>6, <3>7, <3>8, <3>9, Zenon
<1>9. \A i \in DOMAIN u : u[i].role \in {"intent", "tool"} => (u[i].n = issued' <=> i = Len(u))
  <2> SUFFICES ASSUME NEW i \in DOMAIN u, u[i].role \in {"intent", "tool"}
               PROVE  u[i].n = issued' <=> i = Len(u)
    OBVIOUS
  <2>1. CASE i = Len(u)
    BY <2>1, <1>5, <1>8
  <2>2. CASE i # Len(u)
    <3>1. u[i].n <= issued
      BY <2>2, <1>2, <1>8 DEF Below
    <3>2. QED
      BY <2>2, <3>1, <1>3
  <2>3. QED
    BY <2>1, <2>2
<1>10. /\ transcript' = u /\ pending' = None
       /\ disk' = [messages |-> u, pending |-> None, prompt |-> prompt']
  BY <1>4, <1>6 DEF Intends, SavesTranscript
<1>11. disk'.messages = u
  BY <1>10
<1>12. Saved
  BY <1>1, <1>2, <1>3, <1>5, <1>8, <1>10, <1>11 DEF Saved
<1>13. QED
  BY <1>3, <1>4, <1>5, <1>8, <1>9, <1>10, <1>11, <1>12

LEMMA CollectsSaves ==
  ASSUME LoopAssumption, TypeOK, RecordInv, BatchInv, HistoryTruthful, Collects
  PROVE  Saved /\ ~Open(disk'.messages) /\ transcript' = disk'.messages /\ pending' = None
<1>1. Working /\ at = "batch" /\ wave = {} /\ position > Size
  BY DEF Collects, BatchDone, Working
<1>2. PICK n, calls : n = Current.n /\ calls = Current.calls
  OBVIOUS
<1>3. /\ disk.messages = transcript /\ Open(transcript) /\ Last(transcript) = Current
      /\ n = issued /\ issued \in Intents /\ calls \in Batches /\ DOMAIN calls = 1..Size
      /\ 1..Size \subseteq Positions /\ Size \in Nat
  BY <1>1, <1>2, CurrentBatch
<1>4. /\ transcript \in Seq(Message) /\ Follows(transcript)
      /\ Below(transcript, prompt, issued) /\ CarriesOnce(transcript, prompt) /\ Truthful(transcript, ran)
  BY <1>3, DiskSound DEF Open
<1>5. PICK R : R = [p \in DOMAIN calls |-> ResultOf(p)]
  OBVIOUS
<1>6. \A p \in DOMAIN calls : R[p] = ResultOf(p)
  BY <1>5, Zenon
<1>7. PICK u : u = Collected
  OBVIOUS
<1>8. u = WithResults(transcript, n, calls, R)
  BY <1>2, <1>6, <1>7 DEF Collected, WithResults, ResultsOf
<1>9. ASSUME NEW p \in DOMAIN calls
      PROVE  /\ R[p] \in {"done", "refused", "skipped", "unknown"}
             /\ IsTrue(Tool(n, p, R[p]), ran)
  <2>1. p \in 1..Size /\ p \in Positions
    BY <1>3
  <2>2. pending[p] = "none" <=> p \in skip
    <3>1. ~(p >= position) /\ p \notin wave
      BY <1>1, <1>3, <2>1 DEF TypeOK
    <3>2. pending[p] = "none" <=> p >= position \/ p \in wave \cup skip
      BY <1>1, <2>1 DEF BatchInv
    <3>3. QED
      BY <3>1, <3>2
  <2>3. ran[<<n, p>>] = IF pending[p] = "done" THEN 1 ELSE 0
    BY <1>1, <1>3, <2>1 DEF BatchInv
  <2>4. pending[p] \in {"done", "refused", "none"}
    BY <2>1 DEF TypeOK, Pendings, Results
  <2>5. R[p] = IF p \in skip THEN "skipped" ELSE pending[p]
    BY <1>6 DEF ResultOf
  <2>6. /\ R[p] \in {"done", "refused", "skipped", "unknown"}
        /\ R[p] = "done" => ran[<<n, p>>] = 1
        /\ R[p] \in {"refused", "skipped"} => ran[<<n, p>>] = 0
    BY <2>2, <2>3, <2>4, <2>5
  <2>7. QED
    BY <2>6 DEF IsTrue, Tool
<1>10. IsOpenWith(transcript, n, calls, R)
  BY <1>2, <1>3, <1>4, <1>9 DEF IsOpenWith
<1>11. /\ u \in Seq(Message) /\ Follows(u) /\ ~Open(u) /\ u # <<>> /\ Below(u, prompt, issued)
       /\ \A x : CarriesOnce(transcript, x) => CarriesOnce(u, x)
       /\ \A k : Recorded(transcript, k) => Recorded(u, k)
       /\ \A f : Truthful(transcript, f) /\ (\A p \in DOMAIN calls : IsTrue(Tool(n, p, R[p]), f))
                   => Truthful(u, f)
  BY <1>4, <1>8, <1>10, ResultsRecord
<1>12. Truthful(u, ran)
  BY <1>4, <1>9, <1>11, Zenon
<1>13. prompt' = prompt /\ issued' = issued /\ ran' = ran /\ prompt \in 0..MaxPrompts
  BY DEF Collects, bounds, TypeOK
<1>14. /\ transcript' = u /\ pending' = None
       /\ disk' = [messages |-> u, pending |-> None, prompt |-> prompt']
  BY <1>7 DEF Collects, SavesTranscript
<1>15. disk'.messages = u
  BY <1>14
<1>16. QED
  BY <1>3, <1>4, <1>11, <1>12, <1>13, <1>14, <1>15 DEF Saved
-----------------------------------------------------------------------------
(* Types.                                                                   *)

\* A set of natural numbers that is not empty has a smallest element.
LEMMA LeastNumber ==
  ASSUME NEW T, T \subseteq Nat, T # {}
  PROVE  \E x \in T : \A y \in T : x <= y
<1> DEFINE R == {ss \in Nat \X Nat : ss[1] < ss[2]}
<1>1. IsWellFoundedOn(R, Nat)
  BY NatLessThanWellFounded DEF OpToRel
<1>2. \E x \in T : \A y \in T : ~(<<y, x>> \in R)
  <2> HIDE DEF R
  <2> QED
    BY <1>1, WFMin
<1>3. PICK x \in T : \A y \in T : ~(<<y, x>> \in R)
  BY <1>2
<1>4. \A y \in T : ~(y < x)
  BY <1>3
<1>5. \A y \in T : x \in Nat /\ y \in Nat
  OBVIOUS
<1>6. \A y \in T : x <= y
  BY <1>4, <1>5
<1> QED
  BY <1>6

\* A wave ends after it began, and with its batch.
LEMMA WaveEnds ==
  ASSUME LoopAssumption, TypeOK, RecordInv, Idle
  PROVE  /\ WaveEnd \in Nat /\ position <= WaveEnd /\ WaveEnd <= Size + 1
         /\ Current.calls[position] \in Reads => position < WaveEnd
<1>1. Working
  BY DEF Idle, Working
<1>2. Size \in Nat /\ position \in Nat /\ position <= Size
  BY <1>1, CurrentBatch DEF Idle, TypeOK
<1> DEFINE stops == {q \in position..Size : \/ Current.calls[q] \notin Reads
                                            \/ Cardinality((position..q) \ skip) > WaveSize}
<1>3. WaveEnd = IF stops = {} THEN Size + 1 ELSE CHOOSE q \in stops : \A r \in stops : q <= r
  BY DEF WaveEnd
<1>4. stops \subseteq position..Size
  OBVIOUS
<1>8. Current.calls[position] \in Reads => position \notin stops
  <2>1. position..position = {position}
    BY <1>2
  <2>2. IsFiniteSet({position} \ skip) /\ Cardinality({position} \ skip) <= 1
    <3>1. IsFiniteSet({position}) /\ Cardinality({position}) = 1
      BY FS_Singleton
    <3>2. {position} \ skip \subseteq {position}
      OBVIOUS
    <3>3. QED
      BY <3>1, <3>2, FS_Subset
  <2>3. Cardinality({position} \ skip) \in Nat
    BY <2>2, FS_CardinalityType
  <2>4. ~(Cardinality((position..position) \ skip) > WaveSize)
    BY <2>1, <2>2, <2>3 DEF LoopAssumption
  <2>5. QED
    BY <2>4
<1> HIDE DEF stops
<1>5. CASE stops = {}
  BY <1>2, <1>3, <1>5
<1>6. CASE stops # {}
  <2>1. stops \subseteq Nat
    BY <1>2, <1>4
  <2>2. \E q \in stops : \A r \in stops : q <= r
    BY <1>6, <2>1, LeastNumber
  <2>3. WaveEnd \in stops
    BY <1>3, <1>6, <2>2, Zenon
  <2>4. position <= WaveEnd /\ WaveEnd <= Size + 1
    BY <1>2, <1>4, <2>3
  <2>5. Current.calls[position] \in Reads => WaveEnd # position
    BY <1>8, <2>3
  <2>6. QED
    BY <1>2, <2>1, <2>3, <2>4, <2>5
<1>7. QED
  BY <1>5, <1>6

LEMMA NonePending ==
  None \in Pendings /\ \A p \in Positions : None[p] = "none"
BY DEF None, Pendings

LEMMA SavedType ==
  ASSUME Saved
  PROVE  /\ disk' \in [messages : Seq(Message), pending : Pendings, prompt : 0..MaxPrompts]
         /\ prompt' \in 0..MaxPrompts /\ disk'.messages \in Seq(Message)
         /\ disk'.pending = None /\ disk'.prompt = prompt'
<1>1. PICK t : t = disk'.messages
  OBVIOUS
<1>2. /\ disk' = [messages |-> t, pending |-> None, prompt |-> prompt']
      /\ t \in Seq(Message) /\ prompt' \in 0..MaxPrompts
  BY <1>1 DEF Saved
<1>3. QED
  BY <1>1, <1>2, NonePending

LEMMA PendingSaved ==
  ASSUME TypeOK, SavesPending
  PROVE  /\ disk' \in [messages : Seq(Message), pending : Pendings, prompt : 0..MaxPrompts]
         /\ disk'.messages = disk.messages /\ disk'.prompt = disk.prompt /\ disk'.pending = pending
BY DEF TypeOK, SavesPending

LEMMA ForgetsType ==
  ASSUME LoopAssumption, Forgets
  PROVE  /\ position' \in Nat \ {0} /\ wave' \subseteq Positions /\ skip' \subseteq Positions
         /\ repeats' \in [Calls -> Nat] /\ blocked' \in Nat
         /\ rounds' \in 0..MaxRounds - 1 /\ segment' \in 1..MaxSegments
         /\ reason' \in {"none", "stalled", "refused", "budget"}
         /\ sent' \in Nat /\ rejected' \in Nat /\ budget' \in Nat
         /\ retries' \in 0..MaxRetries /\ hangs' \in 0..MaxHangs /\ shrinks' \in 0..MaxShrinks
         /\ rejected' = 0
BY DEF LoopAssumption, Forgets, Unlimited

LEMMA EmptyTranscript == <<>> \in Seq(Message)
OBVIOUS

LEMMA CountType ==
  ASSUME LoopAssumption, TypeOK, NEW b \in Batches
  PROVE  RepeatsAfter(b) \in [Calls -> Nat]
<1>1. IsFiniteSet(DOMAIN b)
  BY BatchShape, FS_Interval
<1>2. ASSUME NEW c \in Calls PROVE Cardinality({p \in DOMAIN b : b[p] = c}) \in Nat
  <2>1. IsFiniteSet({p \in DOMAIN b : b[p] = c})
    BY <1>1, FS_Subset
  <2>2. QED
    BY <2>1, FS_CardinalityType
<1>3. QED
  BY SMTT(30), <1>2 DEF RepeatsAfter, TypeOK

\* What is interrupted keeps the messages, and the outcomes at most.
LEMMA InterruptedParts ==
  ASSUME LoopAssumption, TypeOK, Interrupted
  PROVE  /\ Running /\ Ends("interrupted") /\ UNCHANGED <<prompt, bounds>>
         /\ disk' \in [messages : Seq(Message), pending : Pendings, prompt : 0..MaxPrompts]
         /\ disk'.messages = disk.messages /\ disk'.prompt = disk.prompt
         /\ disk'.pending = disk.pending \/ (Working /\ disk'.pending = pending)
         /\ ran' \in [Intents \X Positions -> Nat]
         /\ \A i \in Intents \X Positions :
              \/ ran'[i] = ran[i]
              \/ at = "batch" /\ i[1] = Current.n /\ i[2] \in wave /\ ran'[i] = ran[i] + 1
<1>1. PICK effects \in SUBSET wave :
        ran' = [i \in Intents \X Positions |->
                 IF at = "batch" /\ i[1] = Current.n /\ i[2] \in effects THEN ran[i] + 1 ELSE ran[i]]
  BY DEF Interrupted
<1>2. /\ ran' \in [Intents \X Positions -> Nat]
      /\ \A i \in Intents \X Positions :
           \/ ran'[i] = ran[i]
           \/ at = "batch" /\ i[1] = Current.n /\ i[2] \in wave /\ ran'[i] = ran[i] + 1
  BY <1>1 DEF TypeOK
<1>3. CASE UNCHANGED disk
  BY <1>2, <1>3 DEF Interrupted, TypeOK
<1>4. CASE Working /\ SavesPending
  BY <1>2, <1>4, PendingSaved DEF Interrupted
<1>5. QED
  BY <1>3, <1>4 DEF Interrupted, Working

\* What the result of a call changes.
LEMMA ReturnParts ==
  ASSUME LoopAssumption, TypeOK, RecordInv, NEW p \in Positions, CallReturns(p)
  PROVE  /\ Working /\ p \in wave /\ wave' = wave \ {p} /\ at' \in {"batch", "checkpoint"}
         /\ at' = "checkpoint" => wave' = {}
         /\ at' = "batch" => wave' # {} \/ position > Size
         /\ \E result \in Results : /\ pending' = [pending EXCEPT ![p] = result]
                                    /\ ran' = IF result = "refused" THEN ran
                                              ELSE [ran EXCEPT ![<<issued, p>>] = @ + 1]
         /\ pending' \in Pendings /\ ran' \in [Intents \X Positions -> Nat]
         /\ UNCHANGED <<outcome, transcript, disk, prompt, position, skip, limits, request, bounds>>
<1>1. Working /\ Current.n = issued /\ issued \in Intents
  BY CurrentBatch DEF CallReturns, Working
<1>2. PICK result \in Results :
        /\ pending' = [pending EXCEPT ![p] = result]
        /\ ran' = IF result = "refused" THEN ran ELSE [ran EXCEPT ![<<issued, p>>] = @ + 1]
  BY <1>1 DEF CallReturns
<1>3. pending' \in Pendings
  BY <1>2 DEF TypeOK, Pendings
<1>4. <<issued, p>> \in Intents \X Positions
  BY <1>1
<1>5. ran' \in [Intents \X Positions -> Nat]
  BY <1>2, <1>4 DEF TypeOK
<1>6. /\ p \in wave /\ wave' = wave \ {p} /\ at' \in {"batch", "checkpoint"}
      /\ at' = "checkpoint" => wave' = {}
      /\ at' = "batch" => wave' # {} \/ position > Size
  BY DEF CallReturns
<1>7. UNCHANGED <<outcome, transcript, disk, prompt, position, skip, limits, request, bounds>>
  BY DEF CallReturns
<1>8. QED
  BY <1>1, <1>2, <1>3, <1>5, <1>6, <1>7

\* Every step keeps the types.
LEMMA TypeStep ==
  ASSUME LoopAssumption, HttpInv, [Next]_vars
  PROVE  TypeOK'
<1> USE DEF HttpInv
<1> USE LoopAssumption
<1>1. CASE UNCHANGED vars
  BY <1>1 DEF vars, record, run, batch, limits, request, bounds, TypeOK
<1>2. CASE Asks /\ RequestOK'
  BY <1>2 DEF Asks, RequestOK, record, run, batch, limits, request, bounds, TypeOK
<1>3. CASE EndsRun
  <2>1. Forgets /\ at' = "idle" /\ outcome' \in Outcomes /\ transcript' = <<>> /\ pending' = None
        /\ UNCHANGED <<ran, disk, prompt, bounds>>
    BY <1>3 DEF EndsRun, Ends
  <2>2. QED
    BY <2>1, ForgetsType, EmptyTranscript, NonePending DEF bounds, TypeOK, Steps
<1>4. CASE Resumes
  <2>1. /\ Saved /\ transcript' = disk'.messages /\ pending' = None
        /\ UNCHANGED <<ran, window, issued, batch, limits, sent, rejected, retries, hangs, shrinks>>
        /\ at' = "ask" /\ outcome' = "none" /\ resumes' \in 0..MaxResumes
        /\ budget' \in Windows \cup {Unlimited}
    BY <1>4, ResumesSaves
  <2>2. budget' \in Nat
    BY <2>1, LoopAssumption DEF Unlimited
  <2>3. /\ sent' \in Nat /\ rejected' \in Nat
        /\ retries' \in 0..MaxRetries /\ hangs' \in 0..MaxHangs /\ shrinks' \in 0..MaxShrinks
    BY <2>1 DEF TypeOK
  <2>4. QED
    BY <2>1, <2>2, <2>3, SavedType, NonePending DEF batch, limits, TypeOK, Steps, Outcomes
<1>5. CASE Refuses
  BY <1>5 DEF Refuses, record, run, batch, limits, request, bounds, TypeOK, Outcomes
<1>6. CASE Interrupted
  <2>1. Forgets /\ at' = "idle" /\ outcome' = "interrupted" /\ transcript' = <<>> /\ pending' = None
        /\ UNCHANGED <<prompt, bounds>>
        /\ disk' \in [messages : Seq(Message), pending : Pendings, prompt : 0..MaxPrompts]
        /\ ran' \in [Intents \X Positions -> Nat]
    BY <1>6, InterruptedParts DEF Ends
  <2>2. QED
    BY <2>1, ForgetsType, EmptyTranscript, NonePending DEF bounds, TypeOK, Steps, Outcomes
<1>7. CASE Answers
  <2>1. /\ Saved /\ at' = "idle" /\ transcript' = <<>> /\ pending' = None
        /\ Forgets /\ UNCHANGED <<ran, prompt, bounds>> /\ outcome' \in {"answered", "budget", "refused"}
    BY <1>7, AnswersSaves
  <2>2. QED
    BY <2>1, SavedType, ForgetsType, EmptyTranscript, NonePending DEF bounds, TypeOK, Steps, Outcomes
<1>8. CASE \E b \in Batches : Intends(b)
  <2>1. PICK b \in Batches : Intends(b)
    BY <1>8
  <2>2. Saved /\ transcript' = disk'.messages /\ pending' = None /\ issued' \in Intents
    BY <2>1, IntendsSaves
  <2>3. repeats' \in [Calls -> Nat]
    BY <2>1, CountType DEF Intends
  <2>4. skip' \subseteq Positions
    BY <2>1, BatchShape DEF Intends, SkippedOf
  <2>5. /\ at' = "batch" /\ position' = 1 /\ wave' = {}
        /\ sent' = 0 /\ rejected' = 0 /\ retries' = 0 /\ hangs' = 0 /\ shrinks' = 0
        /\ UNCHANGED <<outcome, ran, blocked, rounds, segment, reason, budget, window, resumes>>
    BY <2>1 DEF Intends, Generated
  <2>6. QED
    BY SMTT(30), <2>2, <2>3, <2>4, <2>5, SavedType, NonePending DEF TypeOK, Steps, Intents
<1>9. CASE PassesOver
  BY <1>9 DEF PassesOver, record, run, limits, request, bounds, TypeOK
<1>10. CASE Begins
  <2>1. Working /\ Idle
    BY <1>10 DEF Begins, Idle, Working
  <2>2. /\ WaveEnd \in Nat /\ position <= WaveEnd /\ WaveEnd <= Size + 1 /\ 1..Size \subseteq Positions
        /\ Size \in Nat /\ position <= Size /\ position \in Nat \ {0}
    BY <2>1, WaveEnds, CurrentBatch DEF Idle, TypeOK
  <2>3. wave' \subseteq 1..Size /\ position' \in Nat \ {0}
    BY <1>10, <2>2 DEF Begins
  <2>4. QED
    BY <1>10, <2>2, <2>3 DEF Begins, record, run, limits, request, bounds, TypeOK
<1>11. CASE \E p \in Positions : CallReturns(p)
  <2>1. PICK p \in Positions : CallReturns(p)
    BY <1>11
  <2>2. /\ wave' = wave \ {p} /\ at' \in {"batch", "checkpoint"}
        /\ pending' \in Pendings /\ ran' \in [Intents \X Positions -> Nat]
        /\ UNCHANGED <<outcome, transcript, disk, prompt, position, skip, limits, request, bounds>>
    BY <2>1, ReturnParts
  <2>3. QED
    BY <2>2 DEF limits, request, bounds, TypeOK, Steps
<1>12. CASE Checkpoints
  <2>1. SavesPending /\ at' = "batch"
        /\ UNCHANGED <<outcome, ran, transcript, pending, prompt, batch, limits, request, bounds>>
    BY <1>12 DEF Checkpoints
  <2>2. QED
    BY <2>1, PendingSaved DEF batch, limits, request, bounds, TypeOK, Steps
<1>13. CASE Collects
  <2>1. Saved /\ transcript' = disk'.messages /\ pending' = None
    BY <1>13, CollectsSaves
  <2>2. reason' \in {"none", "stalled", "refused", "budget"}
    BY <1>13 DEF Collects, Stops
  <2>3. blocked' \in Nat
    BY <1>13 DEF Collects, BlockedNow, TypeOK
  <2>4. at' \in {"renew", "ask"} /\ rounds' \in 0..MaxRounds - 1
    BY <1>13 DEF Collects, TypeOK
  <2>5. position' = 1 /\ skip' = {} /\ wave' = {}
        /\ UNCHANGED <<outcome, ran, repeats, segment, request, bounds>>
    BY <1>13 DEF Collects
  <2>6. QED
    BY SMTT(30), <2>1, <2>2, <2>3, <2>4, <2>5, SavedType, NonePending DEF request, bounds, TypeOK, Steps
<1>14. CASE Renews
  <2>1. Saved /\ transcript' = disk'.messages /\ pending' = None
    BY <1>14, RenewsSaves
  <2>2. at' \in {"ask", "final"} /\ segment' \in 1..MaxSegments
    BY <1>14 DEF Renews, TypeOK, SizeInv
  <2>3. UNCHANGED <<outcome, ran, batch, repeats, blocked, rounds, reason, request, bounds>>
    BY <1>14 DEF Renews
  <2>4. QED
    BY <2>1, <2>2, <2>3, SavedType, NonePending DEF batch, request, bounds, TypeOK, Steps
<1>15. QED
  BY <1>1, <1>2, <1>3, <1>4, <1>5, <1>6, <1>7, <1>8, <1>9, <1>10, <1>11, <1>12, <1>13, <1>14, StepKinds
-----------------------------------------------------------------------------
(* The invariant.                                                           *)

\* With the same record, working or not as before.
RecordKept ==
  /\ disk'.messages = disk.messages /\ disk'.prompt = disk.prompt /\ prompt' = prompt
  /\ issued' = issued

\* What is kept holds wherever it no longer matters which batch is the last.
LEMMA RecordAtRest ==
  ASSUME RecordInv, RecordKept, ~Running', transcript' = <<>>, pending' = None
  PROVE  RecordInv'
BY DEF RecordInv, RecordKept, Running, Working

LEMMA RecordRuns ==
  ASSUME RecordInv, RecordKept, Running, Running', transcript' = transcript, outcome' = outcome,
         Working' <=> Working
  PROVE  RecordInv'
BY DEF RecordInv, RecordKept

\* A longer one, with no batch to work on.
LEMMA RecordSaved ==
  ASSUME Saved, ~Open(disk'.messages), ~Working',
         IF Running' THEN transcript' = disk'.messages /\ outcome' = "none"
         ELSE transcript' = <<>> /\ pending' = None
  PROVE  RecordInv'
<1>1. disk'.prompt = prompt'
  BY SavedType
<1>2. \A i \in DOMAIN disk'.messages :
        /\ disk'.messages[i].role = "user" => disk'.messages[i].n <= prompt'
        /\ disk'.messages[i].role \in {"intent", "tool"} => disk'.messages[i].n <= issued'
  BY DEF Saved, Below
<1>3. Running' => (Open(transcript') <=> Working')
  OBVIOUS
<1>4. QED
  BY <1>1, <1>2, <1>3 DEF Saved, RecordInv

LEMMA RecordStep ==
  ASSUME LoopAssumption, HttpInv, [Next]_vars
  PROVE  RecordInv'
<1> USE DEF HttpInv
<1>1. CASE UNCHANGED vars
  <2>1. at' = at /\ UNCHANGED <<outcome, record, issued>>
    BY <1>1 DEF vars, record, bounds
  <2>2. QED
    BY <2>1 DEF record, RecordInv, Running, Working, Open
<1>2. CASE Asks /\ RequestOK'
  <2>1. RecordKept /\ Running /\ Running' /\ transcript' = transcript /\ outcome' = outcome /\ (Working' <=> Working)
    BY <1>2 DEF Asks, Asking, Running, Working, RecordKept, record, bounds
  <2>2. QED
    BY <2>1, RecordRuns
<1>3. CASE EndsRun
  <2>1. RecordKept /\ ~Running' /\ transcript' = <<>> /\ pending' = None
    BY <1>3 DEF EndsRun, Ends, Running, RecordKept, bounds
  <2>2. QED
    BY <2>1, RecordAtRest
<1>4. CASE Resumes
  <2>1. /\ Saved /\ ~Open(disk'.messages) /\ transcript' = disk'.messages /\ at' = "ask" /\ outcome' = "none"
    BY <1>4, ResumesSaves
  <2>2. Running' /\ ~Working'
    BY <2>1 DEF Running, Working
  <2>3. QED
    BY <2>1, <2>2, RecordSaved
<1>5. CASE Refuses
  <2>1. RecordKept /\ ~Running' /\ transcript' = <<>> /\ pending' = None
    BY <1>5 DEF Refuses, Running, RecordKept, RecordInv, record
  <2>2. QED
    BY <2>1, RecordAtRest
<1>6. CASE Interrupted
  <2>1. RecordKept /\ ~Running' /\ transcript' = <<>> /\ pending' = None
    BY <1>6, InterruptedParts DEF Ends, Running, RecordKept, bounds
  <2>2. QED
    BY <2>1, RecordAtRest
<1>7. CASE Answers
  <2>1. Saved /\ ~Open(disk'.messages) /\ at' = "idle" /\ transcript' = <<>> /\ pending' = None
    BY <1>7, AnswersSaves
  <2>2. ~Running' /\ ~Working'
    BY <2>1 DEF Running, Working
  <2>3. QED
    BY <2>1, <2>2, RecordSaved
<1>8. CASE \E b \in Batches : Intends(b)
  <2>1. PICK b \in Batches : Intends(b)
    BY <1>8
  <2>2. /\ Saved /\ Open(disk'.messages) /\ transcript' = disk'.messages
        /\ \A i \in DOMAIN disk'.messages : disk'.messages[i].role \in {"intent", "tool"} =>
              (disk'.messages[i].n = issued' <=> i = Len(disk'.messages))
    BY <2>1, IntendsSaves
  <2>3. at' = "batch" /\ outcome' = "none"
    BY <2>1 DEF Intends, Accepted, Asking, RecordInv, Running
  <2>4. disk'.prompt = prompt'
    BY <2>2, SavedType
  <2>5. \A i \in DOMAIN disk'.messages :
          /\ disk'.messages[i].role = "user" => disk'.messages[i].n <= prompt'
          /\ disk'.messages[i].role \in {"intent", "tool"} => disk'.messages[i].n <= issued'
    BY <2>2 DEF Saved, Below
  <2>6. QED
    BY <2>2, <2>3, <2>4, <2>5 DEF Saved, RecordInv, Running, Working
<1>9. CASE PassesOver
  <2>1. RecordKept /\ Running /\ Running' /\ transcript' = transcript /\ outcome' = outcome /\ (Working' <=> Working)
    BY <1>9 DEF PassesOver, Idle, Running, Working, RecordKept, record, bounds
  <2>2. QED
    BY <2>1, RecordRuns
<1>10. CASE Begins
  <2>1. RecordKept /\ Running /\ Running' /\ transcript' = transcript /\ outcome' = outcome /\ (Working' <=> Working)
    BY <1>10 DEF Begins, Idle, Running, Working, RecordKept, record, bounds
  <2>2. QED
    BY <2>1, RecordRuns
<1>11. CASE \E p \in Positions : CallReturns(p)
  <2>1. PICK p \in Positions : CallReturns(p)
    BY <1>11
  <2>2. /\ Working /\ at' \in {"batch", "checkpoint"}
        /\ UNCHANGED <<outcome, transcript, disk, prompt, position, skip, limits, request, bounds>>
    BY <2>1, ReturnParts
  <2>3. RecordKept /\ Running /\ Running' /\ transcript' = transcript /\ outcome' = outcome /\ (Working' <=> Working)
    BY <2>2 DEF Running, Working, RecordKept, bounds
  <2>4. QED
    BY <2>3, RecordRuns
<1>12. CASE Checkpoints
  <2>1. RecordKept /\ Running /\ Running' /\ transcript' = transcript /\ outcome' = outcome /\ (Working' <=> Working)
    BY <1>12, PendingSaved DEF Checkpoints, Running, Working, RecordKept, bounds
  <2>2. QED
    BY <2>1, RecordRuns
<1>13. CASE Collects
  <2>1. Saved /\ ~Open(disk'.messages) /\ transcript' = disk'.messages
    BY <1>13, CollectsSaves
  <2>2. Running' /\ ~Working' /\ outcome' = "none"
    BY <1>13 DEF Collects, BatchDone, Running, Working, RecordInv
  <2>3. QED
    BY <2>1, <2>2, RecordSaved
<1>14. CASE Renews
  <2>1. Saved /\ ~Open(disk'.messages) /\ transcript' = disk'.messages
    BY <1>14, RenewsSaves
  <2>2. Running' /\ ~Working' /\ outcome' = "none"
    BY <1>14 DEF Renews, Running, Working, RecordInv
  <2>3. QED
    BY <2>1, <2>2, RecordSaved
<1>15. QED
  BY <1>1, <1>2, <1>3, <1>4, <1>5, <1>6, <1>7, <1>8, <1>9, <1>10, <1>11, <1>12, <1>13, <1>14, StepKinds

\* Sizes: what is rejected is more than the window, and is not sent again.
LEMMA SizeStep ==
  ASSUME LoopAssumption, HttpInv, [Next]_vars
  PROVE  SizeInv'
<1> USE DEF HttpInv
<1>1. CASE UNCHANGED vars
  BY <1>1 DEF vars, limits, request, bounds, SizeInv, Running
<1>2. CASE Asks /\ RequestOK'
  BY <1>2 DEF Asks, Asking, RequestOK, SizeInv, Running
<1>3. ASSUME Forgets, at' = "idle" PROVE SizeInv'
  BY <1>3 DEF Forgets, SizeInv, Running
<1>4. CASE EndsRun
  BY <1>3, <1>4 DEF EndsRun, Ends
<1>5. CASE Resumes
  BY <1>5 DEF Resumes, limits, SizeInv, Running
<1>6. CASE Refuses
  BY <1>6 DEF Refuses, limits, request, SizeInv, Running
<1>7. CASE Interrupted
  BY <1>3, <1>7 DEF Interrupted, Ends
<1>8. CASE Answers
  BY <1>3, <1>8 DEF Answers
<1>9. CASE \E b \in Batches : Intends(b)
  BY <1>9 DEF Intends, Generated, SizeInv, Running
<1>10. CASE PassesOver
  BY <1>10 DEF PassesOver, Idle, limits, request, bounds, SizeInv, Running
<1>11. CASE Begins
  BY <1>11 DEF Begins, Idle, limits, request, bounds, SizeInv, Running
<1>12. CASE \E p \in Positions : CallReturns(p)
  BY <1>12, ReturnParts DEF limits, request, bounds, SizeInv, Running
<1>13. CASE Checkpoints
  BY <1>13 DEF Checkpoints, limits, request, bounds, SizeInv, Running
<1>14. CASE Collects
  <2>1. UNCHANGED <<segment, request, bounds>> /\ reason' = Stops
        /\ IF rounds + 1 = MaxRounds \/ Stops # "none" THEN at' = "renew" ELSE at' = "ask"
    BY <1>14 DEF Collects
  <2>2. rounds + 1 = MaxRounds /\ segment = MaxSegments => Stops # "none"
    BY DEF Stops
  <2>3. segment \in 1..MaxSegments /\ MaxSegments \in Nat
    BY LoopAssumption DEF TypeOK
  <2>4. QED
    BY <2>1, <2>2, <2>3 DEF request, bounds, SizeInv, Running
<1>15. CASE Renews
  BY <1>15 DEF Renews, request, bounds, SizeInv, Running
<1>16. QED
  BY <1>1, <1>2, <1>4, <1>5, <1>6, <1>7, <1>8, <1>9, <1>10, <1>11, <1>12, <1>13, <1>14, <1>15, StepKinds

\* A request is well formed, and a context is given up only for its floor.
LEMMA IrreducibleStep ==
  ASSUME LoopAssumption, HttpInv, [Next]_vars
  PROVE  Irreducible'
<1> USE DEF HttpInv
<1>1. CASE UNCHANGED vars
  BY <1>1 DEF vars, record, bounds, Irreducible, RequestsSound
<1>2. CASE Sends \/ ContextRejected \/ Hangs \/ Failed \/ AnswerLost \/ TooLong
  BY <1>2, RequestSteps
<1>3. ASSUME outcome' # "irreducible" PROVE Irreducible'
  BY <1>3 DEF Irreducible
<1>4. CASE Running /\ outcome' = outcome
  BY <1>3, <1>4 DEF RecordInv
<1>5. CASE Resumes \/ Refuses \/ Interrupted \/ Answers
  BY <1>3, <1>5 DEF Resumes, Refuses, Interrupted, Ends, Answers, Final
<1>6. CASE \E b \in Batches : Intends(b)
  BY <1>4, <1>6 DEF Intends, Accepted, Asking, Running
<1>7. CASE PassesOver \/ Begins \/ Checkpoints \/ Collects \/ Renews
  BY <1>4, <1>7 DEF PassesOver, Begins, Checkpoints, Collects, BatchDone, Renews, Idle, Running
<1>8. CASE \E p \in Positions : CallReturns(p)
  BY <1>4, <1>8 DEF CallReturns, Running
<1>9. QED
  BY <1>1, <1>2, <1>5, <1>6, <1>7, <1>8 DEF Next, Generation, Batch

LEMMA SoundFromRecord ==
  ASSUME TypeOK, RecordInv, Irreducible
  PROVE  RequestsSound
<1>1. ASSUME Asking PROVE WellFormed(transcript) /\ Asked(transcript) = 1
  <2>1. transcript = disk.messages /\ transcript # <<>> /\ ~Open(transcript)
    BY <1>1 DEF Asking, RecordInv, Running, Working
  <2>2. transcript \in Seq(Message) /\ Follows(transcript) /\ CarriesOnce(transcript, prompt)
    BY <2>1 DEF RecordInv, TypeOK
  <2>3. QED
    BY <2>1, <2>2, FollowsWell, OnceAsked
<1>2. QED
  BY <1>1 DEF RequestsSound, Irreducible
\* The parts of what is known of a batch.
BatchWork ==
  /\ position <= Size + 1 /\ wave \subseteq 1..position - 1 /\ skip \subseteq 1..Size
  /\ wave \cap skip = {} /\ (at = "checkpoint" => wave = {})
  /\ \A p \in 1..Size :
       /\ pending[p] = "none" <=> p >= position \/ p \in wave \cup skip
       /\ ran[<<issued, p>>] = IF pending[p] = "done" THEN 1 ELSE 0
       /\ disk.pending[p] \in {"none", pending[p]}
  /\ at = "batch" /\ wave = {} /\ position <= Size => disk.pending = pending
Unissued == \A n \in Intents, p \in Positions : n > issued => ran[<<n, p>>] = 0
DiskTrue ==
  Open(disk.messages) => \A p \in DOMAIN Last(disk.messages).calls :
    disk.pending[p] # "none" =>
      ran[<<Last(disk.messages).n, p>>] = IF disk.pending[p] = "done" THEN 1 ELSE 0

LEMMA BatchParts ==
  ASSUME LoopAssumption, TypeOK, RecordInv, BatchInv, Working
  PROVE  /\ BatchWork /\ Size \in Nat \ {0} /\ issued \in Intents /\ Current.n = issued
         /\ 1..Size \subseteq Positions /\ position \in Nat \ {0} /\ wave \subseteq 1..Size
         /\ \A p \in wave : pending[p] = "none" /\ disk.pending[p] = "none" /\ ran[<<issued, p>>] = 0
<1>1. BatchWork
  BY DEF BatchInv, BatchWork
<1>2. /\ Size \in Nat \ {0} /\ issued \in Intents /\ Current.n = issued /\ 1..Size \subseteq Positions
      /\ position \in Nat \ {0}
  BY CurrentBatch DEF TypeOK
<1>3. wave \subseteq 1..Size
  BY <1>1, <1>2 DEF BatchWork
<1>4. \A p \in wave : pending[p] = "none"
  BY <1>1, <1>3 DEF BatchWork
<1>5. \A p \in wave : disk.pending[p] = "none" /\ ran[<<issued, p>>] = 0
  BY <1>1, <1>3, <1>4 DEF BatchWork
<1>6. QED
  BY <1>1, <1>2, <1>3, <1>4, <1>5

\* Calls that are still in flight take effect, or some of them do.
Effects ==
  /\ ran' \in [Intents \X Positions -> Nat]
  /\ \A i \in Intents \X Positions :
       \/ ran'[i] = ran[i]
       \/ Working /\ i[1] = issued /\ i[2] \in wave /\ ran'[i] = ran[i] + 1

LEMMA UnissuedStep ==
  ASSUME LoopAssumption, TypeOK, RecordInv, Unissued, Effects, issued' >= issued, issued' \in Nat
  PROVE  Unissued'
<1> SUFFICES ASSUME NEW n \in Intents, NEW p \in Positions, n > issued' PROVE ran'[<<n, p>>] = 0
  BY DEF Unissued
<1>1. n > issued /\ n # issued
  BY LoopAssumption DEF Intents, TypeOK
<1>2. ran[<<n, p>>] = 0
  BY <1>1 DEF Unissued
<1>3. <<n, p>> \in Intents \X Positions /\ <<n, p>>[1] = n
  OBVIOUS
<1>4. QED
  BY <1>1, <1>2, <1>3 DEF Effects

\* What the record has of the batch stays true.
LEMMA DiskTrueStep ==
  ASSUME LoopAssumption, TypeOK, RecordInv, BatchInv, Effects, disk'.messages = disk.messages,
         disk'.pending = disk.pending \/ (Working /\ disk'.pending = pending)
  PROVE  DiskTrue'
<1>1. PICK t : t = disk.messages
  OBVIOUS
<1> SUFFICES ASSUME Open(t), NEW p \in DOMAIN Last(t).calls, disk'.pending[p] # "none"
             PROVE  ran'[<<Last(t).n, p>>] = IF disk'.pending[p] = "done" THEN 1 ELSE 0
  BY <1>1 DEF DiskTrue
<1>2. CASE Working
  <2>1. /\ Last(t) = Current /\ Current.n = issued /\ p \in 1..Size /\ issued \in Intents /\ p \in Positions
    BY <1>1, <1>2, CurrentBatch
  <2>2. /\ BatchWork /\ \A q \in wave : pending[q] = "none" /\ disk.pending[q] = "none"
    BY <1>2, BatchParts
  <2>3. p \notin wave
    BY <1>2, <2>2
  <2>4. <<issued, p>> \in Intents \X Positions /\ <<issued, p>>[2] = p
    BY <2>1
  <2>5. ran'[<<issued, p>>] = ran[<<issued, p>>]
    BY <2>3, <2>4 DEF Effects
  <2>6. ran[<<issued, p>>] = IF pending[p] = "done" THEN 1 ELSE 0
    BY <2>1, <2>2 DEF BatchWork
  <2>7. disk'.pending[p] = pending[p]
    BY <2>1, <2>2 DEF BatchWork
  <2>8. QED
    BY <2>1, <2>5, <2>6, <2>7
<1>3. CASE ~Working
  <2>1. Last(t).n \in Intents /\ p \in Positions
    <3>1. t \in Seq(Message) /\ t # <<>>
      BY <1>1 DEF TypeOK, Open
    <3>2. Last(t) \in Message
      BY <3>1, LenProperties, EmptySeq, ElementOfSeq DEF Last
    <3>3. QED
      BY <3>2, MessageKinds, BatchShape DEF Open
  <2>2. <<Last(t).n, p>> \in Intents \X Positions
    BY <2>1
  <2>3. ran'[<<Last(t).n, p>>] = ran[<<Last(t).n, p>>]
    BY <1>3, <2>2 DEF Effects
  <2>4. disk'.pending = disk.pending
    BY <1>3
  <2>5. ran[<<Last(t).n, p>>] = IF disk.pending[p] = "done" THEN 1 ELSE 0
    BY <1>1, <2>4 DEF BatchInv
  <2>6. QED
    BY <2>3, <2>4, <2>5
<1>4. QED
  BY <1>2, <1>3

\* A result arrives: the record has it only after the checkpoint.
LEMMA ReturnWork ==
  ASSUME LoopAssumption, TypeOK, RecordInv, BatchInv, NEW p \in Positions, CallReturns(p)
  PROVE  BatchWork' /\ Effects
<1>1. PICK result \in Results :
        /\ pending' = [pending EXCEPT ![p] = result]
        /\ ran' = IF result = "refused" THEN ran ELSE [ran EXCEPT ![<<issued, p>>] = @ + 1]
  BY ReturnParts
<1>2. /\ Working /\ p \in wave /\ wave' = wave \ {p}
      /\ at' = "checkpoint" => wave' = {}
      /\ at' = "batch" => wave' # {} \/ position > Size
      /\ ran' \in [Intents \X Positions -> Nat]
      /\ UNCHANGED <<transcript, disk, position, skip, issued>>
  BY ReturnParts DEF bounds
<1>3. /\ BatchWork /\ Size \in Nat \ {0} /\ issued \in Intents /\ Current.n = issued
      /\ 1..Size \subseteq Positions /\ position \in Nat \ {0} /\ wave \subseteq 1..Size
      /\ \A q \in wave : pending[q] = "none" /\ disk.pending[q] = "none" /\ ran[<<issued, q>>] = 0
  BY <1>2, BatchParts
<1>4. p < position /\ p \notin skip /\ p \in 1..Size /\ pending[p] = "none" /\ ran[<<issued, p>>] = 0
      /\ disk.pending[p] = "none"
  BY <1>2, <1>3 DEF BatchWork
<1>5. Size' = Size
  BY <1>2 DEF Size, Current
<1>6. pending'[p] = result /\ result \in {"done", "refused"}
      /\ \A q \in Positions : q # p => pending'[q] = pending[q]
  BY <1>1 DEF TypeOK, Pendings, Results
<1>7. /\ ran'[<<issued, p>>] = IF result = "done" THEN 1 ELSE 0
      /\ \A q \in Positions : q # p => ran'[<<issued, q>>] = ran[<<issued, q>>]
      /\ \A i \in Intents \X Positions : i # <<issued, p>> => ran'[i] = ran[i]
  <2>1. CASE result = "refused"
    BY <2>1, <1>1, <1>4
  <2>2. CASE result # "refused"
    <3>1. ran' = [ran EXCEPT ![<<issued, p>>] = @ + 1]
      BY <2>2, <1>1
    <3>2. <<issued, p>> \in Intents \X Positions
      BY <1>3
    <3>3. ran'[<<issued, p>>] = 1 /\ \A i \in Intents \X Positions : i # <<issued, p>> => ran'[i] = ran[i]
      BY <3>1, <3>2, <1>4 DEF TypeOK
    <3>4. \A q \in Positions : q # p => <<issued, q>> \in Intents \X Positions /\ <<issued, q>> # <<issued, p>>
      BY <1>3
    <3>5. QED
      BY <2>2, <1>6, <3>3, <3>4
  <2>3. QED
    BY <2>1, <2>2
<1>8. ASSUME NEW q \in 1..Size
      PROVE  /\ pending'[q] = "none" <=> q >= position \/ q \in wave' \cup skip
             /\ ran'[<<issued, q>>] = IF pending'[q] = "done" THEN 1 ELSE 0
             /\ disk.pending[q] \in {"none", pending'[q]}
  <2>1. CASE q = p
    <3>1. ~(q >= position) /\ q \notin wave' \cup skip
      BY <2>1, <1>2, <1>3, <1>4
    <3>2. QED
      BY <2>1, <3>1, <1>4, <1>6, <1>7
  <2>2. CASE q # p
    <3>1. pending'[q] = pending[q] /\ ran'[<<issued, q>>] = ran[<<issued, q>>]
      BY <2>2, <1>3, <1>6, <1>7
    <3>2. q \in wave' <=> q \in wave
      BY <2>2, <1>2
    <3>3. /\ pending[q] = "none" <=> q >= position \/ q \in wave \cup skip
          /\ ran[<<issued, q>>] = IF pending[q] = "done" THEN 1 ELSE 0
          /\ disk.pending[q] \in {"none", pending[q]}
      BY <1>3 DEF BatchWork
    <3>4. QED
      BY <3>1, <3>2, <3>3
  <2>3. QED
    BY <2>1, <2>2
<1>9. BatchWork'
  <2>1. /\ position' <= Size' + 1 /\ wave' \subseteq 1..position' - 1 /\ skip' \subseteq 1..Size'
        /\ wave' \cap skip' = {} /\ (at' = "checkpoint" => wave' = {})
    BY <1>2, <1>3, <1>5 DEF BatchWork
  <2>2. ~(at' = "batch" /\ wave' = {} /\ position' <= Size')
    <3>1. position' = position
      BY <1>2
    <3>2. position > Size => ~(position <= Size)
      BY <1>3
    <3>3. QED
      BY <3>1, <3>2, <1>2, <1>5
  <2>3. QED
    BY <2>1, <2>2, <1>2, <1>5, <1>8 DEF BatchWork
<1>10. Effects
  <2>1. ASSUME NEW i \in Intents \X Positions, i = <<issued, p>>, ran'[i] # ran[i]
        PROVE  Working /\ i[1] = issued /\ i[2] \in wave /\ ran'[i] = ran[i] + 1
    BY <2>1, <1>2, <1>4, <1>7
  <2>2. QED
    BY <1>2, <1>7, <2>1 DEF Effects
<1>11. QED
  BY <1>9, <1>10

\* The next calls begin when all before them is durable.
LEMMA BeginParts ==
  ASSUME LoopAssumption, TypeOK, RecordInv, BatchInv, Begins
  PROVE  /\ Working /\ BatchWork /\ wave = {} /\ at = "batch" /\ position <= Size /\ disk.pending = pending
         /\ position \in Nat \ {0} /\ Size \in Nat /\ position' \in Nat
         /\ position < position' /\ position' <= Size + 1 /\ wave' \subseteq position..position' - 1
         /\ \A p \in position..position' - 1 : p \in wave' <=> p \notin skip
<1>1. Working /\ Idle /\ at = "batch" /\ wave = {} /\ position <= Size
  BY DEF Begins, Idle, Working
<1>2. BatchWork /\ Size \in Nat /\ position \in Nat \ {0}
  BY <1>1, BatchParts
<1>3. disk.pending = pending
  BY <1>1, <1>2 DEF BatchWork
<1>4. /\ WaveEnd \in Nat /\ position <= WaveEnd /\ WaveEnd <= Size + 1
      /\ Current.calls[position] \in Reads => position < WaveEnd
  BY <1>1, WaveEnds
<1>5. CASE Current.calls[position] \in Reads
  <2>1. wave' = (position..WaveEnd - 1) \ skip /\ position' = WaveEnd
    BY <1>5 DEF Begins
  <2>2. QED
    BY <1>1, <1>2, <1>3, <1>4, <1>5, <2>1
<1>6. CASE Current.calls[position] \notin Reads
  <2>1. wave' = {position} /\ position' = position + 1 /\ position \notin skip
    BY <1>6 DEF Begins
  <2>2. position..position' - 1 = {position}
    BY <1>2, <2>1
  <2>3. QED
    BY <1>1, <1>2, <1>3, <2>1, <2>2
<1>7. QED
  BY <1>5, <1>6

LEMMA BeginWork ==
  ASSUME LoopAssumption, TypeOK, RecordInv, BatchInv, Begins
  PROVE  BatchWork'
<1>1. /\ Working /\ BatchWork /\ wave = {} /\ at = "batch" /\ position <= Size /\ disk.pending = pending
      /\ position \in Nat \ {0} /\ Size \in Nat /\ position' \in Nat
      /\ position <= position' /\ position' <= Size + 1 /\ wave' \subseteq position..position' - 1
      /\ \A p \in position..position' - 1 : p \in wave' <=> p \notin skip
  BY BeginParts
<1>2. UNCHANGED <<at, ran, transcript, pending, disk, skip, issued>>
  BY DEF Begins, record, bounds
<1>3. Size' = Size
  BY <1>2 DEF Size, Current
<1>4. skip \subseteq 1..Size
  BY <1>1 DEF BatchWork
<1>5. PICK a \in Nat \ {0}, b \in Nat, n \in Nat : a = position /\ b = position' /\ n = Size
  BY <1>1
<1>6. /\ a <= b /\ b <= n + 1 /\ wave' \subseteq a..(b - 1)
      /\ \A p \in a..(b - 1) : p \in wave' <=> p \notin skip
  BY <1>1, <1>5, Zenon
<1>7. \A p \in 1..n : /\ p < a => p \notin a..(b - 1) /\ ~(p >= a) /\ ~(p >= b)
                      /\ p >= a /\ p < b => p \in a..(b - 1) /\ ~(p >= b)
                      /\ p >= b => p >= a /\ p \notin a..(b - 1)
                      /\ p < a \/ (p >= a /\ p < b) \/ p >= b
  <2>1. a <= b
    BY <1>6
  <2>2. QED
    BY <2>1
<1>8. ASSUME NEW p \in 1..n
      PROVE  /\ pending[p] = "none" <=> p >= b \/ p \in wave' \cup skip
             /\ ran[<<issued, p>>] = IF pending[p] = "done" THEN 1 ELSE 0
             /\ disk.pending[p] \in {"none", pending[p]}
  <2>1. /\ pending[p] = "none" <=> p >= a \/ p \in wave \cup skip
        /\ ran[<<issued, p>>] = IF pending[p] = "done" THEN 1 ELSE 0
        /\ disk.pending[p] \in {"none", pending[p]}
    BY <1>1, <1>5 DEF BatchWork
  <2>2. p \notin wave /\ (p \in wave' => p \in a..(b - 1))
    BY <1>1, <1>6, Zenon
  <2>3. QED
    BY <2>1, <2>2, <1>6, <1>7, Zenon
<1>9. wave' \subseteq 1..(b - 1) /\ wave' \cap skip = {}
  <2>1. a..(b - 1) \subseteq 1..(b - 1)
    OBVIOUS
  <2>2. QED
    BY <1>6, <2>1, Zenon
<1>10. QED
  BY <1>1, <1>2, <1>3, <1>4, <1>5, <1>8, <1>9 DEF BatchWork
LEMMA PassWork ==
  ASSUME LoopAssumption, TypeOK, RecordInv, BatchInv, PassesOver
  PROVE  BatchWork'
<1>1. /\ Working /\ at = "batch" /\ wave = {} /\ position \in skip /\ position <= Size
      /\ position' = position + 1
      /\ UNCHANGED <<at, ran, transcript, pending, disk, wave, skip, issued>>
  BY DEF PassesOver, Idle, Working, record, bounds
<1>2. BatchWork /\ Size \in Nat /\ position \in Nat \ {0}
  BY <1>1, BatchParts
<1>3. Size' = Size
  BY <1>1 DEF Size, Current
<1>4. ASSUME NEW p \in 1..Size
      PROVE  /\ pending[p] = "none" <=> p >= position + 1 \/ p \in wave \cup skip
             /\ ran[<<issued, p>>] = IF pending[p] = "done" THEN 1 ELSE 0
             /\ disk.pending[p] \in {"none", pending[p]}
  <2>1. /\ pending[p] = "none" <=> p >= position \/ p \in wave \cup skip
        /\ ran[<<issued, p>>] = IF pending[p] = "done" THEN 1 ELSE 0
        /\ disk.pending[p] \in {"none", pending[p]}
    BY <1>2 DEF BatchWork
  <2>2. p >= position <=> p = position \/ p >= position + 1
    BY <1>2
  <2>3. QED
    BY <2>1, <2>2, <1>1
<1>5. disk.pending = pending /\ skip \subseteq 1..Size
  BY <1>1, <1>2 DEF BatchWork
<1>6. position' <= Size + 1
  BY <1>1, <1>2
<1>7. QED
  BY <1>1, <1>3, <1>4, <1>5, <1>6 DEF BatchWork

LEMMA CheckpointWork ==
  ASSUME LoopAssumption, TypeOK, RecordInv, BatchInv, Checkpoints
  PROVE  BatchWork' /\ Working
<1>1. /\ Working /\ at = "checkpoint" /\ at' = "batch" /\ disk'.pending = pending
      /\ UNCHANGED <<ran, transcript, pending, position, wave, skip, issued>>
  BY PendingSaved DEF Checkpoints, Working, batch, bounds
<1>2. BatchWork
  BY <1>1, BatchParts
<1>3. Size' = Size
  BY <1>1 DEF Size, Current
<1>4. QED
  BY <1>1, <1>2, <1>3 DEF BatchWork

\* A batch that was just asked for: nothing of it is made.
LEMMA IntendWork ==
  ASSUME LoopAssumption, TypeOK, RecordInv, BatchInv, HistoryTruthful, NEW b \in Batches, Intends(b)
  PROVE  BatchWork' /\ DiskTrue'
<1>1. /\ Saved /\ Open(disk'.messages) /\ transcript' = disk'.messages /\ pending' = None
      /\ issued' = issued + 1 /\ issued' \in Intents /\ Last(disk'.messages) = Intent(issued', b)
  BY IntendsSaves
<1>2. /\ at' = "batch" /\ position' = 1 /\ wave' = {} /\ skip' \subseteq DOMAIN b /\ ran' = ran
  BY DEF Intends, SkippedOf
<1>3. Last(disk'.messages).calls = b
  BY <1>1, MessagesMade
<1>4. DOMAIN b = 1..Len(b) /\ Len(b) \in Nat \ {0} /\ DOMAIN b \subseteq Positions
  BY BatchShape
<1>5. Size' = Len(b)
  BY <1>1, <1>3 DEF Size, Current
<1>6. disk'.pending = None /\ \A p \in DOMAIN b : None[p] = "none"
  BY <1>1, <1>4, SavedType, NonePending
<1>7. ASSUME NEW p \in DOMAIN b PROVE ran[<<issued', p>>] = 0
  <2>1. issued' > issued
    BY <1>1, LoopAssumption DEF TypeOK
  <2>2. QED
    BY <1>1, <1>4, <2>1 DEF BatchInv
<1>8. \A p \in 1..Len(b) : /\ pending'[p] = "none" /\ p >= position'
                           /\ ran'[<<issued', p>>] = 0 /\ disk'.pending[p] = "none"
  BY <1>1, <1>2, <1>4, <1>6, <1>7
<1>9. BatchWork'
  <2>1. wave' \subseteq 1..position' - 1 /\ position' <= Size' + 1 /\ skip' \subseteq 1..Size'
    BY <1>2, <1>4, <1>5
  <2>2. QED
    BY <2>1, <1>1, <1>2, <1>5, <1>6, <1>8 DEF BatchWork
<1>10. DiskTrue'
  BY <1>3, <1>6 DEF DiskTrue
<1>11. QED
  BY <1>9, <1>10

LEMMA BatchStep ==
  ASSUME LoopAssumption, HttpInv, [Next]_vars
  PROVE  BatchInv'
<1> USE DEF HttpInv
<1> SUFFICES (Working' => BatchWork') /\ Unissued' /\ DiskTrue'
  BY DEF BatchInv, BatchWork, Unissued, DiskTrue
<1>a. Unissued /\ DiskTrue /\ (Working => BatchWork) /\ issued \in Nat
  BY LoopAssumption DEF BatchInv, BatchWork, Unissued, DiskTrue, TypeOK
<1>b. ASSUME Effects, issued' = issued PROVE Unissued'
  BY <1>a, <1>b, UnissuedStep
<1>c. ASSUME ran' = ran PROVE Effects
  BY <1>c DEF Effects, TypeOK
<1>d. ASSUME ran' = ran, issued' = issued, ~Open(disk'.messages), ~Working'
      PROVE  (Working' => BatchWork') /\ Unissued' /\ DiskTrue'
  BY <1>b, <1>c, <1>d DEF DiskTrue
<1>e. ASSUME ran' = ran, issued' = issued, disk' = disk, ~Working'
      PROVE  (Working' => BatchWork') /\ Unissued' /\ DiskTrue'
  BY <1>b, <1>c, <1>e, DiskTrueStep
<1>1. CASE UNCHANGED vars
  <2>1. UNCHANGED <<at, ran, transcript, pending, disk, position, wave, skip, issued>>
    BY <1>1 DEF vars, record, run, batch, bounds
  <2>2. QED
    BY <2>1, <1>a DEF Working, BatchWork, Unissued, DiskTrue, Size, Current, Open, Last
<1>2. CASE Asks /\ RequestOK'
  BY <1>e, <1>2 DEF Asks, Asking, Working, record, bounds
<1>3. CASE EndsRun
  BY <1>e, <1>3 DEF EndsRun, Ends, Working, bounds
<1>4. CASE Resumes
  BY <1>d, <1>4, ResumesSaves DEF Working
<1>5. CASE Refuses
  BY <1>e, <1>5 DEF Refuses, Running, Working, record
<1>6. CASE Interrupted
  <2>1. /\ Ends("interrupted") /\ issued' = issued
        /\ disk'.messages = disk.messages
        /\ disk'.pending = disk.pending \/ (Working /\ disk'.pending = pending)
        /\ ran' \in [Intents \X Positions -> Nat]
        /\ \A i \in Intents \X Positions :
             \/ ran'[i] = ran[i]
             \/ at = "batch" /\ i[1] = Current.n /\ i[2] \in wave /\ ran'[i] = ran[i] + 1
    BY <1>6, InterruptedParts DEF bounds
  <2>2. at = "batch" => Working /\ Current.n = issued
    BY CurrentBatch DEF Working
  <2>3. Effects
    BY <2>1, <2>2 DEF Effects
  <2>4. ~Working'
    BY <2>1 DEF Ends, Working
  <2>5. DiskTrue'
    BY <2>1, <2>3, DiskTrueStep
  <2>6. QED
    BY <2>1, <2>3, <2>4, <2>5, <1>b
<1>7. CASE Answers
  BY <1>d, <1>7, AnswersSaves DEF Working, bounds
<1>8. CASE \E b \in Batches : Intends(b)
  <2>1. PICK b \in Batches : Intends(b)
    BY <1>8
  <2>2. BatchWork' /\ DiskTrue'
    BY <2>1, IntendWork
  <2>3. issued' >= issued /\ issued' \in Nat /\ ran' = ran
    BY <2>1, <1>a DEF Intends
  <2>4. QED
    BY <2>2, <2>3, <1>a, <1>c, UnissuedStep
<1>9. CASE PassesOver
  <2>1. ran' = ran /\ issued' = issued /\ disk' = disk
    BY <1>9 DEF PassesOver, record, bounds
  <2>2. QED
    BY <2>1, <1>9, <1>b, <1>c, PassWork, DiskTrueStep
<1>10. CASE Begins
  <2>1. ran' = ran /\ issued' = issued /\ disk' = disk
    BY <1>10 DEF Begins, record, bounds
  <2>2. QED
    BY <2>1, <1>10, <1>b, <1>c, BeginWork, DiskTrueStep
<1>11. CASE \E p \in Positions : CallReturns(p)
  <2>1. PICK p \in Positions : CallReturns(p)
    BY <1>11
  <2>2. BatchWork' /\ Effects
    BY <2>1, ReturnWork
  <2>3. issued' = issued /\ disk' = disk
    BY <2>1, ReturnParts DEF bounds
  <2>4. QED
    BY <2>2, <2>3, <1>b, DiskTrueStep
<1>12. CASE Checkpoints
  <2>1. ran' = ran /\ issued' = issued /\ disk'.messages = disk.messages /\ disk'.pending = pending
    BY <1>12, PendingSaved DEF Checkpoints, bounds
  <2>2. BatchWork' /\ Working
    BY <1>12, CheckpointWork
  <2>3. QED
    BY <2>1, <2>2, <1>b, <1>c, DiskTrueStep
<1>13. CASE Collects
  <2>1. ~Open(disk'.messages)
    BY <1>13, CollectsSaves
  <2>2. QED
    BY <2>1, <1>d, <1>13 DEF Collects, Working, bounds
<1>14. CASE Renews
  <2>1. ~Open(disk'.messages)
    BY <1>14, RenewsSaves
  <2>2. QED
    BY <2>1, <1>d, <1>14 DEF Renews, Working, bounds
<1>15. QED
  BY <1>1, <1>2, <1>3, <1>4, <1>5, <1>6, <1>7, <1>8, <1>9, <1>10, <1>11, <1>12, <1>13, <1>14, StepKinds

\* What is told of a call, before and after a step.
LEMMA ToldTrue ==
  ASSUME NEW t, NEW f
  PROVE  (\A e \in Told(t) : CASE e.result = "done" -> f[<<e.n, e.p>>] = 1
                               [] e.result \in {"refused", "skipped"} -> f[<<e.n, e.p>>] = 0
                               [] OTHER -> TRUE) <=> Truthful(t, f)
BY DEF Told, Truthful, IsTrue

LEMMA HistoryMade ==
  ASSUME \A i \in Intents \X Positions : ran'[i] <= 1 /\ (ran'[i] = 1 => Recorded(disk'.messages, i[1])),
         Truthful(transcript', ran'), Truthful(disk'.messages, ran')
  PROVE  HistoryTruthful'
BY ToldTrue DEF HistoryTruthful, Recorded

\* Effects of calls that are in flight make nothing untrue.
LEMMA EffectsTrue ==
  ASSUME LoopAssumption, TypeOK, RecordInv, BatchInv, HistoryTruthful, Effects,
         disk'.messages = disk.messages
  PROVE  /\ \A i \in Intents \X Positions : ran'[i] <= 1 /\ (ran'[i] = 1 => Recorded(disk'.messages, i[1]))
         /\ Truthful(disk.messages, ran')
<1>1. /\ \A i \in Intents \X Positions : ran[i] <= 1 /\ (ran[i] = 1 => Recorded(disk.messages, i[1]))
      /\ Truthful(disk.messages, ran)
  BY HistoryParts
<1>2. ASSUME NEW i \in Intents \X Positions
      PROVE  ran'[i] <= 1 /\ (ran'[i] = 1 => Recorded(disk'.messages, i[1]))
  <2>1. CASE ran'[i] = ran[i]
    BY <2>1, <1>1
  <2>2. CASE Working /\ i[1] = issued /\ i[2] \in wave /\ ran'[i] = ran[i] + 1
    <3>1. ran[<<issued, i[2]>>] = 0 /\ i = <<issued, i[2]>>
      BY <2>2, BatchParts
    <3>2. ran[i] = 0
      BY <3>1, Zenon
    <3>3. Recorded(disk.messages, issued)
      BY <2>2, CurrentBatch
    <3>4. QED
      BY <2>2, <3>2, <3>3
  <2>3. QED
    BY <2>1, <2>2 DEF Effects
<1>3. ASSUME NEW k \in DOMAIN disk.messages, disk.messages[k].role = "tool"
      PROVE  IsTrue(disk.messages[k], ran')
  <2>1. PICK e : e = disk.messages[k]
    OBVIOUS
  <2>2. e \in Message
    BY <2>1, ElementOfSeq DEF TypeOK
  <2>3. e.n \in Intents /\ e.p \in Positions
    BY <1>3, <2>1, <2>2, MessageKinds
  <2>4. Working => e.n # issued
    <3> SUFFICES ASSUME Working PROVE e.n # issued
      OBVIOUS
    <3>1. /\ disk.messages = transcript /\ Last(transcript).role = "intent"
      BY CurrentBatch
    <3>2. k # Len(transcript)
      BY <1>3, <3>1 DEF Last
    <3>3. QED
      BY <1>3, <2>1, <3>2 DEF RecordInv
  <2>5. ran'[<<e.n, e.p>>] = ran[<<e.n, e.p>>]
    <3>1. <<e.n, e.p>> \in Intents \X Positions /\ <<e.n, e.p>>[1] = e.n
      BY <2>3
    <3>2. QED
      BY <3>1, <2>4 DEF Effects
  <2>6. IsTrue(e, ran)
    BY <1>1, <1>3, <2>1 DEF Truthful
  <2>7. QED
    BY <2>1, <2>5, <2>6 DEF IsTrue
<1>4. QED
  BY <1>2, <1>3 DEF Truthful

LEMMA HistoryStep ==
  ASSUME LoopAssumption, HttpInv, [Next]_vars
  PROVE  HistoryTruthful'
<1> USE DEF HttpInv
<1>a. Truthful(<<>>, ran')
  BY DEF Truthful
<1>b. ASSUME Effects, disk'.messages = disk.messages, transcript' = disk.messages \/ transcript' = <<>>
      PROVE  HistoryTruthful'
  <2>1. /\ \A i \in Intents \X Positions : ran'[i] <= 1 /\ (ran'[i] = 1 => Recorded(disk'.messages, i[1]))
        /\ Truthful(disk.messages, ran')
    BY <1>b, EffectsTrue
  <2>2. Truthful(transcript', ran') /\ Truthful(disk'.messages, ran')
    BY <1>a, <1>b, <2>1
  <2>3. QED
    BY <2>1, <2>2, HistoryMade
<1>c. ASSUME ran' = ran PROVE Effects
  BY <1>c DEF Effects, TypeOK
<1>d. ASSUME Saved, transcript' = disk'.messages \/ transcript' = <<>>
      PROVE  HistoryTruthful'
  <2>1. \A i \in Intents \X Positions : ran[i] <= 1 /\ (ran[i] = 1 => Recorded(disk.messages, i[1]))
    BY HistoryParts
  <2>2. /\ Truthful(disk'.messages, ran) /\ ran' = ran
        /\ \A n : Recorded(disk.messages, n) => Recorded(disk'.messages, n)
    BY <1>d DEF Saved
  <2>3. \A i \in Intents \X Positions : ran'[i] <= 1 /\ (ran'[i] = 1 => Recorded(disk'.messages, i[1]))
    BY <2>1, <2>2
  <2>4. Truthful(transcript', ran') /\ Truthful(disk'.messages, ran')
    BY <1>a, <1>d, <2>2
  <2>5. QED
    BY <2>3, <2>4, HistoryMade
<1>e. transcript = disk.messages \/ transcript = <<>>
  BY DEF RecordInv
<1>1. CASE UNCHANGED vars
  BY <1>1, <1>b, <1>c, <1>e DEF vars, record
<1>2. CASE Asks /\ RequestOK'
  BY <1>2, <1>b, <1>c, <1>e DEF Asks, record
<1>3. CASE EndsRun
  BY <1>3, <1>b, <1>c DEF EndsRun, Ends
<1>4. CASE Resumes
  BY <1>4, <1>d, ResumesSaves
<1>5. CASE Refuses
  BY <1>5, <1>b, <1>c, <1>e DEF Refuses, record
<1>6. CASE Interrupted
  <2>1. /\ Ends("interrupted") /\ disk'.messages = disk.messages
        /\ ran' \in [Intents \X Positions -> Nat]
        /\ \A i \in Intents \X Positions :
             \/ ran'[i] = ran[i]
             \/ at = "batch" /\ i[1] = Current.n /\ i[2] \in wave /\ ran'[i] = ran[i] + 1
    BY <1>6, InterruptedParts
  <2>2. at = "batch" => Working /\ Current.n = issued
    BY CurrentBatch DEF Working
  <2>3. Effects
    BY <2>1, <2>2 DEF Effects
  <2>4. QED
    BY <2>1, <2>3, <1>b DEF Ends
<1>7. CASE Answers
  BY <1>7, <1>d, AnswersSaves
<1>8. CASE \E b \in Batches : Intends(b)
  <2>1. PICK b \in Batches : Intends(b)
    BY <1>8
  <2>2. Saved /\ transcript' = disk'.messages
    BY <2>1, IntendsSaves
  <2>3. QED
    BY <2>2, <1>d
<1>9. CASE PassesOver
  BY <1>9, <1>b, <1>c, <1>e DEF PassesOver, record
<1>10. CASE Begins
  BY <1>10, <1>b, <1>c, <1>e DEF Begins, record
<1>11. CASE \E p \in Positions : CallReturns(p)
  <2>1. PICK p \in Positions : CallReturns(p)
    BY <1>11
  <2>2. Effects
    BY <2>1, ReturnWork
  <2>3. transcript' = transcript /\ disk' = disk
    BY <2>1, ReturnParts
  <2>4. QED
    BY <2>2, <2>3, <1>b, <1>e
<1>12. CASE Checkpoints
  <2>1. ran' = ran /\ transcript' = transcript /\ disk'.messages = disk.messages
    BY <1>12, PendingSaved DEF Checkpoints
  <2>2. QED
    BY <2>1, <1>b, <1>c, <1>e
<1>13. CASE Collects
  BY <1>13, <1>d, CollectsSaves
<1>14. CASE Renews
  BY <1>14, <1>d, RenewsSaves
<1>15. QED
  BY <1>1, <1>2, <1>3, <1>4, <1>5, <1>6, <1>7, <1>8, <1>9, <1>10, <1>11, <1>12, <1>13, <1>14, StepKinds

LEMMA InitInv ==
  ASSUME LoopAssumption, Init
  PROVE  HttpInv
<1> USE DEF Init
<1>1. TypeOK
  <2>1. window \in Nat /\ 0 \in 0..MaxPrompts /\ 0 \in 0..MaxRounds - 1 /\ 1 \in 1..MaxSegments
        /\ 0 \in 0..MaxRetries /\ 0 \in 0..MaxHangs /\ 0 \in 0..MaxShrinks /\ 0 \in 0..MaxIntents
        /\ 0 \in 0..MaxResumes
    BY LoopAssumption
  <2>2. transcript \in Seq(Message) /\ pending \in Pendings
        /\ disk \in [messages : Seq(Message), pending : Pendings, prompt : 0..MaxPrompts]
    BY <2>1, EmptyTranscript, NonePending
  <2>3. QED
    BY <2>1, <2>2 DEF TypeOK, Steps, Outcomes, Unlimited
<1>2. ~Running /\ ~Working /\ ~Asking /\ disk.messages = <<>> /\ ~Open(disk.messages)
  BY DEF Running, Working, Asking, Open
<1>3. RecordInv
  BY <1>2 DEF RecordInv, Follows
<1>4. BatchInv
  BY <1>2 DEF BatchInv
<1>5. SizeInv /\ RequestsSound
  BY <1>2 DEF SizeInv, RequestsSound
<1>6. HistoryTruthful
  BY DEF HistoryTruthful, Told
<1>7. QED
  BY <1>1, <1>3, <1>4, <1>5, <1>6 DEF HttpInv

\* What the steps keep; that requests are sound follows from it.
Kept == TypeOK /\ RecordInv /\ BatchInv /\ SizeInv /\ Irreducible /\ HistoryTruthful

LEMMA KeptInv == LoopAssumption /\ Kept => HttpInv
  BY SoundFromRecord DEF Kept, HttpInv

\* Each step keeps it.
LEMMA HttpStep ==
  ASSUME LoopAssumption, Kept, [Next]_vars
  PROVE  Kept'
<1>1. HttpInv
  BY KeptInv
<1>2. /\ TypeOK' /\ RecordInv' /\ BatchInv' /\ SizeInv' /\ HistoryTruthful' /\ Irreducible'
  BY <1>1, TypeStep, RecordStep, BatchStep, SizeStep, HistoryStep, IrreducibleStep
<1>3. QED
  BY <1>2 DEF Kept

\* No outcome is missing from the disk when a call begins.
DurableStep ==
  \A p \in wave' \ wave : \A q \in 1..p-1 : q \in wave' \cup skip \/ disk.pending[q] # "none"

LEMMA BeginDurable ==
  ASSUME LoopAssumption, HttpInv, Begins
  PROVE  DurableStep
<1> USE DEF HttpInv
<1>1. /\ Working /\ BatchWork /\ wave = {} /\ disk.pending = pending
      /\ position \in Nat \ {0} /\ Size \in Nat /\ position' \in Nat
      /\ position' <= Size + 1 /\ wave' \subseteq position..position' - 1
      /\ \A p \in position..position' - 1 : p \in wave' <=> p \notin skip
  BY BeginParts
<1> SUFFICES ASSUME NEW p \in wave', NEW q \in 1..p-1
             PROVE  q \in wave' \cup skip \/ disk.pending[q] # "none"
  BY DEF DurableStep
<1>2. PICK a \in Nat \ {0}, b \in Nat, n \in Nat : a = position /\ b = position' /\ n = Size
  BY <1>1
<1>3. p \in a..(b - 1) /\ b <= n + 1
  BY <1>1, <1>2, Zenon
<1>4. p \in Nat /\ p < b /\ q \in Nat /\ 1 <= q /\ q < p /\ q \in 1..n
  BY <1>3
<1>5. CASE q < a
  <2>1. ~(q >= a)
    BY <1>4, <1>5
  <2>2. pending[q] = "none" <=> q >= a \/ q \in wave \cup skip
    BY <1>1, <1>2, <1>4 DEF BatchWork
  <2>3. QED
    BY <1>1, <2>1, <2>2
<1>6. CASE q >= a
  <2>1. q \in a..(b - 1)
    BY <1>4, <1>6
  <2>2. QED
    BY <1>1, <1>2, <2>1, Zenon
<1>7. QED
  BY <1>4, <1>5, <1>6

LEMMA DurableKept ==
  ASSUME LoopAssumption, HttpInv, [Next]_vars
  PROVE  DurableStep
<1> USE DEF HttpInv
<1>1. ASSUME wave' \subseteq wave PROVE DurableStep
  BY <1>1 DEF DurableStep
<1>2. CASE UNCHANGED vars
  BY <1>1, <1>2 DEF vars, batch
<1>3. CASE Asks \/ Resumes \/ Refuses \/ Renews
  BY <1>1, <1>3 DEF Asks, Resumes, Refuses, Renews, batch
<1>4. CASE EndsRun \/ Interrupted \/ Answers
  BY <1>1, <1>4 DEF EndsRun, Interrupted, Answers, Ends, Forgets
<1>5. CASE \E b \in Batches : Intends(b)
  BY <1>1, <1>5 DEF Intends
<1>6. CASE PassesOver \/ Checkpoints \/ Collects
  BY <1>1, <1>6 DEF PassesOver, Checkpoints, Collects, batch
<1>7. CASE \E p \in Positions : CallReturns(p)
  BY <1>1, <1>7 DEF CallReturns
<1>8. CASE Begins
  BY <1>8, BeginDurable
<1>9. QED
  BY <1>2, <1>3, <1>4, <1>5, <1>6, <1>7, <1>8, StepKinds
-----------------------------------------------------------------------------
(* What holds of every run of the loop.                                    *)

LEMMA KeptAlways == Spec => []Kept
<1>1. Init => Kept
  BY InitInv, LoopAssumption DEF Kept, HttpInv, RequestsSound, Irreducible
<1>2. Kept /\ [Next]_vars => Kept'
  BY HttpStep, LoopAssumption
<1>3. QED
  BY <1>1, <1>2, PTL DEF Spec

\* The record and the run agree, the outcomes in memory and on disk are those
\* of the batch, and what was rejected is never sent again, for all batches,
\* windows and limits and whenever the run is interrupted.
THEOREM HttpCorrect == Spec => []HttpInv
<1>1. Kept => HttpInv
  BY KeptInv, LoopAssumption
<1>2. QED
  BY <1>1, KeptAlways, PTL

\* No call takes effect twice, and no model is told of one what did not happen.
THEOREM TruthfulHistory == Spec => []HistoryTruthful
<1>1. Kept => HistoryTruthful
  BY DEF Kept
<1>2. QED
  BY <1>1, KeptAlways, PTL

\* Every request is well formed and asks the prompt of its run once; a context
\* is given up only if even its floor is not accepted.
THEOREM RequestsHold == Spec => []RequestsSound
<1>1. Kept => RequestsSound
  BY KeptInv, LoopAssumption DEF HttpInv
<1>2. QED
  BY <1>1, KeptAlways, PTL

\* A call begins only after the outcomes of the calls before it are durable.
THEOREM DurableFirst == Spec => OutcomesDurable
<1>1. Kept /\ [Next]_vars => [DurableStep]_vars
  BY KeptInv, DurableKept, LoopAssumption
<1>2. Spec => [][DurableStep]_vars
  BY <1>1, KeptAlways, PTL DEF Spec
<1>3. QED
  BY <1>2 DEF DurableStep, OutcomesDurable
-----------------------------------------------------------------------------
(* That a run ends.  What it has left is compared number by number, the      *)
(* weightiest first; only its own limits count, not the bounds of the runs.  *)

\* The segments left; the rounds left of this one, and whether one may still be
\* asked for or is due; what is left of the request, or of the batch, at work.
SegmentsLeft == MaxSegments - segment
RoundsLeft == IF at \in {"ask", "batch", "checkpoint"} THEN MaxRounds - rounds ELSE 0
StageLeft == IF at \in {"ask", "renew"} THEN 1 ELSE 0
MainLeft == IF Asking THEN (MaxHangs - hangs) + (MaxShrinks - shrinks)
            ELSE IF Working THEN Size + 1 - position ELSE 0
PartsLeft == IF Asking THEN MaxRetries - retries ELSE IF Working THEN Cardinality(wave) ELSE 0
StepLeft == IF (Asking /\ sent = 0) \/ at = "checkpoint" THEN 1 ELSE 0
Left == <<SegmentsLeft, RoundsLeft, StageLeft, MainLeft, PartsLeft, StepLeft>>

Less == {pair \in Nat \X Nat : pair[1] < pair[2]}
Falling == LexProductOrdering(Less, Nat, 6)

\* Six numbers fall if the first that changes does; and not for ever.
LEMMA SixFall ==
  ASSUME NEW a \in [1..6 -> Nat], NEW b \in [1..6 -> Nat],
         \/ b[1] < a[1]
         \/ b[1] = a[1] /\ \/ b[2] < a[2]
                           \/ b[2] = a[2] /\ \/ b[3] < a[3]
                                             \/ b[3] = a[3] /\ \/ b[4] < a[4]
                                                               \/ b[4] = a[4] /\ \/ b[5] < a[5]
                                                                                 \/ b[5] = a[5] /\ b[6] < a[6]
  PROVE  <<b, a>> \in Falling
<1>1. \E j \in 1..6 : (\A i \in 1..(j-1) : b[i] = a[i]) /\ b[j] < a[j]
  <2>1. CASE b[1] < a[1]
    BY <2>1
  <2>2. CASE b[1] = a[1] /\ b[2] < a[2]
    BY <2>2
  <2>3. CASE b[1] = a[1] /\ b[2] = a[2] /\ b[3] < a[3]
    BY <2>3
  <2>4. CASE b[1] = a[1] /\ b[2] = a[2] /\ b[3] = a[3] /\ b[4] < a[4]
    BY <2>4
  <2>5. CASE b[1] = a[1] /\ b[2] = a[2] /\ b[3] = a[3] /\ b[4] = a[4] /\ b[5] < a[5]
    BY <2>5
  <2>6. CASE b[1] = a[1] /\ b[2] = a[2] /\ b[3] = a[3] /\ b[4] = a[4] /\ b[5] = a[5] /\ b[6] < a[6]
    BY <2>6
  <2>7. QED
    BY <2>1, <2>2, <2>3, <2>4, <2>5, <2>6
<1>2. PICK j \in 1..6 : (\A i \in 1..(j-1) : b[i] = a[i]) /\ b[j] < a[j]
  BY <1>1
<1>3. <<b[j], a[j]>> \in Less
  BY <1>2 DEF Less
<1>4. QED
  BY <1>2, <1>3 DEF Falling, LexProductOrdering

LEMMA FallingEnds == IsWellFoundedOn(Falling, [1..6 -> Nat])
<1>1. IsWellFoundedOn(Less, Nat)
  BY NatLessThanWellFounded DEF OpToRel, Less
<1>2. QED
  BY <1>1, WFLexProductOrdering DEF Falling

\* What a run has left are numbers.
LEMMA LeftType ==
  ASSUME LoopAssumption, HttpInv
  PROVE  /\ SegmentsLeft \in Nat /\ RoundsLeft \in Nat /\ StageLeft \in Nat /\ MainLeft \in Nat
         /\ PartsLeft \in Nat /\ StepLeft \in Nat
         /\ Working => IsFiniteSet(wave) /\ Size \in Nat /\ position \in Nat /\ position <= Size + 1
<1>1. /\ MaxRounds \in Nat \ {0} /\ rounds \in 0..MaxRounds - 1 /\ segment \in 1..MaxSegments
      /\ MaxSegments \in Nat \ {0} /\ MaxRetries \in Nat /\ MaxHangs \in Nat /\ MaxShrinks \in Nat
      /\ retries \in 0..MaxRetries /\ hangs \in 0..MaxHangs /\ shrinks \in 0..MaxShrinks
  BY DEF LoopAssumption, HttpInv, TypeOK
<1>2. SegmentsLeft \in Nat /\ RoundsLeft \in Nat /\ StageLeft \in Nat /\ StepLeft \in Nat
  BY <1>1 DEF SegmentsLeft, RoundsLeft, StageLeft, StepLeft
<1>3. Working => IsFiniteSet(wave) /\ Size \in Nat /\ position \in Nat /\ position <= Size + 1
  <2> SUFFICES ASSUME Working
               PROVE  IsFiniteSet(wave) /\ Size \in Nat /\ position \in Nat /\ position <= Size + 1
    OBVIOUS
  <2>1. BatchWork /\ Size \in Nat /\ position \in Nat \ {0} /\ wave \subseteq 1..Size
    BY BatchParts DEF HttpInv
  <2>2. IsFiniteSet(1..Size)
    BY <2>1, FS_Interval
  <2>3. QED
    BY <2>1, <2>2, FS_Subset DEF BatchWork
<1>4. Working => Cardinality(wave) \in Nat
  BY <1>3, FS_CardinalityType
<1>5. MainLeft \in Nat /\ PartsLeft \in Nat
  BY <1>1, <1>3, <1>4 DEF MainLeft, PartsLeft
<1>6. QED
  BY <1>2, <1>3, <1>5

\* The numbers fall when the first of them that changes does.
LeftNumbers == /\ SegmentsLeft \in Nat /\ RoundsLeft \in Nat /\ StageLeft \in Nat
               /\ MainLeft \in Nat /\ PartsLeft \in Nat /\ StepLeft \in Nat

LEMMA LeftFalls ==
  ASSUME LeftNumbers, LeftNumbers',
         \/ SegmentsLeft' < SegmentsLeft
         \/ SegmentsLeft' = SegmentsLeft /\
            \/ RoundsLeft' < RoundsLeft
            \/ RoundsLeft' = RoundsLeft /\
               \/ StageLeft' < StageLeft
               \/ StageLeft' = StageLeft /\
                  \/ MainLeft' < MainLeft
                  \/ MainLeft' = MainLeft /\
                     \/ PartsLeft' < PartsLeft
                     \/ PartsLeft' = PartsLeft /\ StepLeft' < StepLeft
  PROVE  <<Left', Left>> \in Falling
<1>1. Left \in [1..6 -> Nat] /\ Left' \in [1..6 -> Nat]
  BY DEF Left, LeftNumbers
<1>2. /\ Left[1] = SegmentsLeft /\ Left[2] = RoundsLeft /\ Left[3] = StageLeft
      /\ Left[4] = MainLeft /\ Left[5] = PartsLeft /\ Left[6] = StepLeft
  BY DEF Left
<1>3. /\ Left'[1] = SegmentsLeft' /\ Left'[2] = RoundsLeft' /\ Left'[3] = StageLeft'
      /\ Left'[4] = MainLeft' /\ Left'[5] = PartsLeft' /\ Left'[6] = StepLeft'
  BY DEF Left
<1>4. QED
  BY <1>1, <1>2, <1>3, SixFall

\* A request that goes on: the attempts left, and whether it is to be sent.
LEMMA AskFalls ==
  ASSUME LoopAssumption, HttpInv, LeftNumbers, LeftNumbers', Running', Sends \/ ContextRejected \/ Hangs \/ Failed
  PROVE  <<Left', Left>> \in Falling
<1>1. /\ retries \in 0..MaxRetries /\ hangs \in 0..MaxHangs /\ shrinks \in 0..MaxShrinks
      /\ MaxRetries \in Nat /\ MaxHangs \in Nat /\ MaxShrinks \in Nat
  BY DEF HttpInv, TypeOK, LoopAssumption
<1>2. \A how : ~Ends(how)
  BY DEF Ends, Running
<1>3. /\ Asking /\ at' = at /\ UNCHANGED <<rounds, segment>>
      /\ \/ sent = 0 /\ sent' \in Nat /\ sent' # 0 /\ UNCHANGED <<hangs, shrinks, retries>>
         \/ hangs < MaxHangs /\ hangs' = hangs + 1 /\ shrinks' = shrinks
         \/ shrinks < MaxShrinks /\ shrinks' = shrinks + 1 /\ hangs' = hangs
         \/ retries < MaxRetries /\ retries' = retries + 1 /\ UNCHANGED <<hangs, shrinks, sent>>
  <2>1. CASE Sends
    <3>1. PICK size \in Projected :
            \/ sent' = size /\ UNCHANGED <<at, limits, retries, hangs, shrinks>>
            \/ Ends("irreducible")
      BY <2>1 DEF Sends
    <3>2. Floor(transcript) \in Nat \ {0} /\ PayloadSize \in Nat \ {0} /\ budget \in Nat
      BY FloorType, LenProperties DEF PayloadSize, HttpInv, TypeOK
    <3>3. size \in Nat /\ size # 0
      BY <3>2 DEF Projected
    <3>4. sent' = size /\ UNCHANGED <<at, limits, retries, hangs, shrinks>>
      BY <1>2, <3>1, ZenonT(60)
    <3>5. Asking /\ sent = 0
      BY <2>1 DEF Sends
    <3>6. QED
      BY <3>3, <3>4, <3>5 DEF limits
  <2>2. CASE ContextRejected
    BY <1>2, <2>2 DEF ContextRejected, limits
  <2>3. CASE Hangs
    BY <1>2, <2>3 DEF Hangs, limits
  <2>4. CASE Failed
    BY <1>2, <2>4 DEF Failed, limits
  <2>5. QED
    BY <2>1, <2>2, <2>3, <2>4
<1>4. /\ Asking' /\ SegmentsLeft' = SegmentsLeft /\ RoundsLeft' = RoundsLeft /\ StageLeft' = StageLeft
  BY <1>3 DEF Asking, SegmentsLeft, RoundsLeft, StageLeft
<1>5. /\ MainLeft = (MaxHangs - hangs) + (MaxShrinks - shrinks)
      /\ MainLeft' = (MaxHangs - hangs') + (MaxShrinks - shrinks')
      /\ PartsLeft = MaxRetries - retries /\ PartsLeft' = MaxRetries - retries'
      /\ StepLeft = (IF sent = 0 THEN 1 ELSE 0) /\ StepLeft' = (IF sent' = 0 THEN 1 ELSE 0)
  BY <1>3, <1>4 DEF MainLeft, PartsLeft, StepLeft, Asking
<1>6. \/ MainLeft' < MainLeft
      \/ MainLeft' = MainLeft /\ \/ PartsLeft' < PartsLeft
                                 \/ PartsLeft' = PartsLeft /\ StepLeft' < StepLeft
  BY <1>1, <1>3, <1>5
<1>7. QED
  BY <1>4, <1>6, LeftFalls

LEMMA Nearer == \A a, b, n \in Nat : a < b => n + 1 - b < n + 1 - a
  OBVIOUS

\* A batch that goes on: the calls that are left, those that run, the save.
LEMMA BatchFalls ==
  ASSUME LoopAssumption, HttpInv, LeftNumbers, LeftNumbers',
         PassesOver \/ Begins \/ (\E p \in Positions : CallReturns(p)) \/ Checkpoints
  PROVE  <<Left', Left>> \in Falling
<1> USE DEF HttpInv
<1>1. Working /\ Working' /\ UNCHANGED <<rounds, segment, transcript>>
  <2>1. CASE PassesOver
    BY <2>1 DEF PassesOver, Idle, Working, record, limits
  <2>2. CASE Begins
    BY <2>2 DEF Begins, Idle, Working, record, limits
  <2>3. CASE \E p \in Positions : CallReturns(p)
    BY <2>3, ReturnParts DEF Working, limits
  <2>4. CASE Checkpoints
    BY <2>4 DEF Checkpoints, Working, limits
  <2>5. QED
    BY <2>1, <2>2, <2>3, <2>4
<1>2. ~Asking /\ ~Asking' /\ at \notin {"ask", "renew"} /\ at' \notin {"ask", "renew"}
  BY <1>1 DEF Working, Asking
<1>3. /\ IsFiniteSet(wave) /\ Size \in Nat /\ position \in Nat /\ position <= Size + 1 /\ Size' = Size
  BY <1>1, LeftType DEF Size, Current
<1>4. /\ SegmentsLeft' = SegmentsLeft /\ RoundsLeft' = RoundsLeft /\ StageLeft' = StageLeft
  BY <1>1, <1>2 DEF SegmentsLeft, RoundsLeft, StageLeft, Working
<1>5. /\ MainLeft = Size + 1 - position /\ MainLeft' = Size + 1 - position'
      /\ PartsLeft = Cardinality(wave) /\ PartsLeft' = Cardinality(wave')
      /\ StepLeft = (IF at = "checkpoint" THEN 1 ELSE 0)
      /\ StepLeft' = (IF at' = "checkpoint" THEN 1 ELSE 0)
  BY <1>1, <1>2, <1>3 DEF MainLeft, PartsLeft, StepLeft
<1>6. \/ position' \in Nat /\ position' > position
      \/ position' = position /\ \E p \in wave : wave' = wave \ {p}
      \/ position' = position /\ wave' = wave /\ at = "checkpoint" /\ at' # "checkpoint"
  <2>1. CASE PassesOver
    BY <1>3, <2>1 DEF PassesOver
  <2>2. CASE Begins
    BY <1>3, <2>2, BeginParts
  <2>3. CASE \E p \in Positions : CallReturns(p)
    <3>1. PICK p \in Positions : CallReturns(p)
      BY <2>3
    <3>2. p \in wave /\ wave' = wave \ {p} /\ position' = position
      BY <3>1, ReturnParts
    <3>3. QED
      BY <3>2
  <2>4. CASE Checkpoints
    BY <2>4 DEF Checkpoints, batch
  <2>5. QED
    BY <2>1, <2>2, <2>3, <2>4
<1>7. (\E p \in wave : wave' = wave \ {p}) => Cardinality(wave') = Cardinality(wave) - 1
  BY <1>3, FS_RemoveElement
<1>8. \/ MainLeft' < MainLeft
      \/ MainLeft' = MainLeft /\ \/ PartsLeft' < PartsLeft
                                 \/ PartsLeft' = PartsLeft /\ StepLeft' < StepLeft
  <2>1. PartsLeft \in Nat
    BY DEF LeftNumbers
  <2>2. CASE position' \in Nat /\ position' > position
    <3>1. PICK a \in Nat, b \in Nat, n \in Nat : a = position /\ b = position' /\ n = Size
      BY <1>3, <2>2
    <3>2. a < b /\ MainLeft = n + 1 - a /\ MainLeft' = n + 1 - b
      BY <1>5, <2>2, <3>1
    <3>3. MainLeft' < MainLeft
      BY <3>1, <3>2, Nearer
    <3>4. QED
      BY <3>3
  <2>3. CASE position' = position /\ \E p \in wave : wave' = wave \ {p}
    BY <1>5, <1>7, <2>1, <2>3
  <2>4. CASE position' = position /\ wave' = wave /\ at = "checkpoint" /\ at' # "checkpoint"
    BY <1>5, <2>4
  <2>5. QED
    BY <1>6, <2>2, <2>3, <2>4
<1>9. QED
  BY <1>4, <1>8, LeftFalls

\* Between them: calls are intended, their results collected, a segment ends.
LEMMA RoundFalls ==
  ASSUME LoopAssumption, HttpInv, LeftNumbers, LeftNumbers',
         (\E b \in Batches : Intends(b)) \/ Collects \/ Renews
  PROVE  <<Left', Left>> \in Falling
<1>1. /\ rounds \in Nat /\ rounds < MaxRounds /\ segment \in Nat /\ MaxSegments \in Nat
      /\ MaxRounds \in Nat
  BY DEF HttpInv, TypeOK, LoopAssumption
<1>2. CASE \E b \in Batches : Intends(b)
  <2>1. at = "ask" /\ at' = "batch" /\ UNCHANGED <<rounds, segment>>
    BY <1>2 DEF Intends
  <2>2. /\ SegmentsLeft' = SegmentsLeft /\ RoundsLeft' = RoundsLeft
        /\ StageLeft = 1 /\ StageLeft' = 0
    BY <2>1 DEF SegmentsLeft, RoundsLeft, StageLeft
  <2>3. QED
    BY <2>2, LeftFalls
<1>3. CASE Collects
  <2>1. /\ at = "batch" /\ segment' = segment
        /\ \/ at' = "renew" /\ rounds' = 0
           \/ at' = "ask" /\ rounds' = rounds + 1
    BY <1>3 DEF Collects, BatchDone
  <2>2. SegmentsLeft' = SegmentsLeft /\ RoundsLeft = MaxRounds - rounds
    BY <2>1 DEF SegmentsLeft, RoundsLeft
  <2>3. RoundsLeft' = 0 \/ RoundsLeft' = MaxRounds - (rounds + 1)
    BY <2>1 DEF RoundsLeft
  <2>4. RoundsLeft' < RoundsLeft
    BY <1>1, <2>2, <2>3
  <2>5. QED
    BY <2>2, <2>4, LeftFalls
<1>4. CASE Renews
  <2>1. /\ at = "renew"
        /\ \/ segment' = segment + 1
           \/ at' = "final" /\ segment' = segment
    BY <1>4 DEF Renews
  <2>2. CASE segment' = segment + 1
    <3>1. SegmentsLeft' < SegmentsLeft
      BY <1>1, <2>2 DEF SegmentsLeft
    <3>2. QED
      BY <3>1, LeftFalls
  <2>3. CASE at' = "final" /\ segment' = segment
    <3>1. /\ SegmentsLeft' = SegmentsLeft /\ RoundsLeft' = RoundsLeft
          /\ StageLeft = 1 /\ StageLeft' = 0
      BY <2>1, <2>3 DEF SegmentsLeft, RoundsLeft, StageLeft
    <3>2. QED
      BY <3>1, LeftFalls
  <2>4. QED
    BY <2>1, <2>2, <2>3
<1>5. QED
  BY <1>2, <1>3, <1>4

LEMMA StepFalls ==
  ASSUME LoopAssumption, HttpInv, LeftNumbers, LeftNumbers', Running, Running', Next
  PROVE  <<Left', Left>> \in Falling
<1>1. ~Resumes /\ ~Refuses /\ ~Interrupted /\ ~Answers /\ ~AnswerLost /\ ~TooLong
  BY DEF Resumes, Refuses, Interrupted, Answers, AnswerLost, TooLong, Ends, Running
<1>2. CASE Sends \/ ContextRejected \/ Hangs \/ Failed
  BY <1>2, AskFalls
<1>3. CASE PassesOver \/ Begins \/ (\E p \in Positions : CallReturns(p)) \/ Checkpoints
  BY <1>3, BatchFalls
<1>4. CASE (\E b \in Batches : Intends(b)) \/ Collects \/ Renews
  BY <1>4, RoundFalls
<1>5. QED
  BY <1>1, <1>2, <1>3, <1>4 DEF Next, Generation, Batch

\* A step of a run that does not end it.
RunFalls == Running /\ Running' => <<Left', Left>> \in Falling

\* A run cannot go on for ever: every step of it that does not end it makes what
\* it has left fall, and that can fall only so often.  Neither the number of
\* intents nor that of the runs bounds it, only the limits of the loop.
THEOREM RunsRunOut ==
  IsWellFoundedOn(Falling, [1..6 -> Nat]) /\ (Spec => [][RunFalls]_vars)
<1>1. Kept => HttpInv /\ LeftNumbers
  BY KeptInv, LeftType, LoopAssumption DEF LeftNumbers
<1>2. HttpInv /\ LeftNumbers /\ LeftNumbers' /\ [Next]_vars => [RunFalls]_vars
  BY StepFalls, LoopAssumption DEF RunFalls
<1>3. Spec => [][RunFalls]_vars
  BY <1>1, <1>2, KeptAlways, PTL DEF Spec
<1>4. QED
  BY <1>3, FallingEnds
=============================================================================
