------------------------------- MODULE QueueOps -------------------------------
(***************************************************************************)
(* The list edits the per-owner queue is built from.  A queue holds job     *)
(* identities; both the durable queue body and the in-memory asyncio.Queue  *)
(* are sequences in which an identity occurs at most once.                  *)
(***************************************************************************)
EXTENDS Integers, Sequences, SequencesExt

\* No identity occurs twice.
NoRepeat(s) == \A i, j \in 1..Len(s) : s[i] = s[j] => i = j

\* The queue with one identity filtered out, the others in their order.
Without(s, j) ==
  IF \E i \in 1..Len(s) : s[i] = j
  THEN LET k == CHOOSE i \in 1..Len(s) : s[i] = j
       IN  [i \in 1..Len(s) - 1 |-> IF i < k THEN s[i] ELSE s[i + 1]]
  ELSE s

\* Mutant: put in its turn, not first.
PutLast(s, j) == Append(Without(s, j), j)
\* Mutant: put first without taking the earlier copy out.
PutFirstAgain(s, j) == <<j>> \o s
\* The queue with an identity put first, whether or not it was there.
PutFirst(s, j) == <<j>> \o Without(s, j)

\* The queue with an identity moved to the front if it is there.
Promoted(s, j) == IF j \in ToSet(s) THEN PutFirst(s, j) ELSE s

\* The queue with an identity at the end unless it is already there.
Enqueued(s, j) == IF j \in ToSet(s) THEN s ELSE Append(s, j)

\* The first identity of a queue that is in a given set.
FirstIn(s, S) == s[CHOOSE i \in 1..Len(s) :
                     s[i] \in S /\ \A k \in 1..(i - 1) : s[k] \notin S]
===============================================================================
