------------------------------ MODULE JobPromise ------------------------------
(***************************************************************************)
(* What a bot promises an owner about each request, with no queue, turn,    *)
(* file or restart in sight.  An accepted request is answered at most once, *)
(* one at a time; an answer is delivered; /stop and a withdrawn chat are    *)
(* the only other ways out, and every way out is final.                     *)
(***************************************************************************)
CONSTANT Jobs

VARIABLE status

Status == {"new", "accepted", "answered", "delivered", "stopped", "dropped"}

PromiseTypeOK == status \in [Jobs -> Status]

PromiseInit == status = [j \in Jobs |-> "new"]

Becomes(j, s) == status' = [status EXCEPT ![j] = s]

Accept(j) == status[j] = "new" /\ Becomes(j, "accepted")

Answer(j) ==
  /\ status[j] = "accepted"
  /\ \A i \in Jobs : status[i] # "answered"
  /\ Becomes(j, "answered")

Deliver(j) == status[j] = "answered" /\ Becomes(j, "delivered")

\* The chat of the request is no longer authorized.
Drop(j) == status[j] \in {"accepted", "answered"} /\ Becomes(j, "dropped")

\* /stop discards waiting requests together, then staged answers.
Discard(s) ==
  /\ \E j \in Jobs : status[j] = s
  /\ status' = [j \in Jobs |-> IF status[j] = s THEN "stopped" ELSE status[j]]

PromiseNext ==
  \/ \E j \in Jobs : Accept(j) \/ Answer(j) \/ Deliver(j) \/ Drop(j)
  \/ \E s \in {"accepted", "answered"} : Discard(s)

Promise == PromiseInit /\ [][PromiseNext]_status

\* An answer does not stay undelivered.
AnswersLeave == \A j \in Jobs : status[j] = "answered" ~> status[j] # "answered"

LivePromise == Promise /\ AnswersLeave
===============================================================================
