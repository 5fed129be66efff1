----------------------------- MODULE MCFlexible -----------------------------
(* Two tiers; an owner with a specialist, and a plan of two readers before a  *)
(* writer, of which one may meet an account that is exhausted.                *)
EXTENDS FlexibleJob

TaskOf(tier, scopes, read) == [tier |-> tier, scopes |-> scopes, read |-> read]
PlanOf(owner, queue, specialists) == [owner |-> owner, queue |-> queue, specialists |-> specialists]
MCTaskPlan ==
  {PlanOf(FALSE, <<TaskOf(2, {"a"}, TRUE), TaskOf(1, {"b"}, TRUE), TaskOf(2, {"e"}, FALSE)>>, <<>>)}
MCPlans == {PlanOf(TRUE, <<TaskOf(1, {"a"}, FALSE)>>, <<2>>)} \cup MCTaskPlan

Ending(end, tier, followups, detached) ==
  [end |-> end, tier |-> tier, followups |-> followups, detached |-> detached]
MCEndings ==
  {Ending("report", 0, <<>>, FALSE), Ending("report", 0, <<TaskOf(1, {"c"}, FALSE), TaskOf(2, {"d"}, FALSE)>>, FALSE),
   Ending("lease", 2, <<>>, FALSE), Ending("lease", 2, <<>>, TRUE),
   Ending("escalate", 0, <<TaskOf(1, {"c"}, FALSE)>>, FALSE)}
  \cup {Ending(end, 0, <<>>, FALSE) : end \in {"await", "fail", "limit", "tools", "prerequisite"}}
MCScopes == {"a", "b", "c", "d", "e"}
MCMore == {"c"}
=============================================================================
