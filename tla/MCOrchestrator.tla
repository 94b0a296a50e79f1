----------------------------- MODULE MCOrchestrator -----------------------------
(* Instances of Orchestrator: a plan of two steps over skills of different      *)
(* tiers, of which the first is retried, and one whose parameters are wrong.    *)
EXTENDS Orchestrator, TLC

CONSTANTS p1, p2, echo, search

Step(skill, action) ==
  [skill |-> skill, action |-> action, requires_confirmation |-> FALSE,
   confirmed |-> FALSE, valid |-> TRUE, wellformed |-> TRUE,
   on_failure |-> "abort", max_retries |-> 0, retry_on_any_error |-> FALSE]

\* p1: a retried step that may fail and be skipped, then a tier 2
\* skill that needs the network, which the planner confirmed.
\* p2: a step whose parameters do not fit the schema.
MCStepsOf ==
  [p \in Plan |->
     CASE p = p1 -> << [Step(echo, "say") EXCEPT !.max_retries = 1, !.on_failure = "skip"],
                       [Step(search, "find") EXCEPT !.confirmed = TRUE] >>
       [] p = p2 -> << [Step(echo, "say") EXCEPT !.valid = FALSE] >>]

\* A plan of one retried step each, for a worker of the process and for a container.
MCRetriedSteps ==
  [p \in Plan |-> << [(IF p = p1 THEN Step(echo, "say") ELSE Step(search, "find"))
                        EXCEPT !.max_retries = 1] >>]

MCTier == [s \in Skill |-> IF s = search THEN 2 ELSE 3]
MCLowTier == [s \in Skill |-> IF s = search THEN 2 ELSE 1]
MCPermissions == [s \in Skill |-> IF s = search THEN {"network"} ELSE {}]
MCAllPermissions == [s \in Skill |-> IF s = search THEN {"network", "find"} ELSE {}]
MCAllowedActions == [s \in Skill |-> IF s = echo THEN {"say"} ELSE {}]

\* rows of the guardian's table and policy rules the runs choose from
EchoSay == {<<echo, "say">>}
SearchFind == {<<search, "find">>}
SearchContainer == {<<search, "container">>}
SearchNetwork == {<<search, "network">>}

Symmetric == Permutations(Thread)
================================================================================
