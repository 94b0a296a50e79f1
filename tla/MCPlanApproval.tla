----------------------------- MODULE MCPlanApproval -----------------------------
(* PlanApproval over a plan with a step that needs an answer; nobody has        *)
(* granted what the step does, only an approval does.                          *)
EXTENDS PlanApproval, MCOrchestrator

\* A step that requires confirmation after one that does not.
MCApprovalSteps ==
  [p \in Plan |-> << Step(echo, "say"),
                     [Step(search, "find") EXCEPT !.requires_confirmation = TRUE] >>]
================================================================================
