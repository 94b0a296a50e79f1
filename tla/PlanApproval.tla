------------------------------ MODULE PlanApproval ------------------------------
(* The approval half of aegis/daemon.py: execute_plan_by_id with its local     *)
(* prompt, confirm_plan_step and decide_plan_step, over the plans of           *)
(* plan_store, which Orchestrator executes.  A user's answer may come while    *)
(* another worker is executing the same plan.                                  *)
EXTENDS Orchestrator

VARIABLES
  caller,      \* thread -> who called execute_plan: see Callers
  consent,     \* history: <<plan, step>> the user or the planner consented to
  remembered,  \* history: pairs granted by an approval, not revoked or timed since
  disturbed    \* history: executions whose plan another call wrote to

allVars == <<vars, caller, consent, remembered, disturbed>>

\* execute_plan_by_id prompts after a denial; the others do not.
Callers == {"execute_plan_by_id", "other"}

\* "denied by guardian" is in the message of these denials only
PromptedDenials == {"GUARDIAN_DENIED", "CONTAINER_POLICY_DENIED",
                    "AIRGAPPED_POLICY_DENIED"}

ApprovalTypeOK ==
  /\ caller \in [Thread -> Callers]
  /\ \A t \in Thread : pc[t] \in Label \cup {"approve", "prompt"}
  /\ remembered \subseteq Pair /\ disturbed \subseteq Thread
  /\ \A c \in consent : c[1] \in Plan /\ c[2] \in DOMAIN StepsOf[c[1]]

PairOf(p, i) == <<StepsOf[p][i].skill, StepsOf[p][i].action>>

Requests(p) ==
  {i \in DOMAIN steps[p] : steps[p][i].status = "DENIED" /\ steps[p][i].error \in PromptedDenials}

\* _permission_request_from_plan: the first such step
FirstRequest(p) == CHOOSE i \in Requests(p) : \A j \in Requests(p) : i <= j

-------------------------------------------------------------------------------
\* execute_plan_by_id, and the callers that do not prompt
ExecutePlan(t, p, allow_failure) ==
  /\ Execute(t, p, allow_failure)
  /\ caller' \in {[caller EXCEPT ![t] = c] : c \in {"execute_plan_by_id", "other"}}
  /\ UNCHANGED <<consent, remembered>>

\* guardian.grant of confirm_plan_step(approved) and of decide_plan_step("always")
GrantCapability(t, p, i) ==
  /\ Caps!Grant(StepsOf[p][i].skill, StepsOf[p][i].action)
  /\ remembered' = remembered \cup {PairOf(p, i)}
  /\ job' = [job EXCEPT ![t] = [plan |-> p, i |-> i, allow_failure |-> FALSE]]
  /\ caller' = [caller EXCEPT ![t] = "other"]
  /\ GoTo(t, "approve")

ConfirmPlanStep(t, p, i) ==
  /\ pc[t] = "idle"
  /\ runs < MaxRuns /\ runs' = runs + 1
  /\ GrantCapability(t, p, i)
  /\ UNCHANGED <<ledgerVars, registered, planVars, result, historyVars, consent>>

\* decide_plan_step("once") grants nothing
DecideOnce(t, p, i) ==
  /\ pc[t] = "idle"
  /\ runs < MaxRuns /\ runs' = runs + 1
  /\ job' = [job EXCEPT ![t] = [plan |-> p, i |-> i, allow_failure |-> FALSE]]
  /\ caller' = [caller EXCEPT ![t] = "other"]
  /\ GoTo(t, "approve")
  /\ UNCHANGED <<permissions, ledgerVars, registered, planVars, result, historyVars,
                 consent, remembered>>

\* step.params["confirmed"] = True, then execute_plan(allow_failure=False)
Approve(t) ==
  /\ pc[t] = "approve"
  /\ steps' = [steps EXCEPT ![ThePlan(t)][job[t].i].confirmed = TRUE]
  /\ consent' = consent \cup {<<ThePlan(t), job[t].i>>}
  /\ job' = [job EXCEPT ![t].i = 1]
  /\ past' = [past EXCEPT ![t] = <<>>]
  /\ tries' = [tries EXCEPT ![t] = 0]
  /\ GoTo(t, "start")
  /\ UNCHANGED <<permissions, ledgerVars, registered, planStatus, result, runs, exposure,
                 caller, remembered>>

\* confirm_plan_step(approved=False), decide_plan_step("deny"), in a worker of its
\* own: the plan may be executing meanwhile, and the execution goes on
Refuse(p, i) ==
  /\ steps' = [steps EXCEPT ![p][i].status = "DENIED", ![p][i].error = "none"]
  /\ planStatus' = [planStatus EXCEPT ![p] = "FAILED"]

DenyPlanStep(t, p, i) ==
  /\ pc[t] = "idle"
  /\ Refuse(p, i)
  /\ UNCHANGED <<permissions, ledgerVars, registered, threadVars, runs, historyVars,
                 caller, consent, remembered>>

-------------------------------------------------------------------------------
\* execute_plan returned to execute_plan_by_id: ask the local UI, if there is a request
AskPermission(t) ==
  /\ pc[t] = "done" /\ caller[t] = "execute_plan_by_id"
  /\ Requests(ThePlan(t)) # {}
  /\ job' = [job EXCEPT ![t].i = FirstRequest(ThePlan(t))]
  /\ GoTo(t, "prompt")
  /\ UNCHANGED <<permissions, ledgerVars, registered, planVars, result, runs, historyVars,
                 caller, consent, remembered>>

\* The answer: allow and remember, refuse, or no local UI.
AnswerYes(t) ==
  /\ pc[t] = "prompt"
  /\ GrantCapability(t, ThePlan(t), job[t].i)
  /\ UNCHANGED <<ledgerVars, registered, planVars, result, runs, historyVars, consent>>

AnswerNo(t) ==
  /\ pc[t] = "prompt"
  /\ \/ Refuse(ThePlan(t), job[t].i)
     \/ UNCHANGED planVars
  /\ GoTo(t, "idle")
  /\ job' = [job EXCEPT ![t] = NoJob]
  /\ UNCHANGED <<permissions, ledgerVars, registered, result, runs, historyVars,
                 caller, consent, remembered>>

Finish(t) ==
  /\ pc[t] = "done"
  /\ caller[t] = "execute_plan_by_id" => Requests(ThePlan(t)) = {}
  /\ Return(t)
  /\ UNCHANGED <<caller, consent, remembered>>

\* A revocation through the API, or a grant with a duration in its place, ends
\* what an approval had granted.
AdministerPlans ==
  /\ Environment
  /\ remembered' = {pair \in remembered : permissions'[pair[1]][pair[2]] = Caps!Never}
  /\ UNCHANGED <<caller, consent>>

-------------------------------------------------------------------------------
ApprovalInit ==
  /\ Init
  /\ caller = [t \in Thread |-> "other"]
  /\ consent = UNION {{p} \X {i \in DOMAIN StepsOf[p] : StepsOf[p][i].confirmed} : p \in Plan}
  /\ remembered = {} /\ disturbed = {}

\* An execution is disturbed once its plan changes while it stands still: another
\* call wrote to the plan.
WatchPlans ==
  disturbed' = {t \in Thread :
    LET p == ThePlan(t)
    IN  /\ job'[t] # NoJob /\ pc'[t] # "start"
        /\ \/ t \in disturbed
           \/ /\ pc[t] # "idle" /\ pc'[t] = pc[t] /\ job'[t] = job[t]
              /\ <<planStatus[p], steps[p]>>' # <<planStatus[p], steps[p]>>}

UserCall(t) ==
  \E p \in Plan :
    \/ \E allow_failure \in BOOLEAN : ExecutePlan(t, p, allow_failure)
    \/ \E i \in DOMAIN StepsOf[p] :
         ConfirmPlanStep(t, p, i) \/ DecideOnce(t, p, i) \/ DenyPlanStep(t, p, i)

Proceed(t) ==
  \/ (Work(t) \/ Raise(t)) /\ UNCHANGED <<caller, consent, remembered>>
  \/ Approve(t)
  \/ Finish(t)

Prompt(t) == AskPermission(t) \/ AnswerYes(t) \/ AnswerNo(t)

ApprovalNext ==
  /\ \/ \E t \in Thread : (UserCall(t) \/ Proceed(t) \/ Prompt(t)) /\ UNCHANGED now
     \/ AdministerPlans /\ UNCHANGED now
     \/ Tick /\ UNCHANGED <<caller, consent, remembered>>
  /\ WatchPlans /\ WatchRows /\ WatchExits

ApprovalSpec == ApprovalInit /\ [][ApprovalNext]_allVars

-------------------------------------------------------------------------------
(* A step that requires confirmation gets past the gate only with the consent  *)
(* of the user, or of the planner who filled in its parameters, to that very   *)
(* step: neither another step's approval, a refusal, a grant nor a second      *)
(* worker on the same plan supplies it.                                        *)
ConfirmationGate ==
  \A t \in Thread :
    ( /\ pc[t] \in {"guardian", "policy", "sandbox", "network", "dispatch", "settle", "decide"}
      /\ Planned(t).requires_confirmation )
    => <<ThePlan(t), job[t].i>> \in consent

(* confirm_plan_step: "Grant this exact capability after explicit approval so  *)
(* later executions of the same task do not prompt again".  Until the          *)
(* capability is revoked, or granted again with a duration, which replaces the *)
(* row, the check of the action itself denies no execution.                    *)
ApprovalIsRemembered ==
  [][\A p \in Plan : \A i \in DOMAIN StepsOf[p] :
       ( /\ steps'[p][i].error = "GUARDIAN_DENIED"
         /\ \E t \in Thread : pc[t] = "guardian" /\ pc'[t] \in {"precheck", "done"}
                              /\ ThePlan(t) = p /\ job[t].i = i )
       => PairOf(p, i) \notin remembered]_allVars

(* What the caller is told: a plan reported SUCCEEDED without allow_failure has *)
(* every step SUCCEEDED, or FAILED under skip or fallback, also when it is a   *)
(* re-execution of a plan that failed, was denied or was refused before, and   *)
(* whoever executes other plans.  Only a call that writes to the same plan     *)
(* between the start of the execution and its report takes that away.          *)
VerdictMatchesSteps ==
  \A t \in Thread \ disturbed :
    ( /\ pc[t] = "done" /\ planStatus[ThePlan(t)] = "SUCCEEDED"
      /\ ~ job[t].allow_failure )
    => \A i \in DOMAIN steps[ThePlan(t)] :
         \/ steps[ThePlan(t)][i].status = "SUCCEEDED"
         \/ /\ steps[ThePlan(t)][i].status = "FAILED"
            /\ StepsOf[ThePlan(t)][i].on_failure # "abort"
===============================================================================
