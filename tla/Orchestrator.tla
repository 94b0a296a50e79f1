------------------------------ MODULE Orchestrator ------------------------------
(* aegis/orchestrator/core.py: Orchestrator.execute_plan run by several worker *)
(* threads over shared Plan objects, the guardian's capability table and the   *)
(* trust ledger.  FastAPI runs its handlers in a thread pool and nothing here  *)
(* takes a lock: each check, dispatch and booking is a step of its own.        *)
(* The quota of the policy is ExecutionPolicy's subject; here it may refuse    *)
(* any unconfirmed call of a limited key.                                      *)
EXTENDS Integers, Sequences, FiniteSets

CONSTANTS
  Thread, Plan, Skill,
  Action,              \* action names
  StepsOf,             \* plan -> its steps, the fields a planner fills in
  Tier,                \* skill -> 1, 2 or 3 (any other value is no known tier)
  Permissions,         \* skill -> get_permissions()
  AllowedActions,      \* skill -> allowed_actions, {} when it declares none
  StartSkills,         \* skills registered at start-up, the others later
  AutoGrant,           \* AEGIS_AUTO_GRANT_SKILL_PERMISSIONS
  ProfileDenied,       \* <<skill, action>> pairs the policy profile denies
  Limited,             \* <<skill, action>> pairs with a quota
  Grantable,           \* <<skill, capability>> rows granted through the API
  Revocable,           \* <<skill, capability>> rows revoked through the API
  Durations,           \* values of duration_hours of a grant through the API
  MaxRuns,             \* bound: executions started
  UnlockConfirmed, RateNum, RateDen, UnlockMaxErrors, SuspensionHours,
  RejectionThreshold, MaxNow

Capability == Action \cup {"all", "none", "container", "network", "airgapped"}

VARIABLES
  permissions,       \* Guardian
  known, scores,     \* TrustLedger
  now,
  registered,        \* self.skills
  planStatus,        \* plan -> Plan.status
  steps,             \* plan -> the mutable fields of its PlanSteps
  pc, job, result,   \* thread -> label, the execute_plan frame, local result
  runs,
  tries,             \* history: dispatches of the current step in this execution
  past,              \* history: fates of the steps behind it in this execution
  exposure,          \* history: dispatches of each skill, ever
  lost,              \* history: thread -> rows its skill lost since the guardian check
  abandoned          \* history: plans whose last execution an exception left RUNNING

ledgerVars == <<known, scores>>
planVars == <<planStatus, steps>>
threadVars == <<pc, job, result>>
historyVars == <<tries, past, exposure>>
vars == <<permissions, known, scores, now, registered, planStatus, steps, pc, job,
          result, runs, tries, past, exposure, lost, abandoned>>

Ledger == INSTANCE TrustLedger WITH Category <- Skill
Caps == INSTANCE Guardian WITH AnyAction <- "all", NoneAction <- "none",
          Role <- {}, HoursPerDay <- 24, persistent <- FALSE,
          roles <- {}, assignments <- {}

OnFailure == {"abort", "skip", "fallback"}
Outcome == {"ok", "transient", "permanent"}
Denial == {"REQUIRES_CONFIRMATION", "INVALID_PARAMS", "GUARDIAN_DENIED", "POLICY_DENIED",
           "CONTAINER_POLICY_DENIED", "NETWORK_POLICY_DENIED",
           "AIRGAPPED_POLICY_DENIED"}

Pair == Skill \X Action
PlannedStep ==
  [skill : Skill, action : Action, requires_confirmation : BOOLEAN,
   confirmed : BOOLEAN, valid : BOOLEAN, wellformed : BOOLEAN,
   on_failure : OnFailure, max_retries : Nat, retry_on_any_error : BOOLEAN]

ASSUME OrchestratorConstants ==
  /\ StepsOf \in [Plan -> Seq(PlannedStep)]
  /\ Tier \in [Skill -> Nat]
  /\ Permissions \in [Skill -> SUBSET Capability]
  /\ AllowedActions \in [Skill -> SUBSET Action]
  /\ StartSkills \subseteq Skill
  /\ AutoGrant \in BOOLEAN
  /\ ProfileDenied \subseteq Pair /\ Limited \subseteq Pair
  /\ Grantable \cup Revocable \subseteq Skill \X Capability /\ Durations \subseteq Nat
  /\ MaxRuns \in Nat /\ MaxNow \in Nat
  /\ UnlockConfirmed \in Nat \ {0} /\ UnlockMaxErrors \in Nat
  /\ RateNum \in Nat /\ RateDen \in Nat \ {0}
  /\ SuspensionHours \in Nat \ {0} /\ RejectionThreshold \in Nat \ {0}
  /\ IsFiniteSet(Thread) /\ IsFiniteSet(Plan)

\* PlanStep: status, the error of result ("none": result is None), error_type,
\* attempts and params["confirmed"].
StepState ==
  [status : {"PENDING", "SUCCEEDED", "FAILED", "DENIED"},
   error : {"none", "VALIDATION"} \cup Outcome \cup Denial,
   error_type : {"none", "transient", "permanent", "denied", "validation"},
   attempts : Nat, confirmed : BOOLEAN]

Label == {"idle", "start", "precheck", "guardian", "policy", "sandbox", "network",
          "dispatch", "settle", "decide", "done"}

NoJob == [plan |-> "none", i |-> 0, allow_failure |-> FALSE]
Job == {NoJob} \cup [plan : Plan, i : Nat, allow_failure : BOOLEAN]

TypeOK ==
  /\ permissions \in [Skill -> [Capability -> Caps!Expiry]]
  /\ Ledger!TypeOK
  /\ registered \subseteq Skill
  /\ planStatus \in [Plan -> {"PENDING", "RUNNING", "SUCCEEDED", "FAILED"}]
  /\ steps \in [Plan -> Seq(StepState)]
  /\ \A p \in Plan : DOMAIN steps[p] = DOMAIN StepsOf[p]
  /\ pc \in [Thread -> Label]
  /\ job \in [Thread -> Job]
  /\ result \in [Thread -> Outcome]
  /\ runs \in Nat
  /\ lost \in [Thread -> SUBSET Capability] /\ abandoned \subseteq Plan

-------------------------------------------------------------------------------
\* the frame of thread t

ThePlan(t) == job[t].plan
Planned(t) == StepsOf[job[t].plan][job[t].i]
TheStep(t) == steps[job[t].plan][job[t].i]
Running(t) == pc[t] \in {"precheck", "guardian", "policy", "sandbox", "network",
                        "dispatch", "settle", "decide"}

GoTo(t, label) == pc' = [pc EXCEPT ![t] = label]

SetStep(t, s) == steps' = [steps EXCEPT ![ThePlan(t)][job[t].i] = s]

SetPlan(t, status) == planStatus' = [planStatus EXCEPT ![ThePlan(t)] = status]

\* The loop goes on; mark_succeeded follows the last step.
NextStep(t, fate) ==
  /\ past' = [past EXCEPT ![t] = Append(@, fate)]
  /\ tries' = [tries EXCEPT ![t] = 0]
  /\ IF job[t].i < Len(StepsOf[ThePlan(t)])
     THEN /\ job' = [job EXCEPT ![t].i = @ + 1]
          /\ GoTo(t, "precheck")
          /\ UNCHANGED planStatus
     ELSE SetPlan(t, "SUCCEEDED") /\ GoTo(t, "done") /\ UNCHANGED job

\* mutant: the early return forgets mark_failed
FailPlanSilently(t, fate) ==
  /\ past' = [past EXCEPT ![t] = Append(@, fate)] /\ GoTo(t, "done")
  /\ UNCHANGED <<planStatus, job, tries>>

\* mark_failed and return
FailPlan(t, fate) ==
  /\ past' = [past EXCEPT ![t] = Append(@, fate)]
  /\ SetPlan(t, "FAILED") /\ GoTo(t, "done")
  /\ UNCHANGED <<job, tries>>

\* mutants: on_failure "skip" skips a denial; a denied step is checked again and again
DenySkips(t, code) ==
  /\ SetStep(t, [TheStep(t) EXCEPT !.status = "DENIED", !.error = code,
                                   !.error_type = "denied"])
  /\ IF job[t].allow_failure \/ Planned(t).on_failure # "abort"
     THEN NextStep(t, "denied") ELSE FailPlan(t, "denied")
DenyWaits(t, code) == GoTo(t, pc[t]) /\ UNCHANGED <<planStatus, steps, job, tries, past>>

\* _deny_step
Deny(t, code) ==
  /\ SetStep(t, [TheStep(t) EXCEPT !.status = "DENIED", !.error = code,
                                   !.error_type = "denied"])
  /\ IF job[t].allow_failure THEN NextStep(t, "denied") ELSE FailPlan(t, "denied")

Pass(t, label) ==
  /\ GoTo(t, label)
  /\ UNCHANGED <<planStatus, steps, job, tries, past>>

-------------------------------------------------------------------------------
\* execute_plan is called, by an API worker or the daemon.
Execute(t, p, allow_failure) ==
  /\ pc[t] = "idle"
  /\ runs < MaxRuns /\ runs' = runs + 1
  /\ job' = [job EXCEPT ![t] = [plan |-> p, i |-> 1, allow_failure |-> allow_failure]]
  /\ past' = [past EXCEPT ![t] = <<>>]
  /\ tries' = [tries EXCEPT ![t] = 0]
  /\ GoTo(t, "start")
  /\ UNCHANGED <<permissions, ledgerVars, registered, planVars, result, exposure>>

\* _validate_plan_before_execution
Executable(p) ==
  /\ StepsOf[p] # <<>>
  /\ \A i \in DOMAIN StepsOf[p] :
       LET s == StepsOf[p][i]
       IN  /\ s.skill \in registered /\ s.wellformed
           /\ AllowedActions[s.skill] # {} => s.action \in AllowedActions[s.skill]

Start(t) ==
  /\ pc[t] = "start"
  /\ IF Executable(ThePlan(t))
     THEN SetPlan(t, "RUNNING") /\ GoTo(t, "precheck") /\ UNCHANGED steps
     ELSE /\ SetPlan(t, "FAILED") /\ GoTo(t, "done")
          /\ IF StepsOf[ThePlan(t)] = <<>>
             THEN UNCHANGED steps
             ELSE SetStep(t, [TheStep(t) EXCEPT !.status = "DENIED", !.error = "VALIDATION",
                                                !.error_type = "validation"])
  /\ UNCHANGED <<permissions, ledgerVars, registered, job, result, runs, historyVars>>

\* mutant: allow_failure lifts the confirmation gate too
UnconfirmedStrict(t) ==
  Planned(t).requires_confirmation /\ ~ TheStep(t).confirmed /\ ~ job[t].allow_failure

\* The confirmation gate, then the action schema.  allowed_actions was checked by
\* the validation and does not change.
Unconfirmed(t) == Planned(t).requires_confirmation /\ ~ TheStep(t).confirmed

Precheck(t) ==
  /\ pc[t] = "precheck"
  /\ \/ Unconfirmed(t) /\ Deny(t, "REQUIRES_CONFIRMATION")
     \/ ~ Unconfirmed(t) /\ ~ Planned(t).valid /\ Deny(t, "INVALID_PARAMS")
     \/ ~ Unconfirmed(t) /\ Planned(t).valid /\ Pass(t, "guardian")
  /\ UNCHANGED <<permissions, ledgerVars, registered, result, runs, exposure>>

CheckGuardian(t) ==
  /\ pc[t] = "guardian"
  /\ IF Caps!Allowed(Planned(t).skill, Planned(t).action)
     THEN Pass(t, "policy")
     ELSE Deny(t, "GUARDIAN_DENIED")
  /\ UNCHANGED <<permissions, ledgerVars, registered, result, runs, exposure>>

\* mutant: the trust ledger is not consulted
AdmissibleUntrusted(t) ==
  <<Planned(t).skill, Planned(t).action>> \in ProfileDenied => TheStep(t).confirmed

\* policy.evaluate: trust ledger, profile, quota
Admissible(t) ==
  LET pair == <<Planned(t).skill, Planned(t).action>>
  IN  /\ ~ Ledger!Blocked(Planned(t).skill)
      /\ pair \in ProfileDenied => TheStep(t).confirmed

EvaluatePolicy(t) ==
  /\ pc[t] = "policy"
  /\ \/ Admissible(t) /\ Pass(t, "sandbox")
     \/ ~ Admissible(t) /\ Deny(t, "POLICY_DENIED")
     \/ /\ Admissible(t) /\ ~ TheStep(t).confirmed
        /\ <<Planned(t).skill, Planned(t).action>> \in Limited
        /\ Deny(t, "POLICY_DENIED")
  /\ UNCHANGED <<permissions, ledgerVars, registered, result, runs, exposure>>

\* The capability a tier needs; a tier 2 skill that declares network needs that too.
NeedsNetwork(t) == Tier[Planned(t).skill] = 2 /\ "network" \in Permissions[Planned(t).skill]

\* mutant: the network capability of a tier 2 skill is not asked for
CheckSandboxOnly(t) ==
  LET needed == CASE Tier[Planned(t).skill] = 2 -> "container"
                  [] Tier[Planned(t).skill] = 3 -> "airgapped"
                  [] OTHER -> Planned(t).action
  IN  /\ pc[t] = "sandbox"
      /\ IF Caps!Allowed(Planned(t).skill, needed) THEN Pass(t, "dispatch")
         ELSE Deny(t, "CONTAINER_POLICY_DENIED")
      /\ UNCHANGED <<permissions, ledgerVars, registered, result, runs, exposure>>

CheckSandbox(t) ==
  LET skill == Planned(t).skill
      needed == CASE Tier[skill] = 2 -> {"container"}
                  [] Tier[skill] = 3 -> {"airgapped"}
                  [] OTHER -> {}
      denial == IF Tier[skill] = 2 THEN "CONTAINER_POLICY_DENIED"
                                   ELSE "AIRGAPPED_POLICY_DENIED"
  IN  /\ pc[t] = "sandbox"
      /\ IF \A c \in needed : Caps!Allowed(skill, c)
         THEN Pass(t, IF NeedsNetwork(t) THEN "network" ELSE "dispatch")
         ELSE Deny(t, denial)
      /\ UNCHANGED <<permissions, ledgerVars, registered, result, runs, exposure>>

CheckNetwork(t) ==
  /\ pc[t] = "network"
  /\ IF Caps!Allowed(Planned(t).skill, "network")
     THEN Pass(t, "dispatch")
     ELSE Deny(t, "NETWORK_POLICY_DENIED")
  /\ UNCHANGED <<permissions, ledgerVars, registered, result, runs, exposure>>

(* _dispatch_step returns or raises; the outcome is the skill's.  A failed     *)
(* signature check and an unknown tier are permanent errors.                   *)
Dispatch(t) ==
  /\ pc[t] = "dispatch"
  /\ \E o \in Outcome :
       /\ Tier[Planned(t).skill] \notin {1, 2, 3} => o = "permanent"
       /\ result' = [result EXCEPT ![t] = o]
       /\ SetStep(t, [TheStep(t) EXCEPT !.attempts = @ + 1, !.error = o,
                        !.status = IF o = "ok" THEN "SUCCEEDED" ELSE "FAILED"])
  /\ tries' = [tries EXCEPT ![t] = @ + 1]
  /\ exposure' = [exposure EXCEPT ![Planned(t).skill] = @ + 1]
  /\ GoTo(t, "settle")
  /\ UNCHANGED <<permissions, ledgerVars, registered, planStatus, job, runs, past>>

\* The outcome is booked: error_type, then trust_ledger.record_outcome.
Settle(t) ==
  /\ pc[t] = "settle"
  /\ IF result[t] = "ok"
     THEN /\ Ledger!RecordOutcome(Planned(t).skill, TRUE, FALSE)
          /\ SetStep(t, [TheStep(t) EXCEPT !.error_type = "none"])
          /\ NextStep(t, "ok")
     ELSE /\ Ledger!RecordOutcome(Planned(t).skill, FALSE, TRUE)
          /\ SetStep(t, [TheStep(t) EXCEPT !.error_type = result[t]])
          /\ GoTo(t, "decide")
          /\ UNCHANGED <<planStatus, job, tries, past>>
  /\ UNCHANGED <<permissions, registered, result, runs, exposure>>

\* mutant: one retry too many
RetriesOnceMore(t) ==
  /\ TheStep(t).attempts <= Planned(t).max_retries + 1
  /\ Planned(t).retry_on_any_error \/ TheStep(t).error_type = "transient"

Retries(t) ==
  /\ TheStep(t).attempts <= Planned(t).max_retries
  /\ Planned(t).retry_on_any_error \/ TheStep(t).error_type = "transient"

\* mutant: on_failure is not looked at
ContinuesAlways(t) == TRUE

Continues(t) == Planned(t).on_failure # "abort" \/ job[t].allow_failure

\* After a failure: retry, go on, or roll back (audit entries only) and abort.
Decide(t) ==
  /\ pc[t] = "decide"
  /\ \/ Retries(t) /\ Pass(t, "dispatch")
     \/ ~ Retries(t) /\ Continues(t) /\ NextStep(t, "failed") /\ UNCHANGED steps
     \/ ~ Retries(t) /\ ~ Continues(t) /\ FailPlan(t, "failed") /\ UNCHANGED steps
  /\ UNCHANGED <<permissions, ledgerVars, registered, result, runs, exposure>>

Leave(t) ==
  /\ GoTo(t, "idle") /\ job' = [job EXCEPT ![t] = NoJob]
  /\ UNCHANGED <<permissions, ledgerVars, registered, planVars, result, runs, historyVars>>

\* execute_plan has returned and its caller is finished.
Return(t) == pc[t] = "done" /\ Leave(t)

(* An exception that nothing in execute_plan catches: sqlite refuses the        *)
(* guardian a connection made by another thread; retry_backoff_seconds, read    *)
(* behind the last check of the guardian, is no number, or too large to sleep.  *)
(* The plan stays as it is.                                                     *)
Raises(t) ==
  pc[t] \in {"guardian", "sandbox", "network"} \/ (pc[t] = "decide" /\ Retries(t))

Raise(t) == Raises(t) /\ Leave(t)

-------------------------------------------------------------------------------
\* register_skill grants the tier's capability, and the declared permissions
RegisterGrants(s) ==
  (CASE Tier[s] = 2 -> {"container"} [] Tier[s] = 3 -> {"airgapped"} [] OTHER -> {})
  \cup
  (IF ~ AutoGrant THEN {}
   ELSE IF Permissions[s] = {} THEN {"all"}
   ELSE {IF c \in {"all", "none"} THEN "all" ELSE c : c \in Permissions[s]})

WithGrants(table, skills) ==
  [s \in Skill |-> [c \in Capability |->
     IF s \in skills /\ c \in RegisterGrants(s) THEN Caps!Never ELSE table[s][c]]]

RegisterSkill(s) ==
  /\ s \notin registered
  /\ registered' = registered \cup {s}
  /\ permissions' = WithGrants(permissions, {s})
  /\ UNCHANGED <<ledgerVars, planVars, threadVars, runs, historyVars>>

Administer ==
  /\ \/ \E row \in Grantable :
          \/ Caps!Grant(row[1], row[2])
          \/ \E hours \in Durations : Caps!GrantFor(row[1], row[2], hours)
     \/ \E row \in Revocable : Caps!Revoke(row[1], row[2])
  /\ UNCHANGED <<ledgerVars, registered, planVars, threadVars, runs, historyVars>>

Tick == Ledger!Tick /\ UNCHANGED <<permissions, registered, planVars, threadVars, runs,
                                   historyVars>>

\* Behind the guardian check a thread relies on answers it was given earlier; the
\* rows of its skill that were deleted, or replaced, or have expired since then
\* are remembered until it leaves the step.
Relies(label) ==
  label \in {"policy", "sandbox", "network", "dispatch", "settle", "decide"}

Ended(s) ==
  {c \in Capability : Caps!Live(permissions[s][c], now) /\ ~ Caps!Live(permissions'[s][c], now')}

WatchRows ==
  lost' = [t \in Thread |->
             IF Relies(pc'[t]) THEN lost[t] \cup Ended(Planned(t).skill) ELSE {}]

\* A plan left by an exception, until an execution of it starts or writes a verdict.
WatchExits ==
  abandoned' = {p \in Plan :
    LET moves(from, to) == \E t \in Thread : pc[t] \in from /\ pc'[t] = to /\ ThePlan(t) = p
    IN  /\ planStatus'[p] = "RUNNING" /\ ~ moves({"start"}, "precheck")
        /\ p \in abandoned \/ moves({"guardian", "sandbox", "network", "decide"}, "idle")}

-------------------------------------------------------------------------------
FreshStep(s) ==
  [status |-> "PENDING", error |-> "none", error_type |-> "none", attempts |-> 0,
   confirmed |-> s.confirmed]

Init ==
  /\ permissions = WithGrants(Caps!NoPermissions, StartSkills)
  /\ Ledger!Init
  /\ registered = StartSkills
  /\ planStatus = [p \in Plan |-> "PENDING"]
  /\ steps = [p \in Plan |-> [i \in DOMAIN StepsOf[p] |-> FreshStep(StepsOf[p][i])]]
  /\ pc = [t \in Thread |-> "idle"]
  /\ job = [t \in Thread |-> NoJob]
  /\ result = [t \in Thread |-> "ok"]
  /\ runs = 0
  /\ tries = [t \in Thread |-> 0]
  /\ past = [t \in Thread |-> <<>>]
  /\ exposure = [s \in Skill |-> 0]
  /\ lost = [t \in Thread |-> {}] /\ abandoned = {}

\* One step of the execution thread t is in.
Work(t) ==
  \/ Start(t) \/ Precheck(t) \/ CheckGuardian(t) \/ EvaluatePolicy(t)
  \/ CheckSandbox(t) \/ CheckNetwork(t) \/ Dispatch(t) \/ Settle(t) \/ Decide(t)

Call(t) == \E p \in Plan, allow_failure \in BOOLEAN : Execute(t, p, allow_failure)

Environment == Administer \/ \E s \in Skill : RegisterSkill(s)

Next ==
  /\ \/ \E t \in Thread : (Work(t) \/ Return(t) \/ Raise(t) \/ Call(t)) /\ UNCHANGED now
     \/ Environment /\ UNCHANGED now
     \/ Tick
  /\ WatchRows /\ WatchExits

\* A thread of this process that runs a tier 1 skill: nothing ends it but the skill.
InSkill(t) == pc[t] = "dispatch" /\ Tier[Planned(t).skill] = 1

\* The operating system schedules every thread; a container has a time-out.
Fairness ==
  \A t \in Thread :
    WF_vars(~ InSkill(t) /\ (Work(t) \/ Return(t)) /\ UNCHANGED now /\ WatchRows /\ WatchExits)

Spec == Init /\ [][Next]_vars /\ Fairness

-------------------------------------------------------------------------------
(* max_retries bounds what one execution does with a step: at most one         *)
(* dispatch more than it, although attempts lives in the shared PlanStep, is   *)
(* never reset and is incremented by every thread running the plan.            *)
RetriesBounded ==
  \A t \in Thread : Running(t) =>
    /\ tries[t] <= Planned(t).max_retries + 1
    /\ pc[t] = "dispatch" => tries[t] <= Planned(t).max_retries

(* An execution goes past a step only if that step succeeded in it, or         *)
(* allow_failure was asked for, or it failed under skip or fallback.  A denial *)
(* is never skipped by on_failure, and nothing runs after an aborted step.     *)
AbortIsFinal ==
  \A t \in Thread : Running(t) =>
    /\ Len(past[t]) = job[t].i - 1
    /\ \A j \in DOMAIN past[t] :
         \/ past[t][j] = "ok"
         \/ job[t].allow_failure
         \/ past[t][j] = "failed" /\ StepsOf[ThePlan(t)][j].on_failure # "abort"

(* While no skill can have earned the unlock (UNLOCK_CONFIRMED is larger than  *)
(* the number of workers), the only dispatches of a skill are those of workers *)
(* that passed the policy before the first outcome was booked: one each, and   *)
(* over all of them, because they share attempts, the retries of its steps: a  *)
(* slot is a step of the skill and one of the retries it allows.               *)
RetrySlots(s) ==
  LET stepsOfSkill == {pi \in UNION {{p} \X DOMAIN StepsOf[p] : p \in Plan} :
                         StepsOf[pi[1]][pi[2]].skill = s}
  IN  UNION {{pi} \X (1 .. StepsOf[pi[1]][pi[2]].max_retries) : pi \in stepsOfSkill}

OnboardingExposure ==
  UnlockConfirmed > Cardinality(Thread)
    => \A s \in Skill : exposure[s] <= Cardinality(Thread) + Cardinality(RetrySlots(s))

(* A plan is RUNNING only while some thread executes it, whichever thread of   *)
(* several on the same plan finished last, or if an exception left its          *)
(* execution and none has been started or brought to an end since.              *)
RunningHasExecutor ==
  \A p \in Plan : planStatus[p] = "RUNNING"
    => (\E t \in Thread : Running(t) /\ ThePlan(t) = p) \/ p \in abandoned

(* "Guardian-capability check first: skill/action must be explicitly           *)
(* permitted."  Capabilities come, go and expire while plans run.  A step      *)
(* beyond the guardian check is one the guardian permits, and so are its       *)
(* container, sandbox and network capabilities at dispatch and through its     *)
(* retries, unless a row that permitted it has ended while the step was under  *)
(* way: it was deleted, replaced by a timed one, or expired.                   *)
Permitted(t, c) ==
  Caps!Allowed(Planned(t).skill, c) \/ lost[t] \cap {c, "all", "none"} # {}

DispatchIsAuthorised ==
  \A t \in Thread :
    LET skill == Planned(t).skill
    IN  /\ Relies(pc[t]) => Permitted(t, Planned(t).action)
        /\ pc[t] \in {"network", "dispatch", "settle", "decide"}
             => /\ Tier[skill] = 2 => Permitted(t, "container")
                /\ Tier[skill] = 3 => Permitted(t, "airgapped")
        /\ pc[t] \in {"dispatch", "settle", "decide"} /\ NeedsNetwork(t)
             => Permitted(t, "network")

(* Every execution ends, retries are bounded even when several threads share   *)
(* the step's attempts counter, except one whose tier 1 skill never returns.   *)
ExecutionEnds ==
  \A t \in Thread : <>[]InSkill(t) \/ (pc[t] = "start" ~> pc[t] = "idle")
===============================================================================
