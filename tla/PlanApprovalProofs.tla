--------------------------- MODULE PlanApprovalProofs ---------------------------
(* Theorems about PlanApproval: what an approval lets through, what it makes   *)
(* the guardian remember, and what a plan's status says, for any number of     *)
(* workers, plans and steps.                                                   *)
EXTENDS PlanApproval, OrchestratorProofs, WellFoundedInduction

-------------------------------------------------------------------------------
\* The request the daemon asks about.

LEMMA LeastOfNaturals ==
  ASSUME NEW S \in SUBSET Nat, S # {}
  PROVE  \E x \in S : \A y \in S : x <= y
<1> DEFINE R == OpToRel(<, Nat)
<1>1. \A x \in Nat, y \in Nat : x < y => <<x, y>> \in R
  BY DEF OpToRel
<1>2. IsWellFoundedOn(R, Nat)
  BY NatLessThanWellFounded
<1> HIDE DEF R
<1>3. PICK x \in S : \A y \in S : ~ (<<y, x>> \in R)
  BY <1>2, WFMin
<1>4. \A y \in S : ~ (y < x)
  BY <1>1, <1>3
<1> QED
  BY <1>4

LEMMA FirstRequestIsAStep ==
  ASSUME StepsOK, NEW p \in Plan, Requests(p) # {}
  PROVE  FirstRequest(p) \in DOMAIN StepsOf[p]
<1>1. Requests(p) \in SUBSET Nat /\ Requests(p) \subseteq DOMAIN StepsOf[p]
  <2>1. steps[p] \in Seq(StepState) /\ DOMAIN steps[p] = DOMAIN StepsOf[p]
    BY DEF StepsOK
  <2> QED
    BY <2>1 DEF Requests
<1>2. \E i \in Requests(p) : \A j \in Requests(p) : i <= j
  BY <1>1, LeastOfNaturals
<1>3. FirstRequest(p) \in Requests(p)
  BY <1>2 DEF FirstRequest
<1> QED
  BY <1>1, <1>3

-------------------------------------------------------------------------------
\* What writing a step changes.

(* Only step i of plan p changes, and whether it is confirmed does not.        *)
WritesOnly(p, i) ==
  \A q \in Plan : \A j \in DOMAIN StepsOf[q] :
    /\ steps'[q][j].confirmed = steps[q][j].confirmed
    /\ q # p \/ j # i => steps'[q][j] = steps[q][j]

LEMMA StepWritten ==
  ASSUME StepsOK, NEW p \in Plan, NEW i \in DOMAIN StepsOf[p], NEW s,
         steps' = [steps EXCEPT ![p][i] = s]
  PROVE  /\ steps'[p][i] = s
         /\ \A q \in Plan : \A j \in DOMAIN StepsOf[q] :
              q # p \/ j # i => steps'[q][j] = steps[q][j]
<1>1. /\ steps \in [Plan -> Seq(StepState)] /\ i \in DOMAIN steps[p]
      /\ \A q \in Plan : DOMAIN steps[q] = DOMAIN StepsOf[q]
  BY DEF StepsOK
<1>2. steps' = [steps EXCEPT ![p] = [steps[p] EXCEPT ![i] = s]]
  BY <1>1
<1>3. /\ steps'[p] = [steps[p] EXCEPT ![i] = s]
      /\ \A q \in Plan \ {p} : steps'[q] = steps[q]
  BY <1>1, <1>2
<1>4. \A j \in DOMAIN StepsOf[p] : j # i => steps'[p][j] = steps[p][j]
  BY <1>1, <1>3
<1> QED
  BY <1>1, <1>3, <1>4

LEMMA SetStepWrites ==
  ASSUME IInv, NEW t \in Thread,
         job[t].plan \in Plan, job[t].i \in DOMAIN StepsOf[job[t].plan],
         NEW s, s.confirmed = TheStep(t).confirmed, SetStep(t, s)
  PROVE  /\ WritesOnly(job[t].plan, job[t].i)
         /\ steps'[job[t].plan][job[t].i] = s
<1> DEFINE p == job[t].plan
           i == job[t].i
<1>1. StepsOK /\ p \in Plan /\ i \in DOMAIN StepsOf[p] /\ steps[p][i].confirmed = s.confirmed
  BY DEF IInv, TheStep
<1>2. steps' = [steps EXCEPT ![p][i] = s]
  BY DEF SetStep, ThePlan
<1> HIDE DEF p, i
<1>3. /\ steps'[p][i] = s
      /\ \A q \in Plan : \A j \in DOMAIN StepsOf[q] :
           q # p \/ j # i => steps'[q][j] = steps[q][j]
  BY <1>1, <1>2, StepWritten
<1>4. WritesOnly(p, i)
  BY <1>1, <1>3 DEF WritesOnly
<1> QED
  BY <1>3, <1>4 DEF p, i

LEMMA UnchangedWrites ==
  ASSUME UNCHANGED steps, NEW p, NEW i
  PROVE  WritesOnly(p, i)
  BY DEF WritesOnly

(* A step of an execution writes the step its frame points at, if any.         *)
LEMMA DenyWrites ==
  ASSUME IInv, NEW t \in Thread, Running(t), NEW code \in Denial, Deny(t, code)
  PROVE  WritesOnly(job[t].plan, job[t].i)
<1> DEFINE s == [TheStep(t) EXCEPT !.status = "DENIED", !.error = code,
                                   !.error_type = "denied"]
<1>1. /\ job[t].plan \in Plan /\ job[t].i \in DOMAIN StepsOf[job[t].plan]
      /\ TheStep(t) \in StepState
  BY FrameType
<1>2. SetStep(t, s) /\ s.confirmed = TheStep(t).confirmed
  BY <1>1 DEF Deny, StepState
<1> HIDE DEF s
<1> QED
  BY <1>1, <1>2, SetStepWrites

LEMMA StartWrites ==
  ASSUME IInv, NEW t \in Thread, Start(t)
  PROVE  WritesOnly(job[t].plan, job[t].i)
<1> DEFINE p == job[t].plan
           s == [TheStep(t) EXCEPT !.status = "DENIED", !.error = "VALIDATION",
                                   !.error_type = "validation"]
<1>1. p \in Plan /\ job[t].i = 1
  BY DEF IInv, FrameOK, Start
<1>2. CASE UNCHANGED steps
  BY <1>2, UnchangedWrites
<1>3. CASE StepsOf[p] # <<>> /\ SetStep(t, s)
  <2>1. StepsOf[p] \in Seq(PlannedStep)
    BY <1>1, OrchestratorConstants
  <2>2. job[t].i \in DOMAIN StepsOf[p]
    BY <1>1, <1>3, <2>1
  <2>3. TheStep(t) \in StepState
    BY <1>1, <2>2, StepStateType DEF IInv, TheStep
  <2>4. s.confirmed = TheStep(t).confirmed
    BY <2>3 DEF StepState
  <2> HIDE DEF s
  <2> QED
    BY <1>1, <1>3, <2>2, <2>4, SetStepWrites
<1>4. UNCHANGED steps \/ (StepsOf[p] # <<>> /\ SetStep(t, s))
  BY DEF Start, ThePlan
<1> QED
  BY <1>2, <1>3, <1>4

(* The steps between the call of a skill and the loop's next turn.             *)
LEMMA DispatchWrites ==
  ASSUME IInv, NEW t \in Thread, Dispatch(t)
  PROVE  /\ WritesOnly(job[t].plan, job[t].i)
         /\ \E o \in Outcome :
              /\ result' = [result EXCEPT ![t] = o]
              /\ steps'[job[t].plan][job[t].i].status
                   = IF o = "ok" THEN "SUCCEEDED" ELSE "FAILED"
<1>1. /\ job[t].plan \in Plan /\ job[t].i \in DOMAIN StepsOf[job[t].plan]
      /\ TheStep(t) \in StepState
  BY FrameType DEF Dispatch, Running
<1>2. PICK o \in Outcome :
        /\ result' = [result EXCEPT ![t] = o]
        /\ SetStep(t, [TheStep(t) EXCEPT !.attempts = @ + 1, !.error = o,
                         !.status = IF o = "ok" THEN "SUCCEEDED" ELSE "FAILED"])
  BY DEF Dispatch
<1> DEFINE status == IF o = "ok" THEN "SUCCEEDED" ELSE "FAILED"
           n == TheStep(t).attempts + 1
           s == [TheStep(t) EXCEPT !.attempts = n, !.error = o, !.status = status]
<1>3. SetStep(t, s)
  BY <1>2
<1> HIDE DEF status, n
<1>4. s.confirmed = TheStep(t).confirmed /\ s.status = status
  BY <1>1 DEF StepState
<1> HIDE DEF s
<1>5. WritesOnly(job[t].plan, job[t].i) /\ steps'[job[t].plan][job[t].i] = s
  BY <1>1, <1>3, <1>4, SetStepWrites
<1> QED
  BY <1>2, <1>4, <1>5 DEF status

LEMMA SettleWrites ==
  ASSUME IInv, NEW t \in Thread, Settle(t)
  PROVE  /\ WritesOnly(job[t].plan, job[t].i)
         /\ steps'[job[t].plan][job[t].i].status = TheStep(t).status
<1> DEFINE e == IF result[t] = "ok" THEN "none" ELSE result[t]
           s == [TheStep(t) EXCEPT !.error_type = e]
<1>1. /\ job[t].plan \in Plan /\ job[t].i \in DOMAIN StepsOf[job[t].plan]
      /\ TheStep(t) \in StepState
  BY FrameType DEF Settle, Running
<1>2. SetStep(t, s)
  BY DEF Settle
<1>3. s.confirmed = TheStep(t).confirmed /\ s.status = TheStep(t).status
  BY <1>1 DEF StepState
<1> HIDE DEF s
<1> QED
  BY <1>1, <1>2, <1>3, SetStepWrites

LEMMA WorkWrites ==
  ASSUME IInv, NEW t \in Thread, Work(t)
  PROVE  WritesOnly(job[t].plan, job[t].i)
<1>1. CASE \/ Precheck(t) \/ CheckGuardian(t) \/ EvaluatePolicy(t)
           \/ CheckSandbox(t) \/ CheckNetwork(t)
  <2>1. Running(t) /\ (UNCHANGED steps \/ \E code \in Denial : Deny(t, code))
    BY <1>1, GatesPassOrDeny DEF Pass
  <2> QED
    BY <2>1, UnchangedWrites, DenyWrites
<1>2. CASE Decide(t)
  BY <1>2, UnchangedWrites DEF Decide, Pass
<1> QED
  BY <1>1, <1>2, StartWrites, DispatchWrites, SettleWrites DEF Work

-------------------------------------------------------------------------------
\* What the daemon's calls around execute_plan do to the execution invariant.

LEMMA LeaveKeeps ==
  ASSUME IInv, AttemptsGrow, StepsOK', NEW t \in Thread, NEW frame \in Job,
         NEW label \in {"idle", "approve", "prompt"}, pc' = [pc EXCEPT ![t] = label],
         job' = [job EXCEPT ![t] = frame], UNCHANGED tries,
         label # "idle" => frame.plan \in Plan /\ frame.i \in DOMAIN StepsOf[frame.plan]
  PROVE  IInv'
<1>1. pc \in [Thread -> CallLabel] /\ job \in [Thread -> Job] /\ tries \in [Thread -> Nat]
  BY DEF IInv, ThreadsOK
<1>2. /\ ThreadsOK' /\ pc'[t] = label /\ job'[t] = frame
      /\ \A u \in Thread \ {t} : Untouched(u)
  BY <1>1 DEF ThreadsOK, CallLabel, Label, Untouched
<1>3. FrameOK(t)' /\ CountersOK(t)'
  BY <1>2 DEF FrameOK, CountersOK, Running
<1> QED
  BY <1>2, <1>3, OneThreadMoves

(* To the moment before an approval: the frame of confirm_plan_step.           *)
ToApprove(t, p, i) ==
  /\ pc' = [pc EXCEPT ![t] = "approve"]
  /\ job' = [job EXCEPT ![t] = [plan |-> p, i |-> i, allow_failure |-> FALSE]]
  /\ UNCHANGED <<steps, tries>>

LEMMA ToApproveKeeps ==
  ASSUME IInv, NEW t \in Thread, NEW p \in Plan, NEW i \in DOMAIN StepsOf[p],
         ToApprove(t, p, i)
  PROVE  IInv'
<1> DEFINE frame == [plan |-> p, i |-> i, allow_failure |-> FALSE]
<1>1. StepsOf[p] \in Seq(PlannedStep)
  BY OrchestratorConstants
<1>2. i \in Nat
  BY <1>1
<1>3. frame \in Job /\ frame.plan = p /\ frame.i = i
  BY <1>2 DEF Job
<1>4. job' = [job EXCEPT ![t] = frame]
  BY DEF ToApprove
<1> HIDE DEF frame
<1>5. StepsOK' /\ AttemptsGrow
  BY StepsUnchanged DEF IInv, ToApprove
<1> QED
  BY <1>3, <1>4, <1>5, LeaveKeeps DEF ToApprove

LEMMA RefuseWrites ==
  ASSUME StepsOK, NEW p \in Plan, NEW i \in DOMAIN StepsOf[p], Refuse(p, i)
  PROVE  StepsOK' /\ AttemptsGrow /\ WritesOnly(p, i)
<1> DEFINE s == [steps[p][i] EXCEPT !.status = "DENIED", !.error = "none"]
<1>0. StepsOK /\ p \in Plan /\ i \in DOMAIN StepsOf[p]
  OBVIOUS
<1>1. /\ steps \in [Plan -> Seq(StepState)] /\ i \in DOMAIN steps[p]
      /\ steps[p][i] \in StepState /\ steps[p][i].attempts \in Nat
  BY StepStateType DEF StepsOK
<1>2. steps' = [steps EXCEPT ![p][i] = s]
  BY <1>1 DEF Refuse
<1>3. /\ s \in StepState /\ s.attempts = steps[p][i].attempts
      /\ s.confirmed = steps[p][i].confirmed
  BY <1>1 DEF StepState
<1> HIDE DEF s
<1>4. s.attempts >= steps[p][i].attempts
  BY <1>1, <1>3
<1>5. /\ StepsOK' /\ AttemptsGrow
      /\ \A q \in Plan : \A j \in DOMAIN StepsOf[q] :
           q # p \/ j # i => steps'[q][j] = steps[q][j]
  BY <1>0, <1>2, <1>3, <1>4, WriteStepKeeps
<1>6. steps'[p][i].confirmed = steps[p][i].confirmed
  <2>1. steps'[p][i] = s
    BY <1>1, <1>2
  <2> QED
    BY <1>3, <2>1
<1>7. WritesOnly(p, i)
  BY <1>5, <1>6 DEF WritesOnly
<1> QED
  BY <1>5, <1>7

LEMMA ApproveWrites ==
  ASSUME IInv, NEW t \in Thread, Approve(t)
  PROVE  /\ StepsOK' /\ AttemptsGrow
         /\ \A q \in Plan : \A j \in DOMAIN StepsOf[q] :
              \/ steps'[q][j] = steps[q][j]
              \/ q = job[t].plan /\ j = job[t].i
<1> DEFINE p == job[t].plan
           i == job[t].i
           s == [steps[p][i] EXCEPT !.confirmed = TRUE]
<1>1. p \in Plan /\ i \in DOMAIN StepsOf[p] /\ StepsOK
  BY DEF IInv, FrameOK, Approve
<1>2. /\ steps \in [Plan -> Seq(StepState)] /\ i \in DOMAIN steps[p]
      /\ steps[p][i] \in StepState /\ steps[p][i].attempts \in Nat
  BY <1>1, StepStateType DEF StepsOK
<1>3. steps' = [steps EXCEPT ![p][i] = s]
  BY <1>2 DEF Approve, ThePlan
<1>4. s \in StepState /\ s.attempts >= steps[p][i].attempts
  <2>1. s \in StepState /\ s.attempts = steps[p][i].attempts
    BY <1>2 DEF StepState
  <2> QED
    BY <1>2, <2>1
<1> HIDE DEF s, p, i
<1>5. /\ StepsOK' /\ AttemptsGrow
      /\ \A q \in Plan : \A j \in DOMAIN StepsOf[q] :
           q # p \/ j # i => steps'[q][j] = steps[q][j]
  <2>1. StepsOK' /\ AttemptsGrow
    BY <1>1, <1>3, <1>4, WriteStepKeeps
  <2>2. \A q \in Plan : \A j \in DOMAIN StepsOf[q] :
          q # p \/ j # i => steps'[q][j] = steps[q][j]
    BY <1>1, <1>3, <1>4, WriteStepKeeps
  <2> QED
    BY <2>1, <2>2
<1> QED
  BY <1>5 DEF p, i

LEMMA ApproveKeeps ==
  ASSUME IInv, NEW t \in Thread, Approve(t)
  PROVE  IInv'
<1>1. /\ pc[t] = "approve" /\ pc' = [pc EXCEPT ![t] = "start"]
      /\ job' = [job EXCEPT ![t].i = 1] /\ tries' = [tries EXCEPT ![t] = 0]
  BY DEF Approve, GoTo
<1>2. pc \in [Thread -> CallLabel] /\ job \in [Thread -> Job] /\ tries \in [Thread -> Nat]
  BY DEF IInv, ThreadsOK
<1>3. job[t].plan \in Plan /\ job[t].i \in DOMAIN StepsOf[job[t].plan]
  BY <1>1 DEF IInv, FrameOK
<1>4. job[t] \in [plan : Plan, i : Nat, allow_failure : BOOLEAN]
  <2>1. StepsOf[job[t].plan] \in Seq(PlannedStep)
    BY <1>3, OrchestratorConstants
  <2>2. job[t].i # 0
    BY <1>3, <2>1
  <2> QED
    BY <1>2, <2>2 DEF Job, NoJob
<1> DEFINE frame == [plan |-> job[t].plan, i |-> 1, allow_failure |-> job[t].allow_failure]
<1>5. [job[t] EXCEPT !.i = 1] = frame /\ frame \in Job
      /\ frame.plan = job[t].plan /\ frame.i = 1
  BY <1>4 DEF Job
<1>6. job' = [job EXCEPT ![t] = frame]
  BY <1>1, <1>5
<1> HIDE DEF frame
<1>7. /\ ThreadsOK' /\ pc'[t] = "start" /\ job'[t] = frame /\ tries'[t] = 0
      /\ \A u \in Thread \ {t} : Untouched(u)
  BY <1>1, <1>2, <1>5, <1>6 DEF ThreadsOK, CallLabel, Label, Untouched
<1>8. FrameOK(t)' /\ CountersOK(t)'
  BY <1>3, <1>5, <1>7 DEF FrameOK, CountersOK, Running
<1> QED
  BY <1>7, <1>8, ApproveWrites, OneThreadMoves

LEMMA AskPermissionKeeps ==
  ASSUME IInv, NEW t \in Thread, AskPermission(t)
  PROVE  IInv'
<1>1. /\ pc[t] = "done" /\ pc' = [pc EXCEPT ![t] = "prompt"]
      /\ job' = [job EXCEPT ![t].i = FirstRequest(job[t].plan)]
      /\ Requests(job[t].plan) # {} /\ tries' = tries /\ steps' = steps
  BY DEF AskPermission, GoTo, ThePlan, planVars, historyVars
<1>2. pc \in [Thread -> CallLabel] /\ job \in [Thread -> Job] /\ StepsOK
  BY DEF IInv, ThreadsOK
<1>3. job[t].plan \in Plan /\ job[t].i # 0
  BY <1>1 DEF IInv, FrameOK
<1>4. FirstRequest(job[t].plan) \in DOMAIN StepsOf[job[t].plan]
  BY <1>1, <1>2, <1>3, FirstRequestIsAStep
<1>5. FirstRequest(job[t].plan) \in Nat
  <2>1. StepsOf[job[t].plan] \in Seq(PlannedStep)
    BY <1>3, OrchestratorConstants
  <2> QED
    BY <1>4, <2>1
<1>6. job[t] \in [plan : Plan, i : Nat, allow_failure : BOOLEAN]
  BY <1>2, <1>3 DEF Job, NoJob
<1> DEFINE i == FirstRequest(job[t].plan)
           frame == [plan |-> job[t].plan, i |-> i, allow_failure |-> job[t].allow_failure]
<1> HIDE DEF i
<1>7. [job[t] EXCEPT !.i = i] = frame /\ frame \in Job
      /\ frame.plan = job[t].plan /\ frame.i = i
  BY <1>5, <1>6 DEF Job, i
<1>8. job' = [job EXCEPT ![t] = frame]
  BY <1>1, <1>7 DEF i
<1> HIDE DEF frame
<1>9. StepsOK' /\ AttemptsGrow
  BY <1>1, <1>2, StepsUnchanged
<1> QED
  BY <1>1, <1>3, <1>4, <1>7, <1>8, <1>9, LeaveKeeps DEF i

LEMMA AnswerNoKeeps ==
  ASSUME IInv, NEW t \in Thread, AnswerNo(t)
  PROVE  IInv'
<1>1. /\ pc[t] = "prompt" /\ pc' = [pc EXCEPT ![t] = "idle"]
      /\ job' = [job EXCEPT ![t] = NoJob] /\ tries' = tries
      /\ Refuse(job[t].plan, job[t].i) \/ UNCHANGED steps
  BY DEF AnswerNo, GoTo, ThePlan, planVars, historyVars
<1>2. StepsOK /\ job[t].plan \in Plan /\ job[t].i \in DOMAIN StepsOf[job[t].plan]
  BY <1>1 DEF IInv, FrameOK
<1>3. StepsOK' /\ AttemptsGrow
  BY <1>1, <1>2, RefuseWrites, StepsUnchanged
<1>4. NoJob \in Job
  BY DEF Job
<1> QED
  BY <1>1, <1>3, <1>4, LeaveKeeps

LEMMA DenyPlanStepKeeps ==
  ASSUME IInv, NEW t \in Thread, NEW p \in Plan, NEW i \in DOMAIN StepsOf[p],
         DenyPlanStep(t, p, i)
  PROVE  IInv'
<1>1. Refuse(p, i) /\ UNCHANGED <<pc, job, tries>>
  BY DEF DenyPlanStep, threadVars, historyVars
<1>2. StepsOK' /\ AttemptsGrow
  BY <1>1, RefuseWrites DEF IInv
<1>3. \A u \in Thread : FrameOK(u)' /\ CountersOK(u)'
  BY <1>1, <1>2, OthersKeep DEF Untouched
<1> QED
  BY <1>1, <1>2, <1>3 DEF IInv, ThreadsOK

-------------------------------------------------------------------------------
\* A step of the daemon is a step of one execution, or leaves all of them alone.

PlansOK == planStatus \in [Plan -> {"PENDING", "RUNNING", "SUCCEEDED", "FAILED"}]

StaysPut(u) == pc'[u] = pc[u] /\ job'[u] = job[u] /\ result'[u] = result[u]

(* Threads that do not stand still are in no execution before and afterwards,  *)
(* or leave theirs by an exception.                                            *)
NoExecutionMoves ==
  \A u \in Thread :
    \/ StaysPut(u)
    \/ /\ ~ Running(u) \/ Raises(u)
       /\ pc'[u] \in {"idle", "start", "approve", "prompt"}

(* A step that becomes confirmed is consented to.                              *)
ConfirmsByConsent ==
  /\ consent \subseteq consent'
  /\ \A p \in Plan : \A i \in DOMAIN StepsOf[p] :
       steps'[p][i].confirmed => steps[p][i].confirmed \/ <<p, i>> \in consent'

Aside == NoExecutionMoves /\ ConfirmsByConsent

LEMMA LeavingMoves ==
  ASSUME IInv, NEW t \in Thread, NEW label \in {"idle", "start", "approve", "prompt"},
         pc' = [pc EXCEPT ![t] = label], NEW frame, job' = [job EXCEPT ![t] = frame],
         UNCHANGED result, ~ Running(t) \/ Raises(t)
  PROVE  NoExecutionMoves
<1>1. pc \in [Thread -> CallLabel] /\ job \in [Thread -> Job]
  BY DEF IInv, ThreadsOK
<1>2. pc'[t] = label /\ \A u \in Thread \ {t} : pc'[u] = pc[u] /\ job'[u] = job[u]
  BY <1>1
<1> QED
  BY <1>2 DEF NoExecutionMoves, StaysPut

LEMMA ApprovalBegins ==
  ASSUME Inv, PlansOK, NEW t \in Thread, NEW p \in Plan, NEW i \in DOMAIN StepsOf[p],
         ~ Running(t), ToApprove(t, p, i), UNCHANGED <<planStatus, result, consent>>
  PROVE  Inv' /\ PlansOK' /\ Aside
<1>1. IInv'
  BY ToApproveKeeps DEF Inv
<1>2. NoExecutionMoves
  BY LeavingMoves DEF ToApprove, Inv
<1> QED
  BY <1>1, <1>2 DEF Inv, ResultsOK, PlansOK, Aside, ConfirmsByConsent, ToApprove

LEMMA UserCallsKeep ==
  ASSUME Inv, PlansOK, NEW t \in Thread, UserCall(t)
  PROVE  Inv' /\ PlansOK' /\ Aside
<1>1. ASSUME NEW p \in Plan, NEW allow_failure \in BOOLEAN, ExecutePlan(t, p, allow_failure)
      PROVE  Inv' /\ PlansOK' /\ Aside
  <2>1. Execute(t, p, allow_failure) /\ UNCHANGED <<consent, planStatus, steps, result>>
    BY <1>1 DEF ExecutePlan, Execute, planVars
  <2>2. IInv'
    BY <2>1, ExecuteKeeps DEF Inv
  <2>3. NoExecutionMoves
    BY <2>1, LeavingMoves DEF Execute, GoTo, Inv, Running
  <2> QED
    BY <2>1, <2>2, <2>3 DEF Inv, ResultsOK, PlansOK, Aside, ConfirmsByConsent
<1>2. ASSUME NEW p \in Plan, NEW i \in DOMAIN StepsOf[p],
             ConfirmPlanStep(t, p, i) \/ DecideOnce(t, p, i)
      PROVE  Inv' /\ PlansOK' /\ Aside
  <2>1. /\ ~ Running(t)
        /\ ToApprove(t, p, i) /\ UNCHANGED <<planStatus, result, consent>>
    BY <1>2 DEF ConfirmPlanStep, DecideOnce, GrantCapability, ToApprove, GoTo, planVars,
                historyVars, Running
  <2> QED
    BY <2>1, ApprovalBegins
<1>3. ASSUME NEW p \in Plan, NEW i \in DOMAIN StepsOf[p], DenyPlanStep(t, p, i)
      PROVE  Inv' /\ PlansOK' /\ Aside
  <2>1. /\ UNCHANGED <<pc, job, result, consent>>
        /\ planStatus' = [planStatus EXCEPT ![p] = "FAILED"]
        /\ Refuse(p, i)
    BY <1>3 DEF DenyPlanStep, threadVars, Refuse
  <2>2. IInv' /\ WritesOnly(p, i)
    BY <1>3, <2>1, DenyPlanStepKeeps, RefuseWrites DEF Inv, IInv
  <2> QED
    BY <2>1, <2>2 DEF Inv, ResultsOK, PlansOK, Aside, NoExecutionMoves, StaysPut,
                      ConfirmsByConsent, WritesOnly
<1> QED
  BY <1>1, <1>2, <1>3 DEF UserCall

LEMMA ApproveIsAside ==
  ASSUME Inv, PlansOK, NEW t \in Thread, Approve(t)
  PROVE  Inv' /\ PlansOK' /\ Aside
<1>1. /\ pc' = [pc EXCEPT ![t] = "start"] /\ ~ Running(t)
      /\ \E frame : job' = [job EXCEPT ![t] = frame]
      /\ UNCHANGED <<planStatus, result>>
      /\ consent' = consent \cup {<<job[t].plan, job[t].i>>}
  BY DEF Approve, GoTo, ThePlan, Running
<1>2. IInv'
  BY ApproveKeeps DEF Inv
<1>3. NoExecutionMoves
  BY <1>1, LeavingMoves DEF Inv
<1>4. \A q \in Plan : \A j \in DOMAIN StepsOf[q] :
        \/ steps'[q][j] = steps[q][j]
        \/ q = job[t].plan /\ j = job[t].i
  BY ApproveWrites DEF Inv
<1>5. ConfirmsByConsent
  BY <1>1, <1>4 DEF ConfirmsByConsent
<1> QED
  BY <1>1, <1>2, <1>3, <1>5 DEF Inv, ResultsOK, PlansOK, Aside

(* The caller has its report, or an exception.                                 *)
Ends(t) == Finish(t) \/ (Raise(t) /\ UNCHANGED <<caller, consent, remembered>>)

LEMMA EndsKeep ==
  ASSUME Inv, PlansOK, NEW t \in Thread, Ends(t)
  PROVE  Inv' /\ PlansOK' /\ Aside
<1>1. /\ Leave(t) /\ UNCHANGED <<steps, planStatus, result, consent>>
      /\ ~ Running(t) \/ Raises(t)
  BY DEF Ends, Finish, Return, Raise, Leave, planVars, Running
<1>2. IInv'
  BY <1>1, FrameIsLeft DEF Inv
<1>3. NoExecutionMoves
  BY <1>1, LeavingMoves DEF Leave, GoTo, Inv
<1> QED
  BY <1>1, <1>2, <1>3 DEF Inv, ResultsOK, PlansOK, Aside, ConfirmsByConsent

LEMMA PromptKeeps ==
  ASSUME Inv, PlansOK, NEW t \in Thread, Prompt(t)
  PROVE  Inv' /\ PlansOK' /\ Aside
<1>1. CASE AskPermission(t)
  <2>1. /\ pc' = [pc EXCEPT ![t] = "prompt"] /\ ~ Running(t)
        /\ \E frame : job' = [job EXCEPT ![t] = frame]
        /\ UNCHANGED <<steps, planStatus, result, consent>>
    BY <1>1 DEF AskPermission, GoTo, planVars, Running
  <2>2. IInv'
    BY <1>1, AskPermissionKeeps DEF Inv
  <2>3. NoExecutionMoves
    BY <2>1, LeavingMoves DEF Inv
  <2> QED
    BY <2>1, <2>2, <2>3 DEF Inv, ResultsOK, PlansOK, Aside, ConfirmsByConsent
<1>2. CASE AnswerYes(t)
  <2>1. job[t].plan \in Plan /\ job[t].i \in DOMAIN StepsOf[job[t].plan]
    BY <1>2 DEF AnswerYes, Inv, IInv, FrameOK
  <2>2. /\ ~ Running(t)
        /\ ToApprove(t, job[t].plan, job[t].i) /\ UNCHANGED <<planStatus, result, consent>>
    BY <1>2 DEF AnswerYes, GrantCapability, ToApprove, GoTo, ThePlan, planVars, historyVars,
                Running
  <2> QED
    BY <2>1, <2>2, ApprovalBegins
<1>3. CASE AnswerNo(t)
  <2> DEFINE p == job[t].plan
             i == job[t].i
  <2>1. /\ pc' = [pc EXCEPT ![t] = "idle"] /\ job' = [job EXCEPT ![t] = NoJob]
        /\ UNCHANGED <<result, consent>> /\ ~ Running(t)
        /\ \/ Refuse(p, i) /\ planStatus' = [planStatus EXCEPT ![p] = "FAILED"]
           \/ UNCHANGED <<steps, planStatus>>
    BY <1>3 DEF AnswerNo, GoTo, ThePlan, planVars, Refuse, Running
  <2>2. StepsOK /\ p \in Plan /\ i \in DOMAIN StepsOf[p]
    BY <1>3 DEF AnswerNo, Inv, IInv, FrameOK
  <2>3. WritesOnly(p, i)
    BY <2>1, <2>2, RefuseWrites, UnchangedWrites
  <2>4. IInv'
    BY <1>3, AnswerNoKeeps DEF Inv
  <2>5. NoExecutionMoves
    BY <2>1, LeavingMoves DEF Inv
  <2>6. PlansOK'
    BY <2>1 DEF PlansOK
  <2> HIDE DEF p, i
  <2> QED
    BY <2>1, <2>3, <2>4, <2>5, <2>6 DEF Inv, ResultsOK, Aside, ConfirmsByConsent,
                                        WritesOnly
<1> QED
  BY <1>1, <1>2, <1>3 DEF Prompt

-------------------------------------------------------------------------------
\* A step of an execution moves its thread alone.

PastGate == {"guardian", "policy", "sandbox", "network", "dispatch", "settle", "decide"}

OthersStay(t) == \A u \in Thread \ {t} : StaysPut(u)

(* The thread goes on within its step, having passed the gate before or now.   *)
StaysInStep(t) ==
  /\ job'[t] = job[t]
  /\ pc[t] \in PastGate \/ (pc[t] = "precheck" /\ ~ Unconfirmed(t))

LEMMA LoopMoves ==
  ASSUME IInv, NEW t \in Thread, NEW fate, NextStep(t, fate) \/ FailPlan(t, fate),
         UNCHANGED result
  PROVE  OthersStay(t) /\ pc'[t] \in {"precheck", "done"}
<1>1. pc \in [Thread -> CallLabel] /\ job \in [Thread -> Job]
  BY DEF IInv, ThreadsOK
<1>2. /\ \/ pc' = [pc EXCEPT ![t] = "precheck"] /\ job' = [job EXCEPT ![t].i = @ + 1]
         \/ pc' = [pc EXCEPT ![t] = "done"] /\ job' = job
      /\ UNCHANGED result
  BY DEF NextStep, FailPlan, GoTo
<1> QED
  BY <1>1, <1>2 DEF OthersStay, StaysPut

LEMMA PassMoves ==
  ASSUME IInv, NEW t \in Thread, NEW label, GoTo(t, label), UNCHANGED <<job, result>>
  PROVE  OthersStay(t) /\ pc'[t] = label /\ job'[t] = job[t]
<1>1. pc \in [Thread -> CallLabel] /\ pc' = [pc EXCEPT ![t] = label]
  BY DEF IInv, ThreadsOK, GoTo
<1> QED
  BY <1>1 DEF OthersStay, StaysPut

LEMMA GatesMove ==
  ASSUME Inv, NEW t \in Thread,
         \/ Precheck(t) \/ CheckGuardian(t) \/ EvaluatePolicy(t)
         \/ CheckSandbox(t) \/ CheckNetwork(t)
  PROVE  OthersStay(t) /\ (pc'[t] \in PastGate => StaysInStep(t))
<1>1. /\ UNCHANGED result
      /\ \/ \E label \in {"guardian", "policy", "sandbox", "network", "dispatch"} :
              Pass(t, label)
         \/ \E code \in Denial : Deny(t, code)
  BY GatesPassOrDeny DEF Precheck, CheckGuardian, EvaluatePolicy, CheckSandbox, CheckNetwork
<1>2. ASSUME NEW label, Pass(t, label)
      PROVE  OthersStay(t) /\ job'[t] = job[t]
  BY <1>1, <1>2, PassMoves DEF Pass, Inv
<1>3. ASSUME NEW code, Deny(t, code)
      PROVE  OthersStay(t) /\ pc'[t] \in {"precheck", "done"}
  BY <1>1, <1>3, LoopMoves DEF Deny, Inv
<1>4. pc'[t] \in PastGate => pc[t] \in PastGate \/ (pc[t] = "precheck" /\ ~ Unconfirmed(t))
  <2>1. CASE Precheck(t)
    BY <1>3, <2>1 DEF Precheck, PastGate
  <2>2. CASE ~ Precheck(t)
    BY <2>2 DEF CheckGuardian, EvaluatePolicy, CheckSandbox, CheckNetwork, PastGate
  <2> QED
    BY <2>1, <2>2
<1> QED
  BY <1>1, <1>2, <1>3, <1>4 DEF StaysInStep, PastGate

LEMMA WorkMovesAlone ==
  ASSUME Inv, NEW t \in Thread, Work(t)
  PROVE  OthersStay(t) /\ (pc'[t] \in PastGate => StaysInStep(t))
<1>1. CASE Start(t)
  <2>1. (GoTo(t, "precheck") \/ GoTo(t, "done")) /\ UNCHANGED <<job, result>>
    BY <1>1 DEF Start
  <2> QED
    BY <2>1, PassMoves DEF Inv, PastGate
<1>2. CASE Dispatch(t)
  <2>1. /\ pc[t] = "dispatch" /\ pc' = [pc EXCEPT ![t] = "settle"] /\ job' = job
        /\ \E o \in Outcome : result' = [result EXCEPT ![t] = o]
    BY <1>2 DEF Dispatch, GoTo
  <2>2. pc \in [Thread -> CallLabel] /\ result \in [Thread -> Outcome]
    BY DEF Inv, IInv, ThreadsOK, ResultsOK
  <2> QED
    BY <2>1, <2>2 DEF OthersStay, StaysPut, StaysInStep, PastGate
<1>3. CASE Settle(t)
  <2>1. /\ pc[t] = "settle" /\ UNCHANGED result
        /\ NextStep(t, "ok") \/ (GoTo(t, "decide") /\ UNCHANGED job)
    BY <1>3 DEF Settle
  <2> QED
    BY <2>1, PassMoves, LoopMoves DEF Inv, PastGate, StaysInStep
<1>4. CASE Decide(t)
  <2>1. /\ pc[t] = "decide" /\ UNCHANGED result
        /\ \/ NextStep(t, "failed") \/ FailPlan(t, "failed")
           \/ GoTo(t, "dispatch") /\ UNCHANGED job
    BY <1>4 DEF Decide, Pass
  <2> QED
    BY <2>1, PassMoves, LoopMoves DEF Inv, PastGate, StaysInStep
<1> QED
  BY <1>1, <1>2, <1>3, <1>4, GatesMove DEF Work

LEMMA WorkKeeps ==
  ASSUME Inv, PlansOK, NEW t \in Thread, Work(t)
  PROVE  Inv' /\ PlansOK'
<1>1. Inv'
  BY WorkKeepsInv
<1>2. \/ UNCHANGED planStatus
      \/ \E s \in {"RUNNING", "SUCCEEDED", "FAILED"} :
           planStatus' = [planStatus EXCEPT ![job[t].plan] = s]
  <2>1. ASSUME NEW fate, NextStep(t, fate) \/ FailPlan(t, fate)
        PROVE  \/ UNCHANGED planStatus
               \/ \E s \in {"RUNNING", "SUCCEEDED", "FAILED"} :
                    planStatus' = [planStatus EXCEPT ![job[t].plan] = s]
    BY <2>1 DEF NextStep, FailPlan, SetPlan, ThePlan
  <2>2. CASE Start(t)
    BY <2>2 DEF Start, SetPlan, ThePlan
  <2>3. CASE \/ Precheck(t) \/ CheckGuardian(t) \/ EvaluatePolicy(t)
             \/ CheckSandbox(t) \/ CheckNetwork(t)
    BY <2>1, <2>3, GatesPassOrDeny DEF Pass, Deny
  <2>4. CASE Dispatch(t) \/ Settle(t) \/ Decide(t)
    BY <2>1, <2>4 DEF Dispatch, Settle, Decide, Pass
  <2> QED
    BY <2>2, <2>3, <2>4 DEF Work
<1>3. PlansOK'
  BY <1>2 DEF PlansOK
<1> QED
  BY <1>1, <1>3

(* Every step of the daemon, and what it keeps.                                *)
LEMMA StepKinds ==
  ASSUME Inv, PlansOK, [ApprovalNext]_allVars
  PROVE  /\ Inv' /\ PlansOK'
         /\ Aside \/ \E t \in Thread : Work(t) /\ UNCHANGED consent
<1>1. ASSUME NEW t \in Thread, UserCall(t) \/ Proceed(t) \/ Prompt(t), UNCHANGED now
      PROVE  /\ Inv' /\ PlansOK'
             /\ Aside \/ (Work(t) /\ UNCHANGED consent)
  BY <1>1, UserCallsKeep, PromptKeeps, ApproveIsAside, EndsKeep, WorkKeeps DEF Proceed, Ends
<1>2. ASSUME UNCHANGED <<pc, job, tries, steps, planStatus, result, consent>>
      PROVE  Inv' /\ PlansOK' /\ Aside
  <2>1. IInv'
    BY <1>2, OutsideKeeps DEF Inv
  <2> QED
    BY <1>2, <2>1 DEF Inv, ResultsOK, PlansOK, Aside, NoExecutionMoves, StaysPut,
                      ConfirmsByConsent
<1>3. \/ \E t \in Thread : (UserCall(t) \/ Proceed(t) \/ Prompt(t)) /\ UNCHANGED now
      \/ UNCHANGED <<pc, job, tries, steps, planStatus, result, consent>>
  BY DEF ApprovalNext, AdministerPlans, Environment, Administer, RegisterSkill, Tick,
         planVars, threadVars, historyVars, allVars, vars
<1> QED
  BY <1>1, <1>2, <1>3

-------------------------------------------------------------------------------
\* The confirmation gate.

ConfirmedByConsent ==
  \A p \in Plan : \A i \in DOMAIN StepsOf[p] :
    steps[p][i].confirmed => <<p, i>> \in consent

GateInv == ConfirmedByConsent /\ ConfirmationGate

LEMMA GateStep ==
  ASSUME Inv, PlansOK, GateInv, [ApprovalNext]_allVars
  PROVE  GateInv'
<1>1. CASE Aside
  <2>1. ConfirmedByConsent'
    BY <1>1 DEF Aside, ConfirmsByConsent, ConfirmedByConsent, GateInv
  <2>2. ConfirmationGate'
    BY <1>1 DEF Aside, NoExecutionMoves, StaysPut, ConfirmsByConsent, ConfirmationGate,
                Planned, ThePlan, GateInv
  <2> QED
    BY <2>1, <2>2 DEF GateInv
<1>2. ASSUME NEW t \in Thread, Work(t), UNCHANGED consent
      PROVE  GateInv'
  <2>1. ConfirmedByConsent'
    <3>1. WritesOnly(job[t].plan, job[t].i)
      BY <1>2, WorkWrites DEF Inv
    <3> QED
      BY <1>2, <3>1 DEF WritesOnly, ConfirmedByConsent, GateInv
  <2>2. OthersStay(t) /\ (pc'[t] \in PastGate => StaysInStep(t))
    BY <1>2, WorkMovesAlone
  <2>3. ASSUME NEW u \in Thread, pc'[u] \in PastGate, Planned(u)'.requires_confirmation
        PROVE  <<job'[u].plan, job'[u].i>> \in consent
    <3>1. CASE u # t
      BY <2>2, <2>3, <3>1 DEF OthersStay, StaysPut, GateInv, ConfirmationGate, PastGate,
                              Planned, ThePlan
    <3>2. CASE u = t /\ pc[t] \in PastGate
      BY <2>2, <2>3, <3>2 DEF StaysInStep, GateInv, ConfirmationGate, PastGate, Planned,
                              ThePlan
    <3>3. CASE u = t /\ pc[t] = "precheck" /\ ~ Unconfirmed(t)
      <4>1. job[t].plan \in Plan /\ job[t].i \in DOMAIN StepsOf[job[t].plan]
        BY <3>3, FrameType DEF Running, Inv
      <4>2. job'[t] = job[t] /\ TheStep(t).confirmed
        BY <2>2, <2>3, <3>3 DEF StaysInStep, Unconfirmed, Planned
      <4> QED
        BY <3>3, <4>1, <4>2 DEF TheStep, GateInv, ConfirmedByConsent
    <3> QED
      BY <2>2, <2>3, <3>1, <3>2, <3>3 DEF StaysInStep
  <2>4. ConfirmationGate'
    BY <1>2, <2>3 DEF ConfirmationGate, PastGate, ThePlan
  <2> QED
    BY <2>1, <2>4 DEF GateInv
<1> QED
  BY <1>1, <1>2, StepKinds

LEMMA ApprovalStarts == ApprovalInit => Inv /\ PlansOK /\ GateInv
<1> SUFFICES ASSUME ApprovalInit PROVE Inv /\ PlansOK /\ GateInv
  OBVIOUS
<1>1. Init /\ Inv /\ PlansOK
  BY InvInit DEF ApprovalInit, Init, PlansOK
<1>2. ASSUME NEW p \in Plan, NEW i \in DOMAIN StepsOf[p], steps[p][i].confirmed
      PROVE  <<p, i>> \in consent
  <2>1. StepsOf[p][i].confirmed
    BY <1>1, <1>2 DEF Init, FreshStep
  <2> QED
    BY <2>1 DEF ApprovalInit
<1>3. ConfirmationGate
  BY <1>1 DEF Init, ConfirmationGate
<1> QED
  BY <1>1, <1>2, <1>3 DEF GateInv, ConfirmedByConsent

LEMMA ApprovalInvariant == ApprovalSpec => [](Inv /\ PlansOK /\ GateInv)
<1>1. Inv /\ PlansOK /\ GateInv /\ [ApprovalNext]_allVars => (Inv /\ PlansOK /\ GateInv)'
  BY StepKinds, GateStep
<1> QED
  BY <1>1, ApprovalStarts, PTL DEF ApprovalSpec

(* No step that requires confirmation gets past the gate of core.py without    *)
(* the consent of the user or the planner to that step, whoever else executes, *)
(* approves or refuses steps of the same plan meanwhile.                       *)
THEOREM ConfirmationIsGiven == ApprovalSpec => []ConfirmationGate
<1>1. GateInv => ConfirmationGate
  BY DEF GateInv
<1> QED
  BY <1>1, ApprovalInvariant, PTL

-------------------------------------------------------------------------------
\* The status of a plan and the steps behind it.

Settled(p, j) ==
  \/ steps[p][j].status = "SUCCEEDED"
  \/ steps[p][j].status = "FAILED" /\ StepsOf[p][j].on_failure # "abort"

\* the same after the step, of a plan and a step named before it
SettledNext(p, j) ==
  \/ steps'[p][j].status = "SUCCEEDED"
  \/ steps'[p][j].status = "FAILED" /\ StepsOf[p][j].on_failure # "abort"

(* What an execution knows of the steps behind it and of the one it is at, as  *)
(* long as nobody else writes to its plan.                                     *)
Verdict(t) ==
  /\ Running(t) => \A j \in 1 .. job[t].i - 1 : Settled(job[t].plan, j)
  /\ pc[t] = "settle"
       => TheStep(t).status = IF result[t] = "ok" THEN "SUCCEEDED" ELSE "FAILED"
  /\ pc[t] = "decide" => TheStep(t).status = "FAILED"
  /\ pc[t] = "done" /\ planStatus[job[t].plan] = "SUCCEEDED"
       => \A j \in DOMAIN StepsOf[job[t].plan] : Settled(job[t].plan, j)

VerdictInv == \A t \in Thread \ disturbed : ~ job[t].allow_failure => Verdict(t)

LEMMA LoopVerdict ==
  ASSUME Inv, PlansOK, NEW t \in Thread, Running(t), NEW fate, NextStep(t, fate),
         \A j \in 1 .. job[t].i : SettledNext(job[t].plan, j)
  PROVE  Verdict(t)'
<1> DEFINE p == job[t].plan
           n == Len(StepsOf[p])
<1>1. /\ job[t] \in [plan : Plan, i : Nat, allow_failure : BOOLEAN]
      /\ p \in Plan /\ job[t].i \in 1 .. n
  BY FrameType DEF Inv
<1>2. pc \in [Thread -> CallLabel] /\ job \in [Thread -> Job]
  BY DEF Inv, IInv, ThreadsOK
<1>3. CASE job[t].i < n
  <2>1. pc' = [pc EXCEPT ![t] = "precheck"] /\ job' = [job EXCEPT ![t].i = @ + 1]
    BY <1>3 DEF NextStep, GoTo, ThePlan
  <2>2. pc'[t] = "precheck" /\ job'[t] = [job[t] EXCEPT !.i = job[t].i + 1]
    BY <1>2, <2>1
  <2>3. job'[t].plan = p /\ job'[t].i - 1 = job[t].i
    BY <1>1, <2>2
  <2> QED
    BY <2>2, <2>3 DEF Verdict, Settled, SettledNext
<1>4. CASE ~ (job[t].i < n)
  <2>1. pc'[t] = "done" /\ job' = job
    BY <1>2, <1>4 DEF NextStep, GoTo, ThePlan
  <2>2. job[t].i = n
    BY <1>1, <1>4
  <2>3. DOMAIN StepsOf[p] = 1 .. n
    BY <1>1, OrchestratorConstants
  <2> QED
    BY <2>1, <2>2, <2>3 DEF Verdict, Running, Settled, SettledNext
<1> QED
  BY <1>3, <1>4

LEMMA FailureVerdict ==
  ASSUME Inv, PlansOK, NEW t \in Thread, job[t].plan \in Plan,
         GoTo(t, "done"), SetPlan(t, "FAILED"), UNCHANGED job
  PROVE  Verdict(t)'
<1>1. pc'[t] = "done" /\ planStatus'[job'[t].plan] = "FAILED"
  BY DEF GoTo, SetPlan, ThePlan, PlansOK, Inv, IInv, ThreadsOK
<1> QED
  BY <1>1 DEF Verdict, Running

(* The steps behind the one a frame points at are not written.                 *)
LEMMA BehindIsKept ==
  ASSUME Inv, NEW t \in Thread, Running(t), WritesOnly(job[t].plan, job[t].i)
  PROVE  \A j \in 1 .. job[t].i - 1 :
           Settled(job[t].plan, j) => SettledNext(job[t].plan, j)
<1>1. /\ job[t].plan \in Plan /\ job[t].i \in 1 .. Len(StepsOf[job[t].plan])
      /\ StepsOf[job[t].plan] \in Seq(PlannedStep)
  BY FrameType, OrchestratorConstants DEF Inv
<1>2. \A j \in 1 .. job[t].i - 1 : j \in DOMAIN StepsOf[job[t].plan] /\ j # job[t].i
  BY <1>1
<1> QED
  BY <1>1, <1>2 DEF WritesOnly, Settled, SettledNext

LEMMA FrameKept ==
  ASSUME Inv, NEW t \in Thread, Work(t)
  PROVE  job'[t].plan = job[t].plan /\ job'[t].allow_failure = job[t].allow_failure
<1>1. job' = job \/ (Running(t) /\ job' = [job EXCEPT ![t].i = @ + 1])
  <2>1. ASSUME NEW fate, NextStep(t, fate) \/ FailPlan(t, fate)
        PROVE  job' = job \/ job' = [job EXCEPT ![t].i = @ + 1]
    BY <2>1 DEF NextStep, FailPlan
  <2>2. CASE \/ Precheck(t) \/ CheckGuardian(t) \/ EvaluatePolicy(t)
             \/ CheckSandbox(t) \/ CheckNetwork(t)
    BY <2>1, <2>2, GatesPassOrDeny DEF Pass, Deny
  <2>3. CASE Start(t) \/ Dispatch(t)
    BY <2>3 DEF Start, Dispatch
  <2>4. CASE Settle(t) \/ Decide(t)
    BY <2>1, <2>4 DEF Settle, Decide, Pass, Running
  <2> QED
    BY <2>2, <2>3, <2>4 DEF Work
<1>2. job \in [Thread -> Job]
  BY DEF Inv, IInv, ThreadsOK
<1>3. CASE Running(t) /\ job' = [job EXCEPT ![t].i = @ + 1]
  <2>1. job[t] \in [plan : Plan, i : Nat, allow_failure : BOOLEAN]
    BY <1>3, FrameType DEF Inv
  <2>2. job'[t] = [job[t] EXCEPT !.i = job[t].i + 1]
    BY <1>2, <1>3
  <2> QED
    BY <2>1, <2>2
<1> QED
  BY <1>1, <1>3

LEMMA WorkVerdict ==
  ASSUME Inv, PlansOK, NEW t \in Thread, ~ job[t].allow_failure, Verdict(t), Work(t)
  PROVE  Verdict(t)'
<1> DEFINE p == job[t].plan
           i == job[t].i
<1>1. pc \in [Thread -> CallLabel] /\ job \in [Thread -> Job] /\ result \in [Thread -> Outcome]
  BY DEF Inv, IInv, ThreadsOK, ResultsOK
<1>2. WritesOnly(p, i) /\ job'[t].plan = p
  BY WorkWrites, FrameKept DEF Inv
<1>3. ASSUME Running(t)
      PROVE  \A j \in 1 .. i - 1 : SettledNext(p, j)
  BY <1>2, <1>3, BehindIsKept DEF Verdict
<1>4. ASSUME Running(t), NEW fate, FailPlan(t, fate)
      PROVE  Verdict(t)'
  BY <1>4, FrameType, FailureVerdict DEF FailPlan, Inv
<1>5. CASE Start(t)
  <2>1. p \in Plan /\ i = 1 /\ job' = job
    BY <1>5 DEF Start, Inv, IInv, FrameOK
  <2>2. CASE GoTo(t, "precheck")
    BY <1>1, <2>1, <2>2 DEF GoTo, Verdict
  <2>3. CASE GoTo(t, "done") /\ SetPlan(t, "FAILED")
    BY <2>1, <2>3, FailureVerdict
  <2> QED
    BY <1>5, <2>2, <2>3 DEF Start
<1>6. CASE \/ Precheck(t) \/ CheckGuardian(t) \/ EvaluatePolicy(t)
           \/ CheckSandbox(t) \/ CheckNetwork(t)
  <2>1. Running(t)
    BY <1>6, GatesPassOrDeny
  <2>2. ASSUME NEW label \in {"guardian", "policy", "sandbox", "network", "dispatch"},
               Pass(t, label)
        PROVE  Verdict(t)'
    BY <1>1, <1>3, <2>1, <2>2 DEF Pass, GoTo, Verdict, Settled, SettledNext
  <2> QED
    BY <1>4, <1>6, <2>1, <2>2, GatesPassOrDeny DEF Deny
<1>7. CASE Dispatch(t)
  <2>1. pc'[t] = "settle" /\ job' = job /\ Running(t)
    BY <1>1, <1>7 DEF Dispatch, GoTo, Running
  <2>2. PICK o \in Outcome :
          /\ result' = [result EXCEPT ![t] = o]
          /\ steps'[p][i].status = IF o = "ok" THEN "SUCCEEDED" ELSE "FAILED"
    BY <1>7, DispatchWrites DEF Inv
  <2>3. result'[t] = o
    BY <1>1, <2>2
  <2> QED
    BY <1>3, <2>1, <2>2, <2>3 DEF Verdict, TheStep, Settled, SettledNext
<1>8. CASE Settle(t)
  <2>1. /\ pc[t] = "settle" /\ Running(t)
        /\ steps'[p][i].status = IF result[t] = "ok" THEN "SUCCEEDED" ELSE "FAILED"
    BY <1>8, SettleWrites DEF Settle, Running, Verdict, Inv
  <2>2. CASE result[t] = "ok"
    <3>1. NextStep(t, "ok")
      BY <1>8, <2>2 DEF Settle
    <3>2. SettledNext(p, i)
      BY <1>2, <2>1, <2>2 DEF SettledNext
    <3>3. i \in Nat
      BY <2>1, FrameType DEF Inv
    <3>4. \A j \in 1 .. i : SettledNext(p, j)
      BY <1>2, <1>3, <2>1, <3>2, <3>3
    <3> QED
      BY <2>1, <3>1, <3>4, LoopVerdict
  <2>3. CASE result[t] # "ok"
    <3>1. pc'[t] = "decide" /\ job' = job
      BY <1>1, <1>8, <2>3 DEF Settle, GoTo
    <3> QED
      BY <1>3, <2>1, <2>3, <3>1 DEF Verdict, TheStep, Settled, SettledNext
  <2> QED
    BY <2>2, <2>3
<1>9. CASE Decide(t)
  <2>1. pc[t] = "decide" /\ Running(t) /\ TheStep(t).status = "FAILED"
    BY <1>9 DEF Decide, Running, Verdict
  <2>2. CASE Pass(t, "dispatch")
    BY <1>1, <1>3, <2>1, <2>2 DEF Pass, GoTo, Verdict, Settled, SettledNext
  <2>3. CASE Continues(t) /\ NextStep(t, "failed") /\ UNCHANGED steps
    <3>1. SettledNext(p, i)
      BY <1>2, <2>1, <2>3 DEF SettledNext, Continues, Planned, TheStep
    <3>2. i \in Nat
      BY <2>1, FrameType DEF Inv
    <3>3. \A j \in 1 .. i : SettledNext(p, j)
      BY <1>2, <1>3, <2>1, <3>1, <3>2
    <3> QED
      BY <2>1, <2>3, <3>3, LoopVerdict
  <2> QED
    BY <1>4, <1>9, <2>1, <2>2, <2>3 DEF Decide
<1> QED
  BY <1>5, <1>6, <1>7, <1>8, <1>9 DEF Work

(* A thread that stands still keeps its verdict, unless another call wrote to  *)
(* its plan: then it is disturbed.                                             *)
LEMMA UndisturbedKeeps ==
  ASSUME Inv, NEW u \in Thread, StaysPut(u), WatchPlans, u \notin disturbed',
         u \notin disturbed => Verdict(u)
  PROVE  Verdict(u)'
<1>1. CASE Running(u) \/ pc[u] = "done"
  <2>1. job[u] # NoJob
    <3>1. job[u].i # 0
      BY <1>1, FrameType DEF Inv, IInv, FrameOK
    <3> QED
      BY <3>1 DEF NoJob
  <2>2. /\ u \notin disturbed
        /\ planStatus'[job[u].plan] = planStatus[job[u].plan]
        /\ steps'[job[u].plan] = steps[job[u].plan]
    BY <1>1, <2>1 DEF WatchPlans, StaysPut, Running, ThePlan
  <2> QED
    BY <2>2 DEF Verdict, Settled, StaysPut, Running, TheStep
<1>2. CASE ~ (Running(u) \/ pc[u] = "done")
  BY <1>2 DEF Verdict, StaysPut, Running
<1> QED
  BY <1>1, <1>2

(* A thread in an execution stays disturbed until it starts another.           *)
LEMMA DisturbedStays ==
  ASSUME Inv', NEW t \in Thread, WatchPlans, t \notin disturbed',
         Running(t)' \/ pc'[t] = "done"
  PROVE  t \notin disturbed
<1>1. job'[t].i # 0 /\ pc'[t] # "start"
  <2>1. pc'[t] = "done" => job'[t].i # 0
    BY DEF Inv, IInv, FrameOK
  <2>2. ASSUME Running(t)'
        PROVE  job'[t].i # 0
    <3>1. job'[t].plan \in Plan /\ job'[t].i \in DOMAIN StepsOf[job'[t].plan]
      BY <2>2 DEF Inv, IInv, FrameOK
    <3>2. StepsOf[job'[t].plan] \in Seq(PlannedStep)
      BY <3>1, OrchestratorConstants
    <3> QED
      BY <3>1, <3>2
  <2> QED
    BY <2>1, <2>2 DEF Running
<1>2. job'[t] # NoJob
  BY <1>1 DEF NoJob
<1> QED
  BY <1>1, <1>2 DEF WatchPlans

LEMMA VerdictStep ==
  ASSUME Inv, PlansOK, VerdictInv, [ApprovalNext]_allVars
  PROVE  VerdictInv'
<1>1. CASE UNCHANGED allVars
  BY <1>1 DEF allVars, vars, VerdictInv, Verdict, Settled, Running, TheStep
<1>2. CASE ApprovalNext
  <2> SUFFICES ASSUME NEW u \in Thread, u \notin disturbed', ~ job'[u].allow_failure
               PROVE  Verdict(u)'
    BY DEF VerdictInv
  <2>1. WatchPlans /\ Inv'
    BY <1>2, StepKinds DEF ApprovalNext
  <2>2. CASE StaysPut(u)
    BY <2>1, <2>2, UndisturbedKeeps DEF VerdictInv, StaysPut
  <2>3. CASE pc'[u] \in {"idle", "start", "approve", "prompt"}
    BY <2>3 DEF Verdict, Running
  <2>4. CASE Work(u) /\ (Running(u)' \/ pc'[u] = "done")
    <3>1. u \notin disturbed /\ ~ job[u].allow_failure
      BY <2>1, <2>4, DisturbedStays, FrameKept
    <3> QED
      BY <2>4, <3>1, WorkVerdict DEF VerdictInv
  <2>5. CASE ~ (Running(u)' \/ pc'[u] = "done")
    BY <2>5 DEF Verdict, Running
  <2>6. \/ StaysPut(u) \/ pc'[u] \in {"idle", "start", "approve", "prompt"}
        \/ Work(u)
    <3>1. CASE Aside
      BY <3>1 DEF Aside, NoExecutionMoves
    <3>2. ASSUME NEW t \in Thread, Work(t)
          PROVE  StaysPut(u) \/ Work(u)
      BY <3>2, WorkMovesAlone DEF OthersStay
    <3> QED
      BY <3>1, <3>2, StepKinds
  <2> QED
    BY <2>2, <2>3, <2>4, <2>5, <2>6
<1> QED
  BY <1>1, <1>2

(* The verdict a caller gets, for every interleaving of executions, approvals  *)
(* and refusals: a plan is reported SUCCEEDED without allow_failure only when  *)
(* every step has succeeded, or failed under skip or fallback.                 *)
THEOREM VerdictIsRight == ApprovalSpec => []VerdictMatchesSteps
<1>1. ApprovalInit => VerdictInv
  BY DEF ApprovalInit, Init, VerdictInv, Verdict, Running
<1>2. Inv /\ PlansOK /\ VerdictInv /\ [ApprovalNext]_allVars => VerdictInv'
  BY VerdictStep
<1>3. Inv /\ VerdictInv => VerdictMatchesSteps
  <2> SUFFICES ASSUME Inv, VerdictInv, NEW t \in Thread \ disturbed,
                      pc[t] = "done", planStatus[job[t].plan] = "SUCCEEDED",
                      ~ job[t].allow_failure,
                      NEW i \in DOMAIN steps[job[t].plan]
               PROVE  Settled(job[t].plan, i)
    BY DEF VerdictMatchesSteps, Settled, ThePlan
  <2>1. i \in DOMAIN StepsOf[job[t].plan]
    BY DEF Inv, IInv, FrameOK, StepsOK
  <2> QED
    BY <2>1 DEF VerdictInv, Verdict
<1> QED
  BY <1>1, <1>2, <1>3, ApprovalInvariant, PTL DEF ApprovalSpec

-------------------------------------------------------------------------------
\* What an approval granted is remembered.

RememberedInv ==
  /\ PermissionsOK
  /\ remembered \subseteq Pair
  /\ \A pair \in remembered : permissions[pair[1]][pair[2]] = Caps!Never

LEMMA WorkKeepsPermissions ==
  ASSUME NEW t \in Thread, Work(t)
  PROVE  UNCHANGED permissions
  BY DEF Work, Start, Precheck, CheckGuardian, EvaluatePolicy, CheckSandbox, CheckNetwork,
         Dispatch, Settle, Decide

LEMMA GrantIsRemembered ==
  ASSUME RememberedInv, NEW t \in Thread, NEW p \in Plan, NEW i \in DOMAIN StepsOf[p],
         GrantCapability(t, p, i)
  PROVE  RememberedInv'
<1> DEFINE s == StepsOf[p][i].skill
           a == StepsOf[p][i].action
<1>1. s \in Skill /\ a \in Action /\ a \in Capability
  BY PlannedStepType DEF PlannedStep, Capability
<1>2. /\ permissions' = [permissions EXCEPT ![s][a] = Caps!Never]
      /\ remembered' = remembered \cup {<<s, a>>}
  BY DEF GrantCapability, Caps!Grant, Caps!WritePermission, PairOf
<1> HIDE DEF s, a
<1>3. /\ PermissionsOK' /\ permissions'[s][a] = Caps!Never
      /\ \A r \in Skill : \A d \in Capability :
           r # s \/ d # a => permissions'[r][d] = permissions[r][d]
  <2>1. Caps!Never \in Caps!Expiry
    BY DEF Caps!Expiry
  <2>2. /\ permissions \in [Skill -> [Capability -> Caps!Expiry]]
        /\ permissions[s] \in [Capability -> Caps!Expiry]
    BY <1>1 DEF RememberedInv, PermissionsOK
  <2>3. [permissions[s] EXCEPT ![a] = Caps!Never] \in [Capability -> Caps!Expiry]
    BY <2>1, <2>2
  <2>4. permissions' = [permissions EXCEPT ![s] = [permissions[s] EXCEPT ![a] = Caps!Never]]
    BY <1>2, <2>2
  <2>5. PermissionsOK'
    BY <2>2, <2>3, <2>4 DEF PermissionsOK
  <2> QED
    BY <1>1, <2>2, <2>4, <2>5
<1>4. ASSUME NEW pair \in remembered
      PROVE  permissions'[pair[1]][pair[2]] = Caps!Never
  <2>1. pair[1] \in Skill /\ pair[2] \in Capability
    BY DEF RememberedInv, Pair, Capability
  <2> QED
    BY <1>3, <2>1 DEF RememberedInv
<1> QED
  BY <1>1, <1>2, <1>3, <1>4 DEF RememberedInv, Pair

LEMMA AdministrationForgets ==
  ASSUME RememberedInv, now \in Nat, AdministerPlans
  PROVE  RememberedInv'
<1>1. PermissionsOK'
  BY EnvironmentWrites DEF AdministerPlans, RememberedInv
<1>2. \A pair \in remembered' : pair \in remembered
                                /\ permissions'[pair[1]][pair[2]] = Caps!Never
  BY DEF AdministerPlans
<1> QED
  BY <1>1, <1>2 DEF RememberedInv

LEMMA RememberedStep ==
  ASSUME Inv, RememberedInv, now \in Nat, [ApprovalNext]_allVars
  PROVE  RememberedInv'
<1>1. CASE UNCHANGED <<permissions, remembered>>
  BY <1>1 DEF RememberedInv, PermissionsOK
<1>2. ASSUME NEW t \in Thread, UserCall(t)
      PROVE  RememberedInv'
  <2>1. \/ UNCHANGED <<permissions, remembered>>
        \/ \E p \in Plan : \E i \in DOMAIN StepsOf[p] : GrantCapability(t, p, i)
    BY <1>2 DEF UserCall, ExecutePlan, Execute, ConfirmPlanStep, DecideOnce, DenyPlanStep
  <2> QED
    BY <1>1, <2>1, GrantIsRemembered
<1>3. ASSUME NEW t \in Thread, Proceed(t)
      PROVE  UNCHANGED <<permissions, remembered>>
  BY <1>3, WorkKeepsPermissions DEF Proceed, Approve, Finish, Return, Raise, Leave
<1>4. ASSUME NEW t \in Thread, Prompt(t)
      PROVE  RememberedInv'
  <2>1. CASE AnswerYes(t)
    <3>1. job[t].plan \in Plan /\ job[t].i \in DOMAIN StepsOf[job[t].plan]
      BY <2>1 DEF AnswerYes, Inv, IInv, FrameOK
    <3> QED
      BY <2>1, <3>1, GrantIsRemembered DEF AnswerYes, ThePlan
  <2>2. CASE AskPermission(t) \/ AnswerNo(t)
    BY <1>1, <2>2 DEF AskPermission, AnswerNo
  <2> QED
    BY <1>4, <2>1, <2>2 DEF Prompt
<1>5. Tick => UNCHANGED permissions
  BY DEF Tick
<1> QED
  BY <1>1, <1>2, <1>3, <1>4, <1>5, AdministrationForgets DEF ApprovalNext, allVars, vars

LEMMA HoursAreNatural ==
  ASSUME now \in Nat, [ApprovalNext]_allVars
  PROVE  now' \in Nat
<1>1. UNCHANGED now \/ Tick
  BY DEF ApprovalNext, Approve, allVars, vars
<1> QED
  BY <1>1, TimeIsNatural

LEMMA RememberedInvariant == ApprovalSpec => [](RememberedInv /\ now \in Nat)
<1>1. ApprovalInit => RememberedInv /\ now \in Nat
  BY PermissionsInit DEF ApprovalInit, Init, Ledger!Init, RememberedInv
<1>2. Inv /\ RememberedInv /\ now \in Nat /\ [ApprovalNext]_allVars
        => (RememberedInv /\ now \in Nat)'
  BY RememberedStep, HoursAreNatural
<1> QED
  BY <1>1, <1>2, ApprovalInvariant, PTL DEF ApprovalSpec

(* What confirm_plan_step and an "always" answer grant is not asked for again: *)
(* as long as the row is neither revoked nor replaced by a grant for some      *)
(* hours, the guardian denies the approved action to no execution.             *)
THEOREM ApprovalsAreRemembered == ApprovalSpec => ApprovalIsRemembered
<1> DEFINE Denied(p, i) ==
      /\ steps'[p][i].error = "GUARDIAN_DENIED"
      /\ \E t \in Thread : pc[t] = "guardian" /\ pc'[t] \in {"precheck", "done"}
                           /\ ThePlan(t) = p /\ job[t].i = i
<1>1. ASSUME Inv, PlansOK, RememberedInv, [ApprovalNext]_allVars,
             NEW p \in Plan, NEW i \in DOMAIN StepsOf[p], Denied(p, i)
      PROVE  PairOf(p, i) \notin remembered
  <2>1. PICK t \in Thread : /\ pc[t] = "guardian" /\ pc'[t] \in {"precheck", "done"}
                            /\ job[t].plan = p /\ job[t].i = i
    BY <1>1 DEF ThePlan
  <2>2. Work(t)
    <3>1. ~ StaysPut(t) /\ pc'[t] \notin {"idle", "start", "approve", "prompt"}
      BY <2>1 DEF StaysPut
    <3> QED
      BY <1>1, <3>1, StepKinds, WorkMovesAlone DEF Aside, NoExecutionMoves, OthersStay
  <2>3. CheckGuardian(t)
    BY <2>1, <2>2 DEF Work, Start, Precheck, EvaluatePolicy, CheckSandbox, CheckNetwork,
                      Dispatch, Settle, Decide
  <2>4. ~ Pass(t, "policy")
    BY <1>1, <2>1 DEF Pass, GoTo, Inv, IInv, ThreadsOK
  <2>5. ~ Caps!Allowed(StepsOf[p][i].skill, StepsOf[p][i].action)
    BY <2>1, <2>3, <2>4 DEF CheckGuardian, Planned
  <2>6. permissions[StepsOf[p][i].skill][StepsOf[p][i].action] # Caps!Never
    BY <2>5, NeverIsAllowed
  <2> QED
    BY <1>1, <2>6 DEF PairOf, RememberedInv
<1>2. Inv /\ PlansOK /\ RememberedInv /\ [ApprovalNext]_allVars
        => [\A p \in Plan : \A i \in DOMAIN StepsOf[p] :
              Denied(p, i) => PairOf(p, i) \notin remembered]_allVars
  BY <1>1
<1> HIDE DEF Denied
<1>3. ApprovalSpec => [][\A p \in Plan : \A i \in DOMAIN StepsOf[p] :
                           Denied(p, i) => PairOf(p, i) \notin remembered]_allVars
  BY <1>2, ApprovalInvariant, RememberedInvariant, PTL DEF ApprovalSpec
<1> QED
  BY <1>3 DEF ApprovalIsRemembered, Denied

-------------------------------------------------------------------------------
\* What holds of executions holds of those that users begin by an approval.

(* An approval begins another execution, with tries at 0 while the attempts    *)
(* stay as they are: the bound on retries holds of that one too.               *)
THEOREM ApprovedRetriesAreBounded == ApprovalSpec => []RetriesBounded
<1>1. Inv => RetriesBounded
  BY DEF Inv, IInv, CountersOK, RetriesBounded
<1> QED
  BY <1>1, ApprovalInvariant, PTL

LEMMA ApprovalBooksOrNot ==
  ASSUME Inv, [ApprovalNext]_allVars
  PROVE  [Ledger!Next]_(Ledger!vars)
<1>1. ASSUME NEW t \in Thread, Proceed(t), UNCHANGED now
      PROVE  [Ledger!Next]_(Ledger!vars)
  <2>1. ~ Work(t) => UNCHANGED ledgerVars
    BY <1>1 DEF Proceed, Approve, Finish, Return, Raise, Leave
  <2> QED
    BY <1>1, <2>1, WorkBooks DEF ledgerVars, Ledger!vars
<1>2. ASSUME NEW t \in Thread, UserCall(t) \/ Prompt(t)
      PROVE  UNCHANGED ledgerVars
  BY <1>2 DEF UserCall, ExecutePlan, Execute, ConfirmPlanStep, DecideOnce, DenyPlanStep,
              Prompt, AskPermission, AnswerYes, AnswerNo
<1>3. UNCHANGED allVars => UNCHANGED <<known, scores, now>>
  BY DEF allVars, vars
<1>4. AdministerPlans => Environment
  BY DEF AdministerPlans
<1> QED
  BY <1>1, <1>2, <1>3, <1>4, OthersBookNothing DEF ApprovalNext, ledgerVars, Ledger!vars

(* Refinement: approvals and refusals do not touch the ledger, and what they   *)
(* set going books its outcomes by record_outcome like any other execution.    *)
THEOREM ApprovalsCallTheLedger == ApprovalSpec => Ledger!Spec
<1>1. ApprovalInit => Ledger!Init
  BY DEF ApprovalInit, Init
<1>2. Inv /\ [ApprovalNext]_allVars => [Ledger!Next]_(Ledger!vars)
  BY ApprovalBooksOrNot
<1> QED
  BY <1>1, <1>2, ApprovalInvariant, PTL DEF ApprovalSpec, Ledger!Spec

(* An approval is no pardon: while users approve, a failure that no success    *)
(* followed leaves the skill suspended or locked.                              *)
THEOREM ApprovalsKeepSanctions == ApprovalSpec => []LedgerProofs!RejectionIsSanctioned
  BY ThresholdsAreThoseProved, LedgerProofs!RejectionsAreSanctioned, LedgerIsTheOneProved,
     ApprovalsCallTheLedger, PTL

(* A step of a user's call, or around an execution, writes no attempts.        *)
LEMMA CallsCountNothing ==
  ASSUME Inv, NEW t \in Thread, UserCall(t) \/ Approve(t) \/ Ends(t) \/ Prompt(t)
  PROVE  StepsOK' /\ AttemptsGrow /\ UNCHANGED <<known, scores, exposure>>
<1>1. UNCHANGED <<known, scores, exposure>>
  BY DEF UserCall, ExecutePlan, Execute, ConfirmPlanStep, DecideOnce, DenyPlanStep, Approve,
         Ends, Finish, Return, Raise, Leave, Prompt, AskPermission, AnswerYes, AnswerNo, ledgerVars, historyVars
<1>2. StepsOK /\ IInv
  BY DEF Inv, IInv
<1>3. \/ UNCHANGED steps
      \/ Approve(t)
      \/ \E p \in Plan : \E i \in DOMAIN StepsOf[p] : Refuse(p, i)
  <2>1. CASE UserCall(t)
    BY <2>1 DEF UserCall, ExecutePlan, Execute, ConfirmPlanStep, DecideOnce, DenyPlanStep,
                planVars
  <2>2. CASE Prompt(t)
    <3>1. pc[t] = "prompt" => job[t].plan \in Plan /\ job[t].i \in DOMAIN StepsOf[job[t].plan]
      BY <1>2 DEF IInv, FrameOK
    <3> QED
      BY <2>2, <3>1 DEF Prompt, AskPermission, AnswerYes, AnswerNo, ThePlan, planVars
  <2>3. CASE Ends(t)
    BY <2>3 DEF Ends, Finish, Return, Raise, Leave, planVars
  <2> QED
    BY <2>1, <2>2, <2>3
<1> QED
  BY <1>1, <1>2, <1>3, StepsUnchanged, ApproveWrites, RefuseWrites

LEMMA ApprovalExposureStep ==
  ASSUME Inv, PlansOK, ExposureInv, [ApprovalNext]_allVars
  PROVE  ExposureInv'
<1>0. now \in Nat
  BY DEF ExposureInv, Ledger!TypeOK
<1>1. ASSUME NEW t \in Thread, Work(t), UNCHANGED now
      PROVE  ExposureInv'
  <2>1. \A u \in Thread \ {t} : Left(u)
    BY <1>1, WorkMovesAlone DEF OthersStay, StaysPut, Left
  <2> QED
    BY <1>1, <2>1, ExposureWork
<1>2. ASSUME NEW t \in Thread, UserCall(t) \/ Approve(t) \/ Ends(t) \/ Prompt(t), UNCHANGED now
      PROVE  ExposureInv'
  <2>1. Aside
    BY <1>2, UserCallsKeep, PromptKeeps, ApproveIsAside, EndsKeep
  <2>2. ASSUME NEW u \in Thread, ~ Left(u)
        PROVE  Leaves(u)
    <3>1. /\ ~ Running(u) \/ Raises(u)
          /\ pc'[u] \in {"idle", "start", "approve", "prompt"}
      BY <2>1, <2>2 DEF Aside, NoExecutionMoves, StaysPut, Left
    <3>2. pc[u] # "settle"
      BY <3>1 DEF Running, Raises
    <3>3. pc[u] = "decide" => Planned(u).skill \in known'
      BY <1>2, CallsCountNothing DEF ExposureInv
    <3> QED
      BY <3>1, <3>2, <3>3, LeavesGoes DEF Leaves
  <2>3. \A u \in Thread : Leaves(u)
    BY <2>2 DEF Leaves
  <2> QED
    BY <1>0, <1>2, <2>3, CallsCountNothing, QuietKeeps
<1>3. CASE \/ AdministerPlans /\ UNCHANGED now
           \/ Tick
           \/ UNCHANGED allVars
  <2>1. UNCHANGED <<known, scores, exposure, steps, pc, job>>
    BY <1>3 DEF AdministerPlans, Environment, Administer, RegisterSkill, Tick, Ledger!Tick,
                Ledger!ledgerVars, ledgerVars, planVars, threadVars, historyVars, allVars, vars
  <2>2. now' \in Nat
    BY <1>0, <1>3, TimeIsNatural DEF allVars, vars
  <2> QED
    BY <2>1, <2>2, OutsideExposesNothing
<1> QED
  BY <1>1, <1>2, <1>3 DEF ApprovalNext, Proceed, Ends

(* Users who approve, refuse and execute again do not raise the bound on the   *)
(* dispatches of a skill without history: the policy does not know of consent. *)
THEOREM ApprovalsKeepExposureBounded == ApprovalSpec => []OnboardingExposure
<1>1. Inv /\ PlansOK /\ ExposureInv /\ [ApprovalNext]_allVars => ExposureInv'
  BY ApprovalExposureStep
<1>2. ApprovalInit => ExposureInv
  BY ExposureInit DEF ApprovalInit
<1> QED
  BY <1>1, <1>2, ApprovalInvariant, AccountsBoundExposure, PTL DEF ApprovalSpec

-------------------------------------------------------------------------------
\* Plan order and authority, while users answer for the plans being executed.

(* What a daemon's call does beside the executions: it moves a thread that is  *)
(* in none, or leaves one by an exception, forgets what lies behind one it     *)
(* starts, and makes no plan RUNNING.                                          *)
Beside ==
  /\ past' \in [Thread -> Seq(Fate)]
  /\ \A u \in Thread :
       \/ pc'[u] = pc[u] /\ job'[u] = job[u] /\ past'[u] = past[u]
       \/ /\ ~ Running(u) \/ (Raises(u) /\ pc'[u] = "idle")
          /\ pc'[u] \in {"idle", "start", "approve", "prompt"}
          /\ pc'[u] = "start" => past'[u] = <<>>
  /\ \A p \in Plan : planStatus'[p] = "RUNNING" => planStatus[p] = "RUNNING"

LEMMA BesideKeeps ==
  ASSUME OrderInv, PlansOK', Beside, WatchExits
  PROVE  OrderInv'
<1>1. ASSUME NEW u \in Thread
      PROVE  PastSound(u)'
  <2>1. CASE pc'[u] = pc[u] /\ job'[u] = job[u] /\ past'[u] = past[u]
    BY <2>1 DEF OrderInv, PastSound, Running, ThePlan
  <2>2. CASE /\ pc'[u] \in {"idle", "start", "approve", "prompt"}
             /\ pc'[u] = "start" => past'[u] = <<>>
    BY <2>2 DEF PastSound, Running
  <2> QED
    BY <2>1, <2>2 DEF Beside
<1>2. ASSUME NEW p \in Plan, planStatus'[p] = "RUNNING"
      PROVE  (\E u \in Thread : Running(u)' /\ job'[u].plan = p) \/ p \in abandoned'
  <2>1. \A u \in Thread : ~ Starts(u)
    BY DEF Beside, Starts
  <2>2. CASE p \in abandoned
    BY <1>2, <2>1, <2>2, AbandonedStays
  <2>3. ASSUME NEW u \in Thread, Running(u), job[u].plan = p
        PROVE  (\E v \in Thread : Running(v)' /\ job'[v].plan = p) \/ p \in abandoned'
    <3>1. CASE pc'[u] = pc[u] /\ job'[u] = job[u]
      BY <2>3, <3>1 DEF Running
    <3>2. CASE Raises(u) /\ pc'[u] = "idle"
      BY <1>2, <2>1, <2>3, <3>2, AbandonedStays DEF Raises
    <3> QED
      BY <2>3, <3>1, <3>2 DEF Beside
  <2> QED
    BY <1>2, <2>2, <2>3 DEF Beside, OrderInv, RunningHasExecutor, ThePlan
<1>3. Typed'
  BY DEF Beside, PlansOK, Typed
<1> QED
  BY <1>1, <1>2, <1>3 DEF OrderInv, RunningHasExecutor, ThePlan

LEMMA MovingIsBeside ==
  ASSUME Inv, OrderInv, NEW t \in Thread, NEW label \in {"idle", "start", "approve", "prompt"},
         pc' = [pc EXCEPT ![t] = label], NEW frame, job' = [job EXCEPT ![t] = frame],
         ~ Running(t) \/ (Raises(t) /\ label = "idle"),
         \/ past' = past /\ label # "start"
         \/ past' = [past EXCEPT ![t] = <<>>],
         \/ UNCHANGED planStatus
         \/ \E p \in Plan : planStatus' = [planStatus EXCEPT ![p] = "FAILED"]
  PROVE  Beside
<1>1. /\ pc \in [Thread -> CallLabel] /\ job \in [Thread -> Job]
      /\ past \in [Thread -> Seq(Fate)]
      /\ planStatus \in [Plan -> {"PENDING", "RUNNING", "SUCCEEDED", "FAILED"}]
  BY ThreadTypes DEF OrderInv, Typed
<1>2. <<>> \in Seq(Fate)
  OBVIOUS
<1>3. /\ past' \in [Thread -> Seq(Fate)]
      /\ \A u \in Thread \ {t} : pc'[u] = pc[u] /\ job'[u] = job[u] /\ past'[u] = past[u]
      /\ pc'[t] = label /\ (label = "start" => past'[t] = <<>>)
  BY <1>1, <1>2
<1>4. \A p \in Plan : planStatus'[p] = "RUNNING" => planStatus[p] = "RUNNING"
  BY <1>1
<1> QED
  BY <1>3, <1>4 DEF Beside

LEMMA CallsAreBeside ==
  ASSUME Inv, OrderInv, NEW t \in Thread,
         UserCall(t) \/ Approve(t) \/ Ends(t) \/ Prompt(t)
  PROVE  Beside
<1>1. ASSUME NEW p \in Plan, NEW allow_failure \in BOOLEAN, ExecutePlan(t, p, allow_failure)
      PROVE  Beside
  BY <1>1, MovingIsBeside DEF ExecutePlan, Execute, GoTo, planVars, Running
<1>2. ASSUME NEW p \in Plan, NEW i \in DOMAIN StepsOf[p],
             ConfirmPlanStep(t, p, i) \/ DecideOnce(t, p, i)
      PROVE  Beside
  BY <1>2, MovingIsBeside
     DEF ConfirmPlanStep, DecideOnce, GrantCapability, GoTo, planVars, historyVars, Running
<1>3. ASSUME NEW p \in Plan, NEW i \in DOMAIN StepsOf[p], DenyPlanStep(t, p, i)
      PROVE  Beside
  <2>1. /\ UNCHANGED <<pc, job, past>>
        /\ planStatus' = [planStatus EXCEPT ![p] = "FAILED"]
    BY <1>3 DEF DenyPlanStep, Refuse, threadVars, historyVars
  <2>2. \A q \in Plan : planStatus'[q] = "RUNNING" => planStatus[q] = "RUNNING"
    BY <2>1 DEF OrderInv, Typed
  <2> QED
    BY <2>1, <2>2 DEF Beside, OrderInv, Typed
<1>4. CASE Approve(t)
  <2>1. /\ pc' = [pc EXCEPT ![t] = "start"] /\ ~ Running(t)
        /\ job' = [job EXCEPT ![t].i = 1]
        /\ past' = [past EXCEPT ![t] = <<>>] /\ UNCHANGED planStatus
    BY <1>4 DEF Approve, GoTo, Running
  <2>2. \E frame : job' = [job EXCEPT ![t] = frame]
    BY <2>1
  <2> QED
    BY <2>1, <2>2, MovingIsBeside
<1>5. CASE Ends(t)
  BY <1>5, MovingIsBeside
     DEF Ends, Finish, Return, Raise, Leave, GoTo, planVars, historyVars, Running
<1>6. CASE AskPermission(t)
  <2>1. /\ pc' = [pc EXCEPT ![t] = "prompt"] /\ ~ Running(t)
        /\ job' = [job EXCEPT ![t].i = FirstRequest(ThePlan(t))]
        /\ UNCHANGED <<past, planStatus>>
    BY <1>6 DEF AskPermission, GoTo, planVars, historyVars, Running
  <2>2. \E frame : job' = [job EXCEPT ![t] = frame]
    BY <2>1
  <2> QED
    BY <2>1, <2>2, MovingIsBeside
<1>7. CASE AnswerYes(t)
  BY <1>7, MovingIsBeside
     DEF AnswerYes, GrantCapability, GoTo, planVars, historyVars, Running
<1>8. CASE AnswerNo(t)
  <2>1. job[t].plan \in Plan
    BY <1>8 DEF AnswerNo, Inv, IInv, FrameOK
  <2> QED
    BY <1>8, <2>1, MovingIsBeside
       DEF AnswerNo, Refuse, GoTo, ThePlan, planVars, historyVars, Running
<1> QED
  BY <1>1, <1>2, <1>3, <1>4, <1>5, <1>6, <1>7, <1>8 DEF UserCall, Prompt

LEMMA ApprovalOrderStep ==
  ASSUME Inv, PlansOK, OrderInv, [ApprovalNext]_allVars
  PROVE  OrderInv'
<1>1. PlansOK'
  BY StepKinds
<1>2. ASSUME NEW t \in Thread, UserCall(t) \/ Proceed(t) \/ Prompt(t), WatchExits
      PROVE  OrderInv'
  <2>1. CASE Work(t)
    BY <1>2, <2>1, WorkMoves, OneThreadKeeps
  <2>2. CASE UserCall(t) \/ Approve(t) \/ Ends(t) \/ Prompt(t)
    BY <1>1, <1>2, <2>2, CallsAreBeside, BesideKeeps
  <2> QED
    BY <1>2, <2>1, <2>2 DEF Proceed, Ends
<1>3. AdministerPlans \/ Tick \/ UNCHANGED allVars => UNCHANGED <<pc, job, past, planStatus>>
  BY DEF AdministerPlans, Environment, Administer, RegisterSkill, Tick, planVars, threadVars,
         historyVars, allVars, vars
<1>4. UNCHANGED <<pc, job, past, planStatus>> /\ WatchExits => OrderInv'
  BY <1>1, BesideKeeps DEF Beside, OrderInv, Typed
<1>5. UNCHANGED <<pc, job, past, planStatus, abandoned>> => OrderInv'
  BY DEF OrderInv, Typed, PastSound, RunningHasExecutor, Running, ThePlan
<1>6. UNCHANGED allVars => UNCHANGED abandoned
  BY DEF allVars, vars
<1> QED
  BY <1>2, <1>3, <1>4, <1>5, <1>6 DEF ApprovalNext

LEMMA ApprovalOrderInvariant == ApprovalSpec => []OrderInv
<1>1. ApprovalInit => OrderInv
  BY OrderInit DEF ApprovalInit
<1>2. Inv /\ PlansOK /\ OrderInv /\ [ApprovalNext]_allVars => OrderInv'
  BY ApprovalOrderStep
<1> QED
  BY <1>1, <1>2, ApprovalInvariant, PTL DEF ApprovalSpec

(* An approval restarts a plan from its first step, a refusal marks it FAILED  *)
(* under the worker executing it: still no execution goes past a step it has   *)
(* to stop at.                                                                 *)
THEOREM ApprovedAbortsAreFinal == ApprovalSpec => []AbortIsFinal
<1>1. OrderInv => AbortIsFinal
  BY DEF OrderInv, PastSound, AbortIsFinal
<1> QED
  BY <1>1, ApprovalOrderInvariant, PTL

(* Of the daemon's calls none leaves a plan RUNNING behind, whoever answers     *)
(* meanwhile: the status the API reports RUNNING has a worker in execute_plan, *)
(* or is that of a plan whose last execution ended in an exception.            *)
THEOREM ApprovedRunsAreExecuted == ApprovalSpec => []RunningHasExecutor
<1>1. OrderInv => RunningHasExecutor
  BY DEF OrderInv
<1> QED
  BY <1>1, ApprovalOrderInvariant, PTL

LEMMA ApprovalAuthorityStep ==
  ASSUME Inv, PlansOK, RememberedInv, AuthorityInv, [ApprovalNext]_allVars
  PROVE  AuthorityInv'
<1>1. PermissionsOK' /\ now' \in Nat
  BY RememberedStep, HoursAreNatural DEF RememberedInv, AuthorityInv
<1>2. CASE UNCHANGED allVars
  BY <1>2, AuthorityStands DEF allVars
<1>3. CASE Aside /\ WatchRows
  <2>1. ASSUME NEW u \in Thread
        PROVE  Authorised(u)'
    <3>1. CASE StaysPut(u)
      BY <1>1, <1>3, <3>1, StillAuthorised DEF StaysPut
    <3>2. CASE pc'[u] \in {"idle", "start", "approve", "prompt"}
      BY <3>2 DEF Authorised, Relies
    <3> QED
      BY <1>3, <3>1, <3>2 DEF Aside, NoExecutionMoves
  <2> QED
    BY <1>1, <2>1 DEF AuthorityInv
<1>4. ASSUME NEW t \in Thread, Work(t), WatchRows
      PROVE  AuthorityInv'
  <2>1. Authorised(t)'
    BY <1>4, WorkAuthorised
  <2>2. \A u \in Thread \ {t} : Authorised(u)'
    BY <1>1, <1>4, WorkMovesAlone, StillAuthorised DEF OthersStay, StaysPut
  <2> QED
    BY <1>1, <2>1, <2>2 DEF AuthorityInv
<1>5. UNCHANGED allVars \/ WatchRows
  BY DEF ApprovalNext
<1> QED
  BY <1>2, <1>3, <1>4, <1>5, StepKinds

(* "Always" answers add rows, revocations delete them, timed grants replace    *)
(* them and run out, all while plans run: every dispatch is still one the      *)
(* guardian permits, or one whose row has ended after the guardian check of    *)
(* that very step.                                                             *)
THEOREM ApprovedDispatchesArePermitted == ApprovalSpec => []DispatchIsAuthorised
<1>1. ApprovalInit => AuthorityInv
  BY PermissionsInit DEF ApprovalInit, Init, Ledger!Init, AuthorityInv, Authorised, Relies
<1>2. Inv /\ PlansOK /\ RememberedInv /\ AuthorityInv /\ [ApprovalNext]_allVars
        => AuthorityInv'
  BY ApprovalAuthorityStep
<1>3. AuthorityInv => DispatchIsAuthorised
  BY DEF AuthorityInv, Authorised, DispatchIsAuthorised
<1> QED
  BY <1>1, <1>2, <1>3, ApprovalInvariant, RememberedInvariant, PTL DEF ApprovalSpec

-------------------------------------------------------------------------------
\* What the users' calls remember has its types.

LEMMA PairIsTyped ==
  ASSUME NEW p \in Plan, NEW i \in DOMAIN StepsOf[p]
  PROVE  PairOf(p, i) \in Pair
<1>1. StepsOf[p][i] \in PlannedStep
  BY PlannedStepType
<1> QED
  BY <1>1 DEF PlannedStep, PairOf, Pair

(* A call or an answer about step i of plan p.                                 *)
LEMMA GrantIsTyped ==
  ASSUME ApprovalTypeOK, NEW t \in Thread, NEW p \in Plan, NEW i \in DOMAIN StepsOf[p],
         GrantCapability(t, p, i)
  PROVE  caller' \in [Thread -> Callers] /\ remembered' \subseteq Pair
<1>1. PairOf(p, i) \in Pair
  BY PairIsTyped
<1> QED
  BY <1>1 DEF GrantCapability, ApprovalTypeOK, Callers

LEMMA UserCallIsTyped ==
  ASSUME ApprovalTypeOK, NEW t \in Thread, UserCall(t)
  PROVE  caller' \in [Thread -> Callers] /\ remembered' \subseteq Pair /\ consent' = consent
<1>1. ASSUME NEW p \in Plan, NEW allow_failure \in BOOLEAN, ExecutePlan(t, p, allow_failure)
      PROVE  caller' \in [Thread -> Callers] /\ UNCHANGED <<remembered, consent>>
  BY <1>1 DEF ExecutePlan, ApprovalTypeOK, Callers
<1>2. ASSUME NEW p \in Plan, NEW i \in DOMAIN StepsOf[p], ConfirmPlanStep(t, p, i)
      PROVE  caller' \in [Thread -> Callers] /\ remembered' \subseteq Pair /\ consent' = consent
  BY <1>2, GrantIsTyped DEF ConfirmPlanStep
<1>3. ASSUME NEW p \in Plan, NEW i \in DOMAIN StepsOf[p],
             DecideOnce(t, p, i) \/ DenyPlanStep(t, p, i)
      PROVE  caller' \in [Thread -> Callers] /\ UNCHANGED <<remembered, consent>>
  BY <1>3 DEF DecideOnce, DenyPlanStep, ApprovalTypeOK, Callers
<1> QED
  BY <1>1, <1>2, <1>3 DEF UserCall, ApprovalTypeOK

LEMMA AnswerIsTyped ==
  ASSUME Inv, ApprovalTypeOK, NEW t \in Thread, Prompt(t)
  PROVE  caller' \in [Thread -> Callers] /\ remembered' \subseteq Pair /\ consent' = consent
<1>1. CASE AskPermission(t) \/ AnswerNo(t)
  BY <1>1 DEF AskPermission, AnswerNo, ApprovalTypeOK
<1>2. CASE AnswerYes(t)
  <2>1. ThePlan(t) \in Plan /\ job[t].i \in DOMAIN StepsOf[ThePlan(t)]
    BY <1>2 DEF AnswerYes, ThePlan, Inv, IInv, FrameOK
  <2> QED
    BY <1>2, <2>1, GrantIsTyped DEF AnswerYes
<1> QED
  BY <1>1, <1>2 DEF Prompt

LEMMA ApproveIsTyped ==
  ASSUME Inv, ApprovalTypeOK, NEW t \in Thread, Approve(t)
  PROVE  /\ UNCHANGED <<caller, remembered>>
         /\ \A c \in consent' : c[1] \in Plan /\ c[2] \in DOMAIN StepsOf[c[1]]
<1>1. job[t].plan \in Plan /\ job[t].i \in DOMAIN StepsOf[job[t].plan]
  BY DEF Approve, Inv, IInv, FrameOK
<1> QED
  BY <1>1 DEF Approve, ApprovalTypeOK, ThePlan

LEMMA ApprovalTypesStep ==
  ASSUME Inv, Inv', ApprovalTypeOK, [ApprovalNext]_allVars
  PROVE  ApprovalTypeOK'
<1> DEFINE Rest == /\ caller' \in [Thread -> Callers] /\ remembered' \subseteq Pair
                   /\ \A c \in consent' : c[1] \in Plan /\ c[2] \in DOMAIN StepsOf[c[1]]
<1>1. \A t \in Thread : pc'[t] \in Label \cup {"approve", "prompt"}
  BY DEF Inv, IInv, ThreadsOK, CallLabel
<1>2. disturbed' \subseteq Thread
  BY DEF ApprovalNext, WatchPlans, ApprovalTypeOK, allVars
<1>3. ASSUME NEW t \in Thread, UserCall(t) \/ Prompt(t)
      PROVE  Rest
  BY <1>3, UserCallIsTyped, AnswerIsTyped DEF ApprovalTypeOK
<1>4. ASSUME NEW t \in Thread, Proceed(t)
      PROVE  Rest
  BY <1>4, ApproveIsTyped DEF Proceed, Finish, ApprovalTypeOK
<1>5. ASSUME AdministerPlans \/ UNCHANGED <<caller, consent, remembered>>
      PROVE  Rest
  BY <1>5 DEF AdministerPlans, ApprovalTypeOK
<1>6. Rest
  BY <1>3, <1>4, <1>5 DEF ApprovalNext, allVars
<1> QED
  BY <1>1, <1>2, <1>6 DEF ApprovalTypeOK

(* plan_store, the callers and the grants of approvals are type correct while  *)
(* users answer and plans run: daemon.py 320-475.                              *)
THEOREM ApprovalTypeCorrect == ApprovalSpec => []ApprovalTypeOK
<1>1. ApprovalInit => ApprovalTypeOK
  <2> SUFFICES ASSUME ApprovalInit PROVE ApprovalTypeOK
    OBVIOUS
  <2>1. \A t \in Thread : pc[t] \in Label \cup {"approve", "prompt"}
    BY DEF ApprovalInit, Init, Label
  <2>2. ASSUME NEW c \in consent
        PROVE  c[1] \in Plan /\ c[2] \in DOMAIN StepsOf[c[1]]
    <3>1. PICK p \in Plan : c \in {p} \X {i \in DOMAIN StepsOf[p] : StepsOf[p][i].confirmed}
      BY <2>2 DEF ApprovalInit
    <3> QED
      BY <3>1
  <2> QED
    BY <2>1, <2>2 DEF ApprovalInit, ApprovalTypeOK, Callers
<1>2. Inv /\ Inv' /\ ApprovalTypeOK /\ [ApprovalNext]_allVars => ApprovalTypeOK'
  BY ApprovalTypesStep
<1> QED
  BY <1>1, <1>2, ApprovalInvariant, PTL DEF ApprovalSpec
===============================================================================
