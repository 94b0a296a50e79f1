--------------------------- MODULE OrchestratorProofs ---------------------------
(* Theorems about Orchestrator, for any number of workers, plans and steps.    *)
EXTENDS Orchestrator, FiniteSetTheorems, TLAPS

(* The labels of execute_plan and of the daemon's calls around it, which the   *)
(* theorems about PlanApproval need.                                           *)
CallLabel == Label \cup {"approve", "prompt"}

(* The frame of a thread points at a step of a plan while it runs, and while   *)
(* the daemon asks about a step or approves it.                                *)
FrameOK(t) ==
  /\ pc[t] = "start" => job[t].plan \in Plan /\ job[t].i = 1 /\ tries[t] = 0
  /\ Running(t) \/ pc[t] \in {"approve", "prompt"}
       => job[t].plan \in Plan /\ job[t].i \in DOMAIN StepsOf[job[t].plan]
  /\ pc[t] = "done" => job[t].plan \in Plan /\ job[t].i # 0

StepsOK ==
  /\ steps \in [Plan -> Seq(StepState)]
  /\ \A p \in Plan : DOMAIN steps[p] = DOMAIN StepsOf[p]

ThreadsOK ==
  /\ pc \in [Thread -> CallLabel]
  /\ job \in [Thread -> Job]
  /\ tries \in [Thread -> Nat]

(* tries counts this execution's dispatches of the step, attempts those of all *)
(* executions: the retry test reads the second, which bounds the first.        *)
CountersOK(t) ==
  Running(t) =>
    /\ tries[t] <= TheStep(t).attempts
    /\ tries[t] <= Planned(t).max_retries + 1
    /\ pc[t] \notin {"settle", "decide"} => tries[t] <= Planned(t).max_retries

IInv ==
  /\ StepsOK
  /\ ThreadsOK
  /\ \A t \in Thread : FrameOK(t) /\ CountersOK(t)

-------------------------------------------------------------------------------
LEMMA PlannedStepType ==
  ASSUME NEW p \in Plan, NEW i \in DOMAIN StepsOf[p]
  PROVE  StepsOf[p][i] \in PlannedStep
<1>1. StepsOf[p] \in Seq(PlannedStep)
  BY OrchestratorConstants
<1> QED
  BY <1>1

LEMMA StepStateType ==
  ASSUME StepsOK, NEW p \in Plan, NEW i \in DOMAIN StepsOf[p]
  PROVE  steps[p][i] \in StepState /\ steps[p][i].attempts \in Nat
<1>1. steps[p] \in Seq(StepState) /\ i \in DOMAIN steps[p]
  BY DEF StepsOK
<1>2. steps[p][i] \in StepState
  BY <1>1
<1> QED
  BY <1>2 DEF StepState

-------------------------------------------------------------------------------
(* No step of any plan loses attempts.                                         *)
AttemptsGrow ==
  \A q \in Plan : \A j \in DOMAIN StepsOf[q] : steps'[q][j].attempts >= steps[q][j].attempts

(* What a step leaves alone of thread u.                                       *)
Untouched(u) == pc'[u] = pc[u] /\ job'[u] = job[u] /\ tries'[u] = tries[u]

LEMMA FrameType ==
  ASSUME IInv, NEW t \in Thread, Running(t)
  PROVE  /\ job[t] \in [plan : Plan, i : Nat, allow_failure : BOOLEAN]
         /\ job[t].plan \in Plan /\ job[t].i \in DOMAIN StepsOf[job[t].plan]
         /\ job[t].i \in 1 .. Len(StepsOf[job[t].plan])
         /\ Planned(t) \in PlannedStep /\ Planned(t).max_retries \in Nat
         /\ TheStep(t) \in StepState /\ TheStep(t).attempts \in Nat
         /\ tries[t] \in Nat
<1>1. job[t].plan \in Plan /\ job[t].i \in DOMAIN StepsOf[job[t].plan]
  BY DEF IInv, FrameOK
<1>2. StepsOf[job[t].plan] \in Seq(PlannedStep)
  BY <1>1, OrchestratorConstants
<1>3. job[t] \in Job
  BY DEF IInv, ThreadsOK
<1>4. job[t] \in [plan : Plan, i : Nat, allow_failure : BOOLEAN]
  <2>1. CASE job[t] = NoJob
    <3>1. job[t].i = 0 /\ job[t].i \in 1 .. Len(StepsOf[job[t].plan])
      BY <1>1, <1>2, <2>1 DEF NoJob
    <3> QED
      BY <3>1
  <2>2. CASE job[t] # NoJob
    BY <1>3, <2>2 DEF Job
  <2> QED
    BY <2>1, <2>2
<1>5. Planned(t) \in PlannedStep
  BY <1>1, PlannedStepType DEF Planned
<1>6. TheStep(t) \in StepState /\ TheStep(t).attempts \in Nat
  BY <1>1, StepStateType DEF TheStep, IInv
<1>7. Planned(t).max_retries \in Nat
  BY <1>5 DEF PlannedStep
<1>8. tries[t] \in Nat
  BY DEF IInv, ThreadsOK
<1> QED
  BY <1>1, <1>2, <1>4, <1>5, <1>6, <1>7, <1>8

(* A thread a step does not touch keeps its part of the invariant: attempts    *)
(* written by others only grow.                                                *)
LEMMA OthersKeep ==
  ASSUME IInv, AttemptsGrow, StepsOK', NEW u \in Thread, Untouched(u)
  PROVE  FrameOK(u)' /\ CountersOK(u)'
<1>1. FrameOK(u)'
  BY DEF IInv, FrameOK, Running, Untouched
<1>2. CASE Running(u)
  <2>1. /\ job[u].plan \in Plan /\ job[u].i \in DOMAIN StepsOf[job[u].plan]
        /\ TheStep(u).attempts \in Nat /\ tries[u] \in Nat
    BY <1>2, FrameType DEF IInv, FrameOK
  <2>2. TheStep(u)' = steps'[job[u].plan][job[u].i] /\ Planned(u)' = Planned(u)
    BY DEF TheStep, Planned, Untouched
  <2>3. TheStep(u)'.attempts >= TheStep(u).attempts
    BY <2>1, <2>2 DEF AttemptsGrow, TheStep
  <2>4. TheStep(u)'.attempts \in Nat
    <3>1. steps'[job[u].plan][job[u].i] \in StepState
      BY <2>1 DEF StepsOK
    <3> QED
      BY <2>2, <3>1 DEF StepState
  <2>5. CountersOK(u)
    BY DEF IInv
  <2> QED
    BY <1>1, <1>2, <2>1, <2>2, <2>3, <2>4, <2>5 DEF CountersOK, Running, Untouched
<1>3. CASE ~ Running(u)
  BY <1>1, <1>3 DEF CountersOK, Running, Untouched
<1> QED
  BY <1>2, <1>3

(* A step that moves thread t alone, keeps the threads well typed and gives t  *)
(* its part of the invariant preserves the invariant.                          *)
LEMMA OneThreadMoves ==
  ASSUME IInv, AttemptsGrow, StepsOK', ThreadsOK', NEW t \in Thread,
         \A u \in Thread \ {t} : Untouched(u), FrameOK(t)', CountersOK(t)'
  PROVE  IInv'
<1>1. \A u \in Thread \ {t} : FrameOK(u)' /\ CountersOK(u)'
  BY OthersKeep
<1> QED
  BY <1>1 DEF IInv

-------------------------------------------------------------------------------
\* The ways an action moves its thread on.

LEMMA StepsUnchanged ==
  ASSUME StepsOK, UNCHANGED steps
  PROVE  StepsOK' /\ AttemptsGrow
<1>1. \A q \in Plan : \A j \in DOMAIN StepsOf[q] : steps[q][j].attempts \in Nat
  BY StepStateType
<1> QED
  BY <1>1 DEF StepsOK, AttemptsGrow

LEMMA NextStepKeeps ==
  ASSUME IInv, AttemptsGrow, StepsOK', NEW t \in Thread, Running(t), NEW fate,
         NextStep(t, fate)
  PROVE  IInv'
<1> DEFINE n == Len(StepsOf[job[t].plan])
<1>0. /\ job[t] \in [plan : Plan, i : Nat, allow_failure : BOOLEAN]
      /\ job[t].i \in 1 .. n
  BY FrameType
<1>1. /\ pc \in [Thread -> CallLabel] /\ job \in [Thread -> Job] /\ tries \in [Thread -> Nat]
      /\ tries' = [tries EXCEPT ![t] = 0]
  BY DEF IInv, ThreadsOK, NextStep
<1>2. CASE job[t].i < n
  <2>1. /\ job' = [job EXCEPT ![t].i = @ + 1]
        /\ pc' = [pc EXCEPT ![t] = "precheck"]
    BY <1>2 DEF NextStep, GoTo, ThePlan
  <2> DEFINE frame == [plan |-> job[t].plan, i |-> job[t].i + 1,
                       allow_failure |-> job[t].allow_failure]
  <2>a. job[t].plan \in Plan /\ job[t].i \in Nat /\ job[t].allow_failure \in BOOLEAN
    BY <1>0
  <2>b. job[t] = [plan |-> job[t].plan, i |-> job[t].i,
                  allow_failure |-> job[t].allow_failure]
    BY <1>0
  <2>c. [job[t] EXCEPT !.i = job[t].i + 1] = frame
    BY <2>b
  <2>d. job' = [job EXCEPT ![t] = frame]
    BY <2>1, <2>c, Zenon
  <2>e. frame \in Job /\ frame.plan = job[t].plan /\ frame.i = job[t].i + 1
    BY <2>a DEF Job
  <2> HIDE DEF frame
  <2>2. /\ job'[t] = frame
        /\ job'[t].plan = job[t].plan /\ job'[t].i = job[t].i + 1
        /\ \A u \in Thread \ {t} : job'[u] = job[u]
    BY <1>1, <2>d, <2>e
  <2>3. job' \in [Thread -> Job]
    BY <1>1, <2>d, <2>e
  <2>4. ThreadsOK'
    BY <1>1, <2>1, <2>3 DEF ThreadsOK, CallLabel, Label
  <2>5. job'[t].i \in DOMAIN StepsOf[job'[t].plan] /\ job'[t].plan \in Plan
    <3>1. job'[t].i \in 1 .. n /\ job'[t].plan \in Plan
      BY <1>0, <1>2, <2>a, <2>2
    <3>2. StepsOf[job'[t].plan] \in Seq(PlannedStep)
      BY <3>1, OrchestratorConstants
    <3> QED
      BY <2>2, <3>1, <3>2
  <2>6. pc'[t] = "precheck" /\ tries'[t] = 0
    BY <1>1, <2>1
  <2>7. FrameOK(t)'
    BY <2>5, <2>6 DEF FrameOK, Running
  <2>8. /\ Planned(t)'.max_retries \in Nat
        /\ TheStep(t)'.attempts \in Nat
    <3>1. StepsOf[job'[t].plan][job'[t].i] \in PlannedStep
      BY <2>5, PlannedStepType
    <3>2. steps'[job'[t].plan][job'[t].i] \in StepState
      BY <2>5 DEF StepsOK
    <3> QED
      BY <3>1, <3>2 DEF PlannedStep, StepState, Planned, TheStep
  <2>9. CountersOK(t)'
    BY <2>6, <2>8 DEF CountersOK, Running
  <2>10. \A u \in Thread \ {t} : Untouched(u)
    BY <1>1, <2>1, <2>2 DEF Untouched
  <2> QED
    BY <2>4, <2>7, <2>9, <2>10, OneThreadMoves
<1>3. CASE ~ (job[t].i < n)
  <2>1. pc' = [pc EXCEPT ![t] = "done"] /\ job' = job
    BY <1>3 DEF NextStep, GoTo, ThePlan
  <2>2. ThreadsOK'
    BY <1>1, <2>1 DEF ThreadsOK, CallLabel, Label
  <2>3. FrameOK(t)' /\ CountersOK(t)'
    BY <1>0, <1>1, <2>1 DEF FrameOK, CountersOK, Running
  <2>4. \A u \in Thread \ {t} : Untouched(u)
    BY <1>1, <2>1 DEF Untouched
  <2> QED
    BY <2>2, <2>3, <2>4, OneThreadMoves
<1> QED
  BY <1>2, <1>3

LEMMA FailPlanKeeps ==
  ASSUME IInv, AttemptsGrow, StepsOK', NEW t \in Thread, Running(t), NEW fate,
         FailPlan(t, fate)
  PROVE  IInv'
<1>1. pc' = [pc EXCEPT ![t] = "done"] /\ job' = job /\ tries' = tries
  BY DEF FailPlan, GoTo
<1>2. ThreadsOK'
  BY <1>1 DEF IInv, ThreadsOK, CallLabel, Label
<1>3. job[t].plan \in Plan /\ job[t].i # 0 /\ pc'[t] = "done"
  BY <1>1, FrameType DEF IInv, ThreadsOK
<1>4. FrameOK(t)' /\ CountersOK(t)'
  BY <1>1, <1>3 DEF FrameOK, CountersOK, Running
<1>5. \A u \in Thread \ {t} : Untouched(u)
  BY <1>1 DEF Untouched, IInv, ThreadsOK
<1> QED
  BY <1>2, <1>4, <1>5, OneThreadMoves

(* Going on within a step is free, except that a retry must be within bounds.  *)
LEMMA PassKeeps ==
  ASSUME IInv, NEW t \in Thread, Running(t),
         NEW label \in {"guardian", "policy", "sandbox", "network", "dispatch"},
         Pass(t, label), tries[t] <= Planned(t).max_retries
  PROVE  IInv'
<1>1. /\ pc' = [pc EXCEPT ![t] = label] /\ job' = job /\ tries' = tries
      /\ steps' = steps
  BY DEF Pass, GoTo
<1>2. StepsOK' /\ AttemptsGrow
  BY <1>1, StepsUnchanged DEF IInv
<1>3. ThreadsOK' /\ pc'[t] = label
  BY <1>1 DEF IInv, ThreadsOK, CallLabel, Label
<1>4. FrameOK(t)'
  BY <1>1, <1>3 DEF IInv, FrameOK, Running
<1>5. CountersOK(t)'
  BY <1>1, <1>3 DEF IInv, CountersOK, Running, TheStep, Planned
<1>6. \A u \in Thread \ {t} : Untouched(u)
  BY <1>1 DEF Untouched, IInv, ThreadsOK
<1> QED
  BY <1>2, <1>3, <1>4, <1>5, <1>6, OneThreadMoves

(* A denied step is a step, and keeps its attempts.                            *)
LEMMA DenialType ==
  ASSUME NEW r \in StepState, NEW code \in Denial
  PROVE  LET s == [r EXCEPT !.status = "DENIED", !.error = code, !.error_type = "denied"]
         IN  s \in StepState /\ s.attempts = r.attempts
  BY DEF StepState

(* Writing a step, without taking attempts from it.                            *)
LEMMA WriteStepKeeps ==
  ASSUME StepsOK, NEW p \in Plan, NEW i \in DOMAIN StepsOf[p],
         NEW s \in StepState, s.attempts >= steps[p][i].attempts,
         steps' = [steps EXCEPT ![p][i] = s]
  PROVE  /\ StepsOK' /\ AttemptsGrow
         /\ steps'[p][i] = s
         /\ \A q \in Plan : \A j \in DOMAIN StepsOf[q] :
              q # p \/ j # i => steps'[q][j] = steps[q][j]
<1>1. /\ steps \in [Plan -> Seq(StepState)] /\ DOMAIN steps[p] = DOMAIN StepsOf[p]
      /\ \A q \in Plan : DOMAIN steps[q] = DOMAIN StepsOf[q]
  BY DEF StepsOK
<1>2. steps[p] \in Seq(StepState) /\ i \in DOMAIN steps[p]
  BY <1>1
<1>3. [steps[p] EXCEPT ![i] = s] \in Seq(StepState)
  BY <1>2
<1>4. steps' = [steps EXCEPT ![p] = [steps[p] EXCEPT ![i] = s]]
  BY <1>1
<1>5. /\ steps' \in [Plan -> Seq(StepState)]
      /\ steps'[p] = [steps[p] EXCEPT ![i] = s]
      /\ \A q \in Plan \ {p} : steps'[q] = steps[q]
  BY <1>1, <1>3, <1>4
<1>6. DOMAIN steps'[p] = DOMAIN steps[p]
  BY <1>5
<1>7. \A q \in Plan : DOMAIN steps'[q] = DOMAIN StepsOf[q]
  BY <1>1, <1>5, <1>6
<1>8. /\ StepsOK' /\ steps'[p][i] = s
      /\ \A q \in Plan : \A j \in DOMAIN StepsOf[q] :
           q # p \/ j # i => steps'[q][j] = steps[q][j]
  BY <1>1, <1>2, <1>5, <1>7 DEF StepsOK
<1>9. AttemptsGrow
  <2> SUFFICES ASSUME NEW q \in Plan, NEW j \in DOMAIN StepsOf[q]
               PROVE  steps'[q][j].attempts >= steps[q][j].attempts
    BY DEF AttemptsGrow
  <2>1. steps[q][j].attempts \in Nat
    BY StepStateType
  <2>2. CASE q # p \/ j # i
    BY <1>8, <2>1, <2>2
  <2>3. CASE q = p /\ j = i
    BY <1>8, <2>3
  <2> QED
    BY <2>2, <2>3
<1> QED
  BY <1>8, <1>9

(* Writing the step the frame of a thread points at.                           *)
LEMMA SetStepKeeps ==
  ASSUME IInv, NEW t \in Thread,
         job[t].plan \in Plan, job[t].i \in DOMAIN StepsOf[job[t].plan],
         NEW s \in StepState, s.attempts >= TheStep(t).attempts, SetStep(t, s)
  PROVE  /\ StepsOK' /\ AttemptsGrow
         /\ steps'[job[t].plan][job[t].i] = s
         /\ \A q \in Plan : \A j \in DOMAIN StepsOf[q] :
              q # job[t].plan \/ j # job[t].i => steps'[q][j] = steps[q][j]
<1> DEFINE p == job[t].plan
           i == job[t].i
<1>1. StepsOK /\ s.attempts >= steps[p][i].attempts
  BY DEF IInv, TheStep
<1>2. steps' = [steps EXCEPT ![p][i] = s]
  BY DEF SetStep, ThePlan
<1>3. p \in Plan /\ i \in DOMAIN StepsOf[p]
  OBVIOUS
<1> HIDE DEF p, i
<1>4. /\ StepsOK' /\ AttemptsGrow
      /\ steps'[p][i] = s
      /\ \A q \in Plan : \A j \in DOMAIN StepsOf[q] :
           q # p \/ j # i => steps'[q][j] = steps[q][j]
  <2>1. StepsOK' /\ AttemptsGrow
    BY <1>1, <1>2, <1>3, WriteStepKeeps
  <2>2. steps'[p][i] = s
    <3>1. steps \in [Plan -> Seq(StepState)] /\ i \in DOMAIN steps[p]
      BY <1>1, <1>3 DEF StepsOK
    <3> QED
      BY <1>2, <1>3, <3>1
  <2>3. \A q \in Plan : \A j \in DOMAIN StepsOf[q] :
          q # p \/ j # i => steps'[q][j] = steps[q][j]
    BY <1>1, <1>2, <1>3, WriteStepKeeps
  <2> QED
    BY <2>1, <2>2, <2>3
<1> QED
  BY <1>4 DEF p, i

LEMMA DenyKeeps ==
  ASSUME IInv, NEW t \in Thread, Running(t), NEW code \in Denial, Deny(t, code)
  PROVE  IInv'
<1> DEFINE s == [TheStep(t) EXCEPT !.status = "DENIED", !.error = code,
                                   !.error_type = "denied"]
<1>1. /\ s \in StepState /\ s.attempts = TheStep(t).attempts
      /\ TheStep(t).attempts \in Nat
      /\ job[t].plan \in Plan /\ job[t].i \in DOMAIN StepsOf[job[t].plan]
  BY FrameType, DenialType
<1>2. SetStep(t, s)
  BY DEF Deny
<1> HIDE DEF s
<1>3. StepsOK' /\ AttemptsGrow
  BY <1>1, <1>2, SetStepKeeps
<1>4. NextStep(t, "denied") \/ FailPlan(t, "denied")
  BY DEF Deny
<1> QED
  BY <1>3, <1>4, NextStepKeeps, FailPlanKeeps

-------------------------------------------------------------------------------
\* One lemma for each action, or for the actions that move on alike.

LEMMA ExecuteKeeps ==
  ASSUME IInv, NEW t \in Thread, NEW p \in Plan, NEW allow_failure \in BOOLEAN,
         Execute(t, p, allow_failure)
  PROVE  IInv'
<1> DEFINE frame == [plan |-> p, i |-> 1, allow_failure |-> allow_failure]
<1>1. /\ job' = [job EXCEPT ![t] = frame] /\ pc' = [pc EXCEPT ![t] = "start"]
      /\ tries' = [tries EXCEPT ![t] = 0] /\ steps' = steps
  BY DEF Execute, GoTo, planVars
<1>2. frame \in Job /\ frame.plan = p /\ frame.i = 1
  BY DEF Job
<1> HIDE DEF frame
<1>3. pc \in [Thread -> CallLabel] /\ job \in [Thread -> Job] /\ tries \in [Thread -> Nat]
  BY DEF IInv, ThreadsOK
<1>4. StepsOK' /\ AttemptsGrow
  BY <1>1, StepsUnchanged DEF IInv
<1>5. /\ ThreadsOK' /\ pc'[t] = "start" /\ job'[t] = frame /\ tries'[t] = 0
      /\ \A u \in Thread \ {t} : Untouched(u)
  BY <1>1, <1>2, <1>3 DEF ThreadsOK, CallLabel, Label, Untouched
<1>6. FrameOK(t)' /\ CountersOK(t)'
  BY <1>2, <1>5 DEF FrameOK, CountersOK, Running
<1> QED
  BY <1>4, <1>5, <1>6, OneThreadMoves

LEMMA StartKeeps ==
  ASSUME IInv, NEW t \in Thread, Start(t)
  PROVE  IInv'
<1> DEFINE p == job[t].plan
<1>1. p \in Plan /\ job[t].i = 1 /\ tries[t] = 0 /\ job' = job /\ tries' = tries
  BY DEF IInv, FrameOK, Start, historyVars
<1>2. pc \in [Thread -> CallLabel] /\ job \in [Thread -> Job] /\ tries \in [Thread -> Nat]
  BY DEF IInv, ThreadsOK
<1>3. StepsOf[p] \in Seq(PlannedStep)
  BY <1>1, OrchestratorConstants
<1>4. StepsOf[p] # <<>> => job[t].i \in DOMAIN StepsOf[p]
  BY <1>1, <1>3
<1>5. CASE Executable(p)
  <2>1. pc' = [pc EXCEPT ![t] = "precheck"] /\ steps' = steps
    BY <1>5 DEF Start, GoTo, ThePlan
  <2>2. StepsOK' /\ AttemptsGrow
    BY <2>1, StepsUnchanged DEF IInv
  <2>3. /\ ThreadsOK' /\ pc'[t] = "precheck"
        /\ \A u \in Thread \ {t} : Untouched(u)
    BY <1>1, <1>2, <2>1 DEF ThreadsOK, CallLabel, Label, Untouched
  <2>4. job[t].i \in DOMAIN StepsOf[p]
    BY <1>4, <1>5 DEF Executable
  <2>5. FrameOK(t)'
    BY <1>1, <2>3, <2>4 DEF FrameOK, Running
  <2>6. StepsOf[p][job[t].i] \in PlannedStep /\ steps[p][job[t].i].attempts \in Nat
    BY <1>1, <2>4, PlannedStepType, StepStateType DEF IInv
  <2>7. Planned(t)'.max_retries \in Nat /\ TheStep(t)'.attempts \in Nat
    BY <1>1, <2>1, <2>6 DEF PlannedStep, Planned, TheStep
  <2>8. CountersOK(t)'
    BY <1>1, <2>3, <2>7 DEF CountersOK
  <2> QED
    BY <2>2, <2>3, <2>5, <2>8, OneThreadMoves
<1>6. CASE ~ Executable(p)
  <2>1. pc' = [pc EXCEPT ![t] = "done"]
    BY <1>6 DEF Start, GoTo, ThePlan
  <2>2. /\ ThreadsOK' /\ pc'[t] = "done"
        /\ \A u \in Thread \ {t} : Untouched(u)
    BY <1>1, <1>2, <2>1 DEF ThreadsOK, CallLabel, Label, Untouched
  <2>3. FrameOK(t)' /\ CountersOK(t)'
    BY <1>1, <2>2 DEF FrameOK, CountersOK, Running
  <2>4. StepsOK' /\ AttemptsGrow
    <3>1. CASE StepsOf[p] = <<>>
      BY <1>6, <3>1, StepsUnchanged DEF Start, ThePlan, IInv
    <3>2. CASE StepsOf[p] # <<>>
      <4> DEFINE s == [TheStep(t) EXCEPT !.status = "DENIED", !.error = "VALIDATION",
                                         !.error_type = "validation"]
      <4>1. SetStep(t, s)
        BY <1>6, <3>2 DEF Start, ThePlan
      <4>2. TheStep(t) \in StepState /\ TheStep(t).attempts \in Nat
        BY <1>1, <1>4, <3>2, StepStateType DEF IInv, TheStep, StepsOK
      <4>3. s \in StepState /\ s.attempts = TheStep(t).attempts
        BY <4>2 DEF StepState
      <4> HIDE DEF s
      <4> QED
        BY <1>1, <1>4, <3>2, <4>1, <4>2, <4>3, SetStepKeeps
    <3> QED
      BY <3>1, <3>2
  <2> QED
    BY <2>2, <2>3, <2>4, OneThreadMoves
<1> QED
  BY <1>5, <1>6

(* The gates before the dispatch pass the step or deny it.                     *)
LEMMA GatesPassOrDeny ==
  ASSUME NEW t \in Thread,
         \/ Precheck(t) \/ CheckGuardian(t) \/ EvaluatePolicy(t)
         \/ CheckSandbox(t) \/ CheckNetwork(t)
  PROVE  /\ Running(t)
         /\ pc[t] \in {"precheck", "guardian", "policy", "sandbox", "network"}
         /\ \/ \E label \in {"guardian", "policy", "sandbox", "network", "dispatch"} :
                 Pass(t, label)
            \/ \E code \in Denial : Deny(t, code)
<1>1. CASE Precheck(t)
  BY <1>1 DEF Precheck, Denial, Running
<1>2. CASE CheckGuardian(t)
  BY <1>2 DEF CheckGuardian, Denial, Running
<1>3. CASE EvaluatePolicy(t)
  BY <1>3 DEF EvaluatePolicy, Denial, Running
<1>4. CASE CheckSandbox(t)
  BY <1>4 DEF CheckSandbox, Denial, Running
<1>5. CASE CheckNetwork(t)
  BY <1>5 DEF CheckNetwork, Denial, Running
<1> QED
  BY <1>1, <1>2, <1>3, <1>4, <1>5

LEMMA GatesKeep ==
  ASSUME IInv, NEW t \in Thread,
         \/ Precheck(t) \/ CheckGuardian(t) \/ EvaluatePolicy(t)
         \/ CheckSandbox(t) \/ CheckNetwork(t)
  PROVE  IInv'
<1>1. /\ Running(t)
      /\ pc[t] \in {"precheck", "guardian", "policy", "sandbox", "network"}
      /\ \/ \E label \in {"guardian", "policy", "sandbox", "network", "dispatch"} :
              Pass(t, label)
         \/ \E code \in Denial : Deny(t, code)
  BY GatesPassOrDeny
<1>2. tries[t] <= Planned(t).max_retries
  BY <1>1 DEF IInv, CountersOK
<1> QED
  BY <1>1, <1>2, PassKeeps, DenyKeeps

LEMMA DispatchKeeps ==
  ASSUME IInv, NEW t \in Thread, Dispatch(t)
  PROVE  IInv'
<1>1. /\ pc[t] = "dispatch" /\ Running(t) /\ job' = job
      /\ pc' = [pc EXCEPT ![t] = "settle"]
      /\ tries' = [tries EXCEPT ![t] = @ + 1]
  BY DEF Dispatch, GoTo, Running
<1>2. PICK o \in Outcome :
        SetStep(t, [TheStep(t) EXCEPT !.attempts = @ + 1, !.error = o,
                      !.status = IF o = "ok" THEN "SUCCEEDED" ELSE "FAILED"])
  BY DEF Dispatch
<1> DEFINE status == IF o = "ok" THEN "SUCCEEDED" ELSE "FAILED"
           n == TheStep(t).attempts + 1
           s == [TheStep(t) EXCEPT !.attempts = n, !.error = o, !.status = status]
<1>3. /\ job[t].plan \in Plan /\ job[t].i \in DOMAIN StepsOf[job[t].plan]
      /\ TheStep(t) \in StepState /\ TheStep(t).attempts \in Nat
      /\ Planned(t).max_retries \in Nat /\ tries[t] \in Nat
  BY <1>1, FrameType
<1>4. s \in StepState /\ s.attempts = n
  <2>1. status \in {"SUCCEEDED", "FAILED"} /\ n \in Nat
    BY <1>3
  <2> HIDE DEF status, n
  <2> QED
    BY <1>3, <2>1 DEF StepState
<1>5. SetStep(t, s)
  BY <1>2
<1> HIDE DEF s
<1>6. StepsOK' /\ AttemptsGrow /\ steps'[job[t].plan][job[t].i] = s
  BY <1>3, <1>4, <1>5, SetStepKeeps
<1>7. pc \in [Thread -> CallLabel] /\ job \in [Thread -> Job] /\ tries \in [Thread -> Nat]
  BY DEF IInv, ThreadsOK
<1>8. /\ ThreadsOK' /\ pc'[t] = "settle" /\ tries'[t] = tries[t] + 1
      /\ \A u \in Thread \ {t} : Untouched(u)
  BY <1>1, <1>7 DEF ThreadsOK, CallLabel, Label, Untouched
<1>9. FrameOK(t)'
  BY <1>1, <1>3, <1>8 DEF FrameOK, Running
<1>10. tries[t] <= TheStep(t).attempts /\ tries[t] <= Planned(t).max_retries
  BY <1>1 DEF IInv, CountersOK
<1>11. TheStep(t)' = s /\ Planned(t)' = Planned(t)
  BY <1>1, <1>6 DEF TheStep, Planned
<1>12. CountersOK(t)'
  BY <1>3, <1>4, <1>8, <1>10, <1>11 DEF CountersOK
<1> QED
  BY <1>6, <1>8, <1>9, <1>12, OneThreadMoves

LEMMA SettleKeeps ==
  ASSUME IInv, NEW t \in Thread, result[t] \in Outcome, Settle(t)
  PROVE  IInv'
<1> DEFINE e == IF result[t] = "ok" THEN "none" ELSE result[t]
           s == [TheStep(t) EXCEPT !.error_type = e]
<1>1. /\ pc[t] = "settle" /\ Running(t) /\ SetStep(t, s)
      /\ \/ NextStep(t, "ok")
         \/ pc' = [pc EXCEPT ![t] = "decide"] /\ job' = job /\ tries' = tries
  BY DEF Settle, Running, GoTo
<1>2. /\ job[t].plan \in Plan /\ job[t].i \in DOMAIN StepsOf[job[t].plan]
      /\ TheStep(t) \in StepState /\ TheStep(t).attempts \in Nat
  BY <1>1, FrameType
<1>3. s \in StepState /\ s.attempts = TheStep(t).attempts
  BY <1>2 DEF StepState, Outcome
<1> HIDE DEF s
<1>4. StepsOK' /\ AttemptsGrow /\ steps'[job[t].plan][job[t].i] = s
  BY <1>1, <1>2, <1>3, SetStepKeeps
<1>5. CASE NextStep(t, "ok")
  BY <1>1, <1>4, <1>5, NextStepKeeps
<1>6. CASE pc' = [pc EXCEPT ![t] = "decide"] /\ job' = job /\ tries' = tries
  <2>1. pc \in [Thread -> CallLabel] /\ job \in [Thread -> Job] /\ tries \in [Thread -> Nat]
    BY DEF IInv, ThreadsOK
  <2>2. /\ ThreadsOK' /\ pc'[t] = "decide"
        /\ \A u \in Thread \ {t} : Untouched(u)
    BY <1>6, <2>1 DEF ThreadsOK, CallLabel, Label, Untouched
  <2>3. FrameOK(t)'
    BY <1>2, <1>6, <2>2 DEF FrameOK, Running
  <2>4. TheStep(t)' = s /\ Planned(t)' = Planned(t)
    BY <1>4, <1>6 DEF TheStep, Planned
  <2>5. tries[t] <= TheStep(t).attempts /\ tries[t] <= Planned(t).max_retries + 1
    BY <1>1 DEF IInv, CountersOK
  <2>6. CountersOK(t)'
    BY <1>3, <1>6, <2>2, <2>4, <2>5 DEF CountersOK
  <2> QED
    BY <1>4, <2>2, <2>3, <2>6, OneThreadMoves
<1> QED
  BY <1>1, <1>5, <1>6

(* A retry is within bounds since the attempts it reads bound the tries.       *)
LEMMA DecideKeeps ==
  ASSUME IInv, NEW t \in Thread, Decide(t)
  PROVE  IInv'
<1>1. Running(t)
  BY DEF Decide, Running
<1>2. CASE Retries(t) /\ Pass(t, "dispatch")
  <2>1. /\ tries[t] <= TheStep(t).attempts
        /\ TheStep(t).attempts <= Planned(t).max_retries
    BY <1>1, <1>2 DEF IInv, CountersOK, Retries
  <2>2. /\ tries[t] \in Nat /\ TheStep(t).attempts \in Nat
        /\ Planned(t).max_retries \in Nat
    BY <1>1, FrameType
  <2>3. tries[t] <= Planned(t).max_retries
    BY <2>1, <2>2
  <2> QED
    BY <1>1, <1>2, <2>3, PassKeeps
<1>3. CASE (NextStep(t, "failed") \/ FailPlan(t, "failed")) /\ UNCHANGED steps
  <2>1. StepsOK' /\ AttemptsGrow
    BY <1>3, StepsUnchanged DEF IInv
  <2> QED
    BY <1>1, <1>3, <2>1, NextStepKeeps, FailPlanKeeps
<1> QED
  BY <1>2, <1>3 DEF Decide

LEMMA FrameIsLeft ==
  ASSUME IInv, NEW t \in Thread, Leave(t)
  PROVE  IInv'
<1>1. /\ pc' = [pc EXCEPT ![t] = "idle"] /\ job' = [job EXCEPT ![t] = NoJob]
      /\ tries' = tries /\ steps' = steps
  BY DEF Leave, GoTo, planVars, historyVars
<1>2. pc \in [Thread -> CallLabel] /\ job \in [Thread -> Job] /\ tries \in [Thread -> Nat]
  BY DEF IInv, ThreadsOK
<1>3. NoJob \in Job
  BY DEF Job
<1>4. /\ ThreadsOK' /\ pc'[t] = "idle"
      /\ \A u \in Thread \ {t} : Untouched(u)
  BY <1>1, <1>2, <1>3 DEF ThreadsOK, CallLabel, Label, Untouched
<1>5. FrameOK(t)' /\ CountersOK(t)'
  BY <1>4 DEF FrameOK, CountersOK, Running
<1>6. StepsOK' /\ AttemptsGrow
  BY <1>1, StepsUnchanged DEF IInv
<1> QED
  BY <1>4, <1>5, <1>6, OneThreadMoves

LEMMA OutsideKeeps ==
  ASSUME IInv, UNCHANGED <<pc, job, tries, steps>>
  PROVE  IInv'
  BY DEF IInv, StepsOK, ThreadsOK, FrameOK, CountersOK, Running, TheStep, Planned

-------------------------------------------------------------------------------
ResultsOK == result \in [Thread -> Outcome]

Inv == IInv /\ ResultsOK

LEMMA InvInit == Init => Inv
<1> SUFFICES ASSUME Init PROVE Inv
  OBVIOUS
<1>1. ASSUME NEW p \in Plan
      PROVE  /\ steps[p] \in Seq(StepState)
             /\ DOMAIN steps[p] = DOMAIN StepsOf[p]
  <2>1. StepsOf[p] \in Seq(PlannedStep)
    BY OrchestratorConstants
  <2>2. \A i \in DOMAIN StepsOf[p] : FreshStep(StepsOf[p][i]) \in StepState
    BY PlannedStepType DEF PlannedStep, FreshStep, StepState
  <2>3. steps[p] = [i \in 1 .. Len(StepsOf[p]) |-> FreshStep(StepsOf[p][i])]
    BY <2>1 DEF Init
  <2>4. Len(StepsOf[p]) \in Nat /\ DOMAIN StepsOf[p] = 1 .. Len(StepsOf[p])
    BY <2>1
  <2> HIDE DEF FreshStep
  <2> QED
    BY <2>2, <2>3, <2>4
<1>2. StepsOK
  BY <1>1 DEF Init, StepsOK
<1>3. ThreadsOK
  BY DEF Init, ThreadsOK, CallLabel, Label, Job
<1>4. \A t \in Thread : FrameOK(t) /\ CountersOK(t)
  BY DEF Init, FrameOK, CountersOK, Running
<1>5. ResultsOK
  BY DEF Init, ResultsOK, Outcome
<1> QED
  BY <1>2, <1>3, <1>4, <1>5 DEF Inv, IInv

LEMMA WorkKeepsInv ==
  ASSUME Inv, NEW t \in Thread, Work(t)
  PROVE  Inv'
<1>1. IInv /\ result \in [Thread -> Outcome] /\ result[t] \in Outcome
  BY DEF Inv, ResultsOK
<1>2. IInv'
  BY <1>1, StartKeeps, GatesKeep, DispatchKeeps, SettleKeeps, DecideKeeps DEF Work
<1>3. UNCHANGED result \/ \E o \in Outcome : result' = [result EXCEPT ![t] = o]
  BY DEF Work, Start, Precheck, CheckGuardian, EvaluatePolicy, CheckSandbox, CheckNetwork,
         Dispatch, Settle, Decide
<1> QED
  BY <1>1, <1>2, <1>3 DEF Inv, ResultsOK

LEMMA InvStep ==
  ASSUME Inv, [Next]_vars
  PROVE  Inv'
<1>1. IInv /\ ResultsOK
  BY DEF Inv
<1>2. ASSUME NEW t \in Thread, Work(t)
      PROVE  Inv'
  BY <1>2, WorkKeepsInv
<1>3. ASSUME NEW t \in Thread, Return(t) \/ Raise(t) \/ Call(t)
      PROVE  Inv'
  <2>1. IInv' /\ UNCHANGED result
    BY <1>1, <1>3, FrameIsLeft, ExecuteKeeps DEF Call, Return, Raise, Leave, Execute
  <2> QED
    BY <1>1, <2>1 DEF Inv, ResultsOK
<1>4. Environment \/ Tick \/ UNCHANGED vars => UNCHANGED <<pc, job, result, tries, steps>>
  BY DEF Environment, Administer, RegisterSkill, Tick, planVars, threadVars, historyVars,
         vars
<1>5. UNCHANGED <<pc, job, result, tries, steps>> => Inv'
  BY <1>1, OutsideKeeps DEF Inv, ResultsOK
<1> QED
  BY <1>2, <1>3, <1>4, <1>5 DEF Next

THEOREM ExecutionInvariant == Spec => []Inv
<1>1. Init => Inv
  BY InvInit
<1>2. Inv /\ [Next]_vars => Inv'
  BY InvStep
<1> QED
  BY <1>1, <1>2, PTL DEF Spec

(* max_retries bounds the dispatches of a step in one execution, however many  *)
(* workers execute the plan: core.py lines 618-629 over the shared attempts.   *)
THEOREM RetriesAreBounded == Spec => []RetriesBounded
<1>1. Inv => RetriesBounded
  BY DEF Inv, IInv, CountersOK, RetriesBounded
<1> QED
  BY <1>1, ExecutionInvariant, PTL

-------------------------------------------------------------------------------
\* The guardian's table as the orchestrator uses it.

PermissionsOK == permissions \in [Skill -> [Capability -> Caps!Expiry]]

LEMMA WriteRowKeeps ==
  ASSUME PermissionsOK, NEW s \in Skill, NEW c \in Capability,
         NEW e \in Caps!Expiry,
         permissions' = [permissions EXCEPT ![s][c] = e]
  PROVE  /\ PermissionsOK' /\ permissions'[s][c] = e
         /\ \A r \in Skill : \A d \in Capability :
              r # s \/ d # c => permissions'[r][d] = permissions[r][d]
<1>1. permissions[s] \in [Capability -> Caps!Expiry]
  BY DEF PermissionsOK
<1>2. [permissions[s] EXCEPT ![c] = e] \in [Capability -> Caps!Expiry]
  BY <1>1
<1>3. permissions' = [permissions EXCEPT ![s] = [permissions[s] EXCEPT ![c] = e]]
  BY DEF PermissionsOK
<1>4. PermissionsOK'
  BY <1>2, <1>3 DEF PermissionsOK
<1> QED
  BY <1>1, <1>3, <1>4 DEF PermissionsOK

(* Registering a skill only adds rows.                                         *)
LEMMA RegisterKeeps ==
  ASSUME PermissionsOK, NEW skills, permissions' = WithGrants(permissions, skills)
  PROVE  /\ PermissionsOK'
         /\ \A r \in Skill : \A d \in Capability :
              permissions[r][d] = Caps!Never => permissions'[r][d] = Caps!Never
  BY DEF PermissionsOK, WithGrants, Caps!Expiry

LEMMA PermissionsInit == Init => PermissionsOK
  BY DEF Init, WithGrants, PermissionsOK, Caps!NoPermissions, Caps!Expiry

(* check accepts a row without an expiry, whatever the clock says.             *)
LEMMA NeverIsAllowed ==
  ASSUME NEW s, NEW c, permissions[s][c] = Caps!Never
  PROVE  Caps!Allowed(s, c)
  BY DEF Caps!Allowed, Caps!Live

-------------------------------------------------------------------------------
\* Plan order: an execution never goes past a step it has to stop at, a plan is
\* RUNNING only while it is executed, and what is dispatched is permitted.

Fate == {"ok", "denied", "failed"}

(* What lies behind the step a thread is at.                                   *)
PastSound(t) ==
  /\ pc[t] = "start" => past[t] = <<>>
  /\ Running(t) =>
       /\ Len(past[t]) = job[t].i - 1
       /\ \A j \in DOMAIN past[t] :
            \/ past[t][j] = "ok"
            \/ job[t].allow_failure
            \/ past[t][j] = "failed" /\ StepsOf[ThePlan(t)][j].on_failure # "abort"

Typed ==
  /\ past \in [Thread -> Seq(Fate)]
  /\ planStatus \in [Plan -> {"PENDING", "RUNNING", "SUCCEEDED", "FAILED"}]

OrderInv ==
  /\ Typed
  /\ \A t \in Thread : PastSound(t)
  /\ RunningHasExecutor

-------------------------------------------------------------------------------
(* The plan of thread t and its status move together, or t leaves a plan as it *)
(* is: in its start, in its end, or by an exception.                           *)
Starts(t) == pc[t] = "start" /\ pc'[t] = "precheck"

StatusMoves(t) ==
  \/ /\ planStatus' = planStatus /\ ~ Starts(t)
     /\ Running(t) => Running(t)' /\ job'[t].plan = job[t].plan
  \/ /\ \E s \in {"SUCCEEDED", "FAILED"} :
          planStatus' = [planStatus EXCEPT ![job[t].plan] = s]
     /\ job'[t].plan = job[t].plan
  \/ /\ planStatus' = [planStatus EXCEPT ![job[t].plan] = "RUNNING"]
     /\ Running(t)' /\ job'[t].plan = job[t].plan
  \/ /\ planStatus' = planStatus
     /\ pc[t] \in {"guardian", "sandbox", "network", "decide"} /\ pc'[t] = "idle"

(* All a step of thread t does to the three: nothing to other threads.         *)
OneThread(t) ==
  /\ \A u \in Thread \ {t} : pc'[u] = pc[u] /\ job'[u] = job[u] /\ past'[u] = past[u]
  /\ past' \in [Thread -> Seq(Fate)]
  /\ PastSound(t)'
  /\ StatusMoves(t)

\* A plan an exception left stays in abandoned while it is RUNNING and not started.
LEMMA AbandonedStays ==
  ASSUME WatchExits, NEW p \in Plan, planStatus'[p] = "RUNNING",
         \A u \in Thread : Starts(u) => job[u].plan # p,
         \/ p \in abandoned
         \/ \E u \in Thread : /\ pc[u] \in {"guardian", "sandbox", "network", "decide"}
                             /\ pc'[u] = "idle" /\ job[u].plan = p
  PROVE  p \in abandoned'
  BY DEF WatchExits, Starts, ThePlan

LEMMA OneThreadKeeps ==
  ASSUME Inv, OrderInv, NEW t \in Thread, OneThread(t), WatchExits
  PROVE  OrderInv'
<1>1. \A u \in Thread \ {t} : PastSound(u)'
  BY DEF OneThread, OrderInv, PastSound, Running, ThePlan
<1>2. \A u \in Thread : PastSound(u)'
  BY <1>1 DEF OneThread
<1>3. Typed'
  BY DEF OneThread, StatusMoves, OrderInv, Typed
<1>4. RunningHasExecutor'
  <2> SUFFICES ASSUME NEW p \in Plan, planStatus'[p] = "RUNNING"
               PROVE  (\E u \in Thread : Running(u)' /\ job'[u].plan = p) \/ p \in abandoned'
    BY DEF RunningHasExecutor, ThePlan
  <2>1. planStatus \in [Plan -> {"PENDING", "RUNNING", "SUCCEEDED", "FAILED"}]
    BY DEF OrderInv, Typed
  <2>2. \A u \in Thread \ {t} : pc'[u] = pc[u] /\ job'[u] = job[u] /\ ~ Starts(u)
    BY DEF OneThread, Starts
  <2>3. CASE planStatus[p] # "RUNNING"
    BY <2>1, <2>3 DEF OneThread, StatusMoves
  <2>4. CASE Starts(t) /\ job[t].plan = p
    BY <2>1, <2>4 DEF OneThread, StatusMoves, Starts, Running
  <2>5. CASE planStatus[p] = "RUNNING" /\ ~ (Starts(t) /\ job[t].plan = p)
    <3>1. \A u \in Thread : Starts(u) => job[u].plan # p
      BY <2>2, <2>5
    <3>2. CASE p \in abandoned
      BY <3>1, <3>2, AbandonedStays
    <3>3. CASE \E u \in Thread \ {t} : Running(u) /\ job[u].plan = p
      BY <2>2, <3>3 DEF Running
    <3>4. CASE Running(t) /\ job[t].plan = p
      <4>1. CASE Running(t)' /\ job'[t].plan = job[t].plan
        BY <3>4, <4>1
      <4>2. CASE pc[t] \in {"guardian", "sandbox", "network", "decide"} /\ pc'[t] = "idle"
        BY <3>1, <3>4, <4>2, AbandonedStays
      <4>3. ~ \E r \in {"SUCCEEDED", "FAILED"} :
                planStatus' = [planStatus EXCEPT ![job[t].plan] = r]
        BY <2>1, <3>4
      <4> QED
        BY <3>4, <4>1, <4>2, <4>3 DEF OneThread, StatusMoves
    <3> QED
      BY <2>5, <3>2, <3>3, <3>4 DEF OrderInv, RunningHasExecutor, ThePlan
  <2> QED
    BY <2>3, <2>4, <2>5
<1> QED
  BY <1>2, <1>3, <1>4 DEF OrderInv

-------------------------------------------------------------------------------
(* The fates an execution may leave behind.                                    *)
Excused(t, fate) ==
  \/ fate = "ok"
  \/ job[t].allow_failure
  \/ fate = "failed" /\ Planned(t).on_failure # "abort"

LEMMA ThreadTypes ==
  ASSUME Inv
  PROVE  /\ pc \in [Thread -> CallLabel] /\ job \in [Thread -> Job]
         /\ tries \in [Thread -> Nat]
  BY DEF Inv, IInv, ThreadsOK

LEMMA NextStepMoves ==
  ASSUME Inv, OrderInv, NEW t \in Thread, Running(t), NEW fate \in Fate, Excused(t, fate),
         NextStep(t, fate)
  PROVE  OneThread(t)
<1> DEFINE n == Len(StepsOf[job[t].plan])
<1>1. /\ job[t] \in [plan : Plan, i : Nat, allow_failure : BOOLEAN]
      /\ job[t].plan \in Plan /\ job[t].i \in 1 .. n
  BY FrameType DEF Inv
<1>2. pc \in [Thread -> CallLabel] /\ job \in [Thread -> Job] /\ past \in [Thread -> Seq(Fate)]
  BY ThreadTypes DEF OrderInv, Typed
<1>3. past' = [past EXCEPT ![t] = Append(@, fate)]
  BY DEF NextStep
<1>4. past'[t] = Append(past[t], fate) /\ past' \in [Thread -> Seq(Fate)]
  BY <1>2, <1>3
<1>5. CASE job[t].i < n
  <2>1. /\ job' = [job EXCEPT ![t].i = @ + 1]
        /\ pc' = [pc EXCEPT ![t] = "precheck"] /\ planStatus' = planStatus
    BY <1>5 DEF NextStep, GoTo, ThePlan
  <2>2. \A u \in Thread \ {t} : pc'[u] = pc[u] /\ job'[u] = job[u] /\ past'[u] = past[u]
    BY <1>2, <1>3, <2>1
  <2>3. job'[t] = [job[t] EXCEPT !.i = job[t].i + 1] /\ pc'[t] = "precheck"
    BY <1>2, <2>1
  <2>4. /\ job'[t].plan = job[t].plan /\ job'[t].i = job[t].i + 1
        /\ job'[t].allow_failure = job[t].allow_failure
    BY <1>1, <2>3
  <2>5. /\ Len(past[t]) = job[t].i - 1 /\ past[t] \in Seq(Fate)
        /\ \A j \in DOMAIN past[t] :
             \/ past[t][j] = "ok"
             \/ job[t].allow_failure
             \/ past[t][j] = "failed" /\ StepsOf[job[t].plan][j].on_failure # "abort"
    BY <1>2 DEF OrderInv, PastSound, ThePlan
  <2>6. /\ Len(past'[t]) = job[t].i /\ past'[t][job[t].i] = fate
        /\ DOMAIN past'[t] = 1 .. job[t].i
        /\ \A j \in 1 .. job[t].i - 1 : j \in DOMAIN past[t] /\ past'[t][j] = past[t][j]
    BY <1>1, <1>4, <2>5
  <2>7. Len(past'[t]) = job'[t].i - 1
    BY <1>1, <2>4, <2>6
  <2>8. ASSUME NEW j \in DOMAIN past'[t]
        PROVE  \/ past'[t][j] = "ok"
               \/ job'[t].allow_failure
               \/ past'[t][j] = "failed" /\ StepsOf[job'[t].plan][j].on_failure # "abort"
    <3>1. CASE j = job[t].i
      BY <2>4, <2>6, <3>1 DEF Excused, Planned
    <3>2. CASE j # job[t].i
      <4>1. j \in 1 .. job[t].i - 1
        BY <1>1, <2>6, <3>2
      <4> QED
        BY <2>4, <2>5, <2>6, <4>1
    <3> QED
      BY <3>1, <3>2
  <2>9. PastSound(t)'
    BY <2>3, <2>7, <2>8 DEF PastSound, ThePlan
  <2>10. StatusMoves(t)
    BY <2>1, <2>3, <2>4 DEF StatusMoves, Starts, Running
  <2> QED
    BY <1>4, <2>2, <2>9, <2>10 DEF OneThread
<1>6. CASE ~ (job[t].i < n)
  <2>1. /\ job' = job /\ pc' = [pc EXCEPT ![t] = "done"]
        /\ planStatus' = [planStatus EXCEPT ![job[t].plan] = "SUCCEEDED"]
    BY <1>6 DEF NextStep, GoTo, ThePlan, SetPlan
  <2>2. pc'[t] = "done"
        /\ \A u \in Thread \ {t} : pc'[u] = pc[u] /\ job'[u] = job[u] /\ past'[u] = past[u]
    BY <1>2, <1>3, <2>1
  <2>3. PastSound(t)'
    BY <2>2 DEF PastSound, Running
  <2> QED
    BY <1>4, <2>1, <2>2, <2>3 DEF OneThread, StatusMoves
<1> QED
  BY <1>5, <1>6

LEMMA FailPlanMoves ==
  ASSUME Inv, OrderInv, NEW t \in Thread, NEW fate \in Fate, FailPlan(t, fate)
  PROVE  OneThread(t)
<1>1. pc \in [Thread -> CallLabel] /\ past \in [Thread -> Seq(Fate)]
  BY ThreadTypes DEF OrderInv, Typed
<1>2. /\ past' = [past EXCEPT ![t] = Append(@, fate)] /\ job' = job
      /\ pc' = [pc EXCEPT ![t] = "done"]
      /\ planStatus' = [planStatus EXCEPT ![job[t].plan] = "FAILED"]
  BY DEF FailPlan, GoTo, SetPlan, ThePlan
<1>3. /\ past' \in [Thread -> Seq(Fate)] /\ pc'[t] = "done"
      /\ \A u \in Thread \ {t} : pc'[u] = pc[u] /\ job'[u] = job[u] /\ past'[u] = past[u]
  BY <1>1, <1>2
<1>4. PastSound(t)'
  BY <1>3 DEF PastSound, Running
<1> QED
  BY <1>2, <1>3, <1>4 DEF OneThread, StatusMoves

(* A thread that goes on within a step.                                        *)
LEMMA StaysMoves ==
  ASSUME Inv, OrderInv, NEW t \in Thread, Running(t),
         NEW label \in {"guardian", "policy", "sandbox", "network", "dispatch", "settle",
                        "decide"},
         GoTo(t, label), UNCHANGED <<planStatus, job, past>>
  PROVE  OneThread(t)
<1>1. pc \in [Thread -> CallLabel] /\ past \in [Thread -> Seq(Fate)]
  BY ThreadTypes DEF OrderInv, Typed
<1>2. pc' = [pc EXCEPT ![t] = label] /\ job' = job /\ past' = past /\ planStatus' = planStatus
  BY DEF GoTo
<1>3. pc'[t] = label /\ \A u \in Thread \ {t} : pc'[u] = pc[u]
  BY <1>1, <1>2
<1>4. PastSound(t)'
  BY <1>2, <1>3 DEF OrderInv, PastSound, Running, ThePlan
<1> QED
  BY <1>1, <1>2, <1>3, <1>4 DEF OneThread, StatusMoves, Starts, Running

-------------------------------------------------------------------------------
LEMMA DenyMoves ==
  ASSUME Inv, OrderInv, NEW t \in Thread, Running(t), NEW code, Deny(t, code)
  PROVE  OneThread(t)
<1>1. CASE job[t].allow_failure
  <2>1. NextStep(t, "denied") /\ Excused(t, "denied") /\ "denied" \in Fate
    BY <1>1 DEF Deny, Excused, Fate
  <2> QED
    BY <2>1, NextStepMoves
<1>2. CASE ~ job[t].allow_failure
  <2>1. FailPlan(t, "denied") /\ "denied" \in Fate
    BY <1>2 DEF Deny, Fate
  <2> QED
    BY <2>1, FailPlanMoves
<1> QED
  BY <1>1, <1>2

LEMMA StartMoves ==
  ASSUME Inv, OrderInv, NEW t \in Thread, Start(t)
  PROVE  OneThread(t)
<1>1. /\ pc[t] = "start" /\ job' = job /\ past' = past
      /\ \/ /\ pc' = [pc EXCEPT ![t] = "precheck"]
            /\ planStatus' = [planStatus EXCEPT ![job[t].plan] = "RUNNING"]
         \/ /\ pc' = [pc EXCEPT ![t] = "done"]
            /\ planStatus' = [planStatus EXCEPT ![job[t].plan] = "FAILED"]
  BY DEF Start, historyVars, GoTo, SetPlan, ThePlan
<1>2. pc \in [Thread -> CallLabel] /\ past \in [Thread -> Seq(Fate)]
  BY ThreadTypes DEF OrderInv, Typed
<1>3. past[t] = <<>> /\ job[t].i = 1
  BY <1>1 DEF OrderInv, PastSound, Inv, IInv, FrameOK
<1>4. pc'[t] \in {"precheck", "done"} /\ \A u \in Thread \ {t} : pc'[u] = pc[u]
  BY <1>1, <1>2
<1>5. PastSound(t)'
  <2>1. Len(past[t]) = 0 /\ DOMAIN past[t] = {}
    BY <1>3
  <2> QED
    BY <1>1, <1>3, <1>4, <2>1 DEF PastSound
<1>6. StatusMoves(t)
  BY <1>1, <1>2 DEF StatusMoves, Running
<1> QED
  BY <1>1, <1>2, <1>4, <1>5, <1>6 DEF OneThread

LEMMA WorkMoves ==
  ASSUME Inv, OrderInv, NEW t \in Thread, Work(t)
  PROVE  OneThread(t)
<1>1. CASE Start(t)
  BY <1>1, StartMoves
<1>2. CASE \/ Precheck(t) \/ CheckGuardian(t) \/ EvaluatePolicy(t)
           \/ CheckSandbox(t) \/ CheckNetwork(t)
  <2>1. /\ Running(t)
        /\ \/ \E label \in {"guardian", "policy", "sandbox", "network", "dispatch"} :
                Pass(t, label)
           \/ \E code \in Denial : Deny(t, code)
    BY <1>2, GatesPassOrDeny
  <2> QED
    BY <2>1, StaysMoves, DenyMoves DEF Pass
<1>3. CASE Dispatch(t)
  <2>1. Running(t) /\ GoTo(t, "settle") /\ UNCHANGED <<planStatus, job, past>>
    BY <1>3 DEF Dispatch, Running
  <2> QED
    BY <2>1, StaysMoves
<1>4. CASE Settle(t)
  <2>1. Running(t)
    BY <1>4 DEF Settle, Running
  <2>2. \/ NextStep(t, "ok")
        \/ GoTo(t, "decide") /\ UNCHANGED <<planStatus, job, past>>
    BY <1>4 DEF Settle
  <2>3. Excused(t, "ok") /\ "ok" \in Fate
    BY DEF Excused, Fate
  <2> QED
    BY <2>1, <2>2, <2>3, StaysMoves, NextStepMoves
<1>5. CASE Decide(t)
  <2>1. Running(t) /\ "failed" \in Fate
    BY <1>5 DEF Decide, Running, Fate
  <2>2. \/ Pass(t, "dispatch")
        \/ Excused(t, "failed") /\ NextStep(t, "failed")
        \/ FailPlan(t, "failed")
    BY <1>5 DEF Decide, Continues, Excused
  <2> QED
    BY <2>1, <2>2, StaysMoves, NextStepMoves, FailPlanMoves DEF Pass
<1> QED
  BY <1>1, <1>2, <1>3, <1>4, <1>5 DEF Work

LEMMA CallsMove ==
  ASSUME Inv, OrderInv, NEW t \in Thread, Return(t) \/ Raise(t) \/ Call(t)
  PROVE  OneThread(t)
<1>1. /\ pc \in [Thread -> CallLabel] /\ job \in [Thread -> Job]
      /\ past \in [Thread -> Seq(Fate)]
  BY ThreadTypes DEF OrderInv, Typed
<1>2. CASE Return(t) \/ Raise(t)
  <2>1. /\ pc[t] \in {"done", "guardian", "sandbox", "network", "decide"}
        /\ pc' = [pc EXCEPT ![t] = "idle"]
        /\ job' = [job EXCEPT ![t] = NoJob] /\ past' = past /\ planStatus' = planStatus
    BY <1>2 DEF Return, Raise, Raises, Leave, GoTo, planVars, historyVars
  <2>2. /\ pc'[t] = "idle"
        /\ \A u \in Thread \ {t} : pc'[u] = pc[u] /\ job'[u] = job[u] /\ past'[u] = past[u]
    BY <1>1, <2>1
  <2>3. PastSound(t)' /\ StatusMoves(t)
    BY <2>1, <2>2 DEF PastSound, Running, StatusMoves, Starts
  <2> QED
    BY <1>1, <2>1, <2>2, <2>3 DEF OneThread
<1>3. CASE Call(t)
  <2>1. /\ pc[t] = "idle" /\ pc' = [pc EXCEPT ![t] = "start"]
        /\ \E frame : job' = [job EXCEPT ![t] = frame]
        /\ past' = [past EXCEPT ![t] = <<>>] /\ planStatus' = planStatus
    BY <1>3 DEF Call, Execute, GoTo, planVars
  <2>2. <<>> \in Seq(Fate)
    OBVIOUS
  <2>3. /\ pc'[t] = "start" /\ past'[t] = <<>> /\ past' \in [Thread -> Seq(Fate)]
        /\ \A u \in Thread \ {t} : pc'[u] = pc[u] /\ job'[u] = job[u] /\ past'[u] = past[u]
    BY <1>1, <2>1, <2>2
  <2>4. PastSound(t)' /\ StatusMoves(t)
    BY <2>1, <2>3 DEF PastSound, Running, StatusMoves, Starts
  <2> QED
    BY <2>3, <2>4 DEF OneThread
<1> QED
  BY <1>2, <1>3

-------------------------------------------------------------------------------
LEMMA OrderInit == Init => OrderInv
<1> SUFFICES ASSUME Init PROVE OrderInv
  OBVIOUS
<1>1. <<>> \in Seq(Fate)
  OBVIOUS
<1>2. Typed /\ \A t \in Thread : PastSound(t)
  BY <1>1 DEF Init, Typed, PastSound, Running
<1>3. RunningHasExecutor
  BY DEF Init, RunningHasExecutor
<1> QED
  BY <1>2, <1>3 DEF OrderInv

LEMMA OrderStep ==
  ASSUME Inv, OrderInv, [Next]_vars
  PROVE  OrderInv'
<1>1. ASSUME NEW t \in Thread, Work(t) \/ Return(t) \/ Raise(t) \/ Call(t), WatchExits
      PROVE  OrderInv'
  BY <1>1, WorkMoves, CallsMove, OneThreadKeeps
<1>2. Environment \/ Tick \/ UNCHANGED vars => UNCHANGED <<pc, job, past, planStatus>>
  BY DEF Environment, Administer, RegisterSkill, Tick, planVars, threadVars, historyVars,
         vars
<1>3. ASSUME UNCHANGED <<pc, job, past, planStatus>>, WatchExits \/ UNCHANGED abandoned
      PROVE  OrderInv'
  <2>1. Typed' /\ \A t \in Thread : PastSound(t)'
    BY <1>3 DEF OrderInv, Typed, PastSound, Running, ThePlan
  <2>2. \A p \in abandoned : p \in Plan /\ planStatus[p] = "RUNNING" => p \in abandoned'
    BY <1>3, AbandonedStays DEF Starts
  <2>3. RunningHasExecutor'
    BY <1>3, <2>2 DEF OrderInv, RunningHasExecutor, Running, ThePlan
  <2> QED
    BY <2>1, <2>3 DEF OrderInv
<1>4. UNCHANGED vars => UNCHANGED abandoned
  BY DEF vars
<1> QED
  BY <1>1, <1>2, <1>3, <1>4 DEF Next

LEMMA OrderInvariant == Spec => []OrderInv
<1>1. Inv /\ OrderInv /\ [Next]_vars => OrderInv'
  BY OrderStep
<1> QED
  BY <1>1, OrderInit, ExecutionInvariant, PTL DEF Spec

(* No execution goes past a step that failed under on_failure "abort", or that *)
(* was denied, unless allow_failure was asked for.                             *)
THEOREM AbortsAreFinal == Spec => []AbortIsFinal
<1>1. OrderInv => AbortIsFinal
  BY DEF OrderInv, PastSound, AbortIsFinal
<1> QED
  BY <1>1, OrderInvariant, PTL

(* A plan whose status is RUNNING is being executed, or was left so by an      *)
(* exception in its last execution: core.py:509, 525, 556, 628.                *)
THEOREM RunningIsExecuted == Spec => []RunningHasExecutor
<1>1. OrderInv => RunningHasExecutor
  BY DEF OrderInv
<1> QED
  BY <1>1, OrderInvariant, PTL

-------------------------------------------------------------------------------
\* What the guardian permitted stays permitted, or the row it rested on has ended.

Authorised(t) ==
  LET skill == Planned(t).skill
  IN  /\ Relies(pc[t]) => Permitted(t, Planned(t).action)
      /\ pc[t] \in {"network", "dispatch", "settle", "decide"}
           => /\ Tier[skill] = 2 => Permitted(t, "container")
              /\ Tier[skill] = 3 => Permitted(t, "airgapped")
      /\ pc[t] \in {"dispatch", "settle", "decide"} /\ NeedsNetwork(t)
           => Permitted(t, "network")

AuthorityInv == PermissionsOK /\ now \in Nat /\ \A t \in Thread : Authorised(t)

(* A capability goes only with a row of it that ends.                          *)
LEMMA AllowedOrEnded ==
  ASSUME NEW s \in Skill, NEW a \in Capability, Caps!Allowed(s, a)
  PROVE  Caps!Allowed(s, a)' \/ Ended(s) \cap {a, "all", "none"} # {}
<1>1. PICK c \in {a, "all", "none"} : Caps!Live(permissions[s][c], now)
  BY DEF Caps!Allowed
<1>2. c \in Capability
  BY DEF Capability
<1>3. CASE Caps!Live(permissions'[s][c], now')
  BY <1>3 DEF Caps!Allowed
<1>4. CASE ~ Caps!Live(permissions'[s][c], now')
  BY <1>1, <1>2, <1>4 DEF Ended
<1> QED
  BY <1>3, <1>4

LEMMA StillPermitted ==
  ASSUME WatchRows, NEW t \in Thread, Relies(pc'[t]),
         job'[t] = job[t], Planned(t).skill \in Skill, NEW a \in Capability, Permitted(t, a)
  PROVE  Permitted(t, a)'
<1>1. lost'[t] = lost[t] \cup Ended(Planned(t).skill)
  BY DEF WatchRows
<1>2. Planned(t)' = Planned(t)
  BY DEF Planned
<1>3. CASE lost[t] \cap {a, "all", "none"} # {}
  BY <1>1, <1>3 DEF Permitted
<1>4. CASE Caps!Allowed(Planned(t).skill, a)
  BY <1>1, <1>2, <1>4, AllowedOrEnded DEF Permitted
<1> QED
  BY <1>3, <1>4 DEF Permitted

LEMMA PlannedPair ==
  ASSUME Inv, NEW t \in Thread, Running(t)
  PROVE  /\ Planned(t).skill \in Skill /\ Planned(t).action \in Capability
         /\ {"container", "airgapped", "network"} \subseteq Capability
  BY FrameType DEF Inv, PlannedStep, Capability

LEMMA LoopIsNoDispatch ==
  ASSUME Inv, NEW t \in Thread, NEW fate, NextStep(t, fate) \/ FailPlan(t, fate)
  PROVE  Authorised(t)'
<1>1. pc'[t] \in {"precheck", "done"}
  BY ThreadTypes DEF NextStep, FailPlan, GoTo
<1> QED
  BY <1>1 DEF Authorised, Relies

(* A thread that goes on to a label is permitted what the checks before that   *)
(* label ask for.                                                              *)
LEMMA PassAuthorises ==
  ASSUME Inv, WatchRows,
         NEW t \in Thread, NEW label, pc'[t] = label, job'[t] = job[t], Running(t),
         Relies(label) => Permitted(t, Planned(t).action),
         label \in {"network", "dispatch", "settle", "decide"}
           => /\ Tier[Planned(t).skill] = 2 => Permitted(t, "container")
              /\ Tier[Planned(t).skill] = 3 => Permitted(t, "airgapped"),
         label \in {"dispatch", "settle", "decide"} /\ NeedsNetwork(t)
           => Permitted(t, "network")
  PROVE  Authorised(t)'
<1>1. Planned(t)' = Planned(t) /\ NeedsNetwork(t)' = NeedsNetwork(t)
  BY DEF Planned, NeedsNetwork
<1>2. CASE Relies(label)
  <2>1. \A a \in Capability : Permitted(t, a) => Permitted(t, a)'
    BY <1>2, PlannedPair, StillPermitted
  <2> QED
    BY <1>1, <2>1, PlannedPair DEF Authorised
<1>3. CASE ~ Relies(label)
  BY <1>3 DEF Authorised, Relies
<1> QED
  BY <1>2, <1>3

(* A thread that stays where it is keeps what it was permitted.                *)
LEMMA StillAuthorised ==
  ASSUME Inv, AuthorityInv, WatchRows,
         NEW u \in Thread, pc'[u] = pc[u], job'[u] = job[u]
  PROVE  Authorised(u)'
<1>1. CASE Running(u)
  BY <1>1, PassAuthorises DEF AuthorityInv, Authorised
<1>2. CASE ~ Running(u)
  BY <1>2 DEF Authorised, Relies, Running
<1> QED
  BY <1>1, <1>2

LEMMA WorkAuthorised ==
  ASSUME Inv, AuthorityInv, NEW t \in Thread, Work(t), WatchRows
  PROVE  Authorised(t)' /\ UNCHANGED permissions
<1>1. UNCHANGED permissions
  BY DEF Work, Start, Precheck, CheckGuardian, EvaluatePolicy, CheckSandbox, CheckNetwork,
         Dispatch, Settle, Decide
<1>2. Authorised(t) /\ PermissionsOK /\ PermissionsOK'
  BY <1>1 DEF AuthorityInv, PermissionsOK
<1>3. ASSUME NEW code, Deny(t, code)
      PROVE  Authorised(t)'
  BY <1>3, LoopIsNoDispatch DEF Deny
<1>4. ASSUME NEW label, GoTo(t, label)
      PROVE  pc'[t] = label
  BY <1>4, ThreadTypes DEF GoTo
<1>5. CASE Start(t)
  <2>1. pc'[t] \in {"precheck", "done"}
    BY <1>5, ThreadTypes DEF Start, GoTo
  <2> QED
    BY <1>1, <2>1 DEF Authorised, Relies
<1>6. CASE Precheck(t)
  <2>1. CASE Pass(t, "guardian")
    <3>1. pc'[t] = "guardian"
      BY <1>4, <2>1 DEF Pass
    <3> QED
      BY <1>1, <3>1 DEF Authorised, Relies
  <2> QED
    BY <1>1, <1>3, <1>6, <2>1 DEF Precheck
<1>7. CASE CheckGuardian(t)
  <2>1. CASE Caps!Allowed(Planned(t).skill, Planned(t).action) /\ Pass(t, "policy")
    BY <1>2, <1>4, <1>7, <2>1, PassAuthorises DEF CheckGuardian, Pass, Running, Permitted
  <2> QED
    BY <1>3, <1>7, <2>1 DEF CheckGuardian
<1>8. CASE EvaluatePolicy(t)
  <2>1. CASE Pass(t, "sandbox")
    BY <1>2, <1>4, <1>8, <2>1, PassAuthorises
       DEF EvaluatePolicy, Pass, Running, Authorised, Relies
  <2> QED
    BY <1>3, <1>8, <2>1 DEF EvaluatePolicy
<1>9. CASE CheckSandbox(t)
  <2> DEFINE skill == Planned(t).skill
             granted == /\ Tier[skill] = 2 => Permitted(t, "container")
                        /\ Tier[skill] = 3 => Permitted(t, "airgapped")
  <2>1. /\ pc[t] = "sandbox" /\ Running(t)
        /\ \/ granted /\ NeedsNetwork(t) /\ Pass(t, "network")
           \/ granted /\ ~ NeedsNetwork(t) /\ Pass(t, "dispatch")
           \/ \E code : Deny(t, code)
    BY <1>9 DEF CheckSandbox, Running, Permitted
  <2>2. Permitted(t, Planned(t).action)
    BY <1>2, <2>1 DEF Authorised, Relies
  <2>3. CASE granted /\ NeedsNetwork(t) /\ Pass(t, "network")
    BY <1>1, <1>2, <1>4, <2>1, <2>2, <2>3, PassAuthorises DEF Pass
  <2>4. CASE granted /\ ~ NeedsNetwork(t) /\ Pass(t, "dispatch")
    BY <1>1, <1>2, <1>4, <2>1, <2>2, <2>4, PassAuthorises DEF Pass
  <2> QED
    BY <1>1, <1>3, <2>1, <2>3, <2>4
<1>10. CASE CheckNetwork(t)
  <2>1. CASE Caps!Allowed(Planned(t).skill, "network") /\ Pass(t, "dispatch")
    BY <1>2, <1>4, <1>10, <2>1, PassAuthorises
       DEF CheckNetwork, Pass, Running, Authorised, Relies, Permitted
  <2> QED
    BY <1>3, <1>10, <2>1 DEF CheckNetwork
<1>11. CASE Dispatch(t)
  BY <1>2, <1>4, <1>11, PassAuthorises DEF Dispatch, Running, Authorised, Relies
<1>12. CASE Settle(t)
  <2>1. CASE GoTo(t, "decide") /\ UNCHANGED job
    BY <1>2, <1>4, <1>12, <2>1, PassAuthorises DEF Settle, Running, Authorised, Relies
  <2> QED
    BY <1>12, <2>1, LoopIsNoDispatch DEF Settle
<1>13. CASE Decide(t)
  <2>1. CASE Pass(t, "dispatch")
    BY <1>2, <1>4, <1>13, <2>1, PassAuthorises DEF Decide, Pass, Running, Authorised, Relies
  <2> QED
    BY <1>13, <2>1, LoopIsNoDispatch DEF Decide
<1> QED
  BY <1>1, <1>5, <1>6, <1>7, <1>8, <1>9, <1>10, <1>11, <1>12, <1>13 DEF Work

(* Administration and registration write whole rows, and move no execution.    *)
LEMMA EnvironmentWrites ==
  ASSUME PermissionsOK, now \in Nat, Environment
  PROVE  PermissionsOK' /\ UNCHANGED <<pc, job>>
<1>1. UNCHANGED <<pc, job>>
  BY DEF Environment, Administer, RegisterSkill, threadVars
<1>2. ASSUME NEW row \in Skill \X Capability, NEW e \in Caps!Expiry,
             Caps!WritePermission(row[1], row[2], e)
      PROVE  PermissionsOK'
  BY <1>2, WriteRowKeeps DEF Caps!WritePermission
<1>3. ASSUME Administer
      PROVE  PermissionsOK'
  <2>1. PICK row \in Skill \X Capability :
          \/ Caps!Grant(row[1], row[2])
          \/ \E hours \in Nat : Caps!GrantFor(row[1], row[2], hours)
          \/ Caps!Revoke(row[1], row[2])
    BY <1>3, OrchestratorConstants DEF Administer
  <2>2. {Caps!Absent, Caps!Never} \subseteq Caps!Expiry
        /\ \A hours \in Nat : now + hours \in Caps!Expiry
    BY DEF Caps!Expiry
  <2> QED
    <3>1. ASSUME NEW hours \in Nat, Caps!GrantFor(row[1], row[2], hours)
          PROVE  PermissionsOK'
      BY <1>2, <2>2, <3>1 DEF Caps!GrantFor
    <3> QED
      BY <1>2, <2>1, <2>2, <3>1 DEF Caps!Grant, Caps!Revoke
<1>4. ASSUME NEW s \in Skill, RegisterSkill(s)
      PROVE  PermissionsOK'
  BY <1>4, RegisterKeeps DEF RegisterSkill
<1> QED
  BY <1>1, <1>3, <1>4 DEF Environment

LEMMA AuthorityStands ==
  ASSUME AuthorityInv, UNCHANGED vars
  PROVE  AuthorityInv'
<1>1. UNCHANGED <<permissions, pc, job, lost, now>>
  BY DEF vars
<1>2. \A u : \A a : Permitted(u, a)' = Permitted(u, a)
  BY <1>1 DEF Permitted, Planned, Caps!Allowed, Caps!Live
<1>3. ASSUME NEW u \in Thread
      PROVE  Authorised(u)'
  <2>1. Planned(u)' = Planned(u) /\ NeedsNetwork(u)' = NeedsNetwork(u)
    BY <1>1 DEF Planned, NeedsNetwork
  <2> QED
    BY <1>1, <1>2, <2>1 DEF AuthorityInv, Authorised
<1> QED
  BY <1>1, <1>3 DEF AuthorityInv, PermissionsOK

LEMMA TimeIsNatural ==
  ASSUME now \in Nat, UNCHANGED now \/ Tick
  PROVE  now' \in Nat
  BY DEF Tick, Ledger!Tick

LEMMA AuthorityStep ==
  ASSUME Inv, OrderInv, AuthorityInv, [Next]_vars
  PROVE  AuthorityInv'
<1>0. now' \in Nat
  BY TimeIsNatural DEF Next, vars, AuthorityInv
<1>1. ASSUME UNCHANGED permissions
      PROVE  PermissionsOK'
  BY <1>1 DEF AuthorityInv, PermissionsOK
<1>2. ASSUME NEW t \in Thread, Work(t), WatchRows
      PROVE  AuthorityInv'
  <2>1. Authorised(t)' /\ UNCHANGED permissions
    BY <1>2, WorkAuthorised
  <2>2. \A u \in Thread \ {t} : pc'[u] = pc[u] /\ job'[u] = job[u]
    BY <1>2, WorkMoves DEF OneThread
  <2> QED
    BY <1>0, <1>1, <1>2, <2>1, <2>2, StillAuthorised DEF AuthorityInv
<1>3. ASSUME NEW t \in Thread, Return(t) \/ Raise(t) \/ Call(t), WatchRows
      PROVE  AuthorityInv'
  <2>1. UNCHANGED permissions
    BY <1>3 DEF Return, Raise, Leave, Call, Execute
  <2>2. \A u \in Thread \ {t} : pc'[u] = pc[u] /\ job'[u] = job[u]
    BY <1>3, CallsMove DEF OneThread
  <2>3. pc'[t] \in {"idle", "start"}
    BY <1>3, ThreadTypes DEF Return, Raise, Leave, Call, Execute, GoTo
  <2>4. Authorised(t)'
    BY <2>3 DEF Authorised, Relies
  <2> QED
    BY <1>0, <1>1, <1>3, <2>1, <2>2, <2>4, StillAuthorised DEF AuthorityInv
<1>4. CASE Environment /\ WatchRows
  BY <1>0, <1>4, EnvironmentWrites, StillAuthorised DEF AuthorityInv
<1>5. CASE Tick /\ WatchRows
  <2>1. UNCHANGED <<permissions, pc, job>>
    BY <1>5 DEF Tick, threadVars
  <2> QED
    BY <1>0, <1>1, <1>5, <2>1, StillAuthorised DEF AuthorityInv
<1>6. UNCHANGED vars => AuthorityInv'
  BY AuthorityStands
<1> QED
  BY <1>2, <1>3, <1>4, <1>5, <1>6 DEF Next

LEMMA AuthorityInvariant == Spec => []AuthorityInv
<1>1. Init => AuthorityInv
  BY PermissionsInit DEF Init, Ledger!Init, AuthorityInv, Authorised, Relies
<1>2. Inv /\ OrderInv /\ AuthorityInv /\ [Next]_vars => AuthorityInv'
  BY AuthorityStep
<1> QED
  BY <1>1, <1>2, ExecutionInvariant, OrderInvariant, PTL DEF Spec

(* "Guardian-capability check first: skill/action must be explicitly           *)
(* permitted": however rows are granted, for good or for a time, expire and    *)
(* are revoked while plans run, every dispatch and retry is one the guardian   *)
(* permits at that moment, with the container, sandbox and network             *)
(* capabilities of the skill's tier, or one of whose rows has ended after the  *)
(* thread had passed the guardian check.                                       *)
THEOREM GuardianPermits == Spec => []DispatchIsAuthorised
<1>1. AuthorityInv => DispatchIsAuthorised
  BY DEF AuthorityInv, Authorised, DispatchIsAuthorised
<1> QED
  BY <1>1, AuthorityInvariant, PTL

-------------------------------------------------------------------------------
\* Onboarding: which worker, or which of the retries, each dispatch stands for.

\* Thread t was admitted to a step of skill s and is not done with it.
Holds(t, s) ==
  pc[t] \in {"sandbox", "network", "dispatch", "settle", "decide"} /\ Planned(t).skill = s

\* It has dispatched the step, which will not be retried.
Final(t) == pc[t] \in {"settle", "decide"} /\ TheStep(t).attempts > Planned(t).max_retries

(* The dispatches of a skill are those of the workers in used, each at its     *)
(* last dispatch or past it, and the slots in spent; its successes are those   *)
(* of the workers in served.                                                   *)
Spent(s, used, spent, served) ==
  /\ \A slot \in spent : slot[2] <= steps[slot[1][1]][slot[1][2]].attempts
  /\ \A t \in used : IF Holds(t, s) THEN Final(t) ELSE s \in known
  /\ \A t \in served : ~ Holds(t, s) /\ s \in known
Counted(s, used, spent, served) ==
  /\ exposure[s] = Cardinality(used) + Cardinality(spent)
  /\ scores[s].confirmed = Cardinality(served)

Accounted(s) ==
  \E used \in SUBSET Thread, spent \in SUBSET RetrySlots(s), served \in SUBSET Thread :
    Spent(s, used, spent, served) /\ Counted(s, used, spent, served)

ExposureInv ==
  /\ Ledger!TypeOK /\ exposure \in [Skill -> Nat]
  /\ \A t \in Thread : pc[t] = "decide" => Planned(t).skill \in known
  /\ UnlockConfirmed > Cardinality(Thread) => \A s \in Skill : Accounted(s)

-------------------------------------------------------------------------------
LEMMA SlotIs ==
  ASSUME NEW s \in Skill, NEW p \in Plan, NEW i \in DOMAIN StepsOf[p], NEW k
  PROVE  /\ <<<<p, i>>, k>> \in RetrySlots(s)
              <=> StepsOf[p][i].skill = s /\ k \in 1 .. StepsOf[p][i].max_retries
  BY DEF RetrySlots

LEMMA SlotOf ==
  ASSUME NEW s \in Skill, NEW slot \in RetrySlots(s)
  PROVE  \E p \in Plan : \E i \in DOMAIN StepsOf[p] : \E k \in 1 .. StepsOf[p][i].max_retries :
           slot = <<<<p, i>>, k>>
  BY DEF RetrySlots

LEMMA SlotsAreFinite ==
  ASSUME NEW s \in Skill
  PROVE  IsFiniteSet(RetrySlots(s))
<1> DEFINE steps0 == UNION {{p} \X DOMAIN StepsOf[p] : p \in Plan}
           mine == {pi \in steps0 : StepsOf[pi[1]][pi[2]].skill = s}
           Slots(pi) == {pi} \X (1 .. StepsOf[pi[1]][pi[2]].max_retries)
<1>1. IsFiniteSet(steps0)
  <2> DEFINE Row(p) == {p} \X DOMAIN StepsOf[p]
             T == {Row(p) : p \in Plan}
             f == [p \in Plan |-> Row(p)]
  <2>1. ASSUME NEW p \in Plan
        PROVE  IsFiniteSet(Row(p))
    <3>1. StepsOf[p] \in Seq(PlannedStep)
      BY OrchestratorConstants
    <3>2. IsFiniteSet(DOMAIN StepsOf[p])
      <4>1. DOMAIN StepsOf[p] = 1 .. Len(StepsOf[p]) /\ Len(StepsOf[p]) \in Int
        BY <3>1
      <4>2. IsFiniteSet(1 .. Len(StepsOf[p]))
        BY <4>1, FS_Interval
      <4> QED
        BY <4>1, <4>2
    <3>3. IsFiniteSet({p})
      BY FS_Singleton
    <3> QED
      BY <3>2, <3>3, FS_Product
  <2> HIDE DEF Row
  <2>2. f \in Surjection(Plan, T)
    BY DEF Surjection
  <2>3. IsFiniteSet(Plan)
    BY OrchestratorConstants
  <2> HIDE DEF f
  <2>4. IsFiniteSet(T)
    BY <2>2, <2>3, FS_Surjection
  <2>5. \A R \in T : IsFiniteSet(R)
    BY <2>1
  <2> HIDE DEF T
  <2>6. IsFiniteSet(UNION T)
    BY <2>4, <2>5, FS_UNION
  <2> QED
    BY <2>6 DEF T, Row
<1>2. IsFiniteSet(mine)
  BY <1>1, FS_Subset
<1>3. ASSUME NEW pi \in mine
      PROVE  IsFiniteSet(Slots(pi))
  <2>1. PICK p \in Plan : \E i \in DOMAIN StepsOf[p] : pi = <<p, i>>
    OBVIOUS
  <2>2. PICK i \in DOMAIN StepsOf[p] : pi = <<p, i>>
    BY <2>1
  <2>3. StepsOf[pi[1]][pi[2]].max_retries \in Int
    BY <2>2, PlannedStepType DEF PlannedStep
  <2>a. \A n \in Int : IsFiniteSet(1 .. n)
    BY FS_Interval
  <2>4. IsFiniteSet(1 .. StepsOf[pi[1]][pi[2]].max_retries)
    BY <2>3, <2>a
  <2>5. IsFiniteSet({pi})
    BY FS_Singleton
  <2> QED
    BY <2>4, <2>5, FS_Product
<1>4. RetrySlots(s) = UNION {Slots(pi) : pi \in mine}
  BY DEF RetrySlots
<1> DEFINE T == {Slots(pi) : pi \in mine}
           f == [pi \in mine |-> Slots(pi)]
<1> HIDE DEF mine, Slots
<1>5. f \in Surjection(mine, T)
  BY DEF Surjection
<1> HIDE DEF f
<1>6. IsFiniteSet(T)
  BY <1>2, <1>5, FS_Surjection
<1>7. \A R \in T : IsFiniteSet(R)
  BY <1>3
<1> HIDE DEF T
<1>8. IsFiniteSet(UNION T)
  BY <1>6, <1>7, FS_UNION
<1> QED
  BY <1>4, <1>8 DEF T
-------------------------------------------------------------------------------
(* What a step may do with thread t as far as skill s is concerned.            *)
Goes(t, s) ==
  \/ Holds(t, s) /\ Holds(t, s)' /\ (Final(t) => Final(t)')
  \/ ~ Holds(t, s)' /\ (Holds(t, s) /\ Final(t) => s \in known')
  \/ ~ Holds(t, s) /\ s \notin known

LEMMA SpentStays ==
  ASSUME StepsOK, StepsOK', AttemptsGrow, known \subseteq known', NEW s \in Skill,
         NEW used \in SUBSET Thread, NEW spent \in SUBSET RetrySlots(s),
         NEW served \in SUBSET Thread,
         \A t \in Thread : Goes(t, s), Spent(s, used, spent, served)
  PROVE  Spent(s, used, spent, served)'
<1>1. ASSUME NEW slot \in spent
      PROVE  slot[2] <= steps'[slot[1][1]][slot[1][2]].attempts
  <2>1. PICK p \in Plan : \E i \in DOMAIN StepsOf[p] : \E k \in 1 .. StepsOf[p][i].max_retries :
          slot = <<<<p, i>>, k>>
    BY SlotOf
  <2>a. PICK i \in DOMAIN StepsOf[p] :
          \E k \in 1 .. StepsOf[p][i].max_retries : slot = <<<<p, i>>, k>>
    BY <2>1
  <2>2. PICK k \in 1 .. StepsOf[p][i].max_retries : slot = <<<<p, i>>, k>>
    BY <2>a
  <2>3. slot[1][1] = p /\ slot[1][2] = i /\ slot[2] = k
    BY <2>2
  <2>4. k \in Int /\ steps[p][i].attempts \in Int /\ steps'[p][i].attempts \in Int
    <3>1. steps'[p] \in Seq(StepState) /\ i \in DOMAIN steps'[p]
      BY DEF StepsOK
    <3>2. steps'[p][i] \in StepState
      BY <3>1
    <3> QED
      BY <3>2, StepStateType DEF StepState
  <2>5. k <= steps[p][i].attempts /\ steps'[p][i].attempts >= steps[p][i].attempts
    BY <1>1, <2>3 DEF Spent, AttemptsGrow
  <2> QED
    BY <2>3, <2>4, <2>5
<1>2. \A t \in used : IF Holds(t, s)' THEN Final(t)' ELSE s \in known'
  BY DEF Spent, Goes
<1>3. \A t \in served : ~ Holds(t, s)' /\ s \in known'
  BY DEF Spent, Goes
<1> QED
  BY <1>1, <1>2, <1>3 DEF Spent

LEMMA AccountedNow ==
  ASSUME NEW s \in Skill, NEW used \in SUBSET Thread, NEW spent \in SUBSET RetrySlots(s),
         NEW served \in SUBSET Thread,
         Spent(s, used, spent, served)', Counted(s, used, spent, served)'
  PROVE  Accounted(s)'
<1>1. RetrySlots(s)' = RetrySlots(s)
  BY DEF RetrySlots
<1> QED
  BY <1>1 DEF Accounted

LEMMA AccountStays ==
  ASSUME StepsOK, StepsOK', AttemptsGrow, known \subseteq known', NEW s \in Skill,
         \A t \in Thread : Goes(t, s), Accounted(s),
         exposure'[s] = exposure[s], scores'[s].confirmed = scores[s].confirmed
  PROVE  Accounted(s)'
<1>1. PICK used \in SUBSET Thread, spent \in SUBSET RetrySlots(s), served \in SUBSET Thread :
        Spent(s, used, spent, served) /\ Counted(s, used, spent, served)
  BY DEF Accounted
<1>2. Spent(s, used, spent, served)'
  BY <1>1, SpentStays
<1>3. Counted(s, used, spent, served)'
  BY <1>1 DEF Counted
<1> QED
  BY <1>2, <1>3, AccountedNow

(* A thread that a step does not touch.                                        *)
Left(u) == pc'[u] = pc[u] /\ job'[u] = job[u]

LEMMA LeftGoes ==
  ASSUME IInv, StepsOK', AttemptsGrow, NEW u \in Thread, Left(u), NEW s
  PROVE  Goes(u, s)
<1>1. Holds(u, s)' = Holds(u, s)
  BY DEF Holds, Planned, Left
<1>2. CASE Holds(u, s) /\ Final(u)
  <2>1. Running(u)
    BY <1>2 DEF Final, Running
  <2>2. /\ job[u].plan \in Plan /\ job[u].i \in DOMAIN StepsOf[job[u].plan]
        /\ Planned(u).max_retries \in Int /\ TheStep(u).attempts \in Int
    BY <2>1, FrameType
  <2>3. steps'[job[u].plan][job[u].i].attempts \in Int
    <3>1. steps'[job[u].plan] \in Seq(StepState) /\ job[u].i \in DOMAIN steps'[job[u].plan]
      BY <2>2 DEF StepsOK
    <3>2. steps'[job[u].plan][job[u].i] \in StepState
      BY <3>1
    <3> QED
      BY <3>2 DEF StepState
  <2>4. TheStep(u)' = steps'[job[u].plan][job[u].i] /\ Planned(u)' = Planned(u) /\ pc'[u] = pc[u]
    BY DEF TheStep, Planned, Left
  <2>5. TheStep(u)'.attempts \in Int /\ TheStep(u)'.attempts >= TheStep(u).attempts
    BY <2>2, <2>3, <2>4 DEF AttemptsGrow, TheStep
  <2>6. Final(u)'
    BY <1>2, <2>2, <2>4, <2>5 DEF Final
  <2> QED
    BY <1>1, <1>2, <2>6 DEF Goes
<1>3. CASE ~ (Holds(u, s) /\ Final(u))
  BY <1>1, <1>3 DEF Goes
<1> QED
  BY <1>2, <1>3

\* What thread u may do in a step that books nothing.
Leaves(u) ==
  \/ Left(u)
  \/ /\ pc'[u] # "decide"
     /\ UnlockConfirmed > Cardinality(Thread) => \A s \in Skill : Goes(u, s)

LEMMA QuietKeeps ==
  ASSUME Inv, StepsOK', AttemptsGrow, ExposureInv, UNCHANGED <<known, scores, exposure>>,
         now' \in Nat, \A u \in Thread : Leaves(u)
  PROVE  ExposureInv'
<1>0. Ledger!TypeOK'
  BY DEF ExposureInv, Ledger!TypeOK
<1>1. ASSUME NEW u \in Thread, pc'[u] = "decide"
      PROVE  Planned(u)'.skill \in known'
  BY <1>1 DEF ExposureInv, Leaves, Left, Planned
<1>2. ASSUME UnlockConfirmed > Cardinality(Thread), NEW s \in Skill
      PROVE  Accounted(s)'
  <2>1. \A u \in Thread : Goes(u, s)
    BY <1>2, LeftGoes DEF Inv, Leaves
  <2> QED
    BY <1>2, <2>1, AccountStays DEF ExposureInv, Inv, IInv
<1> QED
  BY <1>0, <1>1, <1>2 DEF ExposureInv

-------------------------------------------------------------------------------
(* The step a dispatch leaves: one more attempt.                               *)
LEMMA DispatchCounts ==
  ASSUME Inv, NEW t \in Thread, Dispatch(t)
  PROVE  \E s \in StepState : s.attempts = TheStep(t).attempts + 1 /\ SetStep(t, s)
<1>1. PICK o \in Outcome :
        SetStep(t, [TheStep(t) EXCEPT !.attempts = @ + 1, !.error = o,
                      !.status = IF o = "ok" THEN "SUCCEEDED" ELSE "FAILED"])
  BY DEF Dispatch
<1> DEFINE status == IF o = "ok" THEN "SUCCEEDED" ELSE "FAILED"
           n == TheStep(t).attempts + 1
           s == [TheStep(t) EXCEPT !.attempts = n, !.error = o, !.status = status]
<1>2. TheStep(t) \in StepState /\ n \in Nat /\ status \in {"SUCCEEDED", "FAILED"}
  BY FrameType DEF Dispatch, Running, Inv
<1>3. SetStep(t, s)
  BY <1>1
<1>4. s \in StepState /\ s.attempts = n
  <2> HIDE DEF status, n
  <2> QED
    BY <1>2 DEF StepState
<1> HIDE DEF s
<1> QED
  BY <1>3, <1>4

LEMMA WorkGrows ==
  ASSUME Inv, NEW t \in Thread, Work(t)
  PROVE  StepsOK' /\ AttemptsGrow
<1>1. StepsOK /\ IInv
  BY DEF Inv, IInv
<1>2. ASSUME NEW s \in StepState, job[t].plan \in Plan, job[t].i \in DOMAIN StepsOf[job[t].plan],
             s.attempts >= TheStep(t).attempts, SetStep(t, s)
      PROVE  StepsOK' /\ AttemptsGrow
  BY <1>1, <1>2, SetStepKeeps
<1>3. CASE UNCHANGED steps
  BY <1>1, <1>3, StepsUnchanged
<1>4. ASSUME Running(t), NEW code \in Denial, Deny(t, code)
      PROVE  StepsOK' /\ AttemptsGrow
  <2> DEFINE s == [TheStep(t) EXCEPT !.status = "DENIED", !.error = code,
                                     !.error_type = "denied"]
  <2>1. s \in StepState /\ s.attempts = TheStep(t).attempts /\ TheStep(t).attempts \in Nat
    BY <1>1, <1>4, FrameType, DenialType
  <2>2. SetStep(t, s)
    BY <1>4 DEF Deny
  <2> HIDE DEF s
  <2> QED
    BY <1>1, <1>2, <1>4, <2>1, <2>2, FrameType
<1>5. CASE Start(t)
  <2>1. job[t].plan \in Plan /\ job[t].i = 1
    BY <1>1, <1>5 DEF IInv, FrameOK, Start
  <2>2. CASE StepsOf[job[t].plan] # <<>> /\ ~ UNCHANGED steps
    <3> DEFINE s == [TheStep(t) EXCEPT !.status = "DENIED", !.error = "VALIDATION",
                                       !.error_type = "validation"]
    <3>1. SetStep(t, s)
      BY <1>5, <2>2 DEF Start, ThePlan
    <3>2. StepsOf[job[t].plan] \in Seq(PlannedStep)
      BY <2>1, OrchestratorConstants
    <3>3. job[t].i \in DOMAIN StepsOf[job[t].plan]
      BY <2>1, <2>2, <3>2
    <3>4. TheStep(t) \in StepState /\ TheStep(t).attempts \in Nat
      BY <1>1, <2>1, <3>3, StepStateType DEF TheStep
    <3>5. s \in StepState /\ s.attempts = TheStep(t).attempts
      BY <3>4 DEF StepState
    <3> HIDE DEF s
    <3> QED
      BY <1>2, <2>1, <3>1, <3>3, <3>4, <3>5
  <2> QED
    BY <1>3, <1>5, <2>2 DEF Start, ThePlan
<1>6. CASE \/ Precheck(t) \/ CheckGuardian(t) \/ EvaluatePolicy(t)
           \/ CheckSandbox(t) \/ CheckNetwork(t)
  BY <1>3, <1>4, <1>6, GatesPassOrDeny DEF Pass
<1>7. CASE Dispatch(t)
  <2>1. PICK s \in StepState : s.attempts = TheStep(t).attempts + 1 /\ SetStep(t, s)
    BY <1>7, DispatchCounts
  <2>2. /\ job[t].plan \in Plan /\ job[t].i \in DOMAIN StepsOf[job[t].plan]
        /\ TheStep(t).attempts \in Nat
    BY <1>1, <1>7, FrameType DEF Dispatch, Running
  <2> QED
    BY <1>2, <2>1, <2>2
<1>8. CASE Settle(t)
  <2> DEFINE e == IF result[t] = "ok" THEN "none" ELSE result[t]
             s == [TheStep(t) EXCEPT !.error_type = e]
  <2>1. SetStep(t, s) /\ Running(t) /\ result[t] \in Outcome
    BY <1>8 DEF Settle, Running, Inv, ResultsOK
  <2>2. /\ job[t].plan \in Plan /\ job[t].i \in DOMAIN StepsOf[job[t].plan]
        /\ TheStep(t) \in StepState /\ TheStep(t).attempts \in Nat
    BY <1>1, <2>1, FrameType
  <2>3. s \in StepState /\ s.attempts = TheStep(t).attempts
    BY <2>1, <2>2 DEF StepState, Outcome
  <2> HIDE DEF s
  <2> QED
    BY <1>2, <2>1, <2>2, <2>3
<1>9. CASE Decide(t)
  BY <1>3, <1>9 DEF Decide, Pass
<1> QED
  BY <1>5, <1>6, <1>7, <1>8, <1>9 DEF Work

-------------------------------------------------------------------------------
(* What the booking of an outcome does to the record of a skill.               *)
LEMMA NextScoresCount ==
  ASSUME NEW sc \in Ledger!Scores, NEW confirmed \in BOOLEAN, NEW error \in BOOLEAN, now \in Nat
  PROVE  LET next == Ledger!NextScores(sc, confirmed, error, now)
         IN  /\ next \in Ledger!Scores
             /\ \/ next.confirmed = sc.confirmed
                \/ confirmed /\ next.confirmed = sc.confirmed + 1
<1>1. /\ sc.confirmed \in Nat /\ sc.rejected \in Nat /\ sc.errors_last_30d \in Nat
      /\ sc.consecutive_rejections \in Nat /\ now + SuspensionHours \in Nat
  BY OrchestratorConstants DEF Ledger!Scores
<1>2. /\ Ledger!Confirm(sc) \in Ledger!Scores
      /\ Ledger!Confirm(sc).confirmed = sc.confirmed + 1
  <2> DEFINE n == sc.confirmed + 1
  <2>1. n \in Nat /\ Ledger!Confirm(sc) = [sc EXCEPT !.confirmed = n, !.consecutive_rejections = 0]
    BY <1>1 DEF Ledger!Confirm
  <2> HIDE DEF n
  <2>2. /\ [sc EXCEPT !.confirmed = n, !.consecutive_rejections = 0] \in Ledger!Scores
        /\ [sc EXCEPT !.confirmed = n, !.consecutive_rejections = 0].confirmed = n
    BY <2>1 DEF Ledger!Scores
  <2> QED
    BY <2>1, <2>2 DEF n
<1>3. /\ Ledger!Reject(sc, now) \in Ledger!Scores
      /\ Ledger!Reject(sc, now).confirmed = sc.confirmed
  <2> DEFINE n == sc.consecutive_rejections + 1
             m == sc.rejected + 1
             until == now + SuspensionHours
             x == [sc EXCEPT !.rejected = m, !.consecutive_rejections = n]
  <2>1. /\ n \in Nat /\ m \in Nat /\ until \in Nat
        /\ Ledger!Reject(sc, now) = IF n >= RejectionThreshold
                                    THEN [x EXCEPT !.permanently_locked = TRUE]
                                    ELSE [x EXCEPT !.suspended_until = until]
    BY <1>1 DEF Ledger!Reject
  <2> HIDE DEF n, m, until
  <2>2. x \in Ledger!Scores /\ x.confirmed = sc.confirmed
    BY <2>1 DEF Ledger!Scores
  <2> HIDE DEF x
  <2>3. /\ [x EXCEPT !.permanently_locked = TRUE] \in Ledger!Scores
        /\ [x EXCEPT !.permanently_locked = TRUE].confirmed = x.confirmed
        /\ [x EXCEPT !.suspended_until = until] \in Ledger!Scores
        /\ [x EXCEPT !.suspended_until = until].confirmed = x.confirmed
    BY <2>1, <2>2 DEF Ledger!Scores
  <2> QED
    BY <2>1, <2>2, <2>3
<1>4. ASSUME NEW x \in Ledger!Scores
      PROVE  /\ Ledger!ChargeError(x, error) \in Ledger!Scores
             /\ Ledger!ChargeError(x, error).confirmed = x.confirmed
  BY DEF Ledger!ChargeError, Ledger!Scores
<1> QED
  BY <1>2, <1>3, <1>4 DEF Ledger!NextScores

LEMMA BookingCounts ==
  ASSUME Ledger!TypeOK, NEW s \in Skill, NEW confirmed \in BOOLEAN, NEW error \in BOOLEAN,
         Ledger!RecordOutcome(s, confirmed, error), UNCHANGED now
  PROVE  /\ Ledger!TypeOK' /\ known' = known \cup {s}
         /\ \A r \in Skill \ {s} : scores'[r] = scores[r]
         /\ \/ scores'[s].confirmed = scores[s].confirmed
            \/ confirmed /\ scores'[s].confirmed = scores[s].confirmed + 1
<1> DEFINE next == Ledger!NextScores(scores[s], confirmed, error, now)
<1>1. scores[s] \in Ledger!Scores /\ now \in Nat
  BY DEF Ledger!TypeOK
<1>2. /\ next \in Ledger!Scores
      /\ \/ next.confirmed = scores[s].confirmed
         \/ confirmed /\ next.confirmed = scores[s].confirmed + 1
  BY <1>1, NextScoresCount
<1>3. scores' = [scores EXCEPT ![s] = next] /\ known' = known \cup {s}
  BY DEF Ledger!RecordOutcome
<1> HIDE DEF next
<1> QED
  BY <1>2, <1>3 DEF Ledger!TypeOK

-------------------------------------------------------------------------------
(* A thread that leaves its step, or has not got to one.                       *)
LEMMA LeavesGoes ==
  ASSUME NEW t \in Thread, pc'[t] \notin {"sandbox", "network", "dispatch", "settle", "decide"},
         pc[t] \in {"settle", "decide"} => Planned(t).skill \in known'
  PROVE  \A s \in Skill : Goes(t, s)
  BY DEF Goes, Holds, Final

(* Before the outcome is booked, or after it, the last attempt is not made.    *)
LEMMA PassGoes ==
  ASSUME Inv, NEW t \in Thread, ~ Final(t),
         pc[t] \in {"sandbox", "network", "dispatch", "settle", "decide"},
         \/ Left(t)
         \/ /\ job' = job
            /\ pc'[t] \in {"sandbox", "network", "dispatch", "settle", "decide"}
  PROVE  \A s \in Skill : Goes(t, s)
  BY DEF Goes, Holds, Left, Planned

LEMMA LoopLeaves ==
  ASSUME Inv, NEW t \in Thread, NEW fate, NextStep(t, fate) \/ FailPlan(t, fate)
  PROVE  pc'[t] \in {"precheck", "done"}
  BY ThreadTypes DEF NextStep, FailPlan, GoTo

(* The policy admits only what has no history: to be unlocked a skill would    *)
(* need more successes than there are workers.                                 *)
LEMMA AdmittedIsUnknown ==
  ASSUME UnlockConfirmed > Cardinality(Thread), NEW t \in Thread, Admissible(t),
         Planned(t).skill \in Skill, Accounted(Planned(t).skill)
  PROVE  Planned(t).skill \notin known
<1> DEFINE s == Planned(t).skill
<1>1. PICK served \in SUBSET Thread : scores[s].confirmed = Cardinality(served)
  BY DEF Accounted, Counted
<1>2. /\ Cardinality(served) <= Cardinality(Thread) /\ Cardinality(served) \in Nat
      /\ Cardinality(Thread) \in Nat /\ UnlockConfirmed \in Nat
  BY OrchestratorConstants, FS_Subset, FS_CardinalityType
<1>3. ~ Ledger!Unlocked(scores[s], now)
  BY <1>1, <1>2 DEF Ledger!Unlocked
<1> QED
  BY <1>3 DEF Admissible, Ledger!Blocked

-------------------------------------------------------------------------------
\* The actions.

LEMMA GatesExpose ==
  ASSUME Inv, ExposureInv, NEW t \in Thread,
         \/ Precheck(t) \/ CheckGuardian(t) \/ EvaluatePolicy(t)
         \/ CheckSandbox(t) \/ CheckNetwork(t)
  PROVE  pc'[t] # "decide" /\ (UnlockConfirmed > Cardinality(Thread) => \A s \in Skill : Goes(t, s))
<1>1. /\ Running(t)
      /\ pc[t] \in {"precheck", "guardian", "policy", "sandbox", "network"}
      /\ \/ \E label \in {"guardian", "policy", "sandbox", "network", "dispatch"} : Pass(t, label)
         \/ \E code \in Denial : Deny(t, code)
  BY GatesPassOrDeny
<1>2. CASE \E code \in Denial : Deny(t, code)
  <2>1. pc'[t] \in {"precheck", "done"}
    BY <1>2, LoopLeaves DEF Deny
  <2> QED
    BY <1>1, <2>1, LeavesGoes
<1>3. ASSUME NEW label \in {"guardian", "policy", "sandbox", "network", "dispatch"}, Pass(t, label)
      PROVE  /\ pc'[t] # "decide"
             /\ UnlockConfirmed > Cardinality(Thread) => \A s \in Skill : Goes(t, s)
  <2>1. pc'[t] = label /\ job' = job
    BY <1>3, ThreadTypes DEF Pass, GoTo
  <2>2. CASE pc[t] \in {"sandbox", "network"} /\ label \in {"sandbox", "network", "dispatch"}
    BY <2>1, <2>2, PassGoes DEF Final
  <2>3. CASE label \in {"guardian", "policy"}
    BY <1>1, <2>1, <2>3, LeavesGoes
  <2>4. CASE EvaluatePolicy(t) /\ label = "sandbox"
    <3>1. Admissible(t) /\ pc[t] = "policy"
      BY <1>3, <2>1, <2>4, LoopLeaves DEF EvaluatePolicy, Deny
    <3>2. ASSUME UnlockConfirmed > Cardinality(Thread), NEW s \in Skill
          PROVE  Goes(t, s)
      <4>1. CASE s = Planned(t).skill
        <5>1. s \notin known
          BY <3>1, <3>2, <4>1, AdmittedIsUnknown DEF ExposureInv
        <5> QED
          BY <3>1, <5>1 DEF Goes, Holds
      <4>2. CASE s # Planned(t).skill
        BY <2>1, <3>1, <4>2 DEF Goes, Holds, Planned
      <4> QED
        BY <4>1, <4>2
    <3> QED
      BY <2>1, <2>4, <3>2
  <2>5. \/ pc[t] \in {"sandbox", "network"} /\ label \in {"sandbox", "network", "dispatch"}
        \/ label \in {"guardian", "policy"}
        \/ EvaluatePolicy(t) /\ label = "sandbox"
    <3>1. label \notin {"precheck", "done"}
      OBVIOUS
    <3>2. \A code : ~ Deny(t, code)
      BY <2>1, <3>1, LoopLeaves DEF Deny
    <3> QED
      BY <2>1, <3>2, ThreadTypes DEF Precheck, CheckGuardian, EvaluatePolicy, CheckSandbox,
         CheckNetwork, Pass, GoTo
  <2> QED
    BY <2>2, <2>3, <2>4, <2>5
<1> QED
  BY <1>1, <1>2, <1>3

LEMMA DispatchExposes ==
  ASSUME Inv, StepsOK', AttemptsGrow, ExposureInv, UnlockConfirmed > Cardinality(Thread),
         NEW t \in Thread, Dispatch(t), \A u \in Thread \ {t} : Left(u), NEW s \in Skill
  PROVE  Accounted(s)'
<1> DEFINE p == job[t].plan
           i == job[t].i
           n == TheStep(t).attempts + 1
           r == Planned(t).max_retries
<1>1. /\ Running(t) /\ pc[t] = "dispatch" /\ pc' = [pc EXCEPT ![t] = "settle"] /\ job' = job
      /\ exposure' = [exposure EXCEPT ![Planned(t).skill] = @ + 1]
      /\ UNCHANGED <<known, scores>>
  BY DEF Dispatch, GoTo, Running, ledgerVars
<1>2. /\ p \in Plan /\ i \in DOMAIN StepsOf[p] /\ TheStep(t).attempts \in Nat /\ r \in Nat
      /\ Planned(t).skill \in Skill
  BY <1>1, FrameType DEF Inv, PlannedStep
<1>3. PICK written \in StepState : written.attempts = n /\ SetStep(t, written)
  BY DispatchCounts
<1>4. steps'[p][i].attempts = n
  BY <1>2, <1>3, SetStepKeeps DEF Inv
<1>5. pc'[t] = "settle" /\ Planned(t)' = Planned(t) /\ TheStep(t)'.attempts = n
  BY <1>1, <1>4, ThreadTypes DEF Planned, TheStep
<1>6. \A u \in Thread : Goes(u, s)
  BY <1>1, <1>5, LeftGoes, PassGoes DEF Inv, Final
<1>7. CASE s # Planned(t).skill
  BY <1>1, <1>2, <1>6, <1>7, AccountStays DEF ExposureInv, Inv, IInv
<1>8. CASE s = Planned(t).skill
  <2>1. PICK used \in SUBSET Thread, spent \in SUBSET RetrySlots(s), served \in SUBSET Thread :
          Spent(s, used, spent, served) /\ Counted(s, used, spent, served)
    BY DEF ExposureInv, Accounted
  <2>2. Spent(s, used, spent, served)'
    BY <1>1, <1>6, <2>1, SpentStays DEF Inv, IInv
  <2>3. exposure'[s] = exposure[s] + 1 /\ scores'[s].confirmed = Cardinality(served)
    BY <1>1, <1>8, <2>1 DEF ExposureInv, Counted
  <2>4. /\ IsFiniteSet(used) /\ IsFiniteSet(spent)
        /\ Cardinality(used) \in Nat /\ Cardinality(spent) \in Nat
    BY SlotsAreFinite, OrchestratorConstants, FS_Subset, FS_CardinalityType
  <2>5. CASE n <= r
    <3>0. PICK slot : slot = <<<<p, i>>, n>>
      OBVIOUS
    <3>1. slot \in RetrySlots(s)
      BY <1>2, <1>8, <2>5, <3>0, SlotIs DEF Planned
    <3>2. slot \notin spent
      BY <1>2, <2>1, <3>0 DEF Spent, TheStep
    <3>3. slot[2] <= steps'[slot[1][1]][slot[1][2]].attempts
      BY <1>2, <1>4, <3>0
    <3>4. Cardinality(spent \cup {slot}) = Cardinality(spent) + 1
      BY <2>4, <3>2, FS_AddElement
    <3>5. Spent(s, used, spent \cup {slot}, served)' /\ spent \cup {slot} \in SUBSET RetrySlots(s)
      BY <2>2, <3>1, <3>3 DEF Spent
    <3>6. Counted(s, used, spent \cup {slot}, served)'
      BY <2>1, <2>3, <2>4, <3>4 DEF Counted
    <3> QED
      BY <3>5, <3>6, AccountedNow
  <2>6. CASE ~ (n <= r)
    <3>1. t \notin used
      BY <1>1, <1>8, <2>1 DEF Spent, Holds, Final
    <3>2. Cardinality(used \cup {t}) = Cardinality(used) + 1
      BY <2>4, <3>1, FS_AddElement
    <3>3. Holds(t, s)' /\ Final(t)'
      BY <1>2, <1>5, <1>8, <2>6 DEF Holds, Final
    <3>4. Spent(s, used \cup {t}, spent, served)'
      BY <2>2, <3>3 DEF Spent
    <3>5. Counted(s, used \cup {t}, spent, served)'
      BY <2>1, <2>3, <2>4, <3>2 DEF Counted
    <3> QED
      BY <3>4, <3>5, AccountedNow
  <2> QED
    BY <2>5, <2>6
<1> QED
  BY <1>7, <1>8

(* Booking a failure leaves the attempts.                                      *)
LEMMA SettledFinal ==
  ASSUME Inv, NEW t \in Thread, pc[t] = "settle", pc'[t] = "decide", job' = job,
         SetStep(t, [TheStep(t) EXCEPT !.error_type = result[t]])
  PROVE  Final(t) => Final(t)'
<1> DEFINE p == job[t].plan
           i == job[t].i
           s == [TheStep(t) EXCEPT !.error_type = result[t]]
<1>1. p \in Plan /\ i \in DOMAIN StepsOf[p] /\ TheStep(t) \in StepState
  BY FrameType DEF Inv, Running
<1>2. s.attempts = TheStep(t).attempts
  BY <1>1 DEF StepState
<1>3. steps \in [Plan -> Seq(StepState)] /\ i \in DOMAIN steps[p]
  BY <1>1 DEF Inv, IInv, StepsOK
<1>4. steps' = [steps EXCEPT ![p][i] = s]
  BY DEF SetStep, ThePlan
<1> HIDE DEF s
<1>5. steps'[p][i] = s
  BY <1>1, <1>3, <1>4
<1>6. TheStep(t)' = s /\ Planned(t)' = Planned(t)
  BY <1>5 DEF TheStep, Planned
<1> QED
  BY <1>2, <1>6 DEF Final

LEMMA SettleExposes ==
  ASSUME Inv, StepsOK', AttemptsGrow, ExposureInv, UnlockConfirmed > Cardinality(Thread),
         NEW t \in Thread, Settle(t), UNCHANGED now, \A u \in Thread \ {t} : Left(u),
         NEW s \in Skill
  PROVE  Accounted(s)'
<1> DEFINE ok == result[t] = "ok"
<1>1. /\ Running(t) /\ pc[t] = "settle" /\ exposure' = exposure
      /\ Ledger!RecordOutcome(Planned(t).skill, ok, ~ ok)
  BY DEF Settle, Running
<1>2. Planned(t).skill \in Skill
  BY <1>1, FrameType DEF Inv, PlannedStep
<1>a. ok \in BOOLEAN /\ (~ ok) \in BOOLEAN
  OBVIOUS
<1> HIDE DEF ok
<1>3. /\ known' = known \cup {Planned(t).skill}
      /\ \A r \in Skill \ {Planned(t).skill} : scores'[r] = scores[r]
      /\ \/ scores'[Planned(t).skill].confirmed = scores[Planned(t).skill].confirmed
         \/ ok /\ scores'[Planned(t).skill].confirmed = scores[Planned(t).skill].confirmed + 1
  BY <1>1, <1>2, <1>a, BookingCounts DEF ExposureInv
<1>4. ok => pc'[t] \in {"precheck", "done"}
  BY LoopLeaves DEF Settle, ok
<1>5. ~ ok => /\ pc'[t] = "decide" /\ job' = job
              /\ SetStep(t, [TheStep(t) EXCEPT !.error_type = result[t]])
  BY ThreadTypes DEF Settle, GoTo, ok
<1>6. Goes(t, s)
  <2>1. CASE ok
    BY <1>1, <1>3, <1>4, <2>1, LeavesGoes
  <2>2. CASE ~ ok
    BY <1>1, <1>5, <2>2, SettledFinal DEF Goes, Holds, Planned
  <2> QED
    BY <2>1, <2>2
<1>7. \A u \in Thread : Goes(u, s)
  BY <1>6, LeftGoes DEF Inv
<1>8. CASE s # Planned(t).skill \/ scores'[s].confirmed = scores[s].confirmed
  BY <1>1, <1>3, <1>7, <1>8, AccountStays DEF ExposureInv, Inv, IInv
<1>9. CASE s = Planned(t).skill /\ ok /\ scores'[s].confirmed = scores[s].confirmed + 1
  <2>1. PICK used \in SUBSET Thread, spent \in SUBSET RetrySlots(s), served \in SUBSET Thread :
          Spent(s, used, spent, served) /\ Counted(s, used, spent, served)
    BY DEF ExposureInv, Accounted
  <2>2. Spent(s, used, spent, served)'
    BY <1>3, <1>7, <2>1, SpentStays DEF Inv, IInv
  <2>3. IsFiniteSet(served) /\ Cardinality(served) \in Nat
    BY OrchestratorConstants, FS_Subset, FS_CardinalityType
  <2>4. t \notin served
    BY <1>1, <1>9, <2>1 DEF Spent, Holds
  <2>5. Cardinality(served \cup {t}) = Cardinality(served) + 1
    BY <2>3, <2>4, FS_AddElement
  <2>6. ~ Holds(t, s)' /\ s \in known'
    BY <1>3, <1>4, <1>9 DEF Holds
  <2>7. Spent(s, used, spent, served \cup {t})'
    BY <2>2, <2>6 DEF Spent
  <2>8. Counted(s, used, spent, served \cup {t})'
    BY <1>1, <1>9, <2>1, <2>5 DEF Counted
  <2> QED
    BY <2>7, <2>8, AccountedNow
<1> QED
  BY <1>3, <1>8, <1>9

LEMMA ExposureWork ==
  ASSUME Inv, ExposureInv, NEW t \in Thread, Work(t), UNCHANGED now,
         \A u \in Thread \ {t} : Left(u)
  PROVE  ExposureInv'
<1>1. StepsOK' /\ AttemptsGrow
  BY WorkGrows
<1>2. \A u \in Thread \ {t} : Left(u)
  OBVIOUS
<1>3. ASSUME UNCHANGED <<known, scores, exposure>>, pc'[t] # "decide",
             UnlockConfirmed > Cardinality(Thread) => \A s \in Skill : Goes(t, s)
      PROVE  ExposureInv'
  <2>1. \A u \in Thread : Leaves(u)
    BY <1>2, <1>3 DEF Leaves
  <2>2. now' \in Nat
    BY DEF ExposureInv, Ledger!TypeOK
  <2> QED
    BY <1>1, <1>3, <2>1, <2>2, QuietKeeps
<1>4. CASE Start(t)
  <2>1. pc'[t] \in {"precheck", "done"} /\ pc[t] = "start"
    BY <1>4, ThreadTypes DEF Start, GoTo
  <2>2. \A s \in Skill : Goes(t, s)
    BY <2>1, LeavesGoes
  <2> QED
    BY <1>3, <1>4, <2>1, <2>2 DEF Start, ledgerVars, historyVars
<1>5. CASE \/ Precheck(t) \/ CheckGuardian(t) \/ EvaluatePolicy(t)
           \/ CheckSandbox(t) \/ CheckNetwork(t)
  <2>1. UNCHANGED <<known, scores, exposure>>
    BY <1>5 DEF Precheck, CheckGuardian, EvaluatePolicy, CheckSandbox, CheckNetwork, ledgerVars
  <2> QED
    BY <1>3, <1>5, <2>1, GatesExpose
<1>6. CASE Decide(t)
  <2>1. /\ UNCHANGED <<known, scores, exposure>> /\ pc[t] = "decide" /\ Planned(t).skill \in known
    BY <1>6 DEF Decide, ledgerVars, ExposureInv
  <2>2. CASE Retries(t) /\ Pass(t, "dispatch")
    <3>1. ~ Final(t) /\ Running(t) /\ pc'[t] = "dispatch" /\ job' = job
      BY <2>1, <2>2, ThreadTypes, FrameType DEF Final, Retries, Running, Pass, GoTo, Inv
    <3> QED
      BY <1>3, <2>1, <3>1, PassGoes
  <2>3. CASE NextStep(t, "failed") \/ FailPlan(t, "failed")
    <3>1. pc'[t] \in {"precheck", "done"}
      BY <2>3, LoopLeaves
    <3> QED
      BY <1>3, <2>1, <3>1, LeavesGoes
  <2> QED
    BY <1>6, <2>2, <2>3 DEF Decide
<1>7. CASE Dispatch(t)
  <2>1. /\ UNCHANGED <<known, scores>> /\ pc' = [pc EXCEPT ![t] = "settle"] /\ job' = job
        /\ exposure' = [exposure EXCEPT ![Planned(t).skill] = @ + 1]
    BY <1>7 DEF Dispatch, ledgerVars, GoTo
  <2>a. Planned(t).skill \in Skill /\ exposure \in [Skill -> Nat]
    BY <1>7, FrameType DEF Dispatch, Running, Inv, PlannedStep, ExposureInv
  <2>b. exposure' \in [Skill -> Nat]
    BY <2>1, <2>a
  <2>c. Ledger!TypeOK'
    BY <2>1 DEF ExposureInv, Ledger!TypeOK
  <2>3. \A u \in Thread : pc'[u] = "decide" => Planned(u)'.skill \in known'
    BY <2>1, ThreadTypes DEF ExposureInv, Planned
  <2> QED
    BY <1>1, <1>2, <1>7, <2>b, <2>c, <2>3, DispatchExposes DEF ExposureInv
<1>8. CASE Settle(t)
  <2> DEFINE ok == result[t] = "ok"
  <2>1. Running(t) /\ exposure' = exposure /\ Ledger!RecordOutcome(Planned(t).skill, ok, ~ ok)
    BY <1>8 DEF Settle, Running
  <2>2. Planned(t).skill \in Skill
    BY <2>1, FrameType DEF Inv, PlannedStep
  <2>a. ok \in BOOLEAN /\ (~ ok) \in BOOLEAN
    OBVIOUS
  <2>3. pc'[t] = "decide" => job' = job
    BY <1>8, LoopLeaves DEF Settle
  <2> HIDE DEF ok
  <2>4. Ledger!TypeOK' /\ known' = known \cup {Planned(t).skill}
    BY <2>1, <2>2, <2>a, BookingCounts DEF ExposureInv
  <2>5. \A u \in Thread : pc'[u] = "decide" => Planned(u)'.skill \in known'
    BY <1>2, <2>3, <2>4 DEF ExposureInv, Planned, Left
  <2>6. exposure' \in [Skill -> Nat]
    BY <2>1 DEF ExposureInv
  <2> QED
    BY <1>1, <1>2, <1>8, <2>4, <2>5, <2>6, SettleExposes DEF ExposureInv
<1> QED
  BY <1>4, <1>5, <1>6, <1>7, <1>8 DEF Work

LEMMA OutsideExposesNothing ==
  ASSUME Inv, ExposureInv, UNCHANGED <<known, scores, exposure, steps, pc, job>>, now' \in Nat
  PROVE  ExposureInv'
<1>1. StepsOK' /\ AttemptsGrow
  BY StepsUnchanged DEF Inv, IInv
<1>2. \A u \in Thread : Leaves(u)
  BY DEF Leaves, Left
<1> QED
  BY <1>1, <1>2, QuietKeeps

LEMMA ExposureStep ==
  ASSUME Inv, OrderInv, ExposureInv, [Next]_vars
  PROVE  ExposureInv'
<1>0. now \in Nat
  BY DEF ExposureInv, Ledger!TypeOK
<1>1. ASSUME NEW t \in Thread, Work(t), UNCHANGED now
      PROVE  ExposureInv'
  <2>1. \A u \in Thread \ {t} : Left(u)
    BY <1>1, WorkMoves DEF OneThread, Left
  <2> QED
    BY <1>1, <2>1, ExposureWork
<1>2. ASSUME NEW t \in Thread, Return(t) \/ Raise(t) \/ Call(t), UNCHANGED now
      PROVE  ExposureInv'
  <2>1. /\ UNCHANGED <<known, scores, exposure, steps>> /\ pc[t] # "settle"
        /\ pc'[t] \in {"idle", "start"}
    BY <1>2, ThreadTypes DEF Return, Raise, Raises, Leave, Call, Execute, GoTo, ledgerVars,
                             planVars, historyVars
  <2>2. StepsOK' /\ AttemptsGrow
    BY <2>1, StepsUnchanged DEF Inv, IInv
  <2>3. \A u \in Thread \ {t} : Left(u)
    BY <1>2, CallsMove DEF OneThread, Left
  <2>4. \A s \in Skill : Goes(t, s)
    BY <2>1, LeavesGoes DEF ExposureInv
  <2>5. \A u \in Thread : Leaves(u)
    BY <2>1, <2>3, <2>4 DEF Leaves
  <2> QED
    BY <1>0, <1>2, <2>1, <2>2, <2>5, QuietKeeps
<1>3. CASE (Environment /\ UNCHANGED now) \/ Tick \/ UNCHANGED vars
  <2>1. UNCHANGED <<known, scores, exposure, steps, pc, job>>
    BY <1>3 DEF Environment, Administer, RegisterSkill, Tick, Ledger!Tick, Ledger!ledgerVars,
                ledgerVars, planVars, threadVars, historyVars, vars
  <2>2. now' \in Nat
    BY <1>0, <1>3, TimeIsNatural DEF vars
  <2> QED
    BY <2>1, <2>2, OutsideExposesNothing
<1> QED
  BY <1>1, <1>2, <1>3 DEF Next

LEMMA ExposureInit == Init => ExposureInv
<1> SUFFICES ASSUME Init PROVE ExposureInv
  OBVIOUS
<1>1. Ledger!TypeOK
  BY DEF Init, Ledger!Init, Ledger!TypeOK, Ledger!NewScores, Ledger!Scores
<1>2. ASSUME NEW s \in Skill
      PROVE  Accounted(s)
  <2>1. Spent(s, {}, {}, {})
    BY DEF Spent
  <2>2. scores[s].confirmed = 0 /\ exposure[s] = 0
    BY DEF Init, Ledger!Init, Ledger!NewScores
  <2>3. Counted(s, {}, {}, {})
    BY <2>2, FS_EmptySet DEF Counted
  <2> QED
    BY <2>1, <2>3 DEF Accounted
<1> QED
  BY <1>1, <1>2 DEF Init, ExposureInv

LEMMA AccountsBoundExposure == ExposureInv => OnboardingExposure
<1> SUFFICES ASSUME ExposureInv, UnlockConfirmed > Cardinality(Thread), NEW s \in Skill
             PROVE  exposure[s] <= Cardinality(Thread) + Cardinality(RetrySlots(s))
  BY DEF OnboardingExposure
<1>1. PICK used \in SUBSET Thread, spent \in SUBSET RetrySlots(s) :
        exposure[s] = Cardinality(used) + Cardinality(spent)
  BY DEF ExposureInv, Accounted, Counted
<1>2. Cardinality(used) <= Cardinality(Thread) /\ Cardinality(spent) <= Cardinality(RetrySlots(s))
  BY SlotsAreFinite, OrchestratorConstants, FS_Subset
<1>3. /\ Cardinality(used) \in Nat /\ Cardinality(spent) \in Nat
      /\ Cardinality(Thread) \in Nat /\ Cardinality(RetrySlots(s)) \in Nat
  BY SlotsAreFinite, OrchestratorConstants, FS_Subset, FS_CardinalityType
<1> QED
  BY <1>1, <1>2, <1>3

(* However many workers execute plans that use a skill, before it has earned   *)
(* its history it is dispatched by each of them once, and retried as often as  *)
(* its steps allow altogether: core.py line 618 over policy.py line 225.       *)
THEOREM ExposureIsBounded == Spec => []OnboardingExposure
<1>1. Inv /\ OrderInv /\ ExposureInv /\ [Next]_vars => ExposureInv'
  BY ExposureStep
<1> QED
  BY <1>1, AccountsBoundExposure, ExposureInit, ExecutionInvariant, OrderInvariant, PTL DEF Spec

-------------------------------------------------------------------------------
\* The ledger below the orchestrator: what is proved of the ledger by itself,
\* under any calls, holds of the one that executions write to.

LedgerProofs == INSTANCE TrustLedgerProofs WITH Category <- Skill

(* A step of an execution books the outcome of a dispatch, or leaves the       *)
(* ledger alone.                                                               *)
LEMMA WorkBooks ==
  ASSUME Inv, NEW t \in Thread, Work(t), UNCHANGED now
  PROVE  [Ledger!Next]_(Ledger!vars)
<1>1. CASE Settle(t)
  <2> DEFINE ok == result[t] = "ok"
  <2>1. Running(t) /\ Ledger!RecordOutcome(Planned(t).skill, ok, ~ ok)
    BY <1>1 DEF Settle, Running
  <2>2. Planned(t).skill \in Skill
    BY <2>1, FrameType DEF Inv, PlannedStep
  <2>3. ok \in BOOLEAN /\ (~ ok) \in BOOLEAN
    OBVIOUS
  <2> HIDE DEF ok
  <2> QED
    BY <2>1, <2>2, <2>3 DEF Ledger!Next, Ledger!Operation
<1>2. CASE ~ Settle(t)
  BY <1>2 DEF Work, Start, Precheck, CheckGuardian, EvaluatePolicy, CheckSandbox, CheckNetwork,
              Dispatch, Decide, ledgerVars, Ledger!vars
<1> QED
  BY <1>1, <1>2

LEMMA OthersBookNothing ==
  ASSUME (Environment /\ UNCHANGED now) \/ Tick
  PROVE  [Ledger!Next]_(Ledger!vars)
<1>1. Environment => UNCHANGED ledgerVars
  BY DEF Environment, Administer, RegisterSkill
<1>2. Tick => Ledger!Next
  BY DEF Tick, Ledger!Next
<1> QED
  BY <1>1, <1>2 DEF ledgerVars, Ledger!vars

LEMMA BooksOrNot ==
  ASSUME Inv, [Next]_vars
  PROVE  [Ledger!Next]_(Ledger!vars)
<1>1. ASSUME NEW t \in Thread, Return(t) \/ Raise(t) \/ Call(t)
      PROVE  UNCHANGED ledgerVars
  BY <1>1 DEF Return, Raise, Leave, Call, Execute
<1>2. UNCHANGED vars => UNCHANGED <<known, scores, now>>
  BY DEF vars
<1> QED
  BY <1>1, <1>2, WorkBooks, OthersBookNothing DEF Next, ledgerVars, Ledger!vars

(* Refinement: whatever plans are executed at once, the orchestrator uses the  *)
(* ledger by its operations only, one call at a time.                          *)
THEOREM LedgerIsCalled == Spec => Ledger!Spec
<1>1. Init => Ledger!Init
  BY DEF Init
<1>2. Inv /\ [Next]_vars => [Ledger!Next]_(Ledger!vars)
  BY BooksOrNot
<1> QED
  BY <1>1, <1>2, ExecutionInvariant, PTL DEF Spec, Ledger!Spec

\* Both instances of TrustLedger are the same state machine.
LEMMA SameLedger == [Ledger!Next]_(Ledger!vars) => [LedgerProofs!Next]_(LedgerProofs!vars)
<1>1. ASSUME NEW c \in Skill, Ledger!Operation(c)
      PROVE  LedgerProofs!Operation(c)
  <2>1. ASSUME NEW confirmed \in BOOLEAN, NEW error \in BOOLEAN,
               Ledger!RecordOutcome(c, confirmed, error)
        PROVE  LedgerProofs!RecordOutcome(c, confirmed, error)
    BY <2>1 DEF Ledger!RecordOutcome, Ledger!NextScores, Ledger!ChargeError, Ledger!Confirm,
                Ledger!Reject, LedgerProofs!RecordOutcome, LedgerProofs!NextScores,
                LedgerProofs!ChargeError, LedgerProofs!Confirm, LedgerProofs!Reject
  <2> QED
    BY <1>1, <2>1
       DEF Ledger!Operation, Ledger!IsUnlocked, Ledger!ResetCategory, Ledger!UnlockCategory,
           Ledger!NewScores, LedgerProofs!Operation, LedgerProofs!IsUnlocked,
           LedgerProofs!ResetCategory, LedgerProofs!UnlockCategory, LedgerProofs!NewScores
<1>2. Ledger!Tick => LedgerProofs!Tick
  BY DEF Ledger!Tick, LedgerProofs!Tick, Ledger!ledgerVars, LedgerProofs!ledgerVars
<1> QED
  BY <1>1, <1>2 DEF Ledger!Next, LedgerProofs!Next, Ledger!vars, LedgerProofs!vars

LEMMA LedgerIsTheOneProved == Ledger!Spec => LedgerProofs!Spec
<1>1. Ledger!Init => LedgerProofs!Init
  BY DEF Ledger!Init, Ledger!NewScores, LedgerProofs!Init, LedgerProofs!NewScores
<1> QED
  BY <1>1, SameLedger, PTL DEF Ledger!Spec, LedgerProofs!Spec

LEMMA ThresholdsAreThoseProved == LedgerProofs!LedgerConstants
  BY OrchestratorConstants DEF LedgerProofs!LedgerConstants

(* So a skill is locked exactly when its run of failed dispatches reached the  *)
(* threshold, however many workers fail it at once: each outcome is counted    *)
(* until the lock, and none after it.                                          *)
THEOREM FailuresLock == Spec => []LedgerProofs!LockMatchesRejections
  BY ThresholdsAreThoseProved, LedgerProofs!LockIsExact, LedgerIsTheOneProved, LedgerIsCalled,
     PTL

(* A failure that no success followed leaves the skill suspended or locked,    *)
(* and no suspension is longer than one term.                                  *)
THEOREM FailuresAreSanctioned == Spec => []LedgerProofs!RejectionIsSanctioned
  BY ThresholdsAreThoseProved, LedgerProofs!RejectionsAreSanctioned, LedgerIsTheOneProved,
     LedgerIsCalled, PTL

(* No execution makes is_unlocked true while a suspension is running: a retry  *)
(* that succeeds meanwhile does not shorten it.                                *)
THEOREM RetriesServeSuspensions == Spec => LedgerProofs!SuspensionIsServed
  BY ThresholdsAreThoseProved, LedgerProofs!SuspensionsAreServed, LedgerIsTheOneProved,
     LedgerIsCalled, PTL

-------------------------------------------------------------------------------
\* The types of the orchestrator as a whole, which the invariants above hold in parts.

(* What the invariants above leave out: the labels are those of execute_plan.  *)
TypesBeside ==
  /\ registered \subseteq Skill /\ runs \in Nat
  /\ pc \in [Thread -> Label]
  /\ lost \in [Thread -> SUBSET Capability] /\ abandoned \subseteq Plan

LEMMA WorkGoesTo ==
  ASSUME NEW t \in Thread, Work(t)
  PROVE  \E label \in Label : pc' = [pc EXCEPT ![t] = label]
<1>1. ASSUME NEW fate, NextStep(t, fate) \/ FailPlan(t, fate)
      PROVE  \E label \in Label : pc' = [pc EXCEPT ![t] = label]
  BY <1>1 DEF NextStep, FailPlan, GoTo, Label
<1>2. ASSUME NEW code, Deny(t, code)
      PROVE  \E label \in Label : pc' = [pc EXCEPT ![t] = label]
  BY <1>1, <1>2 DEF Deny
<1>3. ASSUME NEW label \in Label, Pass(t, label)
      PROVE  \E l \in Label : pc' = [pc EXCEPT ![t] = l]
  BY <1>3 DEF Pass, GoTo
<1>4. {"guardian", "policy", "sandbox", "network", "dispatch", "settle", "decide",
       "precheck", "done"} \subseteq Label
  BY DEF Label
<1>5. CASE Start(t) \/ Dispatch(t)
  BY <1>4, <1>5 DEF Start, Dispatch, GoTo
<1>6. CASE Precheck(t)
  BY <1>2, <1>3, <1>4, <1>6 DEF Precheck
<1>7. CASE CheckGuardian(t)
  BY <1>2, <1>3, <1>4, <1>7 DEF CheckGuardian
<1>8. CASE EvaluatePolicy(t)
  BY <1>2, <1>3, <1>4, <1>8 DEF EvaluatePolicy
<1>9. CASE CheckSandbox(t)
  BY <1>2, <1>3, <1>4, <1>9 DEF CheckSandbox
<1>10. CASE CheckNetwork(t)
  BY <1>2, <1>3, <1>4, <1>10 DEF CheckNetwork
<1>11. CASE Settle(t)
  BY <1>1, <1>4, <1>11 DEF Settle, GoTo
<1>12. CASE Decide(t)
  BY <1>1, <1>3, <1>4, <1>12 DEF Decide
<1> QED
  BY <1>5, <1>6, <1>7, <1>8, <1>9, <1>10, <1>11, <1>12 DEF Work

LEMMA WatchedRowsType ==
  ASSUME lost \in [Thread -> SUBSET Capability], WatchRows
  PROVE  lost' \in [Thread -> SUBSET Capability]
<1>1. ASSUME NEW t \in Thread
      PROVE  lost[t] \cup Ended(Planned(t).skill) \in SUBSET Capability
  BY DEF Ended
<1> QED
  BY <1>1 DEF WatchRows

LEMMA TypesBesideStep ==
  ASSUME TypesBeside, [Next]_vars
  PROVE  TypesBeside'
<1>0. abandoned' \subseteq Plan
  BY DEF TypesBeside, Next, WatchExits, vars
<1>1. ASSUME NEW t \in Thread, Work(t), WatchRows
      PROVE  TypesBeside'
  <2>1. PICK label \in Label : pc' = [pc EXCEPT ![t] = label]
    BY <1>1, WorkGoesTo
  <2>2. UNCHANGED <<registered, runs>>
    BY <1>1 DEF Work, Start, Precheck, CheckGuardian, EvaluatePolicy, CheckSandbox,
                CheckNetwork, Dispatch, Settle, Decide
  <2> QED
    BY <1>0, <1>1, <2>1, <2>2, WatchedRowsType DEF TypesBeside
<1>2. ASSUME NEW t \in Thread, Return(t) \/ Raise(t) \/ Call(t), WatchRows
      PROVE  TypesBeside'
  <2>1. PICK label \in Label : pc' = [pc EXCEPT ![t] = label]
    BY <1>2 DEF Return, Raise, Leave, Call, Execute, GoTo, Label
  <2>2. registered' = registered /\ runs' \in Nat
    BY <1>2 DEF Return, Raise, Leave, Call, Execute, TypesBeside
  <2> QED
    BY <1>0, <1>2, <2>1, <2>2, WatchedRowsType DEF TypesBeside
<1>3. CASE (Environment \/ Tick) /\ WatchRows
  <2>1. UNCHANGED <<pc, runs>> /\ registered' \subseteq Skill
    BY <1>3 DEF Environment, Administer, RegisterSkill, Tick, threadVars, TypesBeside
  <2> QED
    BY <1>0, <1>3, <2>1, WatchedRowsType DEF TypesBeside
<1>4. UNCHANGED vars => TypesBeside'
  BY DEF vars, TypesBeside
<1> QED
  BY <1>1, <1>2, <1>3, <1>4 DEF Next

(* The orchestrator, its guardian and its ledger are type correct, however     *)
(* many workers execute the plans: execute_plan over shared PlanStep objects.  *)
THEOREM TypeCorrect == Spec => []TypeOK
<1>1. Init => TypesBeside
  BY OrchestratorConstants DEF Init, TypesBeside, Label
<1>2. TypesBeside /\ [Next]_vars => TypesBeside'
  BY TypesBesideStep
<1>3. AuthorityInv => permissions \in [Skill -> [Capability -> Caps!Expiry]]
  BY DEF AuthorityInv, PermissionsOK
<1>4. LedgerProofs!TypeOK => Ledger!TypeOK
  BY DEF LedgerProofs!TypeOK, Ledger!TypeOK, LedgerProofs!Scores, Ledger!Scores
<1>5. Inv /\ OrderInv /\ AuthorityInv /\ LedgerProofs!TypeOK /\ TypesBeside => TypeOK
  BY <1>3, <1>4 DEF Inv, IInv, StepsOK, ThreadsOK, ResultsOK, OrderInv, Typed, TypesBeside,
                    TypeOK
<1> QED
  BY <1>1, <1>2, <1>5, ExecutionInvariant, OrderInvariant, AuthorityInvariant,
     ThresholdsAreThoseProved, LedgerProofs!TypeCorrect, LedgerIsTheOneProved, LedgerIsCalled,
     PTL DEF Spec
===============================================================================
