------------------------------ MODULE ServiceProofs ------------------------------
(* Theorems about the services around the plans, for all values of their       *)
(* constants: about each component by itself, and at the end that these hold   *)
(* of the services side by side.                                               *)
EXTENDS Services, FiniteSetTheorems, SequenceTheorems, WellFoundedInduction, TLAPS

-------------------------------------------------------------------------------
\* The scheduler.

Limits(files) == files \ {"io"}

(* Two calls that are both between their sample and their stamp have been      *)
(* noticed, and a call that is about to forget the time has released.          *)
YieldInv ==
  /\ SchedulerTypeOK
  /\ \A t, u \in Thread :
       yielding[t].at \in {"verdict", "stamp"} /\ yielding[u].at \in {"verdict", "stamp"}
         => t = u \/ disowned
  /\ \A t \in Thread :
       yielding[t].at = "stamp" /\ ~ yielding[t].throttle => Limits(capped) = {} \/ disowned
  /\ CapsAreOwned

LEMMA EnforceType == Enforce /\ capped \subseteq CgroupFiles => capped' \subseteq CgroupFiles
  BY DEF Enforce

LEMMA ReleaseFacts ==
  ASSUME Release, SchedulerTypeOK
  PROVE  /\ capped' \subseteq CgroupFiles /\ disowned' \in BOOLEAN
         /\ Limits(capped') = {} \/ disowned'
         /\ disowned => disowned'
         /\ Limits(capped') # {} => Limits(capped) # {}
  BY DEF Release, SchedulerTypeOK, Limits

LEMMA YieldStepKeeps ==
  ASSUME YieldInv, NEW t \in Thread, YieldStep(t)
  PROVE  YieldInv'
<1>1. CASE Throttle(t)
  BY <1>1 DEF Throttle, Enforce, YieldGoesTo, YieldInv, SchedulerTypeOK, CapsAreOwned, Limits
<1>2. CASE Unthrottle(t)
  BY <1>2, ReleaseFacts DEF Unthrottle, YieldGoesTo, YieldInv, SchedulerTypeOK, CapsAreOwned, Limits
<1>3. CASE LeaveAsIs(t)
  BY <1>3 DEF LeaveAsIs, YieldGoesTo, YieldInv, SchedulerTypeOK, CapsAreOwned, Limits
<1>4. CASE StampThrottle(t)
  BY <1>4 DEF StampThrottle, YieldGoesTo, YieldInv, SchedulerTypeOK, CapsAreOwned, Limits
<1> QED
  BY <1>1, <1>2, <1>3, <1>4 DEF YieldStep

LEMMA SchedulerStepKeeps ==
  ASSUME YieldInv, [SchedulerNext]_schedulerVars
  PROVE  YieldInv'
<1>1. CASE LoadChanges
  BY <1>1 DEF LoadChanges, YieldInv, SchedulerTypeOK, CapsAreOwned, Limits
<1>2. CASE WindowPasses
  BY <1>2 DEF WindowPasses, YieldInv, SchedulerTypeOK, CapsAreOwned, Limits
<1>3. CASE HandleMemoryPressure
  BY <1>3 DEF HandleMemoryPressure, Enforce, YieldInv, SchedulerTypeOK, CapsAreOwned, Limits
<1>4. CASE RestoreLLMResources
  BY <1>4, ReleaseFacts DEF RestoreLLMResources, YieldInv, SchedulerTypeOK, CapsAreOwned, Limits
<1>5. CASE SchedulerRestarts
  BY <1>5 DEF SchedulerRestarts, NoYield, YieldInv, SchedulerTypeOK, CapsAreOwned, Limits
<1>6. ASSUME NEW t \in Thread, SampleLoad(t)
      PROVE  YieldInv'
  BY <1>6 DEF SampleLoad, YieldInv, SchedulerTypeOK, CapsAreOwned, Limits
<1>7. ASSUME NEW t \in Thread, YieldStep(t)
      PROVE  YieldInv'
  BY <1>7, YieldStepKeeps
<1>8. ASSUME NEW t \in Thread, YieldReturns(t)
      PROVE  YieldInv'
  BY <1>8 DEF YieldReturns, NoYield, YieldInv, SchedulerTypeOK, CapsAreOwned, Limits
<1>9. CASE UNCHANGED schedulerVars
  BY <1>9 DEF schedulerVars, YieldInv, SchedulerTypeOK, CapsAreOwned, Limits
<1> QED
  BY <1>1, <1>2, <1>3, <1>4, <1>5, <1>6, <1>7, <1>8, <1>9
     DEF SchedulerNext, SchedulerEnvironment

LEMMA SchedulerStarts == SchedulerInit => YieldInv
<1> SUFFICES ASSUME SchedulerInit
             PROVE  YieldInv
  OBVIOUS
<1>1. \A t \in Thread : yielding[t].at = "out"
  BY DEF SchedulerInit, NoYield
<1>2. SchedulerTypeOK /\ capped = {}
  BY DEF SchedulerInit, SchedulerTypeOK, NoYield
<1> QED
  BY <1>1, <1>2 DEF YieldInv, CapsAreOwned, Limits

(* A limit on processor or memory is one the scheduler knows of, for any       *)
(* number of threads in schedule_yield and any files the cgroup offers.        *)
THEOREM LimitsAreOwned == SchedulerSpec => []CapsAreOwned
<1>1. YieldInv => CapsAreOwned
  BY DEF YieldInv
<1> QED
  BY <1>1, SchedulerStarts, SchedulerStepKeeps, PTL DEF SchedulerSpec

LEMMA DaemonStepsSchedule ==
  ASSUME [DaemonNext]_<<daemonVars, schedulerVars>>
  PROVE  [SchedulerNext]_schedulerVars
<1>1. ASSUME NEW t \in Thread, CycleStep(t)
      PROVE  [SchedulerNext]_schedulerVars
  BY <1>1 DEF CycleStep, StartCycle, Yield, SetThrottled, Observe, EndObservation, ShadowJob,
              FindInput, ExecuteInput, ResetMode, EndCycle, SchedulerNext
<1>2. ASSUME NEW t \in Thread, CloseFile(t) \/ Reject(t) \/ DecisionReturns(t)
                                 \/ \E d \in Decision : Decide(t, d)
      PROVE  UNCHANGED schedulerVars
  BY <1>2 DEF CloseFile, Reject, DecisionReturns, Decide
<1>3. CASE EnqueueInput \/ Start \/ DeleteStateFile
  BY <1>3 DEF EnqueueInput, Start, DeleteStateFile
<1>4. CASE Exit
  BY <1>4 DEF Exit, SchedulerNext
<1>5. CASE SchedulerEnvironment
  BY <1>5 DEF SchedulerNext
<1> QED
  BY <1>1, <1>2, <1>3, <1>4, <1>5 DEF DaemonNext, DaemonCall

(* The cycles of the daemon use the scheduler as the scheduler is specified:   *)
(* every step of the daemon is one of the scheduler, or leaves it alone.       *)
THEOREM DaemonRunsTheScheduler == DaemonSpec => SchedulerSpec
<1>1. DaemonInit => SchedulerInit
  BY DEF DaemonInit
<1>2. [DaemonNext]_<<daemonVars, schedulerVars>> => [SchedulerNext]_schedulerVars
  BY DaemonStepsSchedule
<1> QED
  BY <1>1, <1>2, PTL DEF DaemonSpec, SchedulerSpec

COROLLARY DaemonLimitsAreOwned == DaemonSpec => []CapsAreOwned
  BY DaemonRunsTheScheduler, LimitsAreOwned

-------------------------------------------------------------------------------
\* The modes of the daemon.

(* Where saves do not overlap, the file that is saved to holds the state or the *)
(* one thread that is writing will complete it; between two processes nobody is at work.       *)
SaveInv ==
  /\ running /\ ~ mixed =>
       /\ file[path] \in {state, Cut}
       /\ \A t \in Thread : saving[t] # NoSave => file[path] = Cut /\ saving[t] = state
       /\ \A t, u \in Thread : saving[t] # NoSave /\ saving[u] # NoSave => t = u
  /\ ~ running =>
       /\ starts < MaxStarts
       /\ \A t \in Thread : saving[t] = NoSave /\ task[t] = Idle
       /\ starts > 0 /\ ~ mixed => file[path] \in {Missing, Cut, state}

WantsAutonomy == wanted \in {"autonomy", "unsure"} \/ Deciding # {}

(* The active mode, in memory or in the file a process that ended had saved to, *)
(* is one the user wants or may want; a clear decision is the only one under way; a   *)
(* cycle that works the queue saw the active mode when it began.               *)
ModeInv ==
  /\ running /\ state.mode = Active => WantsAutonomy
  /\ ~ running /\ file[path] \in State /\ file[path].mode = Active
       => wanted \in {"autonomy", "unsure"}
  /\ \A t \in Thread :
       /\ task[t].decision # "none" =>
            task[t].mode = Unknown /\ (task[t].clear => Deciding = {t})
       /\ task[t].at \in {"rejecting", "decided"} <=> task[t].decision # "none"
       /\ task[t].at = "decided" /\ task[t].clear /\ task[t].decision # "autonomy"
            => state.mode # Active
       /\ task[t].mode = Active => task[t].clear
       /\ task[t].at = "pop" => task[t].mode = Active

Place == {"idle", "yield", "branch", "observed", "pop", "end", "rejecting", "decided"}
Task == [at : Place, mode : Mode, decision : Decision \cup {"none"}, clear : BOOLEAN]

FilesType == path \in Path /\ file \in [Path -> State \cup {Missing, Cut}]

LEMMA DefaultStateType ==
  /\ DefaultState \in State /\ [DefaultState EXCEPT !.mode = Unknown] \in State
  /\ Idle \in Task /\ DefaultState.mode # Active
  /\ [DefaultState EXCEPT !.mode = Unknown].mode # Active
<1>1. 1 \in 1 .. ObservationDays + 1
  BY DaemonConstants
<1> QED
  BY <1>1 DEF DefaultState, State, Mode, Observation, Unknown, Active, Idle, Task, Place

(* A save by a thread that is not saving yet.                                  *)
LEMMA SetSaves ==
  ASSUME DaemonTypeOK, SaveInv, running, NEW t \in Thread, saving[t] = NoSave,
         NEW new \in State, Set(t, new), UNCHANGED running
  PROVE  /\ state' \in State /\ FilesType' /\ mixed' \in BOOLEAN
         /\ saving' \in [Thread -> State \cup {NoSave}]
         /\ SaveInv'
<1>1. /\ state' = new /\ saving' \in [Thread -> State \cup {NoSave}]
      /\ mixed' = \E o \in Thread \ {t} : saving[o] # NoSave
      /\ saving'[t] = new /\ \A o \in Thread \ {t} : saving'[o] = saving[o]
  BY DEF Set, DaemonTypeOK
<1>2. path' \in Path /\ file' = [file EXCEPT ![path'] = Cut]
  BY DEF Set, DaemonTypeOK, Path
<1>3. FilesType' /\ file'[path'] = Cut
  BY <1>2 DEF DaemonTypeOK, FilesType
<1> QED
  BY <1>1, <1>3 DEF SaveInv

(* What the steps of a thread do to the state: they save it, or leave it.      *)
NewState(new) ==
  \/ \E mode \in Mode \ {Active} : new = [state EXCEPT !.mode = mode]
  \/ \E day \in 1 .. ObservationDays + 1 : new = [state EXCEPT !.day = day]
  \/ \E b \in BOOLEAN : new = [state EXCEPT !.throttled = b]

LEMMA NewStateType ==
  ASSUME state \in State, NEW new, NewState(new)
  PROVE  new \in State /\ (new.mode = Active => state.mode = Active)
  BY DEF NewState, State, Active

CycleSaves(t) ==
  \/ UNCHANGED <<path, state, file, saving, mixed>>
  \/ saving[t] = NoSave /\ \E new \in State : NewState(new) /\ Set(t, new)

LEMMA CycleSavesKeeps ==
  ASSUME DaemonTypeOK, SaveInv, running, NEW t \in Thread, CycleSaves(t), UNCHANGED running
  PROVE  /\ state' \in State /\ FilesType' /\ mixed' \in BOOLEAN
         /\ saving' \in [Thread -> State \cup {NoSave}]
         /\ SaveInv' /\ (state'.mode = Active => state.mode = Active)
<1>1. CASE UNCHANGED <<path, state, file, saving, mixed>>
  BY <1>1 DEF DaemonTypeOK, SaveInv, FilesType
<1>2. ASSUME saving[t] = NoSave, NEW new \in State, NewState(new), Set(t, new)
      PROVE  /\ state' \in State /\ FilesType' /\ mixed' \in BOOLEAN
             /\ saving' \in [Thread -> State \cup {NoSave}]
             /\ SaveInv' /\ (state'.mode = Active => state.mode = Active)
  <2>1. state' = new /\ state \in State
    BY <1>2 DEF Set, DaemonTypeOK
  <2>2. state'.mode = Active => state.mode = Active
    BY <1>2, <2>1, NewStateType
  <2> QED
    BY <1>2, <2>2, SetSaves
<1> QED
  BY <1>1, <1>2 DEF CycleSaves

CycleTask(q) ==
  /\ q \in Task /\ q.decision = "none" /\ q.at \notin {"rejecting", "decided"}
  /\ (q.mode = Active => q.clear) /\ (q.at = "pop" => q.mode = Active)

\* Every step of a cycle, but for what it does to the scheduler.
CycleGoes(t) ==
  /\ running /\ UNCHANGED <<running, reach, starts, wanted>>
  /\ CycleSaves(t)
  /\ inputs' \in 0 .. MaxInputs /\ (inputs' < inputs => task[t].at = "pop")
  /\ \/ UNCHANGED task
     \/ /\ task[t].decision = "none"
        /\ \E q \in Task : CycleTask(q) /\ task' = [task EXCEPT ![t] = q]

LEMMA TaskType ==
  ASSUME DaemonTypeOK, NEW t \in Thread
  PROVE  /\ task \in [Thread -> Task] /\ task[t] \in Task
         /\ task[t].at \in Place /\ task[t].mode \in Mode /\ task[t].clear \in BOOLEAN
         /\ task[t].decision \in Decision \cup {"none"}
  BY DEF DaemonTypeOK, Task, Place

(* Going on to another place of the cycle.                                     *)
LEMMA PlaceGoes ==
  ASSUME DaemonTypeOK, ModeInv, NEW t \in Thread,
         task[t].at \notin {"rejecting", "decided"},
         NEW place \in {"yield", "branch", "observed", "pop", "end"}, Goes(t, place),
         place = "pop" => task[t].mode = Active
  PROVE  /\ task[t].decision = "none"
         /\ \E q \in Task : CycleTask(q) /\ task' = [task EXCEPT ![t] = q]
<1> DEFINE q == [task[t] EXCEPT !.at = place]
<1>1. /\ task[t].decision = "none"
      /\ task[t].mode = Active => task[t].clear
  BY DEF ModeInv
<1>2. task[t] \in Task
  BY TaskType
<1>3. q \in Task /\ q.at = place /\ q.mode = task[t].mode /\ q.clear = task[t].clear
      /\ q.decision = task[t].decision
  BY <1>2 DEF Task, Place
<1>4. task' = [task EXCEPT ![t] = q]
  BY DEF Goes
<1> HIDE DEF q
<1>5. CycleTask(q)
  BY <1>1, <1>3 DEF CycleTask
<1> QED
  BY <1>1, <1>3, <1>4, <1>5

LEMMA CycleStepGoes ==
  ASSUME DaemonTypeOK, SchedulerTypeOK, ModeInv, NEW t \in Thread, CycleStep(t)
  PROVE  CycleGoes(t)
<1>1. /\ state \in State /\ MaxInputs \in Nat \ {0} /\ inputs \in 0 .. MaxInputs
      /\ ObservationDays \in Nat \ {0}
  BY DaemonConstants DEF DaemonTypeOK
<1>2. CASE StartCycle(t)
  <2> DEFINE q == [Idle EXCEPT !.at = "yield", !.mode = state.mode,
                     !.clear = wanted \in {"autonomy", "unsure"} \/ Deciding # {}]
  <2>1. q \in Task /\ q.decision = "none" /\ q.at = "yield" /\ q.mode = state.mode
        /\ q.clear = (wanted \in {"autonomy", "unsure"} \/ Deciding # {})
    BY <1>1 DEF Idle, Task, Place, State
  <2>2. task' = [task EXCEPT ![t] = q]
    BY <1>2 DEF StartCycle
  <2> HIDE DEF q
  <2>3. running /\ task[t].decision = "none"
        /\ UNCHANGED <<running, reach, path, state, file, saving, mixed, inputs, starts, wanted>>
    BY <1>2 DEF StartCycle, At, ModeInv
  <2>4. CycleTask(q)
    BY <2>1, <2>3 DEF CycleTask, ModeInv, WantsAutonomy
  <2>5. CycleSaves(t) /\ inputs' \in 0 .. MaxInputs /\ ~ inputs' < inputs
    BY <1>1, <2>3 DEF CycleSaves
  <2> QED
    BY <2>1, <2>2, <2>3, <2>4, <2>5 DEF CycleGoes
<1>3. CASE Yield(t)
  BY <1>1, <1>3 DEF Yield, daemonVars, CycleGoes, CycleSaves
<1>4. CASE SetThrottled(t)
  <2> DEFINE new == [state EXCEPT !.throttled = yielding[t].throttle]
  <2>1. yielding[t].throttle \in BOOLEAN
    BY DEF SchedulerTypeOK
  <2>2. NewState(new)
    BY <2>1 DEF NewState
  <2>3. CycleSaves(t)
    BY <1>1, <1>4, <2>2, NewStateType DEF SetThrottled, At, CycleSaves
  <2>4. UNCHANGED <<running, reach, inputs, starts, wanted>> /\ Goes(t, "branch")
        /\ running /\ task[t].at = "yield"
    BY <1>4 DEF SetThrottled, At
  <2> QED
    BY <1>1, <2>3, <2>4, PlaceGoes DEF CycleGoes
<1>5. CASE Observe(t)
  <2> DEFINE day == IF state.day > ObservationDays THEN state.day ELSE state.day + 1
             new == [state EXCEPT !.day = day]
  <2>1. day \in 1 .. ObservationDays + 1
    BY <1>1 DEF State
  <2>2. Set(t, new)
    BY <1>5 DEF Observe
  <2> HIDE DEF day
  <2>3. NewState(new)
    BY <2>1 DEF NewState
  <2>4. CycleSaves(t)
    BY <1>1, <1>5, <2>2, <2>3, NewStateType DEF Observe, At, CycleSaves
  <2> QED
    BY <1>1, <1>5, <2>4, PlaceGoes DEF Observe, At, CycleGoes
<1>6. CASE EndObservation(t)
  <2> DEFINE new == [state EXCEPT !.mode = Shadow]
  <2>1. NewState(new)
    BY DEF NewState, Mode, Shadow, Active
  <2>2. CycleSaves(t)
    BY <1>1, <1>6, <2>1, NewStateType DEF EndObservation, At, CycleSaves
  <2>3. Goes(t, "end")
    BY <1>6 DEF EndObservation
  <2> QED
    BY <1>1, <1>6, <2>2, <2>3, PlaceGoes DEF EndObservation, At, CycleGoes
<1>7. CASE ShadowJob(t)
  BY <1>1, <1>7, PlaceGoes DEF ShadowJob, At, CycleGoes, CycleSaves
<1>8. CASE FindInput(t)
  BY <1>1, <1>8, PlaceGoes DEF FindInput, At, CycleGoes, CycleSaves
<1>9. CASE ExecuteInput(t)
  <2>1. inputs' \in 0 .. MaxInputs
    BY <1>1, <1>9 DEF ExecuteInput
  <2> QED
    BY <1>9, <2>1, PlaceGoes DEF ExecuteInput, At, CycleGoes, CycleSaves
<1>10. CASE ResetMode(t)
  <2> DEFINE new == [state EXCEPT !.mode = Observation]
  <2>1. NewState(new)
    BY DEF NewState, Mode, Observation, Active
  <2>2. CycleSaves(t)
    BY <1>1, <1>10, <2>1, NewStateType DEF ResetMode, At, CycleSaves
  <2> QED
    BY <1>1, <1>10, <2>2, PlaceGoes DEF ResetMode, At, CycleGoes
<1>11. CASE EndCycle(t)
  <2>1. Idle \in Task /\ CycleTask(Idle) /\ task[t].decision = "none"
    BY <1>11, DefaultStateType DEF CycleTask, Idle, Unknown, Active, EndCycle, At, ModeInv
  <2>2. /\ running /\ task' = [task EXCEPT ![t] = Idle]
        /\ UNCHANGED <<running, reach, path, state, file, saving, mixed, inputs, starts, wanted>>
    BY <1>11 DEF EndCycle, At
  <2>3. CycleSaves(t) /\ inputs' \in 0 .. MaxInputs /\ ~ inputs' < inputs
    BY <1>1, <2>2 DEF CycleSaves
  <2> QED
    BY <2>1, <2>2, <2>3 DEF CycleGoes
<1> QED
  BY <1>2, <1>3, <1>4, <1>5, <1>6, <1>7, <1>8, <1>9, <1>10, <1>11 DEF CycleStep

DaemonInv == DaemonTypeOK /\ SaveInv /\ ModeInv

LEMMA CycleKeeps ==
  ASSUME DaemonInv, SchedulerTypeOK, NEW t \in Thread, CycleStep(t)
  PROVE  DaemonInv'
<1>1. CycleGoes(t)
  BY CycleStepGoes DEF DaemonInv
<1>2. /\ state' \in State /\ FilesType' /\ mixed' \in BOOLEAN
      /\ saving' \in [Thread -> State \cup {NoSave}]
      /\ SaveInv' /\ (state'.mode = Active => state.mode = Active)
  BY <1>1, CycleSavesKeeps DEF DaemonInv, CycleGoes
<1>3. task \in [Thread -> Task]
  BY TaskType DEF DaemonInv
<1>4. /\ task' \in [Thread -> Task] /\ Deciding' = Deciding
      /\ \A u \in Thread :
           \/ task'[u] = task[u]
           \/ CycleTask(task'[u]) /\ task[u].decision = "none"
  <2>1. CASE UNCHANGED task
    BY <1>3, <2>1 DEF Deciding
  <2>2. ASSUME task[t].decision = "none", NEW q \in Task, CycleTask(q),
               task' = [task EXCEPT ![t] = q]
        PROVE  /\ task' \in [Thread -> Task] /\ Deciding' = Deciding
               /\ \A u \in Thread :
                    \/ task'[u] = task[u]
                    \/ CycleTask(task'[u]) /\ task[u].decision = "none"
    BY <1>3, <2>2 DEF Deciding, CycleTask
  <2> QED
    BY <1>1, <2>1, <2>2 DEF CycleGoes
<1>5. running' /\ UNCHANGED <<running, reach, starts, wanted>> /\ inputs' \in 0 .. MaxInputs
  BY <1>1 DEF CycleGoes
<1>6. DaemonTypeOK'
  BY <1>2, <1>4, <1>5 DEF DaemonInv, DaemonTypeOK, FilesType, Task, Place
<1>7. ModeInv'
  <2>1. WantsAutonomy' = WantsAutonomy
    BY <1>4, <1>5 DEF WantsAutonomy
  <2>2. ASSUME NEW u \in Thread
        PROVE  /\ task'[u].decision # "none" =>
                    task'[u].mode = Unknown /\ (task'[u].clear => Deciding' = {u})
               /\ task'[u].at \in {"rejecting", "decided"} <=> task'[u].decision # "none"
               /\ task'[u].at = "decided" /\ task'[u].clear /\ task'[u].decision # "autonomy"
                    => state'.mode # Active
               /\ task'[u].mode = Active => task'[u].clear
               /\ task'[u].at = "pop" => task'[u].mode = Active
    <3>1. CASE task'[u] = task[u]
      BY <1>2, <1>4, <3>1 DEF DaemonInv, ModeInv
    <3>2. CASE CycleTask(task'[u])
      BY <3>2 DEF CycleTask
    <3> QED
      BY <1>4, <3>1, <3>2
  <2>3. running' /\ state'.mode = Active => WantsAutonomy'
    BY <1>1, <1>2, <2>1 DEF DaemonInv, ModeInv, CycleGoes
  <2> QED
    BY <1>5, <2>2, <2>3 DEF ModeInv
<1> QED
  BY <1>2, <1>6, <1>7 DEF DaemonInv

LEMMA CloseKeeps ==
  ASSUME DaemonInv, NEW t \in Thread, CloseFile(t)
  PROVE  DaemonInv'
<1>1. /\ path \in Path /\ file \in [Path -> State \cup {Missing, Cut}]
      /\ saving[t] \in State /\ saving[t] # NoSave
  BY DEF CloseFile, DaemonInv, DaemonTypeOK
<1>2. /\ saving' \in [Thread -> State \cup {NoSave}] /\ saving'[t] = NoSave
      /\ \A u \in Thread \ {t} : saving'[u] = saving[u]
      /\ file' \in [Path -> State \cup {Missing, Cut}]
      /\ file'[path] \in {saving[t], Cut} /\ (file[path] = Cut => file'[path] = saving[t])
  <2>1. PICK left \in {saving[t], Cut} :
          (left = Cut => file[path] # Cut) /\ file' = [file EXCEPT ![path] = left]
    BY DEF CloseFile
  <2> QED
    BY <1>1, <2>1, DaemonValues DEF CloseFile, DaemonInv, DaemonTypeOK
<1>3. running /\ UNCHANGED <<running, reach, path, state, task, inputs, starts, mixed, wanted>>
  BY DEF CloseFile
<1>4. DaemonTypeOK'
  BY <1>1, <1>2, <1>3 DEF DaemonInv, DaemonTypeOK
<1>5. SaveInv'
  BY <1>1, <1>2, <1>3 DEF DaemonInv, SaveInv
<1>6. ModeInv'
  BY <1>3 DEF DaemonInv, ModeInv, WantsAutonomy, Deciding
<1> QED
  BY <1>4, <1>5, <1>6 DEF DaemonInv

LEMMA DecidedType ==
  ASSUME state \in State, NEW d \in Decision
  PROVE  /\ Decided(d) \in State
         /\ d = "onboard" => Decided(d).mode # Active
<1>1. 1 \in 1 .. ObservationDays + 1
  BY DaemonConstants
<1>2. CASE d = "onboard"
  BY <1>2 DEF Decided, State, Mode, Active, Shadow
<1>3. CASE d = "autonomy"
  BY <1>3 DEF Decided, State, Mode, Active
<1>4. CASE d = "reject"
  BY <1>1, <1>4 DEF Decided, State
<1> QED
  BY <1>2, <1>3, <1>4 DEF Decision

(* A decision is clear only while no other was under way.                      *)
LEMMA DecideKeeps ==
  ASSUME DaemonInv, NEW t \in Thread, NEW d \in Decision, Decide(t, d)
  PROVE  DaemonInv'
<1> DEFINE q == [at |-> IF d = "reject" THEN "rejecting" ELSE "decided",
                 mode |-> Unknown, decision |-> d, clear |-> Deciding = {}]
<1>1. /\ running /\ UNCHANGED <<running, reach, inputs, starts, wanted>>
      /\ task[t].at = "idle" /\ saving[t] = NoSave /\ Set(t, Decided(d))
  BY DEF Decide, At
<1>2. state \in State /\ task \in [Thread -> Task] /\ d # "none"
  BY TaskType DEF DaemonInv, DaemonTypeOK, Decision
<1>3. task[t].decision = "none" /\ t \notin Deciding
  BY <1>1 DEF DaemonInv, ModeInv, Deciding
<1>4. /\ Decided(d) \in State /\ (d = "onboard" => Decided(d).mode # Active)
      /\ state' = Decided(d)
  BY <1>1, <1>2, DecidedType DEF Set
<1>5. /\ FilesType' /\ mixed' \in BOOLEAN
      /\ saving' \in [Thread -> State \cup {NoSave}] /\ SaveInv'
  BY <1>1, <1>4, SetSaves DEF DaemonInv
<1>6. /\ task'[t] = q
      /\ \A o \in Thread \ {t} : task[o].decision # "none" =>
           /\ task'[o].clear = FALSE /\ task'[o].mode = task[o].mode
           /\ task'[o].at = task[o].at /\ task'[o].decision = task[o].decision
           /\ task'[o] \in Task
      /\ \A o \in Thread \ {t} : task[o].decision = "none" => task'[o] = task[o]
  BY <1>2 DEF Decide, Task, Deciding
<1>7. q \in Task
  BY DEF Task, Place, Mode, Decision
<1>8. task' \in [Thread -> Task]
  <2>1. \A o \in Thread : task'[o] \in Task
    BY <1>2, <1>6, <1>7
  <2>2. task' = [o \in Thread |-> task'[o]]
    BY DEF Decide
  <2> QED
    BY <2>1, <2>2
<1>9. /\ q.at = (IF d = "reject" THEN "rejecting" ELSE "decided") /\ q.mode = Unknown
      /\ q.decision = d /\ q.clear = (Deciding = {})
  OBVIOUS
<1> HIDE DEF q
<1>10. Deciding' = Deciding \cup {t}
  BY <1>2, <1>6, <1>9 DEF Deciding
<1>11. DaemonTypeOK'
  BY <1>1, <1>4, <1>5, <1>8 DEF DaemonInv, DaemonTypeOK, FilesType, Task, Place
<1>12. ModeInv'
  <2>1. WantsAutonomy' /\ running'
    BY <1>1, <1>10 DEF WantsAutonomy
  <2>2. ASSUME NEW u \in Thread
        PROVE  /\ task'[u].decision # "none" =>
                    task'[u].mode = Unknown /\ (task'[u].clear => Deciding' = {u})
               /\ task'[u].at \in {"rejecting", "decided"} <=> task'[u].decision # "none"
               /\ task'[u].at = "decided" /\ task'[u].clear /\ task'[u].decision # "autonomy"
                    => state'.mode # Active
               /\ task'[u].mode = Active => task'[u].clear
               /\ task'[u].at = "pop" => task'[u].mode = Active
    <3>1. CASE u = t
      <4>1. d = "reject" \/ d = "autonomy" \/ d = "onboard"
        BY DEF Decision
      <4> QED
        BY <1>2, <1>4, <1>6, <1>9, <1>10, <3>1, <4>1 DEF Unknown, Active
    <3>2. CASE u # t /\ task[u].decision # "none"
      BY <1>6, <3>2 DEF DaemonInv, ModeInv, Unknown, Active
    <3>3. CASE u # t /\ task[u].decision = "none"
      BY <1>6, <3>3 DEF DaemonInv, ModeInv
    <3> QED
      BY <3>1, <3>2, <3>3
  <2> QED
    BY <2>1, <2>2 DEF ModeInv
<1> QED
  BY <1>5, <1>11, <1>12 DEF DaemonInv

LEMMA RejectKeeps ==
  ASSUME DaemonInv, NEW t \in Thread, Reject(t)
  PROVE  DaemonInv'
<1> DEFINE q == [task[t] EXCEPT !.at = "decided"]
           new == [state EXCEPT !.mode = Observation]
<1>1. /\ running /\ UNCHANGED <<running, reach, inputs, starts, wanted>>
      /\ task[t].at = "rejecting" /\ saving[t] = NoSave /\ Set(t, new)
      /\ task' = [task EXCEPT ![t] = q]
  BY DEF Reject, At, Goes
<1>2. state \in State /\ task \in [Thread -> Task] /\ task[t] \in Task
  BY TaskType DEF DaemonInv, DaemonTypeOK
<1>3. new \in State /\ new.mode # Active
  BY <1>2 DEF State, Mode, Observation, Active
<1>4. /\ FilesType' /\ mixed' \in BOOLEAN
      /\ saving' \in [Thread -> State \cup {NoSave}] /\ SaveInv'
  BY <1>1, <1>3, SetSaves DEF DaemonInv
<1>5. q \in Task /\ q.at = "decided" /\ q.mode = task[t].mode /\ q.clear = task[t].clear
      /\ q.decision = task[t].decision
  BY <1>2 DEF Task, Place
<1>6. state' = new
  BY <1>1 DEF Set
<1> HIDE DEF q, new
<1>7. /\ task' \in [Thread -> Task] /\ task'[t] = q
      /\ \A u \in Thread \ {t} : task'[u] = task[u]
  BY <1>1, <1>2, <1>5
<1>8. Deciding' = Deciding
  BY <1>5, <1>7 DEF Deciding
<1>9. DaemonTypeOK'
  BY <1>1, <1>3, <1>4, <1>6, <1>7 DEF DaemonInv, DaemonTypeOK, FilesType, Task, Place
<1>10. ModeInv'
  BY <1>1, <1>3, <1>5, <1>6, <1>7, <1>8 DEF DaemonInv, ModeInv, WantsAutonomy
<1> QED
  BY <1>4, <1>9, <1>10 DEF DaemonInv

(* A clear decision that ends was the only one: what is in force is what the   *)
(* user was answered last.                                                     *)
LEMMA DecisionReturnsKeeps ==
  ASSUME DaemonInv, NEW t \in Thread, DecisionReturns(t)
  PROVE  DaemonInv'
<1>1. /\ running /\ task[t].at = "decided" /\ task' = [task EXCEPT ![t] = Idle]
      /\ wanted' = (IF task[t].clear THEN task[t].decision ELSE "unsure")
      /\ UNCHANGED <<running, reach, path, state, file, saving, inputs, starts, mixed>>
  BY DEF DecisionReturns, At
<1>2. task \in [Thread -> Task] /\ Idle \in Task /\ task[t].decision \in Decision \cup {"none"}
  BY TaskType, DefaultStateType DEF DaemonInv
<1>3. /\ task' \in [Thread -> Task] /\ task'[t] = Idle
      /\ \A u \in Thread \ {t} : task'[u] = task[u]
  BY <1>1, <1>2
<1>4. Deciding' = Deciding \ {t}
  BY <1>3 DEF Deciding, Idle
<1>5. /\ task[t].clear => Deciding = {t}
      /\ state.mode = Active /\ task[t].clear => task[t].decision = "autonomy"
  BY <1>1 DEF DaemonInv, ModeInv
<1>6. running' /\ (state'.mode = Active => WantsAutonomy')
  BY <1>1, <1>5 DEF WantsAutonomy
<1>7. DaemonTypeOK'
  BY <1>1, <1>2, <1>3 DEF DaemonInv, DaemonTypeOK, FilesType, Task, Place
<1>8. SaveInv'
  BY <1>1 DEF DaemonInv, SaveInv
<1>9. ModeInv'
  <2>1. ASSUME NEW u \in Thread
        PROVE  /\ task'[u].decision # "none" =>
                    task'[u].mode = Unknown /\ (task'[u].clear => Deciding' = {u})
               /\ task'[u].at \in {"rejecting", "decided"} <=> task'[u].decision # "none"
               /\ task'[u].at = "decided" /\ task'[u].clear /\ task'[u].decision # "autonomy"
                    => state'.mode # Active
               /\ task'[u].mode = Active => task'[u].clear
               /\ task'[u].at = "pop" => task'[u].mode = Active
    <3>1. CASE u = t
      <4>1. /\ Idle.at = "idle" /\ Idle.decision = "none" /\ Idle.mode = Unknown
            /\ Idle.mode # Active
        BY DEF Idle, Unknown, Active
      <4>2. task'[u] = Idle
        BY <1>3, <3>1
      <4> QED
        BY <4>1, <4>2
    <3>2. CASE u # t
      <4>1. task'[u] = task[u] /\ state' = state
        BY <1>1, <1>3, <3>2
      <4>2. task[u].decision # "none" /\ task[u].clear => Deciding' = {u}
        <5>1. task[u].decision # "none" /\ task[u].clear => Deciding = {u}
          BY DEF DaemonInv, ModeInv
        <5> QED
          BY <1>1, <1>4, <3>2, <5>1 DEF DaemonInv, ModeInv, Deciding
      <4> QED
        BY <4>1, <4>2 DEF DaemonInv, ModeInv
    <3> QED
      BY <3>1, <3>2
  <2> QED
    BY <1>6, <2>1 DEF ModeInv
<1> QED
  BY <1>7, <1>8, <1>9 DEF DaemonInv

LEMMA ExitKeeps ==
  ASSUME DaemonInv, Exit
  PROVE  DaemonInv'
<1>1. /\ running /\ ~ running' /\ inputs' = 0 /\ UNCHANGED <<reach, path, state, file, starts, mixed>>
      /\ wanted' = (IF Deciding # {} \/ mixed THEN "unsure" ELSE wanted)
      /\ saving' = [t \in Thread |-> NoSave] /\ task' = [t \in Thread |-> Idle]
      /\ running' \in BOOLEAN /\ starts < MaxStarts
  BY DEF Exit
<1>2. Idle \in Task /\ 0 \in 0 .. MaxInputs
  BY DefaultStateType, DaemonConstants
<1>3. DaemonTypeOK'
  BY <1>1, <1>2 DEF DaemonInv, DaemonTypeOK, FilesType, Task, Place
<1>4. SaveInv'
  BY <1>1 DEF DaemonInv, SaveInv
<1>5. file[path] \in State /\ file[path].mode = Active => wanted' \in {"autonomy", "unsure"}
  <2>1. ~ mixed /\ file[path] \in State => file[path] = state
    BY <1>1, DaemonValues DEF DaemonInv, SaveInv
  <2> QED
    BY <1>1, <2>1 DEF DaemonInv, ModeInv, WantsAutonomy
<1>6. ModeInv'
  BY <1>1, <1>5 DEF ModeInv, Idle, Unknown, Active
<1> QED
  BY <1>3, <1>4, <1>6 DEF DaemonInv

LEMMA StartKeeps ==
  ASSUME DaemonInv, Start
  PROVE  /\ DaemonInv'
         /\ reach' # "hidden" /\ Reads(reach') = path
              => file[path] # Cut /\ (state' = file[path] \/ file[path] = Missing)
<1> DEFINE found == IF reach' = "hidden" THEN Missing ELSE file[Reads(reach')]
<1>1. /\ ~ running /\ running' /\ starts' = starts + 1 /\ ~ mixed'
      /\ UNCHANGED <<saving, task, inputs>>
      /\ running' \in BOOLEAN /\ mixed' \in BOOLEAN
      /\ reach' \in Reach /\ path' \in Path
  BY DEF Start, Path
<1>2. /\ found # Cut /\ state' = (IF found = Missing THEN DefaultState ELSE found)
      /\ file' = [file EXCEPT ![path'] = state']
      /\ wanted' = (IF state'.mode = Active /\ Reads(reach') # path THEN "unsure" ELSE wanted)
  BY DEF Start
<1>3. file \in [Path -> State \cup {Missing, Cut}] /\ Reads(reach') \in Path
      /\ wanted \in Decision \cup {"none", "unsure"}
  BY DEF DaemonInv, DaemonTypeOK, Reads, Path
<1>4. found \in State \cup {Missing, Cut}
  BY <1>3
<1>5. found = file[Reads(reach')] \/ (found = Missing /\ reach' = "hidden")
  OBVIOUS
<1> HIDE DEF found
<1>6. state' \in State
  BY <1>2, <1>4, DefaultStateType
<1>7. starts' \in 0 .. MaxStarts
  BY <1>1, DaemonConstants DEF DaemonInv, SaveInv, DaemonTypeOK
<1>8. /\ file' \in [Path -> State \cup {Missing, Cut}] /\ file'[path'] = state'
      /\ wanted' \in Decision \cup {"none", "unsure"}
  BY <1>1, <1>2, <1>3, <1>6
<1>9. DaemonTypeOK'
  BY <1>1, <1>6, <1>7, <1>8 DEF DaemonInv, DaemonTypeOK
<1>10. \A t \in Thread : saving'[t] = NoSave /\ task'[t] = Idle
  BY <1>1 DEF DaemonInv, SaveInv
<1>11. SaveInv'
  BY <1>1, <1>8, <1>10 DEF SaveInv
<1>12. ModeInv'
  <2>1. state'.mode = Active => wanted' \in {"autonomy", "unsure"}
    <3>1. CASE Reads(reach') # path
      BY <1>2, <3>1
    <3>2. CASE Reads(reach') = path
      <4>1. state'.mode = Active => found # Missing /\ found = state'
        BY <1>2, DefaultStateType
      <4>2. state'.mode = Active => state' = file[path]
        BY <1>5, <3>2, <4>1
      <4> QED
        BY <1>1, <1>2, <1>6, <3>2, <4>2 DEF DaemonInv, ModeInv
    <3> QED
      BY <3>1, <3>2
  <2>2. Idle.decision = "none" /\ Idle.at = "idle" /\ Idle.mode # Active
    BY DEF Idle, Unknown, Active
  <2> QED
    BY <1>1, <1>10, <2>1, <2>2 DEF ModeInv, WantsAutonomy
<1> QED
  BY <1>2, <1>5, <1>9, <1>11, <1>12 DEF DaemonInv

LEMMA DaemonStepKeeps ==
  ASSUME DaemonInv, SchedulerTypeOK, [DaemonNext]_<<daemonVars, schedulerVars>>
  PROVE  DaemonInv'
<1>1. ASSUME NEW t \in Thread,
             \/ CycleStep(t) \/ CloseFile(t)
             \/ \E d \in Decision : Decide(t, d)
             \/ Reject(t) \/ DecisionReturns(t)
      PROVE  DaemonInv'
  BY <1>1, CycleKeeps, CloseKeeps, DecideKeeps, RejectKeeps, DecisionReturnsKeeps
<1>2. CASE EnqueueInput
  <2>1. /\ inputs' \in 0 .. MaxInputs
        /\ UNCHANGED <<running, reach, path, state, file, saving, task, starts, mixed, wanted>>
    BY <1>2, DaemonConstants DEF EnqueueInput, DaemonInv, DaemonTypeOK
  <2> QED
    BY <2>1 DEF DaemonInv, DaemonTypeOK, SaveInv, ModeInv, WantsAutonomy, Deciding
<1>3. CASE Exit
  BY <1>3, ExitKeeps
<1>4. CASE Start
  BY <1>4, StartKeeps
<1>5. CASE DeleteStateFile
  <2>1. /\ ~ running /\ UNCHANGED <<running, reach, path, state, saving, task, inputs>>
        /\ UNCHANGED <<starts, mixed, wanted>>
    BY <1>5 DEF DeleteStateFile
  <2>2. PICK p \in Path : file[p] = Cut /\ file' = [file EXCEPT ![p] = Missing]
    BY <1>5 DEF DeleteStateFile
  <2>3. /\ path \in Path /\ file' \in [Path -> State \cup {Missing, Cut}]
        /\ file'[path] = file[path] \/ file'[path] = Missing
    BY <2>2 DEF DaemonInv, DaemonTypeOK
  <2>4. DaemonTypeOK' /\ SaveInv'
    BY <2>1, <2>3 DEF DaemonInv, DaemonTypeOK, SaveInv
  <2>5. ModeInv'
    BY <2>1, <2>3, DaemonValues DEF DaemonInv, ModeInv, WantsAutonomy, Deciding
  <2> QED
    BY <2>4, <2>5 DEF DaemonInv
<1>6. CASE UNCHANGED daemonVars
  BY <1>6 DEF daemonVars, DaemonInv, DaemonTypeOK, SaveInv, ModeInv, WantsAutonomy, Deciding
<1> QED
  BY <1>1, <1>2, <1>3, <1>4, <1>5, <1>6 DEF DaemonNext, DaemonCall

LEMMA DaemonStarts == DaemonInit => DaemonInv
<1> SUFFICES ASSUME DaemonInit
             PROVE  DaemonInv
  OBVIOUS
<1>1. /\ ~ running /\ running \in BOOLEAN /\ state = DefaultState
      /\ reach \in Reach /\ path \in Path
      /\ saving = [t \in Thread |-> NoSave] /\ task = [t \in Thread |-> Idle]
      /\ inputs = 0 /\ starts = 0 /\ mixed = FALSE /\ wanted = "none"
  BY DEF DaemonInit, Reach, Path
<1>0. /\ file \in [Path -> State \cup {Missing, Cut}]
      /\ file[path] \in State => file[path].mode # Active
  <2>1. PICK found \in {Missing, [DefaultState EXCEPT !.mode = Unknown]} :
          file = [p \in Path |-> IF p = "configured" THEN found ELSE Missing]
    BY DEF DaemonInit
  <2>2. found \in State \cup {Missing} /\ (found \in State => found.mode # Active)
    BY DefaultStateType, DaemonValues
  <2> HIDE DEF Path
  <2>3. file[path] \in {found, Missing} /\ file \in [Path -> State \cup {Missing, Cut}]
    BY <1>1, <2>1, <2>2
  <2> QED
    BY <2>2, <2>3, DaemonValues
<1>2. 0 \in 0 .. MaxInputs /\ 0 \in 0 .. MaxStarts /\ 0 < MaxStarts
  BY DaemonConstants
<1>3. DaemonTypeOK
  BY <1>0, <1>1, <1>2, DefaultStateType DEF DaemonTypeOK, Task, Place
<1>4. SaveInv
  BY <1>1, <1>2 DEF SaveInv
<1>5. ModeInv
  <2>1. \A t \in Thread : task[t].decision = "none" /\ task[t].at = "idle" /\ task[t].mode # Active
    BY <1>1 DEF Idle, Unknown, Active
  <2> QED
    BY <1>0, <1>1, <2>1 DEF ModeInv
<1> QED
  BY <1>3, <1>4, <1>5 DEF DaemonInv

LEMMA DaemonHolds == DaemonSpec => []DaemonInv /\ []SchedulerTypeOK
<1>1. SchedulerSpec => []YieldInv
  BY SchedulerStarts, SchedulerStepKeeps, PTL DEF SchedulerSpec
<1>2. YieldInv => SchedulerTypeOK
  BY DEF YieldInv
<1>3. DaemonSpec => []SchedulerTypeOK
  BY <1>1, <1>2, DaemonRunsTheScheduler, PTL
<1> QED
  BY <1>3, DaemonStarts, DaemonStepKeeps, PTL DEF DaemonSpec

(* The daemon works its queue only in a cycle that began while the user wanted *)
(* autonomy, for any number of threads in cycles and decisions, and over any   *)
(* number of exits and starts.                                                 *)
THEOREM QueueNeedsAutonomy == DaemonSpec => InputNeedsAutonomy
<1>1. ASSUME DaemonInv, SchedulerTypeOK, [DaemonNext]_<<daemonVars, schedulerVars>>,
             inputs' < inputs, running'
      PROVE  \E t \in Thread : task[t].at = "pop" /\ task[t].clear
  <2>1. inputs \in Nat
    BY <1>1 DEF DaemonInv, DaemonTypeOK
  <2>2. ASSUME NEW t \in Thread, CycleStep(t)
        PROVE  task[t].at = "pop" /\ task[t].clear
    BY <1>1, <2>2, CycleStepGoes DEF CycleGoes, DaemonInv, ModeInv
  <2>3. inputs' # inputs /\ inputs' # inputs + 1
    BY <1>1, <2>1
  <2> QED
    BY <1>1, <2>2, <2>3 DEF DaemonNext, DaemonCall, CloseFile, Decide, Reject, DecisionReturns,
                            EnqueueInput, Exit, Start, DeleteStateFile, daemonVars
<1>2. DaemonInv /\ SchedulerTypeOK /\ [DaemonNext]_<<daemonVars, schedulerVars>> =>
        [inputs' < inputs /\ running' =>
           \E t \in Thread : task[t].at = "pop" /\ task[t].clear]_daemonVars
  BY <1>1
<1> QED
  BY <1>2, DaemonHolds, PTL DEF DaemonSpec, InputNeedsAutonomy

(* A start that may read the file the last process saved to goes on in the     *)
(* state that ended in, unless saves had overlapped or the file was deleted.   *)
THEOREM StartResumes == DaemonSpec => RestartResumes
<1>1. ASSUME DaemonInv, [DaemonNext]_<<daemonVars, schedulerVars>>,
             ~ running, running', starts > 0, reach' # "hidden", Reads(reach') = path
      PROVE  state' = state \/ mixed \/ file[path] = Missing
  <2>1. Start
    BY <1>1 DEF DaemonNext, DaemonCall, CycleStep, StartCycle, Yield, SetThrottled, Observe,
                EndObservation, ShadowJob, FindInput, ExecuteInput, ResetMode, EndCycle, At,
                CloseFile, Decide, Reject, DecisionReturns, EnqueueInput, Exit,
                DeleteStateFile, daemonVars
  <2>2. file[path] # Cut /\ (state' = file[path] \/ file[path] = Missing)
    BY <1>1, <2>1, StartKeeps
  <2>3. mixed \/ file[path] \in {Missing, Cut, state}
    BY <1>1 DEF DaemonInv, SaveInv
  <2> QED
    BY <2>2, <2>3
<1>2. DaemonInv /\ [DaemonNext]_<<daemonVars, schedulerVars>> =>
        [~ running /\ running' /\ starts > 0 /\ reach' # "hidden" /\ Reads(reach') = path =>
           state' = state \/ mixed \/ file[path] = Missing]_daemonVars
  BY <1>1
<1> QED
  BY <1>2, DaemonHolds, PTL DEF DaemonSpec, RestartResumes

-------------------------------------------------------------------------------
\* The voice monitor.

OneCallAtATime == \A c, d \in Caller : voiceCall[c] # "none" /\ voiceCall[d] # "none" => c = d

\* A stop waits for its monitor, or was the last to answer.
Stopping ==
  \/ \E c \in Caller : voiceCall[c] = "join"
  \/ answered = "stop" /\ \A c \in Caller : voiceCall[c] = "none"

(* The monitor that listens is the one the daemon knows; none does while a     *)
(* start is about to launch one; and from the moment a stop asked until the    *)
(* next start, either none does, or the request is there, or a loop took it.   *)
MonitorInv ==
  /\ VoiceTypeOK
  /\ overlapped \/
       /\ OneCallAtATime
       /\ \A m \in Alive : m = monitorThread
       /\ \A c \in Caller : voiceCall[c] = "launch" => Alive = {}
       /\ Stopping => Alive = {} \/ interrupt \/ unheard

LEMMA CallerSteps ==
  ASSUME MonitorInv, NEW c \in Caller,
         \/ AlreadyMonitoring(c) \/ StartMonitoring(c) \/ LaunchMonitor(c)
         \/ StopMonitoring(c) \/ EndMonitorJoin(c)
  PROVE  MonitorInv'
<1>1. /\ voiceCall \in [Caller -> {"none", "launch", "join"}]
      /\ monitor \in [Monitor -> {"none", "entry", "loop", "listen", "ended"}]
  BY DEF MonitorInv, VoiceTypeOK
<1>2. CASE AlreadyMonitoring(c)
  <2>1. answered' = "start"
        /\ UNCHANGED <<monitor, monitorThread, interrupt, voiceCall, overlapped, unheard>>
    BY <1>2 DEF AlreadyMonitoring
  <2>2. Alive' = Alive
    BY <2>1 DEF Alive
  <2> QED
    BY <2>1, <2>2 DEF MonitorInv, VoiceTypeOK, OneCallAtATime, Stopping
<1>3. CASE StartMonitoring(c)
  <2>1. /\ voiceCall[c] = "none" /\ monitorThread \notin Alive /\ interrupt' = FALSE
        /\ voiceCall' = [voiceCall EXCEPT ![c] = "launch"]
        /\ overlapped' = (overlapped \/ \E o \in Caller \ {c} : voiceCall[o] # "none")
        /\ UNCHANGED <<monitor, monitorThread, answered, unheard>>
    BY <1>3 DEF StartMonitoring, Enters
  <2>2. Alive' = Alive
    BY <2>1 DEF Alive
  <2>3. VoiceTypeOK'
    BY <1>1, <2>1 DEF MonitorInv, VoiceTypeOK
  <2>4. \/ overlapped'
        \/ /\ ~ overlapped /\ voiceCall'[c] = "launch"
           /\ \A o \in Caller \ {c} : voiceCall'[o] = "none"
    BY <1>1, <2>1
  <2> QED
    BY <2>1, <2>2, <2>3, <2>4 DEF MonitorInv, OneCallAtATime, Stopping
<1>4. CASE LaunchMonitor(c)
  <2>1. PICK m \in Monitor : monitor' = [monitor EXCEPT ![m] = "entry"] /\ monitorThread' = m
    BY <1>4 DEF LaunchMonitor
  <2>2. /\ voiceCall[c] = "launch" /\ voiceCall' = [voiceCall EXCEPT ![c] = "none"]
        /\ answered' = "start" /\ UNCHANGED <<interrupt, overlapped, unheard>>
    BY <1>4 DEF LaunchMonitor, Answers
  <2>3. Alive' = Alive \cup {m}
    BY <1>1, <2>1 DEF Alive
  <2>4. VoiceTypeOK'
    BY <1>1, <2>1, <2>2 DEF MonitorInv, VoiceTypeOK
  <2>5. ~ overlapped => \A o \in Caller : voiceCall'[o] = "none"
    BY <1>1, <2>2 DEF MonitorInv, OneCallAtATime
  <2> QED
    BY <2>1, <2>2, <2>3, <2>4, <2>5 DEF MonitorInv, OneCallAtATime, Stopping
<1>5. CASE StopMonitoring(c)
  <2>1. /\ interrupt' = TRUE /\ voiceCall' = [voiceCall EXCEPT ![c] = "join"]
        /\ overlapped' = (overlapped \/ \E o \in Caller \ {c} : voiceCall[o] # "none")
        /\ unheard' = FALSE /\ UNCHANGED <<monitor, monitorThread, answered>>
    BY <1>5 DEF StopMonitoring, Enters
  <2>2. Alive' = Alive
    BY <2>1 DEF Alive
  <2>3. VoiceTypeOK'
    BY <1>1, <2>1 DEF MonitorInv, VoiceTypeOK
  <2>4. \/ overlapped'
        \/ /\ ~ overlapped /\ voiceCall'[c] = "join"
           /\ \A o \in Caller \ {c} : voiceCall'[o] = "none"
    BY <1>1, <2>1
  <2> QED
    BY <2>1, <2>2, <2>3, <2>4 DEF MonitorInv, OneCallAtATime, Stopping
<1>6. CASE EndMonitorJoin(c)
  <2>1. /\ voiceCall[c] = "join" /\ voiceCall' = [voiceCall EXCEPT ![c] = "none"]
        /\ answered' = "stop"
        /\ UNCHANGED <<monitor, monitorThread, interrupt, overlapped, unheard>>
    BY <1>6 DEF EndMonitorJoin, Answers
  <2>2. Alive' = Alive /\ Stopping
    BY <2>1 DEF Alive, Stopping
  <2>3. VoiceTypeOK'
    BY <1>1, <2>1 DEF MonitorInv, VoiceTypeOK
  <2>4. ~ overlapped => \A o \in Caller : voiceCall'[o] = "none"
    BY <1>1, <2>1 DEF MonitorInv, OneCallAtATime
  <2> QED
    BY <2>1, <2>2, <2>3, <2>4 DEF MonitorInv, OneCallAtATime
<1> QED
  BY <1>2, <1>3, <1>4, <1>5, <1>6

LEMMA MonitorSteps ==
  ASSUME MonitorInv, NEW m \in Monitor, EnterLoop(m) \/ LookAtInterrupt(m) \/ Listen(m)
  PROVE  MonitorInv'
<1>1. /\ monitor[m] \in {"entry", "loop", "listen"}
      /\ \E place \in {"loop", "listen", "ended"} : monitor' = [monitor EXCEPT ![m] = place]
      /\ UNCHANGED <<monitorThread, voiceCall, answered, overlapped>>
  BY DEF EnterLoop, LookAtInterrupt, Listen, MonitorGoes
<1>2. \/ UNCHANGED <<interrupt, unheard>>
      \/ unheard' = (unheard \/ interrupt) /\ interrupt' = FALSE
  BY DEF EnterLoop, LookAtInterrupt, Listen
<1>3. VoiceTypeOK'
  BY <1>1, <1>2 DEF MonitorInv, VoiceTypeOK
<1>4. Alive' \subseteq Alive
  BY <1>1 DEF MonitorInv, VoiceTypeOK, Alive
<1>5. interrupt \/ unheard => interrupt' \/ unheard'
  BY <1>2 DEF MonitorInv, VoiceTypeOK
<1> QED
  BY <1>1, <1>3, <1>4, <1>5 DEF MonitorInv, OneCallAtATime, Stopping

LEMMA MonitorHolds == VoiceSpec => []MonitorInv
<1>1. VoiceInit => MonitorInv
  <2> SUFFICES ASSUME VoiceInit
               PROVE  MonitorInv
    OBVIOUS
  <2>1. Alive = {} /\ ~ Stopping
    BY DEF VoiceInit, Alive, Stopping
  <2> QED
    BY <2>1 DEF VoiceInit, MonitorInv, VoiceTypeOK, OneCallAtATime
<1>2. MonitorInv /\ [VoiceNext]_voiceVars => MonitorInv'
  <2>1. MonitorInv /\ UNCHANGED voiceVars => MonitorInv'
    BY DEF voiceVars, MonitorInv, VoiceTypeOK, OneCallAtATime, Alive, Stopping
  <2> QED
    BY <2>1, CallerSteps, MonitorSteps DEF VoiceNext
<1> QED
  BY <1>1, <1>2, PTL DEF VoiceSpec

(* After a stop no monitor listens on without having the request before it,    *)
(* for any number of callers and monitors, where calls do not overlap.         *)
THEOREM StopsAreHeard == VoiceSpec => []StopIsHeard
<1>1. MonitorInv => StopIsHeard
  <2> SUFFICES ASSUME MonitorInv, ~ overlapped
               PROVE  StopIsHeard
    BY DEF StopIsHeard
  <2>1. Alive = {} \/ Alive = {monitorThread}
    BY DEF MonitorInv
  <2>2. Cardinality(Alive) <= 1
    <3>1. Cardinality({}) = 0 /\ Cardinality({monitorThread}) = 1
      BY FS_EmptySet, FS_Singleton
    <3> QED
      BY <2>1, <3>1
  <2> QED
    BY <2>2 DEF StopIsHeard, MonitorInv, Stopping
<1> QED
  BY <1>1, MonitorHolds, PTL

-------------------------------------------------------------------------------
\* The audit key.

\* A value that was created is one of those that will have been.
LEMMA SecretIsCreated ==
  ASSUME SecretTypeOK, NEW k \in Secret, CreateSecret(k)
  PROVE  /\ created' \in 0 .. MaxCreated /\ created' \in 0 .. created'
         /\ 0 .. created \subseteq 0 .. created'
         /\ secrets' \in [Secret -> 0 .. created'] /\ storagePath' \in {"main", "tmp"}
         /\ stored' \in [{"main", "tmp"} -> [Secret -> 0 .. created']]
<1>1. created \in Nat /\ created' = created + 1 /\ created < MaxCreated
  BY SecretConstants DEF SecretTypeOK, CreateSecret
<1> DEFINE old == 0 .. created
           new == 0 .. created'
<1>2. created' \in 0 .. MaxCreated /\ created' \in new /\ old \subseteq new /\ NoValue \in new
  BY <1>1, SecretConstants DEF NoValue
<1>3. secrets \in [Secret -> old] /\ stored \in [{"main", "tmp"} -> [Secret -> old]]
  BY DEF SecretTypeOK
<1> HIDE DEF old, new
<1>4. secrets' \in [Secret -> new]
  BY <1>2, <1>3 DEF CreateSecret
<1>5. NoSecrets \in [Secret -> new]
  BY <1>2 DEF NoSecrets
<1>6. storagePath' \in {"main", "tmp"}
  BY DEF CreateSecret, Persist, SecretTypeOK
<1>7. stored \in [{"main", "tmp"} -> [Secret -> new]]
  BY <1>2, <1>3
<1>8. stored' \in [{"main", "tmp"} -> [Secret -> new]]
  <2>1. \/ stored' = stored
        \/ \E found \in {secrets', NoSecrets} : stored' = [stored EXCEPT ![storagePath'] = found]
    BY DEF CreateSecret, Persist
  <2> QED
    BY <1>4, <1>5, <1>6, <1>7, <2>1
<1> QED
  BY <1>2, <1>4, <1>6, <1>8 DEF old, new

LEMMA SecretsAreTyped == SecretSpec => []SecretTypeOK
<1>1. SecretInit => SecretTypeOK
  <2> SUFFICES ASSUME SecretInit
               PROVE  SecretTypeOK
    OBVIOUS
  <2>1. 0 \in 0 .. MaxCreated /\ NoValue \in 0 .. 0
    BY SecretConstants DEF NoValue
  <2>2. NoSecrets \in [Secret -> 0 .. 0]
    BY <2>1 DEF NoSecrets
  <2> QED
    BY <2>1, <2>2 DEF SecretInit, SecretTypeOK
<1>2. ASSUME SecretTypeOK, [SecretNext]_secretVars
      PROVE  SecretTypeOK'
  <2>1. ASSUME NEW k \in Secret, RotateSecret(k)
        PROVE  SecretTypeOK'
    BY <1>2, <2>1, SecretIsCreated DEF RotateSecret, SecretTypeOK
  <2>2. ASSUME NEW k \in Secret, CreateSecret(k),
               UNCHANGED <<hasKeyring, access, keyring, answer, kept, rotated, lost>>
        PROVE  SecretTypeOK'
    BY <1>2, <2>2, SecretIsCreated DEF SecretTypeOK
  <2>3. CASE FromKeyring
    BY <1>2, <2>3 DEF FromKeyring, HandOut, SecretTypeOK
  <2>4. CASE FromStore
    BY <1>2, <2>4, SecretConstants DEF FromStore, HandOut, SecretTypeOK
  <2>5. CASE FromNowhere
    BY <1>2, <2>5, SecretConstants, SecretIsCreated DEF FromNowhere, HandOut, SecretTypeOK
  <2>6. CASE RestartSecrets
    <3>1. NoSecrets \in [Secret -> 0 .. created]
      BY <1>2, SecretConstants DEF NoSecrets, NoValue, SecretTypeOK
    <3>2. secrets' \in [Secret -> 0 .. created]
      BY <1>2, <2>6, <3>1 DEF RestartSecrets, SecretTypeOK
    <3> QED
      BY <1>2, <2>6, <3>2 DEF RestartSecrets, SecretTypeOK
  <2>7. CASE UNCHANGED secretVars
    BY <1>2, <2>7 DEF secretVars, SecretTypeOK
  <2> QED
    BY <1>2, <2>1, <2>2, <2>3, <2>4, <2>5, <2>6, <2>7 DEF SecretNext, EnsureAuditKey
<1>3. SecretTypeOK /\ [SecretNext]_secretVars => SecretTypeOK'
  BY <1>2
<1> QED
  BY <1>1, <1>3, PTL DEF SecretSpec

(* A key that was handed out with a keyring is the one in the keyring, and a   *)
(* keyring that was never there when a key was handed out is empty; without    *)
(* one the store holds the key that was handed out, or after a rotation        *)
(* another, until it loses it.                                                 *)
KeyInv ==
  /\ created \in Nat /\ secrets \in [Secret -> Nat]
  /\ stored \in [{"main", "tmp"} -> [Secret -> Nat]]
  /\ hasKeyring \in BOOLEAN /\ kept \in BOOLEAN /\ rotated \in BOOLEAN /\ lost \in BOOLEAN
  /\ storagePath \in {"main", "tmp"}
  /\ kept => hasKeyring /\ keyring = answer /\ answer # NoValue
  /\ ~ kept => keyring = NoValue
  /\ answer # NoValue /\ ~ kept /\ ~ lost =>
       /\ secrets[AuditKey] # NoValue
       /\ secrets[AuditKey] = answer <=> ~ rotated

LEMMA NoSecretsType == NoSecrets \in [Secret -> Nat]
  BY DEF NoSecrets, NoValue

LEMMA CreateKeeps ==
  ASSUME KeyInv, NEW k \in Secret, CreateSecret(k)
  PROVE  /\ created' = created + 1 /\ created' \in Nat /\ created' # NoValue
         /\ secrets' \in [Secret -> Nat] /\ secrets'[k] = created'
         /\ \A o \in Secret \ {k} : secrets'[o] = secrets[o]
         /\ stored' \in [{"main", "tmp"} -> [Secret -> Nat]]
         /\ storagePath' \in {"main", "tmp"}
<1>1. created' = created + 1 /\ created' \in Nat /\ created' # NoValue
  BY DEF CreateSecret, KeyInv, NoValue
<1>2. secrets' = [secrets EXCEPT ![k] = created'] /\ Persist
  BY DEF CreateSecret
<1>3. /\ secrets' \in [Secret -> Nat] /\ secrets'[k] = created'
      /\ \A o \in Secret \ {k} : secrets'[o] = secrets[o]
  BY <1>1, <1>2 DEF KeyInv
<1>4. storagePath' \in {"main", "tmp"}
  BY <1>2 DEF Persist, KeyInv
<1>5. stored' \in [{"main", "tmp"} -> [Secret -> Nat]]
  BY <1>2, <1>3, <1>4, NoSecretsType DEF Persist, KeyInv
<1> QED
  BY <1>1, <1>3, <1>4, <1>5

(* The audit key changes only when it was rotated, or came from the store and  *)
(* that lost it; and with a rotation it does, unless the keyring holds one.    *)
THEOREM KeyStays == SecretSpec => KeyIsStable
<1> DEFINE Stable ==
             answer # NoValue =>
               /\ answer' # answer => rotated \/ (lost /\ ~ kept)
               /\ rotated /\ ~ rotated' /\ ~ lost /\ ~ InKeyring => answer' # answer
<1>1. SecretInit => KeyInv
  <2> SUFFICES ASSUME SecretInit
               PROVE  KeyInv
    OBVIOUS
  <2>1. stored \in [{"main", "tmp"} -> [Secret -> Nat]] /\ secrets \in [Secret -> Nat]
    BY NoSecretsType DEF SecretInit
  <2>2. /\ created = 0 /\ hasKeyring \in BOOLEAN /\ kept = FALSE /\ rotated = FALSE /\ lost = FALSE
        /\ storagePath = "main" /\ keyring = NoValue /\ answer = NoValue
    BY DEF SecretInit
  <2> QED
    BY <2>1, <2>2 DEF KeyInv
<1>2. ASSUME SecretTypeOK, KeyInv, [SecretNext]_secretVars
      PROVE  KeyInv' /\ (~ UNCHANGED secretVars => Stable)
  <2>0. answer \in 0 .. created /\ rotated \in BOOLEAN /\ lost \in BOOLEAN /\ created \in Nat
    BY <1>2 DEF SecretTypeOK, KeyInv
  <2>1. ASSUME NEW k \in Secret, RotateSecret(k)
        PROVE  KeyInv' /\ Stable
    <3>1. /\ CreateSecret(k) /\ rotated' = (rotated \/ k = AuditKey)
          /\ UNCHANGED <<hasKeyring, access, keyring, answer, kept, lost>>
      BY <2>1 DEF RotateSecret
    <3>2. /\ created' = created + 1 /\ created' \in Nat /\ created' # NoValue
          /\ created' # answer
          /\ secrets' \in [Secret -> Nat] /\ secrets'[k] = created'
          /\ \A o \in Secret \ {k} : secrets'[o] = secrets[o]
          /\ stored' \in [{"main", "tmp"} -> [Secret -> Nat]]
          /\ storagePath' \in {"main", "tmp"}
      BY <1>2, <2>0, <3>1, CreateKeeps
    <3>3. answer # NoValue /\ ~ kept /\ ~ lost =>
            secrets'[AuditKey] # NoValue /\ (secrets'[AuditKey] = answer <=> ~ rotated')
      <4>1. CASE k = AuditKey
        BY <3>1, <3>2, <4>1
      <4>2. CASE k # AuditKey
        BY <1>2, <2>0, <3>1, <3>2, <4>2, SecretConstants DEF KeyInv
      <4> QED
        BY <4>1, <4>2
    <3>4. rotated' \in BOOLEAN /\ (rotated => rotated')
      BY <2>0, <3>1
    <3> QED
      BY <1>2, <3>1, <3>2, <3>3, <3>4 DEF KeyInv
  <2>2. ASSUME NEW k \in Secret, CreateSecret(k), k # AuditKey,
               UNCHANGED <<hasKeyring, access, keyring, answer, kept, rotated, lost>>
        PROVE  KeyInv' /\ Stable
    BY <1>2, <2>2, CreateKeeps, SecretConstants DEF KeyInv
  <2>3. CASE FromKeyring
    <3>1. /\ hasKeyring /\ keyring # NoValue /\ answer' = keyring /\ kept' = hasKeyring
          /\ rotated' = FALSE /\ lost' = FALSE
          /\ UNCHANGED <<hasKeyring, keyring, secrets, storagePath, stored, created>>
      BY <2>3 DEF FromKeyring, HandOut
    <3>2. kept /\ keyring = answer /\ InKeyring
      BY <1>2, <3>1 DEF KeyInv, InKeyring
    <3> QED
      BY <1>2, <3>1, <3>2 DEF KeyInv
  <2>4. CASE FromStore
    <3>1. /\ ~ InKeyring /\ secrets[AuditKey] # NoValue /\ answer' = secrets[AuditKey]
          /\ kept' = hasKeyring /\ rotated' = FALSE /\ lost' = FALSE
          /\ keyring' = (IF hasKeyring THEN secrets[AuditKey] ELSE keyring)
          /\ UNCHANGED <<hasKeyring, access, secrets, storagePath, stored, created>>
      BY <2>4 DEF FromStore, HandOut
    <3>2. ~ kept /\ keyring = NoValue
      BY <1>2, <3>1 DEF KeyInv, InKeyring
    <3>3. Stable
      BY <1>2, <3>1, <3>2 DEF KeyInv
    <3> QED
      BY <1>2, <3>1, <3>2, <3>3 DEF KeyInv
  <2>5. CASE FromNowhere
    <3>1. /\ ~ InKeyring /\ secrets[AuditKey] = NoValue /\ answer' = created'
          /\ CreateSecret(AuditKey) /\ kept' = hasKeyring /\ rotated' = FALSE /\ lost' = FALSE
          /\ keyring' = (IF hasKeyring THEN created' ELSE keyring)
          /\ UNCHANGED <<hasKeyring, access>>
      BY <2>5 DEF FromNowhere, HandOut
    <3>2. ~ kept /\ keyring = NoValue
      BY <1>2, <3>1 DEF KeyInv, InKeyring
    <3>3. /\ created' \in Nat /\ created' # NoValue /\ created' # answer
          /\ secrets' \in [Secret -> Nat] /\ secrets'[AuditKey] = created'
          /\ stored' \in [{"main", "tmp"} -> [Secret -> Nat]]
          /\ storagePath' \in {"main", "tmp"}
      BY <1>2, <2>0, <3>1, CreateKeeps, SecretConstants
    <3>4. answer # NoValue => lost
      BY <1>2, <3>1, <3>2 DEF KeyInv
    <3>5. Stable
      BY <3>2, <3>3, <3>4
    <3> QED
      BY <1>2, <3>1, <3>2, <3>3, <3>5 DEF KeyInv
  <2>6. CASE RestartSecrets
    <3>1. secrets' \in [Secret -> Nat]
      BY <1>2, <2>6, NoSecretsType DEF RestartSecrets, KeyInv
    <3>2. /\ hasKeyring' \in {hasKeyring, TRUE} /\ storagePath' = "main"
          /\ lost' = (lost \/ secrets'[AuditKey] # secrets[AuditKey])
          /\ UNCHANGED <<keyring, stored, created, answer, kept, rotated>>
      BY <2>6 DEF RestartSecrets
    <3>3. lost' \in BOOLEAN /\ (~ lost' => ~ lost /\ secrets'[AuditKey] = secrets[AuditKey])
      BY <2>0, <3>2
    <3> QED
      BY <1>2, <3>1, <3>2, <3>3 DEF KeyInv
  <2>7. CASE UNCHANGED secretVars
    BY <1>2, <2>7 DEF secretVars, KeyInv
  <2> QED
    BY <1>2, <2>1, <2>2, <2>3, <2>4, <2>5, <2>6, <2>7 DEF SecretNext, EnsureAuditKey
<1>3. SecretTypeOK /\ KeyInv /\ [SecretNext]_secretVars => KeyInv'
  BY <1>2
<1>4. SecretTypeOK /\ KeyInv /\ [SecretNext]_secretVars =>
        [answer # NoValue =>
           /\ answer' # answer => rotated \/ (lost /\ ~ kept)
           /\ rotated /\ ~ rotated' /\ ~ lost /\ ~ InKeyring => answer' # answer]_secretVars
  BY <1>2
<1> QED
  BY <1>1, <1>3, <1>4, SecretsAreTyped, PTL DEF SecretSpec, KeyIsStable

-------------------------------------------------------------------------------
\* The settings of the desktop.

(* A revert that nothing disturbed has set back what it has passed.            *)
RevertInv ==
  /\ desktop = [n \in Setting |-> desktop[n]]
  /\ \E S : reverting \in [next : 0 .. Len(Settings) + 1, snap : S,
                           failed : BOOLEAN, touched : BOOLEAN]
  /\ reverting.next # 0 /\ ~ reverting.failed /\ ~ reverting.touched =>
       \A i \in DOMAIN Settings :
         i < reverting.next /\ reverting.snap[Settings[i]] # Unreadable =>
           desktop[Settings[i]] = Cap[Settings[i]][reverting.snap[Settings[i]]]

Restored ==
  reverting.next # 0 /\ reverting'.next = 0 /\ ~ reverting.failed /\ ~ reverting.touched =>
    \A n \in Setting : reverting.snap[n] # Unreadable =>
      desktop[n] = Cap[n][reverting.snap[n]]

LEMMA SettingsLength ==
  DOMAIN Settings = 1 .. Len(Settings) /\ Len(Settings) \in Nat
  BY SettingsConstants

\* The fields of a revert that goes on, and what EXCEPT makes of them.
LEMMA RevertFields ==
  ASSUME RevertInv
  PROVE  /\ reverting.next \in 0 .. Len(Settings) + 1
         /\ reverting.failed \in BOOLEAN /\ reverting.touched \in BOOLEAN
         /\ reverting = [next |-> reverting.next, snap |-> reverting.snap,
                         failed |-> reverting.failed, touched |-> reverting.touched]
  BY DEF RevertInv

LEMMA RevertSettingKeeps ==
  ASSUME RevertInv, RevertSetting
  PROVE  RevertInv' /\ reverting'.next # 0
<1> DEFINE k == reverting.next
           n == Settings[k]
           v == reverting.snap[n]
<1>1. k \in 1 .. Len(Settings) /\ k + 1 \in 1 .. Len(Settings) + 1
  BY SettingsLength DEF RevertSetting
<1>2. PICK S : reverting \in [next : 0 .. Len(Settings) + 1, snap : S,
                              failed : BOOLEAN, touched : BOOLEAN]
  BY DEF RevertInv
<1>3. \E failed \in BOOLEAN :
        /\ reverting' = [next |-> k + 1, snap |-> reverting.snap, failed |-> failed,
                         touched |-> reverting.touched]
        /\ ~ failed => ~ reverting.failed
        /\ \/ v # Unreadable /\ desktop' = [desktop EXCEPT ![n] = Cap[n][v]]
           \/ (failed \/ v = Unreadable) /\ UNCHANGED desktop
  <2>1. CASE v # Unreadable /\ desktop' = [desktop EXCEPT ![n] = Cap[n][v]]
             /\ reverting' = [reverting EXCEPT !.next = @ + 1]
    BY <2>1, RevertFields
  <2>2. CASE UNCHANGED desktop /\ reverting' = [reverting EXCEPT !.next = @ + 1, !.failed = TRUE]
    BY <2>2, RevertFields
  <2>3. CASE v = Unreadable /\ UNCHANGED desktop
             /\ reverting' = [reverting EXCEPT !.next = @ + 1]
    BY <2>3, RevertFields
  <2> QED
    BY <2>1, <2>2, <2>3 DEF RevertSetting
<1>4. PICK failed \in BOOLEAN :
        /\ reverting' = [next |-> k + 1, snap |-> reverting.snap, failed |-> failed,
                         touched |-> reverting.touched]
        /\ ~ failed => ~ reverting.failed
        /\ \/ v # Unreadable /\ desktop' = [desktop EXCEPT ![n] = Cap[n][v]]
           \/ (failed \/ v = Unreadable) /\ UNCHANGED desktop
  BY <1>3
<1>5. /\ reverting'.next = k + 1 /\ reverting'.snap = reverting.snap
      /\ reverting'.failed = failed /\ reverting'.touched = reverting.touched
      /\ reverting.snap \in S /\ reverting.touched \in BOOLEAN
  BY <1>2, <1>4
<1>6. reverting' \in [next : 0 .. Len(Settings) + 1, snap : S,
                      failed : BOOLEAN, touched : BOOLEAN]
  BY <1>1, <1>4, <1>5
<1>7. n \in Setting
  BY <1>1, SettingsLength DEF Setting
<1>8. /\ desktop' = [m \in Setting |-> desktop'[m]]
      /\ \A m \in Setting : m # n => desktop'[m] = desktop[m]
      /\ ~ failed /\ v # Unreadable => desktop'[n] = Cap[n][v]
  <2>1. desktop = [m \in Setting |-> desktop[m]]
    BY DEF RevertInv
  <2> HIDE DEF n, v
  <2> QED
    BY <1>4, <1>7, <2>1
<1>9. ASSUME ~ failed, ~ reverting.touched, NEW i \in DOMAIN Settings, i < k + 1,
             reverting.snap[Settings[i]] # Unreadable
      PROVE  desktop'[Settings[i]] = Cap[Settings[i]][reverting.snap[Settings[i]]]
  <2>1. CASE Settings[i] = n
    BY <1>8, <1>9, <2>1
  <2>2. CASE Settings[i] # n
    <3>1. i < k /\ Settings[i] \in Setting
      BY <1>1, <1>9, <2>2, SettingsLength DEF Setting
    <3>2. desktop[Settings[i]] = Cap[Settings[i]][reverting.snap[Settings[i]]]
      <4>1. /\ reverting.next # 0 /\ ~ reverting.failed /\ ~ reverting.touched
            /\ i < reverting.next
        BY <1>1, <1>4, <1>9, <3>1
      <4> HIDE DEF k, n, v
      <4> QED
        BY <1>9, <4>1 DEF RevertInv
    <3> QED
      BY <1>8, <2>2, <3>1, <3>2
  <2> QED
    BY <2>1, <2>2
<1> HIDE DEF k, n, v
<1>10. RevertInv'
  BY <1>5, <1>6, <1>8, <1>9 DEF RevertInv
<1> QED
  BY <1>1, <1>5, <1>10

(* A revert that answers "reverted", with nothing else at work, has set back   *)
(* all that its snapshot knows, for any settings, readings and caps.           *)
THEOREM RevertSetsBack == SettingsSpec => RevertRestores
<1>1. SettingsInit => RevertInv
  <2> SUFFICES ASSUME SettingsInit
               PROVE  RevertInv
    OBVIOUS
  <2>1. desktop = [n \in Setting |-> desktop[n]]
    BY DEF SettingsInit, Snapshots
  <2>2. NoRevert \in [next : 0 .. Len(Settings) + 1, snap : {NoRevert.snap},
                      failed : BOOLEAN, touched : BOOLEAN]
    BY SettingsLength DEF NoRevert
  <2> QED
    BY <2>1, <2>2 DEF SettingsInit, RevertInv, NoRevert
<1>2. ASSUME RevertInv, [SettingsNext]_settingsVars
      PROVE  RevertInv' /\ (~ UNCHANGED settingsVars => Restored)
  <2>1. CASE TakeSnapshot
    BY <1>2, <2>1 DEF TakeSnapshot, RevertInv, Restored
  <2>2. ASSUME NEW n \in Setting, NEW x, desktop' = [desktop EXCEPT ![n] = x],
               reverting' = Touched
        PROVE  RevertInv' /\ Restored
    <3>1. /\ reverting' = [next |-> reverting.next, snap |-> reverting.snap,
                           failed |-> reverting.failed, touched |-> reverting.next # 0]
          /\ reverting'.next = reverting.next
      BY <1>2, <2>2, RevertFields DEF Touched
    <3>2. desktop' = [m \in Setting |-> desktop'[m]]
      <4>1. desktop = [m \in Setting |-> desktop[m]]
        BY <1>2 DEF RevertInv
      <4> QED
        BY <2>2, <4>1
    <3>3. \E S : reverting' \in [next : 0 .. Len(Settings) + 1, snap : S,
                                 failed : BOOLEAN, touched : BOOLEAN]
      BY <1>2, <3>1, RevertFields DEF RevertInv
    <3> QED
      BY <3>1, <3>2, <3>3 DEF RevertInv, Restored
  <2>3. CASE Revert
    <3>1. /\ reverting' = [next |-> 1, snap |-> lastSnapshot[1],
                           failed |-> FALSE, touched |-> FALSE]
          /\ reverting.next = 0 /\ UNCHANGED desktop
      BY <2>3 DEF Revert, NoRevert
    <3>2. reverting' \in [next : 0 .. Len(Settings) + 1, snap : {lastSnapshot[1]},
                          failed : BOOLEAN, touched : BOOLEAN]
      BY <3>1, SettingsLength
    <3>3. ~ \E i \in DOMAIN Settings : i < 1
      BY SettingsLength
    <3> QED
      BY <1>2, <3>1, <3>2, <3>3 DEF RevertInv, Restored
  <2>4. CASE RevertSetting
    BY <1>2, <2>4, RevertSettingKeeps DEF Restored
  <2>5. CASE RevertReturns
    <3>1. reverting.next > Len(Settings) /\ reverting' = NoRevert /\ UNCHANGED desktop
      BY <2>5 DEF RevertReturns
    <3>2. NoRevert \in [next : 0 .. Len(Settings) + 1, snap : {NoRevert.snap},
                        failed : BOOLEAN, touched : BOOLEAN] /\ NoRevert.next = 0
      BY SettingsLength DEF NoRevert
    <3>3. \A i \in DOMAIN Settings : i < reverting.next
      BY <1>2, <3>1, SettingsLength, RevertFields
    <3>4. Restored
      BY <1>2, <3>3 DEF RevertInv, Restored, Setting
    <3> QED
      BY <1>2, <3>1, <3>2, <3>4 DEF RevertInv
  <2>6. CASE UNCHANGED settingsVars
    BY <1>2, <2>6 DEF settingsVars, RevertInv
  <2> QED
    BY <1>2, <2>1, <2>2, <2>3, <2>4, <2>5, <2>6 DEF SettingsNext, SetSetting, TurnKnob
<1>3. RevertInv /\ [SettingsNext]_settingsVars => RevertInv'
  BY <1>2
<1>4. RevertInv /\ [SettingsNext]_settingsVars =>
        [reverting.next # 0 /\ reverting'.next = 0 /\ ~ reverting.failed /\ ~ reverting.touched =>
           \A n \in Setting : reverting.snap[n] # Unreadable =>
             desktop[n] = Cap[n][reverting.snap[n]]]_settingsVars
  BY <1>2 DEF Restored
<1> QED
  BY <1>1, <1>3, <1>4, PTL DEF SettingsSpec, RevertRestores

-------------------------------------------------------------------------------
\* The updates.

UpdatesType ==
  [current : [Component -> Version], available : [Component -> Version \cup {NoVersion}],
   history : Seq(Record), earlier : [Component -> Version \cup {NoVersion}]]

\* Record i is the last one of the component; the last with another version than v.
LastOf(h, c, i) ==
  /\ i \in 1 .. Len(h) /\ h[i].component = c
  /\ \A j \in 1 .. Len(h) : h[j].component = c => j <= i
LastOther(h, c, v, i) ==
  /\ i \in 1 .. Len(h) /\ h[i].component = c /\ h[i].version # v
  /\ \A j \in 1 .. Len(h) : h[j].component = c /\ h[j].version # v => j <= i

(* The last record of a component is of its current version, and the last one  *)
(* of another version is of the version it had before its last change.         *)
HistoryOK(u) ==
  \A c \in Component :
    /\ \A i : LastOf(u.history, c, i) => u.history[i].version = u.current[c]
    /\ \A i : LastOther(u.history, c, u.current[c], i) => u.history[i].version = u.earlier[c]

HistoryInv ==
  /\ updates \in UpdatesType /\ HistoryOK(updates)
  /\ updateFile = <<>> \/ \E u \in UpdatesType : HistoryOK(u) /\ updateFile = <<u>>

(* A set of positions that is not empty has a last one.                        *)
LEMMA LastPosition ==
  ASSUME NEW n \in Nat, NEW S \in SUBSET (1 .. n), S # {}
  PROVE  \E i \in S : \A j \in S : j <= i
<1> DEFINE R == OpToRel(<, Nat)
           T == {n - i : i \in S}
<1>1. \A x \in Nat, y \in Nat : x < y => <<x, y>> \in R
  BY DEF OpToRel
<1>2. IsWellFoundedOn(R, Nat)
  BY NatLessThanWellFounded
<1> HIDE DEF R
<1>3. T \in SUBSET Nat /\ T # {}
  <2>1. \A i \in S : i \in 1 .. n /\ n - i \in Nat
    OBVIOUS
  <2>2. PICK i \in S : TRUE
    OBVIOUS
  <2>3. n - i \in T
    OBVIOUS
  <2> QED
    BY <2>1, <2>3
<1>4. PICK x \in T : \A y \in T : ~ (<<y, x>> \in R)
  BY <1>2, <1>3, WFMin
<1>5. PICK i \in S : x = n - i
  BY <1>4
<1>6. \A j \in S : ~ (n - j < n - i)
  BY <1>1, <1>3, <1>4, <1>5
<1> QED
  BY <1>6

LEMMA LastOfExists ==
  ASSUME NEW h \in Seq(Record), NEW c, NEW k \in 1 .. Len(h), h[k].component = c
  PROVE  \E i : LastOf(h, c, i)
<1> DEFINE S == {i \in 1 .. Len(h) : h[i].component = c}
<1>1. S \in SUBSET (1 .. Len(h)) /\ S # {} /\ Len(h) \in Nat
  OBVIOUS
<1>2. PICK i \in S : \A j \in S : j <= i
  BY <1>1, LastPosition
<1> QED
  BY <1>2 DEF LastOf

(* A record that is added to a history, which may drop its first for it.       *)
LEMMA Recorded ==
  ASSUME NEW h \in Seq(Record), NEW r \in Record
  PROVE  \E g \in Seq(Record) : \E d \in {0, 1} :
           /\ g = Latest(Append(h, r)) /\ Len(g) = Len(h) + 1 - d /\ Len(g) > 0
           /\ g[Len(g)] = r
           /\ \A i \in 1 .. Len(g) - 1 : i + d \in 1 .. Len(h) /\ g[i] = h[i + d]
<1> DEFINE a == Append(h, r)
<1>1. /\ a \in Seq(Record) /\ Len(a) = Len(h) + 1 /\ Len(h) \in Nat /\ a[Len(h) + 1] = r
      /\ \A i \in 1 .. Len(h) : a[i] = h[i]
  OBVIOUS
<1>2. MaxHistory \in Nat \ {0}
  BY UpdateConstants
<1> HIDE DEF a
<1>3. CASE Len(a) > MaxHistory
  <2>1. Latest(a) = Tail(a) /\ a # <<>> /\ Len(h) > 0
    BY <1>1, <1>2, <1>3 DEF Latest
  <2>2. /\ Tail(a) \in Seq(Record) /\ Len(Tail(a)) = Len(h)
        /\ \A i \in 1 .. Len(h) : Tail(a)[i] = a[i + 1]
    BY <1>1, <2>1
  <2>3. \A i \in 1 .. Len(h) - 1 : i + 1 \in 1 .. Len(h) /\ Tail(a)[i] = h[i + 1]
    BY <1>1, <2>1, <2>2
  <2> DEFINE g == Tail(a)
  <2>4. g = Latest(Append(h, r)) /\ Len(g) = Len(h) + 1 - 1 /\ Len(g) > 0 /\ g[Len(g)] = r
    BY <1>1, <2>1, <2>2 DEF a
  <2>5. \A i \in 1 .. Len(g) - 1 : i + 1 \in 1 .. Len(h) /\ g[i] = h[i + 1]
    BY <2>2, <2>3
  <2>6. \E d \in {0, 1} :
          /\ g = Latest(Append(h, r)) /\ Len(g) = Len(h) + 1 - d /\ Len(g) > 0
          /\ g[Len(g)] = r
          /\ \A i \in 1 .. Len(g) - 1 : i + d \in 1 .. Len(h) /\ g[i] = h[i + d]
    <3> HIDE DEF g
    <3> WITNESS 1 \in {0, 1}
    <3> QED
      BY <2>4, <2>5
  <2> QED
    BY <2>2, <2>6
<1>4. CASE ~ (Len(a) > MaxHistory)
  <2>1. Latest(a) = a
    BY <1>4 DEF Latest
  <2>2. /\ a = Latest(a) /\ Len(a) = Len(h) + 1 - 0 /\ Len(a) > 0 /\ a[Len(a)] = r
        /\ \A i \in 1 .. Len(a) - 1 : i + 0 \in 1 .. Len(h) /\ a[i] = h[i + 0]
    BY <1>1, <2>1
  <2>3. Latest(Append(h, r)) = Latest(a)
    BY DEF a
  <2>4. \E d \in {0, 1} :
          /\ a = Latest(Append(h, r)) /\ Len(a) = Len(h) + 1 - d /\ Len(a) > 0
          /\ a[Len(a)] = r
          /\ \A i \in 1 .. Len(a) - 1 : i + d \in 1 .. Len(h) /\ a[i] = h[i + d]
    <3> WITNESS 0 \in {0, 1}
    <3> QED
      BY <2>2, <2>3
  <2> QED
    BY <1>1, <2>4
<1> QED
  BY <1>3, <1>4

LEMMA ChangeKeeps ==
  ASSUME updates \in UpdatesType, HistoryOK(updates), NEW c \in Component, NEW v \in Version,
         NEW available \in [Component -> Version \cup {NoVersion}], Change(c, v, available)
  PROVE  updates' \in UpdatesType /\ HistoryOK(updates')
<1> DEFINE h == updates.history
           r == [component |-> c, version |-> v]
<1>1. /\ h \in Seq(Record) /\ r \in Record /\ r.component = c /\ r.version = v
      /\ updates.current \in [Component -> Version]
      /\ updates.earlier \in [Component -> Version \cup {NoVersion}]
  BY DEF UpdatesType, Record
<1>2. /\ updates'.history = Latest(Append(h, r))
      /\ updates'.current = [updates.current EXCEPT ![c] = v]
      /\ updates'.earlier = (IF v = updates.current[c] THEN updates.earlier
                             ELSE [updates.earlier EXCEPT ![c] = updates.current[c]])
      /\ updates'.available = available
      /\ updates' = [current |-> updates'.current, available |-> updates'.available,
                     history |-> updates'.history, earlier |-> updates'.earlier]
  BY DEF Change
<1> HIDE DEF h, r
<1>3. PICK g \in Seq(Record) : \E d \in {0, 1} :
        /\ g = Latest(Append(h, r)) /\ Len(g) = Len(h) + 1 - d /\ Len(g) > 0
        /\ g[Len(g)] = r
        /\ \A i \in 1 .. Len(g) - 1 : i + d \in 1 .. Len(h) /\ g[i] = h[i + d]
  BY <1>1, Recorded
<1>4. PICK d \in {0, 1} :
        /\ g = Latest(Append(h, r)) /\ Len(g) = Len(h) + 1 - d /\ Len(g) > 0
        /\ g[Len(g)] = r
        /\ \A i \in 1 .. Len(g) - 1 : i + d \in 1 .. Len(h) /\ g[i] = h[i + d]
  BY <1>3
<1>5. /\ updates'.current \in [Component -> Version] /\ updates'.current[c] = v
      /\ updates'.earlier \in [Component -> Version \cup {NoVersion}]
      /\ updates'.earlier[c] = (IF v = updates.current[c] THEN updates.earlier[c]
                                ELSE updates.current[c])
      /\ \A k \in Component \ {c} : /\ updates'.current[k] = updates.current[k]
                                    /\ updates'.earlier[k] = updates.earlier[k]
  BY <1>1, <1>2
<1>6. updates' \in UpdatesType
  BY <1>2, <1>4, <1>5 DEF UpdatesType
<1>7. g = updates'.history /\ Len(g) \in Nat /\ Len(h) \in Nat
  BY <1>1, <1>2, <1>4
(* A position of the old history is one of the new, or before all of them.     *)
<1>8. \A j \in 1 .. Len(h) :
        \/ j - d \in 1 .. Len(g) - 1 /\ g[j - d] = h[j]
        \/ j <= d
  <2>1. CASE d = 0
    <3>1. \A j \in 1 .. Len(h) : j \in 1 .. Len(g) - 1 /\ j - d = j /\ j + d = j
      BY <1>4, <1>7, <2>1
    <3> QED
      BY <1>4, <3>1
  <2>2. CASE d = 1
    <3>1. \A j \in 1 .. Len(h) : ~ (j <= d) => j - d \in 1 .. Len(g) - 1 /\ (j - d) + d = j
      BY <1>4, <1>7, <2>2
    <3> QED
      BY <1>4, <3>1
  <2> QED
    BY <2>1, <2>2
<1>9. \A i \in 1 .. Len(g) : i = Len(g) \/ i \in 1 .. Len(g) - 1
  BY <1>7
<1>10. ASSUME NEW k \in Component, NEW i, LastOf(g, k, i)
       PROVE  g[i].version = updates'.current[k]
  <2>1. CASE k = c
    <3>1. g[Len(g)].component = c /\ Len(g) \in 1 .. Len(g)
      BY <1>1, <1>4, <1>7
    <3>2. i = Len(g)
      BY <1>7, <1>10, <2>1, <3>1 DEF LastOf
    <3> QED
      BY <1>1, <1>4, <1>5, <2>1, <3>2
  <2>2. CASE k # c
    <3>1. i \in 1 .. Len(g) - 1 /\ g[i] = h[i + d] /\ i + d \in 1 .. Len(h)
      BY <1>1, <1>4, <1>9, <1>10, <2>2 DEF LastOf
    <3>2. ASSUME NEW j \in 1 .. Len(h), h[j].component = k
          PROVE  j <= i + d
      <4>1. CASE j <= d
        BY <1>7, <3>1, <4>1
      <4>2. CASE j - d \in 1 .. Len(g) - 1 /\ g[j - d] = h[j]
        <5>1. j - d <= i
          BY <1>7, <1>10, <3>2, <4>2 DEF LastOf
        <5> QED
          BY <1>7, <3>1, <5>1
      <4> QED
        BY <1>8, <4>1, <4>2
    <3>3. LastOf(h, k, i + d)
      BY <1>10, <3>1, <3>2 DEF LastOf
    <3>4. h[i + d].version = updates.current[k]
      BY <3>3 DEF HistoryOK, h
    <3> QED
      BY <1>5, <2>2, <3>1, <3>4
  <2> QED
    BY <2>1, <2>2
<1>11. ASSUME NEW k \in Component, NEW i, LastOther(g, k, updates'.current[k], i)
       PROVE  g[i].version = updates'.earlier[k]
  <2>1. i \in 1 .. Len(g) - 1 /\ g[i] = h[i + d] /\ i + d \in 1 .. Len(h)
    BY <1>1, <1>4, <1>5, <1>9, <1>11 DEF LastOther
  <2>2. CASE updates'.current[k] = updates.current[k] /\ updates'.earlier[k] = updates.earlier[k]
    <3>3. ASSUME NEW j \in 1 .. Len(h), h[j].component = k,
                 h[j].version # updates.current[k]
          PROVE  j <= i + d
      <4>1. CASE j <= d
        BY <1>7, <2>1, <4>1
      <4>2. CASE j - d \in 1 .. Len(g) - 1 /\ g[j - d] = h[j]
        <5>1. j - d <= i
          BY <1>7, <1>11, <2>2, <3>3, <4>2 DEF LastOther
        <5> QED
          BY <1>7, <2>1, <5>1
      <4> QED
        BY <1>8, <4>1, <4>2
    <3>1. LastOther(h, k, updates.current[k], i + d)
      BY <1>11, <2>1, <2>2, <3>3 DEF LastOther
    <3>2. h[i + d].version = updates.earlier[k]
      BY <3>1 DEF HistoryOK, h
    <3> QED
      BY <2>1, <2>2, <3>2
  <2>3. CASE k = c /\ v # updates.current[c]
    <3>1. updates'.current[k] = v /\ updates'.earlier[k] = updates.current[c]
      BY <1>5, <2>3
    <3>2. h[i + d].component = c
      BY <1>11, <2>1, <2>3 DEF LastOther
    <3>3. PICK j : LastOf(h, c, j)
      BY <1>1, <2>1, <3>2, LastOfExists
    <3>4. h[j].version = updates.current[c] /\ h[j].component = c /\ j \in 1 .. Len(h)
          /\ i + d <= j
      BY <2>1, <3>2, <3>3 DEF HistoryOK, h, LastOf
    <3>5. j - d \in 1 .. Len(g) - 1 /\ g[j - d] = h[j]
      <4>1. j \in 1 .. Len(h) /\ i + d <= j /\ i \in 1 .. Len(g) - 1 /\ d \in Nat
        BY <1>7, <2>1, <3>4
      <4>2. ~ (j <= d)
        BY <1>7, <4>1
      <4>3. (j - d \in 1 .. Len(g) - 1 /\ g[j - d] = h[j]) \/ j <= d
        BY <1>8, <4>1
      <4> QED
        BY <4>2, <4>3
    <3>6. j - d <= i
      <4>1. /\ j - d \in 1 .. Len(g) /\ g[j - d].component = k
            /\ g[j - d].version # updates'.current[k]
        BY <1>7, <2>3, <3>1, <3>4, <3>5
      <4> QED
        BY <1>11, <4>1 DEF LastOther
    <3>7. j = i + d
      BY <1>4, <1>7, <2>1, <3>4, <3>6
    <3> QED
      BY <2>1, <3>1, <3>4, <3>7
  <2> QED
    BY <1>5, <2>2, <2>3
<1>12. HistoryOK(updates')
  BY <1>7, <1>10, <1>11 DEF HistoryOK
<1> QED
  BY <1>6, <1>12

\* What a save, done, failed or cut, leaves in the file.
LEMMA SavedHistory ==
  ASSUME HistoryInv, updates' \in UpdatesType, HistoryOK(updates'), SaveUpdates
  PROVE  HistoryInv'
<1>1. updateFile' = <<updates'>> \/ updateFile' = <<>> \/ updateFile' = <<updates>>
  BY DEF SaveUpdates
<1>2. \A u : u \in UpdatesType /\ HistoryOK(u) /\ updateFile' = <<u>> =>
        \E w \in UpdatesType : HistoryOK(w) /\ updateFile' = <<w>>
  OBVIOUS
<1>3. updates \in UpdatesType /\ HistoryOK(updates)
  BY DEF HistoryInv
<1>4. updateFile' = <<>> \/ \E w \in UpdatesType : HistoryOK(w) /\ updateFile' = <<w>>
  BY <1>1, <1>2, <1>3
<1> QED
  BY <1>4 DEF HistoryInv

LEMMA DefaultHistory == DefaultUpdates \in UpdatesType /\ HistoryOK(DefaultUpdates)
<1>1. DefaultUpdates \in UpdatesType
  BY UpdateConstants DEF DefaultUpdates, UpdatesType
<1>2. \A i : ~ (i \in 1 .. Len(DefaultUpdates.history))
  BY DEF DefaultUpdates
<1> QED
  BY <1>1, <1>2 DEF HistoryOK, LastOf, LastOther

\* Where another version is in the history, the rollback takes the version before the last change.
LEMMA PreviousIsEarlier ==
  ASSUME HistoryInv, NEW c \in Component, OtherRecords(c) # {}
  PROVE  PreviousVersion(c) \in Version /\ PreviousVersion(c) = updates.earlier[c]
<1> DEFINE h == updates.history
           S == OtherRecords(c)
           m == Max(OtherRecords(c))
<1>1. h \in Seq(Record) /\ Len(h) \in Nat /\ DOMAIN h = 1 .. Len(h)
  BY DEF HistoryInv, UpdatesType
<1>2. S \in SUBSET (1 .. Len(h)) /\ S # {}
  BY <1>1 DEF OtherRecords
<1> HIDE DEF S
<1>3. PICK i \in S : \A j \in S : j <= i
  BY <1>1, <1>2, LastPosition
<1>4. \A j \in S : i >= j
  BY <1>1, <1>2, <1>3
<1>5. Max(S) \in S /\ \A j \in S : Max(S) >= j
  BY <1>3, <1>4 DEF Max
<1>6. m \in S /\ \A j \in S : j <= m
  BY <1>1, <1>2, <1>5 DEF S
<1>7. LastOther(h, c, updates.current[c], m)
  BY <1>1, <1>2, <1>6 DEF LastOther, S, OtherRecords
<1>8. h[m].version = updates.earlier[c]
  BY <1>7 DEF HistoryInv, HistoryOK
<1>9. h[m] \in Record
  BY <1>1, <1>2, <1>6
<1> QED
  BY <1>8, <1>9 DEF PreviousVersion, Record

LEMMA HistoryStep == ASSUME HistoryInv, [UpdateNext]_updateVars PROVE HistoryInv'
<1>1. /\ updates \in UpdatesType /\ HistoryOK(updates)
      /\ updates.available \in [Component -> Version \cup {NoVersion}]
  BY DEF HistoryInv, UpdatesType
<1>2. ASSUME NEW c \in Component, NEW v \in Offered, SetAvailableUpdate(c, v)
      PROVE  HistoryInv'
  <2>1. v \in Version
    BY UpdateConstants
  <2>2. /\ updates'.current = updates.current /\ updates'.history = updates.history
        /\ updates'.earlier = updates.earlier /\ updates' \in UpdatesType
    BY <1>1, <1>2, <2>1 DEF SetAvailableUpdate, UpdatesType
  <2>3. HistoryOK(updates')
    BY <1>1, <2>2 DEF HistoryOK
  <2> QED
    BY <1>2, <2>2, <2>3, SavedHistory DEF SetAvailableUpdate
<1>3. ASSUME NEW c \in Component, NEW v \in Version,
             NEW a \in [Component -> Version \cup {NoVersion}], Change(c, v, a)
      PROVE  HistoryInv'
  <2>1. updates' \in UpdatesType /\ HistoryOK(updates')
    BY <1>1, <1>3, ChangeKeeps
  <2>2. SaveUpdates
    BY <1>3 DEF Change
  <2> QED
    BY <2>1, <2>2, SavedHistory
<1>4. ASSUME NEW c \in Component, NEW v \in Version, ApplyUpdate(c, v)
      PROVE  HistoryInv'
  <2> DEFINE a == IF updates.available[c] = v THEN [updates.available EXCEPT ![c] = NoVersion]
                  ELSE updates.available
  <2>1. a \in [Component -> Version \cup {NoVersion}] /\ Change(c, v, a)
    BY <1>1, <1>4 DEF ApplyUpdate
  <2> QED
    BY <1>3, <2>1
<1>5. ASSUME NEW c \in Component, RollbackUpdate(c)
      PROVE  HistoryInv'
  <2>1. PreviousVersion(c) \in Version
    BY <1>5, PreviousIsEarlier DEF RollbackUpdate
  <2> QED
    BY <1>1, <1>3, <1>5, <2>1 DEF RollbackUpdate
<1>6. ASSUME RestartUpdates
      PROVE  HistoryInv'
  <2>1. CASE updateFile = <<>>
    BY <1>6, <2>1, DefaultHistory DEF RestartUpdates, HistoryInv
  <2>2. CASE updateFile # <<>>
    <3>1. PICK u \in UpdatesType : HistoryOK(u) /\ updateFile = <<u>>
      BY <2>2 DEF HistoryInv
    <3>2. updates' = u /\ updateFile' = updateFile
      BY <1>6, <2>2, <3>1 DEF RestartUpdates
    <3> QED
      BY <3>1, <3>2 DEF HistoryInv
  <2> QED
    BY <2>1, <2>2
<1>7. CASE UNCHANGED updateVars
  BY <1>7 DEF updateVars, HistoryInv
<1> QED
  BY <1>2, <1>4, <1>5, <1>6, <1>7 DEF UpdateNext

(* update_manager.py:121-157: rollback_update takes a component to the version *)
(* before its last change and changes no other component, whatever was          *)
(* applied, rolled back, dropped from the history, left unsaved or read again   *)
(* before: HistoryInv keeps, of each component, the last record and the last    *)
(* record of another version for what they say.                                 *)
THEOREM RollbackGoesBack == UpdateSpec => RollbackReturns
<1>1. UpdateInit => HistoryInv
  BY DefaultHistory DEF UpdateInit, HistoryInv
<1>2. HistoryInv /\ [UpdateNext]_updateVars => HistoryInv'
  BY HistoryStep
<1>3. ASSUME HistoryInv, NEW c \in Component, RollbackUpdate(c)
      PROVE  updates'.current = [updates.current EXCEPT ![c] = updates.earlier[c]]
  <2>1. PreviousVersion(c) = updates.earlier[c]
    BY <1>3, PreviousIsEarlier DEF RollbackUpdate
  <2> QED
    BY <1>3, <2>1 DEF RollbackUpdate, Change
<1>4. HistoryInv /\ [UpdateNext]_updateVars =>
        [\A c \in Component : RollbackUpdate(c) =>
           updates'.current = [updates.current EXCEPT ![c] = updates.earlier[c]]]_updateVars
  BY <1>3
<1> QED
  BY <1>1, <1>2, <1>4, PTL DEF UpdateSpec, RollbackReturns

-------------------------------------------------------------------------------
\* The proposals.

ApplyPlace == {"out", "signoff", "gates", "snapshot", "trim", "apply", "smoke", "rollback", "undo"}
Admitted == {"snapshot", "trim", "apply", "smoke", "rollback", "undo"}
Marked == {"smoke", "rollback", "undo"}

ProposalRecord == [known : BOOLEAN, approved : BOOLEAN, applied : BOOLEAN,
                   canary : Canary, required : BOOLEAN, signoff : BOOLEAN]

EvolutionType ==
  /\ proposals \in [Proposal -> ProposalRecord]
  /\ applying \in [Applier -> [at : ApplyPlace, proposal : Proposal \cup {NoApply.proposal},
                               signoff : BOOLEAN]]
  /\ snapshots \in Seq(Proposal) /\ appliedLog \in Seq(Proposal) /\ crowded \in BOOLEAN
  /\ \A t \in Applier : applying[t].at # "out" =>
       applying[t].proposal \in Proposal /\ proposals[applying[t].proposal].known

(* What is approved is known, so it stays approved; a call that is past the     *)
(* gates has a proposal that passes them, and it only takes back one that fails *)
(* its test; what is applied has passed, or a call that has not tested it yet,  *)
(* or takes it back, is at work on it.                                          *)
GatesInv ==
  /\ \A p \in Proposal : proposals[p].approved \/ proposals[p].applied => proposals[p].known
  /\ \A t \in Applier : applying[t].at \in Admitted =>
       proposals[applying[t].proposal].approved /\ applying[t].proposal \in DeltaWithin
  /\ \A t \in Applier : applying[t].at \in {"rollback", "undo"} =>
       ~ Stands(applying[t].proposal)
  /\ \A p \in Proposal : proposals[p].applied =>
       /\ proposals[p].approved /\ p \in DeltaWithin
       /\ \/ Stands(p)
          \/ \E t \in Applier : applying[t].at \in Marked /\ applying[t].proposal = p

Signed(p) == proposals[p].required \/ proposals[p].canary = "partial" => proposals[p].signoff

\* The log ends with the snapshots.
Ends(s, log) ==
  Len(s) <= Len(log) /\ \A i \in 1 .. Len(s) : s[i] = log[Len(log) - Len(s) + i]

\* The snapshots of the last proposals, at most n and all of them up to MaxSnapshots - 1
Kept(s, log, n) ==
  /\ s \in Seq(Proposal) /\ Ends(s, log) /\ Len(s) <= n
  /\ Len(s) >= Len(log) \/ Len(s) >= MaxSnapshots - 1

Logged(p) == \E i \in 1 .. Len(appliedLog) : appliedLog[i] = p

OneCall == \A t, u \in Applier : applying[t].at # "out" /\ applying[u].at # "out" => t = u

SignedInv ==
  /\ \A p \in Proposal : proposals[p].applied => Signed(p)
  /\ \A t \in Applier : applying[t].at \in {"snapshot", "trim", "apply"} =>
       Signed(applying[t].proposal)
  /\ \A t \in Applier : applying[t].at \in {"signoff", "snapshot", "trim", "apply"} =>
       ~ proposals[applying[t].proposal].applied

AppliedInv ==
  /\ \A p \in Proposal : proposals[p].applied =>
       Logged(p) \/ \E t \in Applier : applying[t].at \in Marked /\ applying[t].proposal = p
  /\ \A p \in Proposal : Logged(p) => proposals[p].applied
  /\ \A t \in Applier : applying[t].at \in Marked =>
       proposals[applying[t].proposal].applied
  /\ \A t \in Applier : applying[t].at \in Admitted => ~ Logged(applying[t].proposal)

\* The snapshots, below that of the call that has taken one
SnapshotsInv ==
  /\ (\A t \in Applier : applying[t].at \in {"out", "signoff", "gates", "snapshot", "undo"})
       => Kept(snapshots, appliedLog, MaxSnapshots)
  /\ \A t \in Applier :
       /\ applying[t].at = "trim" =>
            \E s \in Seq(Proposal) : /\ Kept(s, appliedLog, MaxSnapshots)
                                     /\ snapshots = Append(s, applying[t].proposal)
       /\ applying[t].at \in {"apply", "smoke", "rollback"} =>
            \E s \in Seq(Proposal) : /\ Kept(s, appliedLog, MaxSnapshots - 1)
                                     /\ snapshots = Append(s, applying[t].proposal)

EvolutionInv ==
  /\ EvolutionType /\ GatesInv
  /\ ~ crowded => OneCall /\ SignedInv /\ AppliedInv /\ SnapshotsInv

LEMMA NoApplyOut == NoApply.at = "out" /\ NoApply.signoff = FALSE
                    /\ NoApply = [at |-> NoApply.at, proposal |-> NoApply.proposal,
                                  signoff |-> NoApply.signoff]
  BY DEF NoApply

LEMMA CallGoes ==
  ASSUME EvolutionType, NEW t \in Applier, NEW place \in ApplyPlace, ApplyGoes(t, place)
  PROVE  /\ applying' \in [Applier -> [at : ApplyPlace, proposal : Proposal \cup {NoApply.proposal},
                                       signoff : BOOLEAN]]
         /\ applying'[t].at = place /\ applying'[t].proposal = applying[t].proposal
         /\ \A u \in Applier \ {t} : applying'[u] = applying[u]
  BY DEF EvolutionType, ApplyGoes

LEMMA CallLeaves ==
  ASSUME EvolutionType, NEW t \in Applier, LeaveApply(t)
  PROVE  /\ applying' \in [Applier -> [at : ApplyPlace, proposal : Proposal \cup {NoApply.proposal},
                                       signoff : BOOLEAN]]
         /\ applying'[t].at = "out"
         /\ \A u \in Applier \ {t} : applying'[u] = applying[u]
<1>1. NoApply \in [at : ApplyPlace, proposal : Proposal \cup {NoApply.proposal}, signoff : BOOLEAN]
  BY NoApplyOut DEF ApplyPlace
<1> QED
  BY <1>1, NoApplyOut DEF EvolutionType, LeaveApply

LEMMA CallSets ==
  ASSUME EvolutionType, NEW t \in Applier, applying[t].proposal \in Proposal,
         NEW value \in BOOLEAN, NEW p, p = applying[t].proposal
  PROVE  /\ SetProposal(t, "signoff", value) =>
              proposals' = [proposals EXCEPT ![p] = [proposals[p] EXCEPT !.signoff = value]]
         /\ SetProposal(t, "applied", value) =>
              proposals' = [proposals EXCEPT ![p] = [proposals[p] EXCEPT !.applied = value]]
  BY DEF EvolutionType, SetProposal

LEMMA ProposalSet ==
  ASSUME EvolutionType, NEW p \in Proposal, NEW r \in ProposalRecord,
         proposals' = [proposals EXCEPT ![p] = r]
  PROVE  /\ proposals' \in [Proposal -> ProposalRecord] /\ proposals'[p] = r
         /\ \A q \in Proposal : q # p => proposals'[q] = proposals[q]
  BY DEF EvolutionType

LEMMA ProposalFields ==
  ASSUME EvolutionType, NEW p \in Proposal
  PROVE  /\ proposals[p] \in ProposalRecord
         /\ proposals[p].known \in BOOLEAN /\ proposals[p].approved \in BOOLEAN
         /\ proposals[p].applied \in BOOLEAN /\ proposals[p].canary \in Canary
         /\ proposals[p].required \in BOOLEAN /\ proposals[p].signoff \in BOOLEAN
<1>1. proposals[p] \in ProposalRecord
  BY DEF EvolutionType
<1> QED
  BY <1>1 DEF ProposalRecord

LEMMA OneAtWork ==
  ASSUME EvolutionInv, ~ crowded
  PROVE  OneCall /\ SignedInv /\ AppliedInv /\ SnapshotsInv
  BY DEF EvolutionInv

\* Steps that change a proposal while no call moves: its creation and its approval
LEMMA ProposalStep ==
  ASSUME EvolutionInv, NEW p \in Proposal, NEW r \in ProposalRecord,
         proposals' = [proposals EXCEPT ![p] = r],
         UNCHANGED <<snapshots, applying, appliedLog, crowded>>,
         r.known, r.applied = proposals[p].applied, proposals[p].approved => r.approved,
         \/ ~ proposals[p].known
         \/ /\ r.required = proposals[p].required /\ r.signoff = proposals[p].signoff
            /\ r.canary = proposals[p].canary
  PROVE  EvolutionInv'
<1>1. EvolutionType /\ GatesInv
  BY DEF EvolutionInv
<1>2. /\ proposals' \in [Proposal -> ProposalRecord] /\ proposals'[p] = r
      /\ \A q \in Proposal : q # p => proposals'[q] = proposals[q]
  BY <1>1, ProposalSet
<1>3. \A t \in Applier : applying[t].at # "out" =>
        applying[t].proposal \in Proposal /\ proposals[applying[t].proposal].known
  BY <1>1 DEF EvolutionType
<1>4. EvolutionType'
  BY <1>1, <1>2, <1>3 DEF EvolutionType
<1>5. GatesInv'
  BY <1>1, <1>2, <1>3 DEF GatesInv, Admitted
<1>6. ASSUME ~ crowded'
      PROVE  OneCall' /\ SignedInv' /\ AppliedInv' /\ SnapshotsInv'
  <2>1. OneCall /\ SignedInv /\ AppliedInv /\ SnapshotsInv
    BY <1>6, OneAtWork
  <2>2. OneCall' /\ SnapshotsInv'
    BY <2>1 DEF OneCall, SnapshotsInv
  <2>3. \A q \in Proposal : (proposals[q].known => (Signed(q) <=> Signed(q)'))
                            /\ proposals'[q].applied = proposals[q].applied
    BY <1>2 DEF Signed
  <2>4. SignedInv'
    BY <1>1, <1>3, <2>1, <2>3 DEF SignedInv, GatesInv
  <2>5. AppliedInv'
    BY <1>3, <2>1, <2>3 DEF AppliedInv, Logged, Admitted, Marked
  <2> QED
    BY <2>2, <2>4, <2>5
<1> QED
  BY <1>4, <1>5, <1>6 DEF EvolutionInv

\* A call begins: by execute_proposal, which sets the canary of what is not applied, or not.
LEMMA EnterStep ==
  ASSUME EvolutionInv, NEW t \in Applier, NEW p \in Proposal, NEW place \in {"signoff", "gates"},
         NEW signoff \in BOOLEAN, EnterApply(t, p, place, signoff), NEW r \in ProposalRecord,
         proposals' = [proposals EXCEPT ![p] = r],
         r.known = proposals[p].known, r.applied = proposals[p].applied,
         r.approved = proposals[p].approved, r.required = proposals[p].required,
         r.signoff = proposals[p].signoff,
         proposals[p].applied => r.canary = proposals[p].canary,
         place = "signoff" => ~ proposals[p].applied
  PROVE  EvolutionInv'
<1>1. EvolutionType /\ GatesInv
  BY DEF EvolutionInv
<1>2. /\ proposals' \in [Proposal -> ProposalRecord] /\ proposals'[p] = r
      /\ \A q \in Proposal : q # p => proposals'[q] = proposals[q]
  BY <1>1, ProposalSet
<1>3. /\ applying[t].at = "out" /\ proposals[p].known
      /\ applying' = [applying EXCEPT ![t] = [at |-> place, proposal |-> p, signoff |-> signoff]]
      /\ crowded' = (crowded \/ \E o \in Applier : applying[o].at # "out")
      /\ UNCHANGED <<snapshots, appliedLog>>
  BY DEF EnterApply, Applies
<1>4. /\ applying' \in [Applier -> [at : ApplyPlace, proposal : Proposal \cup {NoApply.proposal},
                                    signoff : BOOLEAN]]
      /\ applying'[t].at = place /\ applying'[t].proposal = p
      /\ \A u \in Applier \ {t} : applying'[u] = applying[u]
  BY <1>1, <1>3 DEF EvolutionType, ApplyPlace
<1>5. \A u \in Applier : applying[u].at # "out" =>
        applying[u].proposal \in Proposal /\ proposals[applying[u].proposal].known
  BY <1>1 DEF EvolutionType
<1>6. EvolutionType'
  BY <1>1, <1>2, <1>3, <1>4, <1>5 DEF EvolutionType
<1>7. GatesInv'
  <2>1. \A q \in Proposal : /\ proposals'[q].known = proposals[q].known
                            /\ proposals'[q].approved = proposals[q].approved
                            /\ proposals'[q].applied = proposals[q].applied
    BY <1>2
  <2>2. \A u \in Applier : applying'[u].at \in Admitted \cup {"rollback", "undo"} =>
          u # t /\ applying'[u] = applying[u] /\ applying[u].at # "out"
    BY <1>4 DEF Admitted
  <2>3. \A u \in Applier : applying[u].at \in Marked => applying'[u] = applying[u]
    BY <1>3, <1>4 DEF Marked
  <2> QED
    BY <1>1, <1>5, <2>1, <2>2, <2>3 DEF GatesInv, Marked
<1>8. ASSUME ~ crowded'
      PROVE  OneCall' /\ SignedInv' /\ AppliedInv' /\ SnapshotsInv'
  <2>1. OneCall /\ SignedInv /\ AppliedInv /\ SnapshotsInv
    BY <1>3, <1>8, OneAtWork
  <2>2. \A u \in Applier : applying[u].at = "out" /\ (u # t => applying'[u].at = "out")
    BY <1>3, <1>4, <1>8
  <2>3. OneCall'
    BY <2>2 DEF OneCall
  <2>4. Kept(snapshots, appliedLog, MaxSnapshots)
    BY <2>1, <2>2 DEF SnapshotsInv
  <2>5. SnapshotsInv'
    BY <1>3, <1>4, <2>2, <2>4 DEF SnapshotsInv
  <2>6. \A q \in Proposal : proposals'[q].applied = proposals[q].applied
                            /\ (proposals[q].applied => (Signed(q) <=> Signed(q)'))
    BY <1>2 DEF Signed
  <2>7. SignedInv'
    BY <1>4, <2>1, <2>2, <2>6 DEF SignedInv
  <2>8. AppliedInv'
    BY <1>3, <1>4, <2>1, <2>2, <2>6 DEF AppliedInv, Logged, Admitted, Marked
  <2> QED
    BY <2>3, <2>5, <2>7, <2>8
<1> QED
  BY <1>6, <1>7, <1>8 DEF EvolutionInv

\* A call that is at work moves or leaves, and it stays the only one.
LEMMA StillOneCall ==
  ASSUME OneCall, NEW t \in Applier, applying[t].at # "out",
         \A u \in Applier \ {t} : applying'[u] = applying[u]
  PROVE  OneCall' /\ \A u \in Applier \ {t} : applying[u].at = "out" /\ applying'[u].at = "out"
  BY DEF OneCall

LEMMA SignOffStep ==
  ASSUME EvolutionInv, NEW t \in Applier, SignOff(t)
  PROVE  EvolutionInv'
<1> DEFINE p == applying[t].proposal
           r == [proposals[p] EXCEPT !.signoff = applying[t].signoff]
<1>1. EvolutionType /\ GatesInv
  BY DEF EvolutionInv
<1>2. /\ applying[t].at = "signoff" /\ ApplyGoes(t, "gates") /\ p \in Proposal
      /\ applying[t].signoff \in BOOLEAN
      /\ UNCHANGED <<snapshots, appliedLog, crowded>>
  BY <1>1 DEF SignOff, Applies, EvolutionType
<1>3. proposals' = [proposals EXCEPT ![p] = r]
  <2>1. SetProposal(t, "signoff", applying[t].signoff)
    BY DEF SignOff
  <2>2. SetProposal(t, "signoff", applying[t].signoff) =>
          proposals' = [proposals EXCEPT ![p] = [proposals[p] EXCEPT !.signoff = applying[t].signoff]]
    BY <1>1, <1>2, CallSets
  <2> QED
    BY <2>1, <2>2
<1>4. /\ r \in ProposalRecord /\ r.known = proposals[p].known /\ r.approved = proposals[p].approved
      /\ r.applied = proposals[p].applied
  BY <1>1, <1>2, ProposalFields DEF ProposalRecord
<1> HIDE DEF r
<1>5. /\ proposals' \in [Proposal -> ProposalRecord] /\ proposals'[p] = r
      /\ \A q \in Proposal : q # p => proposals'[q] = proposals[q]
  BY <1>1, <1>2, <1>3, <1>4, ProposalSet
<1>6. \A q \in Proposal : /\ proposals'[q].known = proposals[q].known
                          /\ proposals'[q].approved = proposals[q].approved
                          /\ proposals'[q].applied = proposals[q].applied
  BY <1>4, <1>5
<1>7. /\ applying' \in [Applier -> [at : ApplyPlace, proposal : Proposal \cup {NoApply.proposal},
                                    signoff : BOOLEAN]]
      /\ applying'[t].at = "gates" /\ applying'[t].proposal = p
      /\ \A u \in Applier \ {t} : applying'[u] = applying[u]
  BY <1>1, <1>2, CallGoes DEF ApplyPlace
<1>8. EvolutionType'
  BY <1>1, <1>2, <1>5, <1>6, <1>7 DEF EvolutionType
<1>9. GatesInv'
  <2>1. \A u \in Applier : applying'[u].at \in Admitted \cup {"rollback", "undo"} =>
          applying'[u] = applying[u] /\ applying[u].proposal \in Proposal
    BY <1>1, <1>7 DEF Admitted, EvolutionType
  <2>2. \A u \in Applier : applying[u].at \in Marked => applying'[u] = applying[u]
    BY <1>2, <1>7 DEF Marked
  <2> QED
    BY <1>1, <1>6, <2>1, <2>2 DEF GatesInv, Marked
<1>10. ASSUME ~ crowded'
       PROVE  OneCall' /\ SignedInv' /\ AppliedInv' /\ SnapshotsInv'
  <2>1. OneCall /\ SignedInv /\ AppliedInv /\ SnapshotsInv
    BY <1>2, <1>10, OneAtWork
  <2>2. OneCall' /\ \A u \in Applier \ {t} : applying[u].at = "out" /\ applying'[u].at = "out"
    BY <1>2, <1>7, <2>1, StillOneCall
  <2>3. SnapshotsInv'
    BY <1>2, <1>7, <2>1, <2>2 DEF SnapshotsInv
  <2>4. \A q \in Proposal : proposals[q].applied => (Signed(q) <=> Signed(q)')
    BY <1>2, <1>5, <2>1 DEF Signed, SignedInv
  <2>5. SignedInv'
    BY <1>6, <1>7, <2>1, <2>2, <2>4 DEF SignedInv
  <2>6. AppliedInv'
    BY <1>2, <1>6, <1>7, <2>1, <2>2 DEF AppliedInv, Logged, Admitted, Marked
  <2> QED
    BY <2>2, <2>3, <2>5, <2>6
<1> QED
  BY <1>8, <1>9, <1>10 DEF EvolutionInv

LEMMA CheckGatesStep ==
  ASSUME EvolutionInv, NEW t \in Applier, CheckGates(t)
  PROVE  EvolutionInv'
<1> DEFINE p == applying[t].proposal
<1>1. EvolutionType /\ GatesInv
  BY DEF EvolutionInv
<1>2. /\ applying[t].at = "gates" /\ p \in Proposal
      /\ UNCHANGED <<proposals, snapshots, appliedLog, crowded>>
  BY <1>1 DEF CheckGates, Applies, EvolutionType
<1>3. /\ applying' \in [Applier -> [at : ApplyPlace, proposal : Proposal \cup {NoApply.proposal},
                                    signoff : BOOLEAN]]
      /\ \/ applying'[t].at = "out"
         \/ applying'[t].at = "snapshot" /\ applying'[t].proposal = p /\ Passes(p)
      /\ \A u \in Applier \ {t} : applying'[u] = applying[u]
  BY <1>1, CallGoes, CallLeaves DEF CheckGates, ApplyPlace
<1>4. Passes(p) => /\ proposals[p].approved /\ ~ proposals[p].applied /\ p \in DeltaWithin
                   /\ Signed(p)
  BY DEF Passes, Signed
<1>5. EvolutionType'
  BY <1>1, <1>2, <1>3 DEF EvolutionType
<1>6. GatesInv'
  <2>1. \A u \in Applier : applying[u].at \in Marked => applying'[u] = applying[u]
    BY <1>2, <1>3 DEF Marked
  <2> QED
    BY <1>1, <1>2, <1>3, <1>4, <2>1 DEF GatesInv, Admitted, Marked
<1>7. ASSUME ~ crowded'
      PROVE  OneCall' /\ SignedInv' /\ AppliedInv' /\ SnapshotsInv'
  <2>1. OneCall /\ SignedInv /\ AppliedInv /\ SnapshotsInv
    BY <1>2, <1>7, OneAtWork
  <2>2. OneCall' /\ \A u \in Applier \ {t} : applying[u].at = "out" /\ applying'[u].at = "out"
    BY <1>2, <1>3, <2>1, StillOneCall
  <2>3. SnapshotsInv'
    BY <1>2, <1>3, <2>1, <2>2 DEF SnapshotsInv
  <2>4. SignedInv'
    BY <1>2, <1>3, <1>4, <2>1, <2>2 DEF SignedInv, Signed
  <2>5. AppliedInv'
    BY <1>2, <1>3, <1>4, <2>1, <2>2 DEF AppliedInv, Logged, Admitted, Marked
  <2> QED
    BY <2>2, <2>3, <2>4, <2>5
<1> QED
  BY <1>5, <1>6, <1>7 DEF EvolutionInv

\* A call past the gates goes on, and neither a proposal nor the log changes.
LEMMA GoOnStep ==
  ASSUME EvolutionInv, NEW t \in Applier, NEW place \in Admitted, applying[t].at \in Admitted,
         ApplyGoes(t, place), UNCHANGED <<proposals, appliedLog, crowded>>,
         snapshots' \in Seq(Proposal), place \in Marked <=> applying[t].at \in Marked,
         place # "snapshot",
         place = "rollback" => ~ Stands(applying[t].proposal),
         place = "undo" => applying[t].at = "rollback",
         ~ crowded /\ OneCall' /\ SnapshotsInv => SnapshotsInv'
  PROVE  EvolutionInv'
<1> DEFINE p == applying[t].proposal
<1>1. EvolutionType /\ GatesInv
  BY DEF EvolutionInv
<1>2. place \in ApplyPlace /\ applying[t].at # "out" /\ p \in Proposal
  BY <1>1 DEF ApplyPlace, Admitted, EvolutionType
<1>3. /\ applying' \in [Applier -> [at : ApplyPlace, proposal : Proposal \cup {NoApply.proposal},
                                    signoff : BOOLEAN]]
      /\ applying'[t].at = place /\ applying'[t].proposal = p
      /\ \A u \in Applier \ {t} : applying'[u] = applying[u]
  BY <1>1, <1>2, CallGoes, ZenonT(40)
<1>4. EvolutionType'
  BY <1>1, <1>2, <1>3 DEF EvolutionType
<1>5. GatesInv'
  BY <1>1, <1>2, <1>3 DEF GatesInv
<1>6. ASSUME ~ crowded'
      PROVE  OneCall' /\ SignedInv' /\ AppliedInv' /\ SnapshotsInv'
  <2>1. ~ crowded /\ OneCall /\ SignedInv /\ AppliedInv /\ SnapshotsInv
    BY <1>6, OneAtWork
  <2>2. OneCall' /\ \A u \in Applier \ {t} : applying[u].at = "out" /\ applying'[u].at = "out"
    BY <1>2, <1>3, <2>1, StillOneCall
  <2>3. SignedInv'
    BY <1>2, <1>3, <2>1, <2>2 DEF SignedInv, Signed, Admitted, Marked
  <2>4. AppliedInv'
    BY <1>2, <1>3, <2>1, <2>2 DEF AppliedInv, Logged, Admitted, Marked
  <2> QED
    BY <2>1, <2>2, <2>3, <2>4
<1> QED
  BY <1>4, <1>5, <1>6 DEF EvolutionInv

\* A full sequence of snapshots loses its oldest when one is added.
LEMMA TailKept ==
  ASSUME NEW s \in Seq(Proposal), NEW log \in Seq(Proposal), NEW p \in Proposal,
         Kept(s, log, MaxSnapshots), Len(s) + 1 > MaxSnapshots
  PROVE  /\ Kept(Tail(s), log, MaxSnapshots - 1) /\ Tail(s) \in Seq(Proposal)
         /\ Tail(Append(s, p)) = Append(Tail(s), p)
<1>1. Len(s) = MaxSnapshots /\ MaxSnapshots \in Nat \ {0} /\ s # <<>> /\ Len(log) \in Nat
      /\ Len(s) <= Len(log)
  BY EvolutionConstants DEF Kept, Ends
<1>2. /\ Tail(s) \in Seq(Proposal) /\ Len(Tail(s)) = Len(s) - 1
      /\ \A i \in 1 .. Len(s) - 1 : Tail(s)[i] = s[i + 1]
  BY <1>1
<1>3. \A i \in 1 .. Len(s) - 1 :
        i + 1 \in 1 .. Len(s) /\ Len(log) - (Len(s) - 1) + i = Len(log) - Len(s) + (i + 1)
  BY <1>1
<1>4. \A j \in 1 .. Len(s) : s[j] = log[Len(log) - Len(s) + j]
  BY DEF Kept, Ends
<1>5. \A i \in 1 .. Len(s) - 1 : Tail(s)[i] = log[Len(log) - (Len(s) - 1) + i]
  <2> TAKE i \in 1 .. Len(s) - 1
  <2>1. i + 1 \in 1 .. Len(s)
    BY <1>3
  <2>2. s[i + 1] = log[Len(log) - Len(s) + (i + 1)]
    BY <1>4, <2>1
  <2> QED
    BY <1>2, <1>3, <2>2
<1>6. Len(Tail(s)) <= Len(log) /\ Len(Tail(s)) <= MaxSnapshots - 1
      /\ Len(Tail(s)) >= MaxSnapshots - 1
  BY <1>1, <1>2
<1>7. Kept(Tail(s), log, MaxSnapshots - 1)
  BY <1>2, <1>5, <1>6 DEF Kept, Ends
<1>8. Tail(Append(s, p)) = Append(Tail(s), p)
  BY <1>1
<1> QED
  BY <1>2, <1>7, <1>8

\* The snapshot of a proposal stays with it when it goes to the log.
LEMMA AppliedKept ==
  ASSUME NEW s \in Seq(Proposal), NEW log \in Seq(Proposal), NEW p \in Proposal,
         Kept(s, log, MaxSnapshots - 1)
  PROVE  Kept(Append(s, p), Append(log, p), MaxSnapshots)
<1> DEFINE a == Append(s, p)
           l == Append(log, p)
<1>1. /\ a \in Seq(Proposal) /\ Len(a) = Len(s) + 1 /\ a[Len(s) + 1] = p
      /\ \A i \in 1 .. Len(s) : a[i] = s[i]
      /\ l \in Seq(Proposal) /\ Len(l) = Len(log) + 1 /\ l[Len(log) + 1] = p
      /\ \A i \in 1 .. Len(log) : l[i] = log[i]
      /\ Len(s) \in Nat /\ Len(log) \in Nat
  OBVIOUS
<1> HIDE DEF a, l
<1>2. /\ Len(s) <= Len(log) /\ Len(s) <= MaxSnapshots - 1 /\ MaxSnapshots \in Nat \ {0}
      /\ \A i \in 1 .. Len(s) : s[i] = log[Len(log) - Len(s) + i]
      /\ Len(s) >= Len(log) \/ Len(s) >= MaxSnapshots - 1
  BY EvolutionConstants DEF Kept, Ends
<1>3. \A i \in 1 .. Len(a) : a[i] = l[Len(l) - Len(a) + i]
  <2> TAKE i \in 1 .. Len(a)
  <2>1. Len(l) - Len(a) + i = Len(log) - Len(s) + i
    BY <1>1
  <2>2. CASE i = Len(s) + 1
    BY <1>1, <1>2, <2>1, <2>2
  <2>3. CASE i \in 1 .. Len(s)
    <3>1. Len(log) - Len(s) + i \in 1 .. Len(log)
      BY <1>1, <1>2, <2>3
    <3>2. a[i] = s[i] /\ s[i] = log[Len(log) - Len(s) + i]
      BY <1>1, <1>2, <2>3
    <3> QED
      BY <1>1, <2>1, <3>1, <3>2
  <2> QED
    BY <1>1, <2>2, <2>3
<1>4. Kept(a, l, MaxSnapshots)
  BY <1>1, <1>2, <1>3 DEF Kept, Ends
<1> QED
  BY <1>4 DEF a, l

LEMMA PersistStep ==
  ASSUME EvolutionInv, NEW t \in Applier, PersistSnapshot(t)
  PROVE  EvolutionInv'
<1> DEFINE p == applying[t].proposal
<1>1. /\ EvolutionType /\ applying[t].at = "snapshot" /\ ApplyGoes(t, "trim")
      /\ snapshots' = Append(snapshots, p) /\ UNCHANGED <<proposals, appliedLog, crowded>>
  BY DEF PersistSnapshot, Applies, EvolutionInv
<1>2. p \in Proposal /\ snapshots' \in Seq(Proposal) /\ snapshots \in Seq(Proposal)
  BY <1>1 DEF EvolutionType
<1>3. /\ applying'[t].at = "trim" /\ applying'[t].proposal = p
      /\ \A u \in Applier \ {t} : applying'[u] = applying[u]
  BY <1>1, CallGoes DEF ApplyPlace
<1>4. ASSUME ~ crowded, OneCall', SnapshotsInv
      PROVE  SnapshotsInv'
  <2>1. \A u \in Applier \ {t} : applying'[u].at = "out" /\ applying[u].at = "out"
    BY <1>3, <1>4 DEF OneCall
  <2>2. Kept(snapshots, appliedLog, MaxSnapshots)
    BY <1>1, <1>4, <2>1 DEF SnapshotsInv
  <2>3. \E s \in Seq(Proposal) : /\ Kept(s, appliedLog, MaxSnapshots)
                                 /\ snapshots' = Append(s, p)
    BY <1>1, <1>2, <2>2
  <2> QED
    BY <1>1, <1>3, <2>1, <2>3 DEF SnapshotsInv
<1>5. "trim" \in Admitted /\ applying[t].at \in Admitted
      /\ ("trim" \in Marked <=> applying[t].at \in Marked)
  BY <1>1 DEF Admitted, Marked
<1> QED
  BY <1>1, <1>2, <1>4, <1>5, GoOnStep

LEMMA TrimStep ==
  ASSUME EvolutionInv, NEW t \in Applier, TrimSnapshots(t)
  PROVE  EvolutionInv'
<1> DEFINE p == applying[t].proposal
<1>1. /\ EvolutionType /\ applying[t].at = "trim" /\ ApplyGoes(t, "apply")
      /\ snapshots' = (IF Len(snapshots) > MaxSnapshots THEN Tail(snapshots) ELSE snapshots)
      /\ UNCHANGED <<proposals, appliedLog, crowded>>
  BY DEF TrimSnapshots, Applies, EvolutionInv
<1>2. /\ p \in Proposal /\ snapshots \in Seq(Proposal) /\ appliedLog \in Seq(Proposal)
      /\ MaxSnapshots \in Nat \ {0}
  BY <1>1, EvolutionConstants DEF EvolutionType
<1>3. snapshots' \in Seq(Proposal)
  <2>1. CASE Len(snapshots) > MaxSnapshots
    <3>1. snapshots # <<>>
      BY <1>2, <2>1
    <3> QED
      BY <1>1, <1>2, <2>1, <3>1
  <2> QED
    BY <1>1, <1>2, <2>1
<1>4. /\ applying'[t].at = "apply" /\ applying'[t].proposal = p
      /\ \A u \in Applier \ {t} : applying'[u] = applying[u]
  BY <1>1, CallGoes DEF ApplyPlace
<1>5. ASSUME ~ crowded, OneCall', SnapshotsInv
      PROVE  SnapshotsInv'
  <2>1. \A u \in Applier \ {t} : applying'[u].at = "out"
    BY <1>4, <1>5 DEF OneCall
  <2>2. PICK s \in Seq(Proposal) : /\ Kept(s, appliedLog, MaxSnapshots)
                                   /\ snapshots = Append(s, p)
    BY <1>1, <1>5 DEF SnapshotsInv
  <2>3. Len(snapshots) = Len(s) + 1 /\ Len(s) \in Nat
    BY <1>2, <2>2
  <2>4. \E r \in Seq(Proposal) : /\ Kept(r, appliedLog, MaxSnapshots - 1)
                                 /\ snapshots' = Append(r, p)
    <3>1. CASE Len(s) + 1 > MaxSnapshots
      BY <1>1, <1>2, <2>2, <2>3, <3>1, TailKept
    <3>2. CASE ~ (Len(s) + 1 > MaxSnapshots)
      <4>1. snapshots' = Append(s, p) /\ Len(s) <= MaxSnapshots - 1
        BY <1>1, <1>2, <2>2, <2>3, <3>2
      <4>2. Kept(s, appliedLog, MaxSnapshots - 1)
        BY <2>2, <4>1 DEF Kept
      <4> QED
        BY <4>1, <4>2
    <3> QED
      BY <3>1, <3>2
  <2> QED
    BY <1>1, <1>4, <2>1, <2>4 DEF SnapshotsInv
<1>6. "apply" \in Admitted /\ applying[t].at \in Admitted
      /\ ("apply" \in Marked <=> applying[t].at \in Marked)
  BY <1>1 DEF Admitted, Marked
<1> QED
  BY <1>1, <1>3, <1>5, <1>6, GoOnStep

LEMMA RollbackStep ==
  ASSUME EvolutionInv, NEW t \in Applier, RollbackLastSnapshot(t)
  PROVE  EvolutionInv'
<1> DEFINE p == applying[t].proposal
<1>1. /\ EvolutionType /\ applying[t].at = "rollback" /\ ApplyGoes(t, "undo")
      /\ snapshots' = SubSeq(snapshots, 1, Len(snapshots) - 1)
      /\ UNCHANGED <<proposals, appliedLog, crowded>>
  BY DEF RollbackLastSnapshot, Applies, EvolutionInv
<1>2. /\ p \in Proposal /\ snapshots \in Seq(Proposal) /\ snapshots' \in Seq(Proposal)
  BY <1>1 DEF EvolutionType
<1>3. /\ applying'[t].at = "undo" /\ applying'[t].proposal = p
      /\ \A u \in Applier \ {t} : applying'[u] = applying[u]
  BY <1>1, CallGoes DEF ApplyPlace
<1>4. ASSUME ~ crowded, OneCall', SnapshotsInv
      PROVE  SnapshotsInv'
  <2>1. \A u \in Applier \ {t} : applying'[u].at = "out"
    BY <1>3, <1>4 DEF OneCall
  <2>2. PICK s \in Seq(Proposal) : /\ Kept(s, appliedLog, MaxSnapshots - 1)
                                   /\ snapshots = Append(s, p)
    BY <1>1, <1>4 DEF SnapshotsInv
  <2>3. snapshots' = s
    BY <1>1, <1>2, <2>2
  <2>4. Len(s) <= MaxSnapshots - 1 => Len(s) <= MaxSnapshots
    BY EvolutionConstants
  <2>5. Kept(s, appliedLog, MaxSnapshots)
    BY <2>2, <2>4 DEF Kept
  <2> QED
    BY <1>1, <1>3, <2>1, <2>3, <2>5 DEF SnapshotsInv
<1>5. "undo" \in Admitted /\ applying[t].at \in Admitted
      /\ ("undo" \in Marked <=> applying[t].at \in Marked)
  BY <1>1 DEF Admitted, Marked
<1> QED
  BY <1>1, <1>2, <1>4, <1>5, GoOnStep

LEMMA MarkStep ==
  ASSUME EvolutionInv, NEW t \in Applier, MarkApplied(t)
  PROVE  EvolutionInv'
<1> DEFINE p == applying[t].proposal
           r == [proposals[p] EXCEPT !.applied = TRUE]
<1>1. EvolutionType /\ GatesInv
  BY DEF EvolutionInv
<1>2. /\ applying[t].at = "apply" /\ ApplyGoes(t, "smoke") /\ p \in Proposal
      /\ UNCHANGED <<snapshots, appliedLog, crowded>>
  BY <1>1 DEF MarkApplied, Applies, EvolutionType
<1>3. proposals' = [proposals EXCEPT ![p] = r]
  <2>1. SetProposal(t, "applied", TRUE)
    BY DEF MarkApplied
  <2>2. SetProposal(t, "applied", TRUE) =>
          proposals' = [proposals EXCEPT ![p] = [proposals[p] EXCEPT !.applied = TRUE]]
    BY <1>1, <1>2, CallSets
  <2> QED
    BY <2>1, <2>2
<1>4. /\ r \in ProposalRecord /\ r.known = proposals[p].known /\ r.approved = proposals[p].approved
      /\ r.applied = TRUE /\ r.required = proposals[p].required
      /\ r.canary = proposals[p].canary /\ r.signoff = proposals[p].signoff
  BY <1>1, <1>2, ProposalFields DEF ProposalRecord
<1> HIDE DEF r
<1>5. /\ proposals' \in [Proposal -> ProposalRecord] /\ proposals'[p] = r
      /\ \A q \in Proposal : q # p => proposals'[q] = proposals[q]
  BY <1>1, <1>2, <1>3, <1>4, ProposalSet
<1>6. \A q \in Proposal : /\ proposals'[q].known = proposals[q].known
                          /\ proposals'[q].approved = proposals[q].approved
                          /\ proposals'[q].applied = (proposals[q].applied \/ q = p)
  BY <1>1, <1>4, <1>5, ProposalFields
<1>7. /\ applying' \in [Applier -> [at : ApplyPlace, proposal : Proposal \cup {NoApply.proposal},
                                    signoff : BOOLEAN]]
      /\ applying'[t].at = "smoke" /\ applying'[t].proposal = p
      /\ \A u \in Applier \ {t} : applying'[u] = applying[u]
  BY <1>1, <1>2, CallGoes DEF ApplyPlace
<1>8. EvolutionType'
  BY <1>1, <1>2, <1>5, <1>6, <1>7 DEF EvolutionType
<1>9. GatesInv'
  <2>1. proposals[p].known /\ proposals[p].approved /\ p \in DeltaWithin
    BY <1>1, <1>2 DEF GatesInv, EvolutionType, Admitted
  <2>2. \A u \in Applier : applying'[u].at \in Admitted =>
          applying[u].at \in Admitted /\ applying'[u].proposal = applying[u].proposal
          /\ applying[u].proposal \in Proposal
    BY <1>1, <1>2, <1>7 DEF Admitted, EvolutionType
  <2>3. \A u \in Applier : applying'[u].at \in {"rollback", "undo"} => applying'[u] = applying[u]
    BY <1>7
  <2>4. \A u \in Applier : applying[u].at \in Marked => applying'[u] = applying[u]
    BY <1>2, <1>7 DEF Marked
  <2> QED
    <3>1. \A q \in Proposal : proposals'[q].approved \/ proposals'[q].applied => proposals'[q].known
      BY <1>1, <1>6, <2>1 DEF GatesInv
    <3>2. \A u \in Applier : applying'[u].at \in Admitted =>
            proposals'[applying'[u].proposal].approved /\ applying'[u].proposal \in DeltaWithin
      BY <1>1, <1>6, <2>2 DEF GatesInv
    <3>3. \A u \in Applier : applying'[u].at \in {"rollback", "undo"} =>
            ~ Stands(applying'[u].proposal)
      BY <1>1, <2>3 DEF GatesInv
    <3>4. applying'[t].at \in Marked
      BY <1>7 DEF Marked
    <3>5. \A q \in Proposal : proposals'[q].applied =>
            /\ proposals'[q].approved /\ q \in DeltaWithin
            /\ \/ Stands(q)
               \/ \E u \in Applier : applying'[u].at \in Marked /\ applying'[u].proposal = q
      <4> TAKE q \in Proposal
      <4>1. CASE q = p
        BY <1>6, <1>7, <2>1, <3>4, <4>1
      <4>2. CASE q # p
        <5>1. proposals[q].applied =>
                /\ proposals[q].approved /\ q \in DeltaWithin
                /\ \/ Stands(q)
                   \/ \E u \in Applier : applying[u].at \in Marked /\ applying[u].proposal = q
          BY <1>1 DEF GatesInv
        <5>2. (\E u \in Applier : applying[u].at \in Marked /\ applying[u].proposal = q) =>
                \E u \in Applier : applying'[u].at \in Marked /\ applying'[u].proposal = q
          BY <2>4
        <5>3. proposals'[q].approved = proposals[q].approved
              /\ (proposals'[q].applied => proposals[q].applied)
          BY <1>6, <4>2
        <5> QED
          BY <5>1, <5>2, <5>3
      <4> QED
        BY <4>1, <4>2
    <3> QED
      BY <3>1, <3>2, <3>3, <3>5 DEF GatesInv
<1>10. ASSUME ~ crowded'
       PROVE  OneCall' /\ SignedInv' /\ AppliedInv' /\ SnapshotsInv'
  <2>1. OneCall /\ SignedInv /\ AppliedInv /\ SnapshotsInv
    BY <1>2, <1>10, OneAtWork
  <2>2. OneCall' /\ \A u \in Applier \ {t} : applying[u].at = "out" /\ applying'[u].at = "out"
    BY <1>2, <1>7, <2>1, StillOneCall
  <2>3. SnapshotsInv'
    <3>1. \E s \in Seq(Proposal) : /\ Kept(s, appliedLog, MaxSnapshots - 1)
                                   /\ snapshots = Append(s, p)
      BY <1>2, <2>1 DEF SnapshotsInv
    <3> QED
      BY <1>2, <1>7, <2>2, <3>1 DEF SnapshotsInv
  <2>4. \A q \in Proposal : Signed(q) <=> Signed(q)'
    BY <1>4, <1>5 DEF Signed
  <2>5. Signed(p)
    BY <1>2, <2>1 DEF SignedInv
  <2>6. SignedInv'
    BY <1>6, <1>7, <2>1, <2>2, <2>4, <2>5 DEF SignedInv
  <2>7. AppliedInv'
    <3>1. applying'[t].at \in Marked /\ applying[t].at \in Admitted /\ ~ ("out" \in Admitted)
          /\ ~ ("out" \in Marked) /\ ~ (applying[t].at \in Marked)
      BY <1>2, <1>7 DEF Marked, Admitted
    <3>2. \A q : Logged(q)' <=> Logged(q)
      BY <1>2 DEF Logged
    <3>3. \A q \in Proposal : proposals[q].applied => Logged(q)
      BY <2>1, <2>2, <3>1 DEF AppliedInv
    <3>4. ~ Logged(p)
      BY <2>1, <3>1 DEF AppliedInv
    <3>5. \A q \in Proposal : proposals'[q].applied => Logged(q)' \/ q = p
      BY <1>6, <3>2, <3>3
    <3>6. \A q \in Proposal : Logged(q)' => proposals'[q].applied
      BY <1>6, <2>1, <3>2 DEF AppliedInv
    <3>7. \A u \in Applier : applying'[u].at \in Admitted \cup Marked => u = t
      BY <2>2, <3>1
    <3>8. proposals'[p].applied
      BY <1>2, <1>6
    <3> QED
      BY <1>7, <3>1, <3>2, <3>4, <3>5, <3>6, <3>7, <3>8 DEF AppliedInv
  <2> QED
    BY <2>2, <2>3, <2>6, <2>7
<1> QED
  BY <1>8, <1>9, <1>10 DEF EvolutionInv

LEMMA PassStep ==
  ASSUME EvolutionInv, NEW t \in Applier, applying[t].at = "smoke",
         Stands(applying[t].proposal), LeaveApply(t),
         appliedLog' = Append(appliedLog, applying[t].proposal),
         UNCHANGED <<proposals, snapshots, crowded>>
  PROVE  EvolutionInv'
<1> DEFINE p == applying[t].proposal
<1>1. EvolutionType /\ GatesInv
  BY DEF EvolutionInv
<1>2. p \in Proposal /\ appliedLog \in Seq(Proposal) /\ appliedLog' \in Seq(Proposal)
  BY <1>1 DEF EvolutionType
<1>3. /\ applying' \in [Applier -> [at : ApplyPlace, proposal : Proposal \cup {NoApply.proposal},
                                    signoff : BOOLEAN]]
      /\ applying'[t].at = "out"
      /\ \A u \in Applier \ {t} : applying'[u] = applying[u]
  BY <1>1, CallLeaves
<1>4. EvolutionType'
  BY <1>1, <1>2, <1>3 DEF EvolutionType
<1>5. GatesInv'
  <2>1. \A u \in Applier : applying'[u].at \in Admitted \cup {"rollback", "undo"} =>
          applying'[u] = applying[u]
    BY <1>3 DEF Admitted
  <2>2. \A u \in Applier : applying[u].proposal # p => applying'[u] = applying[u]
    BY <1>3
  <2> QED
    BY <1>1, <1>2, <2>1, <2>2 DEF GatesInv, Marked
<1>6. \A q \in Proposal : Logged(q)' <=> Logged(q) \/ q = p
  <2>1. /\ Len(appliedLog') = Len(appliedLog) + 1 /\ Len(appliedLog) \in Nat
        /\ appliedLog'[Len(appliedLog) + 1] = p
        /\ \A i \in 1 .. Len(appliedLog) : appliedLog'[i] = appliedLog[i]
    BY <1>2
  <2> QED
    BY <2>1 DEF Logged
<1>7. ASSUME ~ crowded'
      PROVE  OneCall' /\ SignedInv' /\ AppliedInv' /\ SnapshotsInv'
  <2>1. OneCall /\ SignedInv /\ AppliedInv /\ SnapshotsInv
    BY <1>7, OneAtWork
  <2>2. OneCall' /\ \A u \in Applier \ {t} : applying[u].at = "out" /\ applying'[u].at = "out"
    BY <1>3, <2>1, StillOneCall
  <2>3. PICK s \in Seq(Proposal) : /\ Kept(s, appliedLog, MaxSnapshots - 1)
                                   /\ snapshots = Append(s, p)
    BY <2>1 DEF SnapshotsInv
  <2>4. Kept(snapshots', appliedLog', MaxSnapshots)
    BY <1>2, <2>3, AppliedKept
  <2>5. SnapshotsInv'
    BY <1>3, <2>2, <2>4 DEF SnapshotsInv
  <2>6. SignedInv'
    BY <1>3, <2>1, <2>2 DEF SignedInv, Signed
  <2>7. AppliedInv'
    <3>1. proposals[p].applied
      BY <2>1 DEF AppliedInv, Marked
    <3>2. \A u \in Applier : applying'[u].at = "out"
      BY <1>3, <2>2
    <3>3. \A q \in Proposal : proposals[q].applied => Logged(q) \/ q = p
      BY <2>1, <2>2 DEF AppliedInv, Marked
    <3> QED
      BY <1>6, <2>1, <3>1, <3>2, <3>3 DEF AppliedInv, Admitted, Marked
  <2> QED
    BY <2>2, <2>5, <2>6, <2>7
<1> QED
  BY <1>4, <1>5, <1>7 DEF EvolutionInv

LEMMA UndoStep ==
  ASSUME EvolutionInv, NEW t \in Applier, UndoApplied(t)
  PROVE  EvolutionInv'
<1> DEFINE p == applying[t].proposal
           r == [proposals[p] EXCEPT !.applied = FALSE]
<1>1. EvolutionType /\ GatesInv
  BY DEF EvolutionInv
<1>2. /\ applying[t].at = "undo" /\ LeaveApply(t) /\ p \in Proposal
      /\ UNCHANGED <<snapshots, appliedLog, crowded>>
  BY <1>1 DEF UndoApplied, Applies, EvolutionType
<1>3. proposals' = [proposals EXCEPT ![p] = r]
  <2>1. SetProposal(t, "applied", FALSE)
    BY DEF UndoApplied
  <2>2. SetProposal(t, "applied", FALSE) =>
          proposals' = [proposals EXCEPT ![p] = [proposals[p] EXCEPT !.applied = FALSE]]
    BY <1>1, <1>2, CallSets
  <2> QED
    BY <2>1, <2>2
<1>4. /\ r \in ProposalRecord /\ r.known = proposals[p].known /\ r.approved = proposals[p].approved
      /\ r.applied = FALSE
  BY <1>1, <1>2, ProposalFields DEF ProposalRecord
<1> HIDE DEF r
<1>5. /\ proposals' \in [Proposal -> ProposalRecord] /\ proposals'[p] = r
      /\ \A q \in Proposal : q # p => proposals'[q] = proposals[q]
  BY <1>1, <1>2, <1>3, <1>4, ProposalSet
<1>6. \A q \in Proposal : /\ proposals'[q].known = proposals[q].known
                          /\ proposals'[q].approved = proposals[q].approved
                          /\ (proposals'[q].applied <=> proposals[q].applied /\ q # p)
  BY <1>4, <1>5
<1>7. /\ applying' \in [Applier -> [at : ApplyPlace, proposal : Proposal \cup {NoApply.proposal},
                                    signoff : BOOLEAN]]
      /\ applying'[t].at = "out"
      /\ \A u \in Applier \ {t} : applying'[u] = applying[u]
  BY <1>1, <1>2, CallLeaves
<1>8. EvolutionType'
  BY <1>1, <1>2, <1>5, <1>6, <1>7 DEF EvolutionType
<1>9. GatesInv'
  <2>1. \A u \in Applier : applying'[u].at \in Admitted \cup {"rollback", "undo"} =>
          applying'[u] = applying[u] /\ applying[u].proposal \in Proposal
    BY <1>1, <1>7 DEF Admitted, EvolutionType
  <2>2. \A u \in Applier : applying[u].proposal # p => applying'[u] = applying[u]
    BY <1>7
  <2> QED
    BY <1>1, <1>6, <2>1, <2>2 DEF GatesInv, Marked
<1>10. ASSUME ~ crowded'
       PROVE  OneCall' /\ SignedInv' /\ AppliedInv' /\ SnapshotsInv'
  <2>1. OneCall /\ SignedInv /\ AppliedInv /\ SnapshotsInv
    BY <1>2, <1>10, OneAtWork
  <2>2. OneCall' /\ \A u \in Applier \ {t} : applying[u].at = "out" /\ applying'[u].at = "out"
    BY <1>2, <1>7, <2>1, StillOneCall
  <2>3. \A u \in Applier : applying'[u].at = "out"
    BY <1>7, <2>2
  <2>4. Kept(snapshots, appliedLog, MaxSnapshots)
    BY <1>2, <2>1, <2>2 DEF SnapshotsInv
  <2>5. SnapshotsInv'
    BY <1>2, <2>3, <2>4 DEF SnapshotsInv
  <2>6. \A q \in Proposal : proposals'[q].applied => (Signed(q) <=> Signed(q)')
    BY <1>5, <1>6 DEF Signed
  <2>7. SignedInv'
    BY <1>6, <2>1, <2>3, <2>6 DEF SignedInv
  <2>8. ~ Logged(p)
    BY <1>2, <2>1 DEF AppliedInv, Admitted
  <2>9. \A q \in Proposal : proposals'[q].applied <=> Logged(q)
    <3>1. \A u \in Applier : applying[u].at \in Marked => u = t
      BY <2>2 DEF Marked
    <3>2. \A q \in Proposal : proposals[q].applied => Logged(q) \/ q = p
      BY <2>1, <3>1 DEF AppliedInv
    <3>3. \A q \in Proposal : Logged(q) => proposals[q].applied
      BY <2>1 DEF AppliedInv
    <3> QED
      BY <1>6, <2>8, <3>2, <3>3
  <2>10. \A q : Logged(q)' <=> Logged(q)
    BY <1>2 DEF Logged
  <2>11. AppliedInv'
    BY <2>3, <2>9, <2>10 DEF AppliedInv, Admitted, Marked
  <2> QED
    BY <2>2, <2>5, <2>7, <2>11
<1> QED
  BY <1>8, <1>9, <1>10 DEF EvolutionInv

LEMMA EvolutionBegins == EvolutionInit => EvolutionInv
<1> SUFFICES ASSUME EvolutionInit
             PROVE  EvolutionInv
  OBVIOUS
<1>1. /\ NoApply \in [at : ApplyPlace, proposal : Proposal \cup {NoApply.proposal},
                      signoff : BOOLEAN]
      /\ NoApply.at = "out"
  BY NoApplyOut DEF ApplyPlace
<1>2. /\ applying \in [Applier -> [at : ApplyPlace, proposal : Proposal \cup {NoApply.proposal},
                                   signoff : BOOLEAN]]
      /\ \A t \in Applier : applying[t].at = "out"
  BY <1>1 DEF EvolutionInit
<1>3. Fresh(FALSE, "none", FALSE) \in ProposalRecord /\ ~ Fresh(FALSE, "none", FALSE).applied
      /\ ~ Fresh(FALSE, "none", FALSE).approved
  BY DEF Fresh, ProposalRecord, Canary
<1>4. /\ proposals \in [Proposal -> ProposalRecord]
      /\ \A p \in Proposal : ~ proposals[p].applied /\ ~ proposals[p].approved
  BY <1>3 DEF EvolutionInit
<1>5. /\ snapshots = <<>> /\ appliedLog = <<>> /\ snapshots \in Seq(Proposal)
      /\ Len(snapshots) = 0 /\ Len(appliedLog) = 0 /\ crowded \in BOOLEAN
      /\ appliedLog \in Seq(Proposal)
  <2>1. <<>> \in Seq(Proposal) /\ Len(<<>>) = 0
    OBVIOUS
  <2>2. snapshots = <<>> /\ appliedLog = <<>> /\ crowded = FALSE
    BY DEF EvolutionInit
  <2> QED
    BY <2>1, <2>2
<1>6. Kept(snapshots, appliedLog, MaxSnapshots)
  BY <1>5, EvolutionConstants DEF Kept, Ends
<1>7. EvolutionType
  BY <1>2, <1>4, <1>5 DEF EvolutionType
<1>8. GatesInv
  BY <1>2, <1>4 DEF GatesInv, Admitted
<1>9. \A p : ~ Logged(p)
  BY <1>5 DEF Logged
<1>10. OneCall /\ SignedInv /\ SnapshotsInv
  BY <1>2, <1>4, <1>6 DEF OneCall, SignedInv, SnapshotsInv
<1>11. AppliedInv
  BY <1>2, <1>4, <1>9 DEF AppliedInv, Admitted, Marked
<1> QED
  BY <1>7, <1>8, <1>10, <1>11 DEF EvolutionInv

LEMMA EvolutionStep == ASSUME EvolutionInv, [EvolutionNext]_evolutionVars PROVE EvolutionInv'
<1>1. EvolutionType /\ GatesInv
  BY DEF EvolutionInv
<1>2. ASSUME NEW p \in Proposal, NEW as \in Creation, CreateProposal(p, as[1], as[2])
      PROVE  EvolutionInv'
  <2> DEFINE r == Fresh(TRUE, as[1], as[2])
  <2>1. as[1] \in Canary /\ as[2] \in BOOLEAN
    BY EvolutionConstants
  <2>2. r \in ProposalRecord /\ r.known /\ ~ r.approved /\ ~ r.applied /\ r.applied = FALSE
    BY <2>1 DEF Fresh, ProposalRecord
  <2>3. /\ ~ proposals[p].known /\ proposals' = [proposals EXCEPT ![p] = r]
        /\ UNCHANGED <<snapshots, applying, appliedLog, crowded>>
    BY <1>2 DEF CreateProposal
  <2>4. ~ proposals[p].approved /\ proposals[p].applied = FALSE
    BY <1>1, <2>3, ProposalFields DEF GatesInv
  <2> HIDE DEF r
  <2> QED
    BY <2>2, <2>3, <2>4, ProposalStep
<1>3. ASSUME NEW p \in Proposal, ApproveProposal(p)
      PROVE  EvolutionInv'
  <2> DEFINE r == [proposals[p] EXCEPT !.approved = TRUE]
  <2>1. /\ proposals[p].known /\ proposals' = [proposals EXCEPT ![p] = r]
        /\ UNCHANGED <<snapshots, applying, appliedLog, crowded>>
    BY <1>1, <1>3 DEF ApproveProposal, EvolutionType
  <2>2. /\ r \in ProposalRecord /\ r.known /\ r.approved /\ r.applied = proposals[p].applied
        /\ r.required = proposals[p].required /\ r.signoff = proposals[p].signoff
        /\ r.canary = proposals[p].canary
    BY <1>1, <2>1, ProposalFields DEF ProposalRecord
  <2> HIDE DEF r
  <2> QED
    BY <2>1, <2>2, ProposalStep
<1>4. ASSUME NEW p \in Proposal, NEW t \in Applier, NEW as \in Execution,
             ExecuteProposal(t, p, as[1], as[2])
      PROVE  EvolutionInv'
  <2> DEFINE r == [proposals[p] EXCEPT !.canary = as[1]]
  <2>1. as[1] \in Canary /\ as[2] \in BOOLEAN
    BY EvolutionConstants
  <2>2. /\ ~ proposals[p].applied /\ proposals' = [proposals EXCEPT ![p] = r]
        /\ EnterApply(t, p, "signoff", as[2])
    BY <1>1, <1>4 DEF ExecuteProposal, EvolutionType
  <2>3. /\ r \in ProposalRecord /\ r.known = proposals[p].known /\ r.applied = proposals[p].applied
        /\ r.approved = proposals[p].approved /\ r.required = proposals[p].required
        /\ r.signoff = proposals[p].signoff
    BY <1>1, <2>1, ProposalFields DEF ProposalRecord
  <2> HIDE DEF r
  <2> QED
    BY <2>1, <2>2, <2>3, EnterStep
<1>5. ASSUME NEW p \in Proposal, NEW t \in Applier, ApplyProposal(t, p)
      PROVE  EvolutionInv'
  <2>1. EnterApply(t, p, "gates", FALSE) /\ proposals' = [proposals EXCEPT ![p] = proposals[p]]
    BY <1>1, <1>5 DEF ApplyProposal, EvolutionType
  <2>2. proposals[p] \in ProposalRecord
    BY <1>1, ProposalFields
  <2> QED
    BY <2>1, <2>2, EnterStep
<1>6. ASSUME NEW t \in Applier, RunSmokeTests(t)
      PROVE  EvolutionInv'
  <2> DEFINE p == applying[t].proposal
  <2>1. applying[t].at = "smoke" /\ UNCHANGED <<proposals, snapshots, crowded>>
    BY <1>6 DEF RunSmokeTests, Applies
  <2>2. CASE Stands(p)
    BY <1>6, <2>1, <2>2, PassStep DEF RunSmokeTests
  <2>3. CASE ~ Stands(p)
    <3>1. ApplyGoes(t, "rollback") /\ UNCHANGED appliedLog
      BY <1>6, <2>3 DEF RunSmokeTests
    <3>2. /\ applying'[t].at = "rollback" /\ applying'[t].proposal = p
          /\ \A u \in Applier \ {t} : applying'[u] = applying[u]
      BY <1>1, <3>1, CallGoes DEF ApplyPlace
    <3>3. ASSUME ~ crowded, OneCall', SnapshotsInv
          PROVE  SnapshotsInv'
      <4>1. \A u \in Applier \ {t} : applying'[u].at = "out"
        BY <3>2, <3>3 DEF OneCall
      <4>2. \E s \in Seq(Proposal) : /\ Kept(s, appliedLog, MaxSnapshots - 1)
                                     /\ snapshots = Append(s, p)
        BY <2>1, <3>3 DEF SnapshotsInv
      <4> QED
        BY <2>1, <3>1, <3>2, <4>1, <4>2 DEF SnapshotsInv
    <3>4. "rollback" \in Admitted /\ applying[t].at \in Admitted
          /\ ("rollback" \in Marked <=> applying[t].at \in Marked)
      BY <2>1 DEF Admitted, Marked
    <3>5. snapshots' \in Seq(Proposal)
      BY <1>1, <2>1 DEF EvolutionType
    <3> QED
      BY <2>1, <2>3, <3>1, <3>3, <3>4, <3>5, GoOnStep
  <2> QED
    BY <2>2, <2>3
<1>7. CASE UNCHANGED evolutionVars
  BY <1>7 DEF evolutionVars, EvolutionInv, EvolutionType, GatesInv, OneCall, SignedInv, AppliedInv,
     SnapshotsInv, Signed, Logged
<1> QED
  BY <1>2, <1>3, <1>4, <1>5, <1>6, <1>7, SignOffStep, CheckGatesStep, PersistStep, TrimStep,
     MarkStep, RollbackStep, UndoStep DEF EvolutionNext

\* A log that ends with the snapshots has them for its suffix.
LEMMA EndsIsSuffix ==
  ASSUME NEW s \in Seq(Proposal), NEW log \in Seq(Proposal), Ends(s, log)
  PROVE  IsSuffix(s, log)
<1> DEFINE a == Reverse(s)
           b == Reverse(log)
<1>1. /\ Len(s) \in Nat /\ Len(log) \in Nat /\ Len(s) <= Len(log)
      /\ \A i \in 1 .. Len(s) : s[i] = log[Len(log) - Len(s) + i]
  BY DEF Ends
<1>2. /\ a \in Seq(Proposal) /\ Len(a) = Len(s) /\ b \in Seq(Proposal) /\ Len(b) = Len(log)
      /\ \A i \in 1 .. Len(s) : a[i] = s[(Len(s) - i) + 1]
      /\ \A i \in 1 .. Len(log) : b[i] = log[(Len(log) - i) + 1]
  BY DEF Reverse
<1>3. \A i \in 1 .. Len(s) : a[i] = b[i]
  <2> TAKE i \in 1 .. Len(s)
  <2>1. (Len(s) - i) + 1 \in 1 .. Len(s) /\ i \in 1 .. Len(log)
        /\ Len(log) - Len(s) + ((Len(s) - i) + 1) = (Len(log) - i) + 1
    BY <1>1
  <2>2. s[(Len(s) - i) + 1] = log[Len(log) - Len(s) + ((Len(s) - i) + 1)]
    BY <1>1, <2>1
  <2> QED
    BY <1>2, <2>1, <2>2
<1> HIDE DEF a, b
<1>4. SubSeq(a, 1, Len(a)) = SubSeq(b, 1, Len(a))
  <2> DEFINE n == Len(s)
             x == SubSeq(a, 1, n)
             y == SubSeq(b, 1, n)
  <2>1. x \in Seq(Proposal) /\ Len(x) = n /\ \A i \in 1 .. n : x[i] = a[i]
    BY <1>1, <1>2
  <2>2. y \in Seq(Proposal) /\ Len(y) = n /\ \A i \in 1 .. n : y[i] = b[i]
    BY <1>1, <1>2
  <2> HIDE DEF x, y
  <2>3. \A i \in 1 .. Len(x) : x[i] = y[i]
    BY <1>3, <2>1, <2>2
  <2>4. x = y
    BY <2>1, <2>2, <2>3, SeqEqual
  <2> QED
    BY <1>2, <2>4 DEF x, y
<1>5. IsPrefix(a, b)
  BY <1>1, <1>2, <1>4 DEF IsPrefix
<1> QED
  BY <1>5 DEF IsSuffix, a, b

(* evolution.py:70-106: with every interleaving of any number of calls and      *)
(* proposals, what is applied and no longer worked on was approved and passes   *)
(* its gates and its tests; where the calls do not overlap, it has its signoff  *)
(* too, and the snapshots are those of the last applied ones.  EvolutionInv     *)
(* says for a call at every place what it has done to the proposal, the log     *)
(* and the snapshots.                                                           *)
THEOREM SnapshotsFollow == EvolutionSpec => []SnapshotsFollowApplied
<1>1. EvolutionInv /\ [EvolutionNext]_evolutionVars => EvolutionInv'
  BY EvolutionStep
<1>2. ASSUME EvolutionInv
      PROVE  SnapshotsFollowApplied
  <2>1. EvolutionType /\ GatesInv
    BY <1>2 DEF EvolutionInv
  <2>2. \A p \in Resting : proposals[p].applied =>
          proposals[p].approved /\ p \in DeltaWithin /\ Stands(p)
    BY <2>1 DEF GatesInv, Resting, Applies, Marked
  <2>3. ASSUME ~ crowded, Resting = Proposal
        PROVE  /\ \A p \in Proposal : proposals[p].applied => Signed(p)
               /\ \A p \in Proposal : proposals[p].applied <=> Logged(p)
               /\ Kept(snapshots, appliedLog, MaxSnapshots)
    <3>1. OneCall /\ SignedInv /\ AppliedInv /\ SnapshotsInv
      BY <1>2, <2>3, OneAtWork
    <3>2. \A t \in Applier : applying[t].at = "out"
      <4> TAKE t \in Applier
      <4>1. applying[t].at # "out" => applying[t].proposal \in Proposal
        BY <2>1 DEF EvolutionType
      <4> QED
        BY <2>3, <4>1 DEF Resting, Applies
    <3> QED
      BY <3>1, <3>2 DEF SignedInv, AppliedInv, SnapshotsInv, Marked
  <2>4. ASSUME ~ crowded, Resting = Proposal
        PROVE  /\ \A p \in Proposal : proposals[p].applied =>
                    (proposals[p].required \/ proposals[p].canary = "partial" => proposals[p].signoff)
               /\ {p \in Proposal : proposals[p].applied} = {appliedLog[i] : i \in DOMAIN appliedLog}
               /\ IsSuffix(snapshots, appliedLog)
               /\ Len(snapshots) >= Len(appliedLog) \/ Len(snapshots) >= MaxSnapshots - 1
    <3>1. snapshots \in Seq(Proposal) /\ appliedLog \in Seq(Proposal)
          /\ DOMAIN appliedLog = 1 .. Len(appliedLog)
      BY <2>1 DEF EvolutionType
    <3>2. \A i \in DOMAIN appliedLog : appliedLog[i] \in Proposal
      BY <3>1
    <3>3. {p \in Proposal : proposals[p].applied} = {appliedLog[i] : i \in DOMAIN appliedLog}
      BY <2>3, <2>4, <3>1, <3>2 DEF Logged
    <3>4. IsSuffix(snapshots, appliedLog)
      BY <2>3, <2>4, <3>1, EndsIsSuffix DEF Kept
    <3> QED
      BY <2>3, <2>4, <3>3, <3>4 DEF Kept, Signed
  <2> QED
    BY <2>2, <2>4 DEF SnapshotsFollowApplied
<1> QED
  BY <1>1, <1>2, EvolutionBegins, PTL DEF EvolutionSpec

-------------------------------------------------------------------------------
\* The first boot: what is chosen.

LEMMA EarliestIs ==
  ASSUME NEW n \in Nat, NEW S \in SUBSET (1 .. n)
  PROVE  /\ Earliest(S) \in 0 .. n
         /\ S # {} => Earliest(S) \in S
         /\ Earliest(S) = 0 <=> S = {}
<1>1. CASE S = {}
  BY <1>1 DEF Earliest
<1>2. CASE S # {}
  <2> DEFINE T == {n + 1 - i : i \in S}
  <2>1. \A i \in S : i \in 1 .. n /\ n + 1 - i \in 1 .. n
    OBVIOUS
  <2>2. T \in SUBSET (1 .. n) /\ T # {}
    BY <1>2, <2>1
  <2>3. PICK x \in T : \A y \in T : y <= x
    BY <2>2, LastPosition
  <2>4. PICK i \in S : x = n + 1 - i
    BY <2>3
  <2>5. \A j \in S : i <= j
    BY <2>1, <2>3, <2>4
  <2>6. Earliest(S) = CHOOSE k \in S : \A j \in S : k <= j
    BY <1>2 DEF Earliest
  <2>7. Earliest(S) \in S
    BY <2>5, <2>6
  <2>8. Earliest(S) \in 1 .. n
    BY <2>7
  <2> QED
    BY <1>2, <2>7, <2>8
<1> QED
  BY <1>1, <1>2

LEMMA Catalog ==
  /\ Len(Profiles) \in Nat \ {0} /\ DOMAIN Profiles = 1 .. Len(Profiles)
  /\ \A i \in DOMAIN Profiles : Profiles[i] \in Profile
  /\ Len(PermissionProfiles) \in Nat \ {0}
  /\ DOMAIN PermissionProfiles = 1 .. Len(PermissionProfiles)
  /\ \A i \in DOMAIN PermissionProfiles : PermissionProfiles[i] \in PermissionProfile
<1>1. Profiles \in Seq(Profile) /\ Profiles # <<>>
  BY SetupConstants
<1>2. PermissionProfiles \in Seq(PermissionProfile) /\ PermissionProfiles # <<>>
  BY SetupConstants
<1>3. Len(Profiles) # 0
  BY <1>1
<1>4. Len(PermissionProfiles) # 0
  BY <1>2
<1> QED
  BY <1>1, <1>2, <1>3, <1>4

LEMMA DefaultIs ==
  ASSUME NEW among \in SUBSET (DOMAIN Profiles)
  PROVE  /\ Default(among) # 0 => Default(among) \in among
         /\ among # {} => Default(among) \in among
<1> DEFINE sizes == <<"7b", "8b", "10b", "14b">>
           medium == {i \in among : Profiles[i].id = "medium"}
           ofSize(n) == {i \in among : Profiles[i].size = sizes[n]}
           offered == {n \in 1 .. 4 : ofSize(n) # {}}
<1>1. Default(among) = IF medium # {} THEN Earliest(medium)
                       ELSE IF offered # {} THEN Earliest(ofSize(Earliest(offered)))
                       ELSE Earliest(among)
  BY DEF Default
<1>2. medium \subseteq among /\ \A n : ofSize(n) \subseteq among
  OBVIOUS
<1>3. among \in SUBSET (1 .. Len(Profiles)) /\ Len(Profiles) \in Nat
  BY Catalog
<1>4. offered # {} => ofSize(Earliest(offered)) # {}
  <2>1. offered \in SUBSET (1 .. 4)
    OBVIOUS
  <2>2. offered # {} => Earliest(offered) \in offered
    BY <2>1, EarliestIs
  <2> QED
    BY <2>2
<1> HIDE DEF medium, ofSize, offered
<1>5. medium # {} => Earliest(medium) \in among
  BY <1>2, <1>3, EarliestIs
<1>6. offered # {} => Earliest(ofSize(Earliest(offered))) \in among
  <2> DEFINE S == ofSize(Earliest(offered))
  <2>1. S \subseteq among
    BY <1>2
  <2> HIDE DEF S
  <2>2. S # {} => Earliest(S) \in among
    BY <1>3, <2>1, EarliestIs
  <2> QED
    BY <1>4, <2>2 DEF S
<1>7. /\ among # {} => Earliest(among) \in among
      /\ Earliest(among) # 0 => among # {}
  BY <1>3, EarliestIs
<1> QED
  BY <1>1, <1>5, <1>6, <1>7

LEMMA ByProviderSizeIs ==
  ASSUME NEW provider, NEW size, ByProviderSize(provider, size) # 0
  PROVE  LET i == ByProviderSize(provider, size)
         IN  /\ i \in DOMAIN Profiles
             /\ provider \in {Unset, Profiles[i].provider} /\ size \in {Unset, Profiles[i].size}
<1> DEFINE offered == {i \in DOMAIN Profiles : provider \in {Unset, Profiles[i].provider}}
           fitting == {i \in offered : Profiles[i].size = size}
           i == ByProviderSize(provider, size)
<1>1. i = IF size = Unset THEN Default(offered) ELSE Earliest(fitting)
  BY DEF ByProviderSize
<1>2. CASE size = Unset
  <2>1. offered \in SUBSET (DOMAIN Profiles)
    OBVIOUS
  <2>2. Default(offered) \in offered
    BY <1>1, <1>2, <2>1, DefaultIs
  <2> QED
    BY <1>1, <1>2, <2>2
<1>3. CASE size # Unset
  <2>1. fitting \in SUBSET (1 .. Len(Profiles)) /\ Len(Profiles) \in Nat
    BY Catalog
  <2>2. Earliest(fitting) \in fitting
    <3> HIDE DEF fitting
    <3> QED
      BY <1>1, <1>3, <2>1, EarliestIs
  <2> QED
    BY <1>1, <1>3, <2>2
<1> QED
  BY <1>2, <1>3

LEMMA ByIdIs ==
  ASSUME NEW id, ById(id) # 0
  PROVE  ById(id) \in DOMAIN Profiles /\ Profiles[ById(id)].id = id
<1> DEFINE S == {i \in DOMAIN Profiles : Profiles[i].id = id}
<1>1. S \in SUBSET (1 .. Len(Profiles)) /\ Len(Profiles) \in Nat
  BY Catalog
<1>2. ById(id) = Earliest(S)
  BY DEF ById
<1>3. Earliest(S) \in S
  <2> HIDE DEF S
  <2> QED
    BY <1>1, <1>2, EarliestIs
<1> QED
  BY <1>2, <1>3

(* Of any profiles, one is such that none needs more.                          *)
Needier(i, j) == Lexicographic(Needs(Profiles[i]), Needs(Profiles[j]))

LEMMA NeedierIs ==
  ASSUME NEW i \in DOMAIN Profiles, NEW j \in DOMAIN Profiles
  PROVE  LET p == Profiles[i]
             q == Profiles[j]
         IN  /\ p.ram \in Nat /\ p.cpu \in Nat /\ p.storage \in Nat /\ p.vram \in Nat
             /\ Needier(i, j) <=>
                  \/ p.ram < q.ram
                  \/ p.ram = q.ram /\ p.cpu < q.cpu
                  \/ p.ram = q.ram /\ p.cpu = q.cpu /\ p.storage < q.storage
                  \/ p.ram = q.ram /\ p.cpu = q.cpu /\ p.storage = q.storage /\ p.vram < q.vram
<1> DEFINE a == Needs(Profiles[i])
           b == Needs(Profiles[j])
<1>1. /\ a[1] = Profiles[i].ram /\ a[2] = Profiles[i].cpu
      /\ a[3] = Profiles[i].storage /\ a[4] = Profiles[i].vram
      /\ b[1] = Profiles[j].ram /\ b[2] = Profiles[j].cpu
      /\ b[3] = Profiles[j].storage /\ b[4] = Profiles[j].vram
  BY DEF Needs
<1>2. Profiles[i] \in Profile
  BY Catalog
<1> HIDE DEF a, b
<1>3. /\ Profiles[i].ram \in Nat /\ Profiles[i].cpu \in Nat
      /\ Profiles[i].storage \in Nat /\ Profiles[i].vram \in Nat
  BY <1>2 DEF Profile
<1>4. Lexicographic(a, b) <=>
        \/ a[1] < b[1]
        \/ a[1] = b[1] /\ a[2] < b[2]
        \/ a[1] = b[1] /\ a[2] = b[2] /\ a[3] < b[3]
        \/ a[1] = b[1] /\ a[2] = b[2] /\ a[3] = b[3] /\ a[4] < b[4]
  <2> DEFINE First(k) == a[k] < b[k] /\ \A l \in 1 .. k - 1 : a[l] = b[l]
  <2>1. Lexicographic(a, b) <=> First(1) \/ First(2) \/ First(3) \/ First(4)
    <3>1. 1 .. 4 = {1, 2, 3, 4}
      OBVIOUS
    <3>2. Lexicographic(a, b) <=> \E k \in 1 .. 4 : First(k)
      BY DEF Lexicographic
    <3> HIDE DEF First
    <3> QED
      BY <3>1, <3>2
  <2>2. /\ 1 .. 1 - 1 = {} /\ 1 .. 2 - 1 = {1}
        /\ 1 .. 3 - 1 = {1, 2} /\ 1 .. 4 - 1 = {1, 2, 3}
    OBVIOUS
  <2> QED
    BY <2>1, <2>2
<1> QED
  BY <1>1, <1>3, <1>4 DEF Needier, a, b

LEMMA NeediestExists ==
  ASSUME NEW S \in SUBSET (DOMAIN Profiles), S # {}
  PROVE  \E i \in S : \A j \in S : ~ Needier(i, j)
<1> DEFINE N == Len(Profiles)
           R == OpToRel(<, Nat)
           Without(T) == T # {} /\ \A i \in T : \E j \in T : Needier(i, j)
           Bad == {n \in Nat : \E T \in SUBSET (1 .. n) : T \subseteq DOMAIN Profiles /\ Without(T)}
<1>1. \A x \in Nat, y \in Nat : x < y => <<x, y>> \in R
  BY DEF OpToRel
<1>2. IsWellFoundedOn(R, Nat)
  BY NatLessThanWellFounded
<1> HIDE DEF R
<1>3. SUFFICES ASSUME Without(S)
               PROVE  FALSE
  OBVIOUS
<1>4. Bad # {} /\ Bad \in SUBSET Nat
  <2>1. S \in SUBSET (1 .. N) /\ N \in Nat /\ S \subseteq DOMAIN Profiles
    BY Catalog
  <2> HIDE DEF N, Without
  <2>2. N \in Bad
    BY <1>3, <2>1
  <2> QED
    BY <2>2
<1>5. PICK n \in Bad : \A m \in Bad : ~ (<<m, n>> \in R)
  <2> HIDE DEF Bad
  <2> QED
    BY <1>2, <1>4, WFMin
<1>6. PICK T \in SUBSET (1 .. n) : T \subseteq DOMAIN Profiles /\ Without(T)
  OBVIOUS
<1>7. n \in Nat /\ n # 0 /\ n - 1 \in Nat
  <2>1. n \in Nat
    OBVIOUS
  <2>2. T # {}
    BY <1>6
  <2> HIDE DEF Bad, Without
  <2>3. n # 0
    <3>1. n = 0 => 1 .. n = {}
      BY <2>1
    <3>2. T \subseteq 1 .. n
      BY <1>6
    <3> QED
      BY <2>2, <3>1, <3>2
  <2> QED
    BY <2>1, <2>3
<1>8. n - 1 \notin Bad
  <2>1. <<n - 1, n>> \in R
    <3> HIDE DEF Bad, Without
    <3>1. n - 1 < n
      BY <1>7
    <3> QED
      BY <1>1, <1>7, <3>1
  <2> HIDE DEF Bad
  <2> QED
    BY <1>5, <2>1
<1> DEFINE U == T \ {n}
<1>9. U \in SUBSET (1 .. n - 1) /\ U \subseteq DOMAIN Profiles
  BY <1>6, <1>7
<1>10. ~ Without(U)
  <2> HIDE DEF Without, U
  <2> QED
    BY <1>7, <1>8, <1>9
<1>11. n \in T
  <2>1. n \notin T => U = T
    OBVIOUS
  <2> HIDE DEF Without, U
  <2> QED
    BY <1>6, <1>10, <2>1
<1>12. ~ Needier(n, n)
  BY <1>6, <1>11, NeedierIs
<1>13. \E j \in U : Needier(n, j)
  BY <1>6, <1>11, <1>12
<1>14. PICK i \in U : \A j \in U : ~ Needier(i, j)
  BY <1>10, <1>13
<1>15. Needier(i, n)
  BY <1>6, <1>14
<1>16. PICK j \in U : Needier(n, j)
  BY <1>13
<1>17. Needier(i, j)
  <2>1. i \in DOMAIN Profiles /\ j \in DOMAIN Profiles /\ n \in DOMAIN Profiles
    BY <1>6, <1>11, <1>14, <1>16
  <2> QED
    BY <1>15, <1>16, <2>1, NeedierIs
<1> QED
  BY <1>14, <1>16, <1>17

LEMMA ForHardwareIs ==
  /\ ForHardware # 0 => ForHardware \in DOMAIN Profiles /\ Fits(Profiles[ForHardware])
  /\ ForHardware = 0 => \A i \in DOMAIN Profiles : ~ Fits(Profiles[i])
<1> DEFINE eligible == {i \in DOMAIN Profiles : Fits(Profiles[i])}
           best == {i \in eligible : \A j \in eligible : ~ Needier(i, j)}
<1>1. ForHardware = Earliest(best)
  BY DEF ForHardware, Needier
<1>2. eligible # {} => best # {}
  BY NeediestExists
<1>3. best \in SUBSET (1 .. Len(Profiles)) /\ Len(Profiles) \in Nat /\ best \subseteq eligible
  BY Catalog
<1>4. /\ ForHardware # 0 => ForHardware \in eligible
      /\ ForHardware = 0 => eligible = {}
  <2> HIDE DEF best, eligible
  <2> QED
    BY <1>1, <1>2, <1>3, EarliestIs
<1> QED
  BY <1>4

(* What a run asks for is what it gets, or it gets nothing.                    *)
LEMMA ChosenIsAsAsked ==
  ASSUME NEW r, NEW i \in Chosen(r)
  PROVE  i \in DOMAIN Profiles /\ AsAsked(r, Profiles[i])
<1> DEFINE byEnvId == IF r.envId = Unset THEN 0 ELSE ById(r.envId)
           byEnvSize == IF r.envProvider = Unset /\ r.envSize = Unset THEN 0
                        ELSE ByProviderSize(r.envProvider, r.envSize)
<1>1. i \in IF r.id # Unset THEN {ById(r.id)} \ {0}
            ELSE IF r.provider # Unset \/ r.size # Unset
              THEN {ByProviderSize(r.provider, r.size)} \ {0}
            ELSE IF byEnvId # 0 THEN {byEnvId}
            ELSE IF byEnvSize # 0 THEN {byEnvSize}
            ELSE IF r.interactive THEN DOMAIN Profiles
            ELSE IF r.auto /\ ForHardware # 0 THEN {ForHardware}
            ELSE {Default(DOMAIN Profiles)}
  BY DEF Chosen
<1>2. CASE r.id # Unset
  BY <1>1, <1>2, ByIdIs DEF AsAsked, ByArgument
<1>3. CASE r.id = Unset /\ (r.provider # Unset \/ r.size # Unset)
  BY <1>1, <1>3, ByProviderSizeIs DEF AsAsked, ByArgument
<1>4. CASE ~ ByArgument(r)
  <2>1. r.id = Unset /\ r.provider = Unset /\ r.size = Unset
    BY <1>4 DEF ByArgument
  <2>2. i \in DOMAIN Profiles
    <3>1. byEnvId # 0 => byEnvId \in DOMAIN Profiles
      BY ByIdIs
    <3>2. byEnvSize # 0 => byEnvSize \in DOMAIN Profiles
      BY ByProviderSizeIs
    <3>3. Default(DOMAIN Profiles) \in DOMAIN Profiles
      BY Catalog, DefaultIs
    <3> HIDE DEF byEnvId, byEnvSize
    <3> QED
      BY <1>1, <2>1, <3>1, <3>2, <3>3, ForHardwareIs
  <2>3. ASSUME r.auto, ~ r.interactive, ~ FromEnvironment(r)
        PROVE  Fits(Profiles[i]) \/ ~ \E q \in ToSet(Profiles) : Fits(q)
    <3>1. byEnvId = 0 /\ byEnvSize = 0
      BY <2>3 DEF FromEnvironment
    <3>2. CASE ForHardware # 0
      <4>1. i = ForHardware
        BY <1>1, <2>1, <2>3, <3>1, <3>2
      <4> QED
        BY <3>2, <4>1, ForHardwareIs
    <3>3. CASE ForHardware = 0
      BY <3>3, ForHardwareIs DEF ToSet
    <3> QED
      BY <3>2, <3>3
  <2> QED
    BY <1>4, <2>1, <2>2, <2>3 DEF AsAsked
<1> QED
  BY <1>2, <1>3, <1>4 DEF ByArgument

LEMMA ChosenPermissionsType ==
  ASSUME NEW r
  PROVE  ChosenPermissions(r) \subseteq DOMAIN PermissionProfiles
<1> DEFINE called(id) == Earliest({i \in DOMAIN PermissionProfiles : PermissionProfiles[i].id = id})
           byEnv == IF r.envPermissions = Unset THEN 0 ELSE called(r.envPermissions)
<1>1. ASSUME NEW id
      PROVE  called(id) # 0 => called(id) \in DOMAIN PermissionProfiles
  <2> DEFINE S == {i \in DOMAIN PermissionProfiles : PermissionProfiles[i].id = id}
  <2>1. S \in SUBSET (1 .. Len(PermissionProfiles)) /\ Len(PermissionProfiles) \in Nat
    BY Catalog
  <2> HIDE DEF S
  <2>2. Earliest(S) # 0 => Earliest(S) \in S
    BY <2>1, EarliestIs
  <2> QED
    BY <2>2 DEF S
<1>2. 1 \in DOMAIN PermissionProfiles
  BY Catalog
<1>3. ChosenPermissions(r)
        = IF r.permissions # Unset THEN {called(r.permissions)} \ {0}
          ELSE IF byEnv # 0 THEN {byEnv}
          ELSE IF r.interactivePermissions THEN DOMAIN PermissionProfiles
          ELSE IF called("prompt_once") # 0 THEN {called("prompt_once")} ELSE {1}
  BY DEF ChosenPermissions
<1> HIDE DEF called
<1> QED
  BY <1>1, <1>2, <1>3

-------------------------------------------------------------------------------
\* The first boot: what it does with the registry, the API beside it.

JobType == [at : {"down", "rest", "saving", "removing"} \cup Model, delete : Model \cup {NoModel}]
RegistryTypes ==
  /\ disk \subseteq Model
  /\ registryFile \in [kind : {"missing", "torn", "ok"}, entries : [Model -> Entry]]
  /\ registry \in [Process -> [Model -> Entry]] /\ job \in [Process -> JobType]

JobOf(at, delete) == [at |-> at, delete |-> delete]

LEMMA EntriesTypes ==
  /\ NoEntries \in [Model -> Entry]
  /\ NoFile.kind = "missing" /\ TornFile.kind = "torn"
  /\ NoFile \in [kind : {"missing", "torn", "ok"}, entries : [Model -> Entry]]
  /\ TornFile \in [kind : {"missing", "torn", "ok"}, entries : [Model -> Entry]]
  /\ Down \in JobType /\ AtRest \in JobType /\ Down.at = "down" /\ AtRest.at = "rest"
  /\ AtRest.delete = NoModel
<1>1. NoEntries \in [Model -> Entry]
  BY DEF NoEntries, Entry
<1> QED
  BY <1>1 DEF NoFile, TornFile, Down, AtRest, JobType

(* A call of one process: types are kept, and so are the copies of the others.  *)
LEMMA SaveTypes ==
  ASSUME RegistryTypes, NEW p \in Process, NEW entries \in [Model -> Entry],
         NEW delete \in Model \cup {NoModel}, Save(p, entries, delete), UNCHANGED disk
  PROVE  /\ RegistryTypes' /\ registryFile' = TornFile /\ registry'[p] = entries
         /\ job'[p] = JobOf("saving", delete)
         /\ \A q \in Process \ {p} : UNCHANGED <<job[q], registry[q]>>
<1>1. JobOf("saving", delete) \in JobType
  BY DEF JobType, JobOf
<1>2. job' = [job EXCEPT ![p] = JobOf("saving", delete)]
  BY DEF Save, JobOf
<1> QED
  BY <1>1, <1>2, EntriesTypes DEF RegistryTypes, Save

Stays(p) ==
  RegistryTypes' /\ \A q \in Process \ {p} : UNCHANGED <<job[q], registry[q]>>

LEMMA EndSaveTypes ==
  ASSUME RegistryTypes, NEW p \in Process, EndSave(p)
  PROVE  /\ Stays(p) /\ registry' = registry
         /\ job'[p] = JobOf(IF job[p].delete = NoModel THEN "rest" ELSE "removing", job[p].delete)
<1> DEFINE at == IF job[p].delete = NoModel THEN "rest" ELSE "removing"
<1>1. job[p] \in JobType
  BY DEF RegistryTypes
<1>2. [job[p] EXCEPT !.at = at] = JobOf(at, job[p].delete) /\ JobOf(at, job[p].delete) \in JobType
  BY <1>1 DEF JobType, JobOf
<1>3. job' = [job EXCEPT ![p] = JobOf(at, job[p].delete)]
  <2>1. job' = [job EXCEPT ![p].at = at]
    BY DEF EndSave
  <2> QED
    BY <1>2, <2>1
<1>4. registryFile' \in [kind : {"missing", "torn", "ok"}, entries : [Model -> Entry]]
  <2>1. registryFile' = [kind |-> "ok", entries |-> registry[p]] \/ registryFile' = TornFile
    BY DEF EndSave
  <2>2. registry[p] \in [Model -> Entry]
    BY DEF RegistryTypes
  <2> QED
    BY <2>1, <2>2, EntriesTypes
<1> HIDE DEF at
<1>5. UNCHANGED <<disk, registry>>
  BY DEF EndSave
<1> QED
  BY <1>2, <1>3, <1>4, <1>5 DEF RegistryTypes, Stays, at

LEMMA FetchTypes ==
  ASSUME RegistryTypes, NEW p \in Process, NEW m \in Model, Fetch(p, m)
  PROVE  /\ Stays(p) /\ job'[p] = JobOf(m, NoModel) /\ disk' = disk \cup {m}
         /\ UNCHANGED <<registryFile, registry>>
<1>1. JobOf(m, NoModel) \in JobType
  BY DEF JobType, JobOf
<1>2. [job[p] EXCEPT !.at = m] = JobOf(m, NoModel)
  BY DEF Fetch, BetweenCalls, AtRest, JobOf
<1>3. job' = [job EXCEPT ![p] = JobOf(m, NoModel)]
  <2>1. job' = [job EXCEPT ![p].at = m]
    BY DEF Fetch
  <2> QED
    BY <1>2, <2>1
<1>4. /\ job' \in [Process -> JobType] /\ job'[p] = JobOf(m, NoModel)
      /\ \A q \in Process \ {p} : job'[q] = job[q]
  BY <1>1, <1>3 DEF RegistryTypes
<1>5. disk' = disk \cup {m} /\ UNCHANGED <<registryFile, registry>>
  BY DEF Fetch
<1> QED
  BY <1>4, <1>5 DEF RegistryTypes, Stays

LEMMA CallTypes ==
  ASSUME RegistryTypes, NEW p \in Process, RegistryCall(p)
  PROVE  Stays(p)
<1>1. registry[p] \in [Model -> Entry] /\ NoModel \in Model \cup {NoModel} /\ job[p] \in JobType
  BY DEF RegistryTypes
<1>2. CASE OpenRegistry(p)
  <2>1. CASE Save(p, NoEntries, NoModel)
    BY <1>1, <1>2, <2>1, SaveTypes, EntriesTypes DEF OpenRegistry, Stays
  <2>2. CASE /\ registry' = [registry EXCEPT ![p] = registryFile.entries]
             /\ job' = [job EXCEPT ![p] = AtRest] /\ UNCHANGED registryFile
    <3>1. registryFile.entries \in [Model -> Entry]
      BY DEF RegistryTypes
    <3> QED
      BY <1>2, <2>2, <3>1, EntriesTypes DEF OpenRegistry, Stays, RegistryTypes
  <2> QED
    BY <1>2, <2>1, <2>2 DEF OpenRegistry
<1>3. CASE ExitProcess(p)
  BY <1>3, EntriesTypes DEF ExitProcess, Stays, RegistryTypes
<1>4. CASE EndSave(p)
  BY <1>4, EndSaveTypes
<1>5. CASE RemoveModelFile(p)
  BY <1>5, EntriesTypes DEF RemoveModelFile, Stays, RegistryTypes
<1>6. ASSUME NEW m \in Model, Register(p, m)
      PROVE  Stays(p)
  <2>1. CASE m \in disk
    <3> DEFINE entries == [registry[p] EXCEPT ![m] = "idle"]
    <3>1. entries \in [Model -> Entry]
      BY <1>1 DEF Entry
    <3>2. Save(p, entries, NoModel) /\ UNCHANGED disk
      BY <1>6, <2>1 DEF Register
    <3> HIDE DEF entries
    <3> QED
      BY <1>1, <3>1, <3>2, SaveTypes DEF Stays
  <2>2. CASE m \notin disk
    BY <1>6, <2>2, EntriesTypes DEF Register, Stays, RegistryTypes
  <2> QED
    BY <2>1, <2>2
<1>7. ASSUME NEW m \in Model, Fetch(p, m)
      PROVE  Stays(p)
  BY <1>7, FetchTypes
<1>8. ASSUME NEW m \in Model, SetActive(p, m)
      PROVE  Stays(p)
  <2> DEFINE entries == [k \in Model |-> IF k = m THEN "active"
                                         ELSE IF Registered(p, k) THEN "idle" ELSE "none"]
  <2>1. entries \in [Model -> Entry]
    BY DEF Entry
  <2>2. Save(p, entries, NoModel) /\ UNCHANGED disk
    BY <1>8 DEF SetActive
  <2> HIDE DEF entries
  <2> QED
    BY <1>1, <2>1, <2>2, SaveTypes DEF Stays
<1>9. ASSUME NEW m \in Model, DeleteModel(p, m)
      PROVE  Stays(p)
  <2> DEFINE entries == [registry[p] EXCEPT ![m] = "none"]
  <2>1. entries \in [Model -> Entry]
    BY <1>1 DEF Entry
  <2>2. Save(p, entries, m) /\ UNCHANGED disk
    BY <1>9 DEF DeleteModel
  <2> HIDE DEF entries
  <2> QED
    BY <2>1, <2>2, SaveTypes DEF Stays
<1> QED
  BY <1>2, <1>3, <1>4, <1>5, <1>6, <1>7, <1>8, <1>9 DEF RegistryCall, Continue

-------------------------------------------------------------------------------
\* The first boot: what each stage leaves for the stamp.

Run == [at : {"down", "open", "download", "activate", "guardian", "grant"},
        asked : Request \cup {NoRequest}, profile : 0 .. Len(Profiles),
        permissions : 0 .. Len(PermissionProfiles), left : Seq(STRING),
        database : BOOLEAN, alone : BOOLEAN]

(* A run goes for the profile it was asked for, and the grants it has left are  *)
(* those that are not in the database yet, until that cannot be opened.         *)
GoalInv ==
  setup.at # "down" =>
    /\ setup.profile \in DOMAIN Profiles /\ AsAsked(setup.asked, Profiles[setup.profile])
    /\ setup.permissions \in DOMAIN PermissionProfiles
    /\ \/ setup.at = "grant" /\ ~ setup.database
       \/ ToSet(PermissionProfiles[setup.permissions].grants) \subseteq granted \cup ToSet(setup.left)

ActiveIn(entries) == {m \in Model : entries[m] = "active"}

(* While no other process writes, the file is torn by the run's own save or is  *)
(* its copy; the model is fetched, then listed, then the only active one.       *)
ReadyInv ==
  /\ setup.at \in {"down", "open"} => job[SetupProcess].at = "down"
  /\ setup.at \notin {"down", "open"} /\ setup.alone =>
       /\ \/ job[SetupProcess] = JobOf("saving", NoModel) /\ registryFile = TornFile
          \/ /\ \/ job[SetupProcess] = AtRest
                \/ job[SetupProcess] = JobOf(ChosenModel, NoModel) /\ setup.at = "activate"
             /\ registryFile = [kind |-> "ok", entries |-> registry[SetupProcess]]
       /\ setup.at # "download" => ChosenModel \in disk
       /\ setup.at \in {"guardian", "grant"} => ActiveIn(registry[SetupProcess]) = {ChosenModel}

SetupInv ==
  /\ RegistryTypes /\ setup \in Run /\ GoalInv /\ ReadyInv

LEMMA SetupMoves ==
  ASSUME setup \in Run, NEW place \in {"down", "open", "download", "activate", "guardian", "grant"},
         SetupGoes(place)
  PROVE  /\ setup' \in Run /\ setup'.at = place
         /\ setup'.asked = setup.asked /\ setup'.profile = setup.profile
         /\ setup'.permissions = setup.permissions /\ setup'.left = setup.left
         /\ setup'.database = setup.database /\ setup'.alone = setup.alone
  BY DEF Run, SetupGoes

LEMMA NotRunningType ==
  /\ NotRunning \in Run /\ NotRunning.at = "down"
<1>1. <<>> \in Seq(STRING) /\ 0 \in 0 .. Len(Profiles) /\ 0 \in 0 .. Len(PermissionProfiles)
  BY Catalog
<1> QED
  BY <1>1 DEF Run, NotRunning

LEMMA ChosenModelType ==
  ASSUME GoalInv, setup.at # "down"
  PROVE  ChosenModel \in Model
  BY Catalog DEF GoalInv, ChosenModel, Profile

(* The end of a run, at which its process exits.                               *)
LEMMA RunEnds ==
  ASSUME SetupInv, setup' = NotRunning,
         ExitProcess(SetupProcess) \/ (job[SetupProcess].at = "down" /\ UNCHANGED registryVars)
  PROVE  SetupInv'
<1>1. SetupProcess \in Process
  BY SetupConstants
<1>2. RegistryTypes' /\ job'[SetupProcess].at = "down"
  <2>1. CASE ExitProcess(SetupProcess)
    BY <1>1, <2>1, EntriesTypes DEF SetupInv, RegistryTypes, ExitProcess
  <2>2. CASE job[SetupProcess].at = "down" /\ UNCHANGED registryVars
    BY <2>2 DEF SetupInv, RegistryTypes, registryVars
  <2> QED
    BY <2>1, <2>2
<1> QED
  BY <1>2, NotRunningType DEF SetupInv, GoalInv, ReadyInv

LEMMA BootKeeps ==
  ASSUME SetupInv, NEW r \in Request, Boot(r)
  PROVE  SetupInv'
<1>1. PICK i \in Chosen(r), q \in ChosenPermissions(r) :
        setup' = [at |-> "open", asked |-> r, profile |-> i, permissions |-> q,
                  left |-> PermissionProfiles[q].grants, database |-> TRUE,
                  alone |-> \A p \in Others : job[p].at \in {"down", "rest"}]
  BY DEF Boot
<1>2. i \in DOMAIN Profiles /\ AsAsked(r, Profiles[i]) /\ q \in DOMAIN PermissionProfiles
  BY ChosenIsAsAsked, ChosenPermissionsType
<1>3. PermissionProfiles[q].grants \in Seq(STRING)
  BY <1>2, Catalog DEF PermissionProfile
<1>4. setup' \in Run
  BY <1>1, <1>2, <1>3, Catalog DEF Run
<1>5. /\ setup'.at = "open" /\ setup'.asked = r /\ setup'.profile = i /\ setup'.permissions = q
      /\ setup'.left = PermissionProfiles[q].grants
  BY <1>1
<1>6. GoalInv'
  BY <1>2, <1>5 DEF GoalInv
<1>7. UNCHANGED <<disk, registryFile, registry, job>> /\ job[SetupProcess].at = "down"
  BY DEF Boot, registryVars, SetupInv, ReadyInv
<1>8. RegistryTypes' /\ ReadyInv'
  BY <1>5, <1>7 DEF SetupInv, RegistryTypes, ReadyInv
<1> QED
  BY <1>4, <1>6, <1>8 DEF SetupInv

(* A step of the run that only moves it on keeps its goal.                     *)
LEMMA GoalStays ==
  ASSUME SetupInv, setup.at \notin {"down", "grant"},
         NEW place \in {"open", "download", "activate", "guardian"},
         SetupGoes(place), UNCHANGED granted
  PROVE  /\ setup' \in Run /\ GoalInv' /\ setup'.at = place /\ setup'.alone = setup.alone
         /\ ChosenModel' = ChosenModel
<1>1. /\ setup' \in Run /\ setup'.at = place
      /\ setup'.asked = setup.asked /\ setup'.profile = setup.profile
      /\ setup'.permissions = setup.permissions /\ setup'.left = setup.left
      /\ setup'.database = setup.database /\ setup'.alone = setup.alone
  BY SetupMoves DEF SetupInv
<1> QED
  BY <1>1 DEF SetupInv, GoalInv, ChosenModel

LEMMA OpensKeeps ==
  ASSUME SetupInv, SetupOpens
  PROVE  SetupInv'
<1> DEFINE p == SetupProcess
<1>1. p \in Process /\ RegistryTypes /\ setup.at = "open"
  BY SetupConstants DEF SetupInv, SetupOpens
<1>2. setup' \in Run /\ GoalInv' /\ setup'.at = "download"
  BY <1>1, GoalStays DEF SetupOpens
<1>3. RegistryTypes'
  BY <1>1, CallTypes DEF SetupOpens, RegistryCall, Stays
<1>4. \/ job'[p] = JobOf("saving", NoModel) /\ registryFile' = TornFile
      \/ /\ job'[p] = AtRest
         /\ registryFile' = [kind |-> "ok", entries |-> registry'[p]]
  <2>1. CASE registryFile.kind = "missing" /\ Save(p, NoEntries, NoModel)
    <3>1. UNCHANGED disk
      BY DEF SetupOpens, OpenRegistry
    <3> QED
      BY <1>1, <2>1, <3>1, SaveTypes, EntriesTypes
  <2>2. CASE /\ registryFile.kind = "ok"
             /\ registry' = [registry EXCEPT ![p] = registryFile.entries]
             /\ job' = [job EXCEPT ![p] = AtRest] /\ UNCHANGED registryFile
    <3>1. registryFile = [kind |-> registryFile.kind, entries |-> registryFile.entries]
      BY <1>1 DEF RegistryTypes
    <3>2. registry'[p] = registryFile.entries /\ job'[p] = AtRest
      BY <1>1, <2>2 DEF RegistryTypes
    <3> QED
      BY <2>2, <3>1, <3>2
  <2> QED
    BY <2>1, <2>2 DEF SetupOpens, OpenRegistry
<1>5. ReadyInv'
  BY <1>2, <1>4 DEF ReadyInv
<1> QED
  BY <1>2, <1>3, <1>5 DEF SetupInv

LEMMA DownloadKeeps ==
  ASSUME SetupInv, Download
  PROVE  SetupInv'
<1> DEFINE p == SetupProcess
           m == ChosenModel
<1>1. p \in Process /\ RegistryTypes /\ setup.at = "download" /\ job[p] = AtRest
  BY SetupConstants DEF SetupInv, Download, Setup, BetweenCalls
<1>2. /\ setup' \in Run /\ GoalInv' /\ setup'.at = "activate" /\ setup'.alone = setup.alone
      /\ ChosenModel' = m
  BY <1>1, GoalStays DEF Download
<1>3. m \in Model
  BY <1>1, ChosenModelType DEF SetupInv
<1>4. /\ RegistryTypes' /\ job'[p] = JobOf(m, NoModel) /\ m \in disk'
      /\ UNCHANGED <<registryFile, registry>>
  BY <1>1, <1>3, FetchTypes DEF Download, Stays
<1>5. setup.alone => registryFile = [kind |-> "ok", entries |-> registry[p]]
  BY <1>1, EntriesTypes DEF SetupInv, ReadyInv, JobOf
<1>6. ReadyInv'
  BY <1>2, <1>4, <1>5 DEF ReadyInv
<1> QED
  BY <1>2, <1>4, <1>6 DEF SetupInv

LEMMA ActivateKeeps ==
  ASSUME SetupInv, Activate
  PROVE  SetupInv'
<1> DEFINE p == SetupProcess
           m == ChosenModel
           entries == [k \in Model |-> IF k = m THEN "active"
                                       ELSE IF Registered(p, k) THEN "idle" ELSE "none"]
<1>1. p \in Process /\ RegistryTypes /\ setup.at = "activate"
  BY SetupConstants DEF SetupInv, Activate, Setup
<1>2. /\ setup' \in Run /\ GoalInv' /\ setup'.at = "guardian" /\ setup'.alone = setup.alone
      /\ ChosenModel' = m
  BY <1>1, GoalStays DEF Activate
<1>3. m \in Model
  BY <1>1, ChosenModelType DEF SetupInv
<1>4. entries \in [Model -> Entry] /\ ActiveIn(entries) = {m}
  BY <1>3 DEF Entry, ActiveIn
<1>5. Save(p, entries, NoModel) /\ UNCHANGED disk
  BY DEF Activate, SetActive
<1> HIDE DEF entries
<1>6. /\ RegistryTypes' /\ registryFile' = TornFile /\ registry'[p] = entries
      /\ job'[p] = JobOf("saving", NoModel)
  BY <1>1, <1>4, <1>5, SaveTypes
<1>7. setup.alone => m \in disk
  BY <1>1 DEF SetupInv, ReadyInv
<1>8. ReadyInv'
  BY <1>2, <1>4, <1>5, <1>6, <1>7 DEF ReadyInv
<1> QED
  BY <1>2, <1>6, <1>8 DEF SetupInv

LEMMA GuardianKeeps ==
  ASSUME SetupInv, OpenGuardian
  PROVE  SetupInv'
<1>1. PICK opened \in BOOLEAN : setup' = [setup EXCEPT !.at = "grant", !.database = opened]
  BY DEF OpenGuardian
<1>2. setup \in Run /\ setup.at = "guardian"
  BY DEF SetupInv, OpenGuardian, Setup
<1>3. /\ setup' \in Run /\ setup'.at = "grant"
      /\ setup'.asked = setup.asked /\ setup'.profile = setup.profile
      /\ setup'.permissions = setup.permissions /\ setup'.left = setup.left
      /\ setup'.alone = setup.alone
  BY <1>1, <1>2 DEF Run
<1>5. UNCHANGED <<disk, registryFile, registry, job, granted>>
  BY DEF OpenGuardian, registryVars
<1>6. GoalInv'
  BY <1>2, <1>3, <1>5 DEF SetupInv, GoalInv
<1>7. ReadyInv'
  BY <1>2, <1>3, <1>5 DEF SetupInv, ReadyInv, ChosenModel
<1> QED
  BY <1>3, <1>5, <1>6, <1>7 DEF SetupInv, RegistryTypes

LEMMA HeadOrTail ==
  ASSUME NEW list \in Seq(STRING), list # <<>>
  PROVE  /\ Tail(list) \in Seq(STRING) /\ ToSet(list) \subseteq {Head(list)} \cup ToSet(Tail(list))
         /\ ToSet(Tail(list)) \subseteq ToSet(list) /\ Head(list) \in ToSet(list)
<1>1. /\ Tail(list) \in Seq(STRING) /\ Len(Tail(list)) = Len(list) - 1
      /\ \A i \in 1 .. Len(Tail(list)) : Tail(list)[i] = list[i + 1]
  BY HeadTailProperties
<1>2. /\ DOMAIN list = 1 .. Len(list) /\ DOMAIN Tail(list) = 1 .. Len(Tail(list))
      /\ Len(list) \in Nat /\ Head(list) = list[1]
  BY <1>1
<1>3. ASSUME NEW i \in 1 .. Len(list), i # 1
      PROVE  list[i] \in ToSet(Tail(list))
  <2>1. i - 1 \in DOMAIN Tail(list) /\ Tail(list)[i - 1] = list[i]
    BY <1>1, <1>2, <1>3
  <2> QED
    BY <2>1 DEF ToSet
<1>4. ToSet(list) \subseteq {Head(list)} \cup ToSet(Tail(list))
  BY <1>2, <1>3 DEF ToSet
<1>5. 1 \in DOMAIN list
  BY <1>2
<1>6. ToSet(Tail(list)) \subseteq ToSet(list) /\ Head(list) \in ToSet(list)
  BY <1>1, <1>2, <1>5 DEF ToSet
<1> QED
  BY <1>1, <1>4, <1>6

LEMMA GrantKeeps ==
  ASSUME SetupInv, ApplyGrant
  PROVE  SetupInv'
<1>1. setup \in Run /\ setup.at = "grant" /\ setup.left \in Seq(STRING) /\ setup.left # <<>>
  BY DEF SetupInv, ApplyGrant, Setup, Run
<1>2. Tail(setup.left) \in Seq(STRING) /\ ToSet(setup.left) \subseteq {Head(setup.left)} \cup ToSet(Tail(setup.left))
  BY <1>1, HeadOrTail
<1>3. /\ setup' \in Run /\ setup'.at = "grant"
      /\ setup'.asked = setup.asked /\ setup'.profile = setup.profile
      /\ setup'.permissions = setup.permissions /\ setup'.left = Tail(setup.left)
      /\ setup'.alone = setup.alone /\ setup'.database = setup.database
  <2>1. setup' = [setup EXCEPT !.left = Tail(setup.left)]
    BY DEF ApplyGrant
  <2> QED
    BY <1>1, <1>2, <2>1 DEF Run
<1>4. /\ UNCHANGED <<disk, registryFile, registry, job>> /\ granted \subseteq granted'
      /\ setup.database => Head(setup.left) \in granted'
  BY DEF ApplyGrant, registryVars
<1>5. GoalInv'
  BY <1>1, <1>2, <1>3, <1>4 DEF SetupInv, GoalInv
<1>6. ReadyInv'
  BY <1>1, <1>3, <1>4 DEF SetupInv, ReadyInv, ChosenModel
<1> QED
  BY <1>3, <1>4, <1>5, <1>6 DEF SetupInv, RegistryTypes

(* The call that the run is in goes on.                                        *)
LEMMA ContinueKeeps ==
  ASSUME SetupInv, SetupContinues
  PROVE  SetupInv'
<1> DEFINE p == SetupProcess
           m == ChosenModel
<1>1. p \in Process /\ RegistryTypes /\ UNCHANGED <<setup, granted>> /\ Continue(p)
  BY SetupConstants DEF SetupInv, SetupContinues
<1>2. RegistryTypes' /\ setup' \in Run /\ GoalInv' /\ ChosenModel' = m
  <2>1. Stays(p)
    BY <1>1, CallTypes DEF RegistryCall
  <2> QED
    BY <1>1, <2>1 DEF SetupInv, Stays, GoalInv, ChosenModel
<1>3. setup.at \notin {"down", "open"}
  <2>1. job[p].at # "down"
    BY <1>1, ModelNames DEF Continue, EndSave, RemoveModelFile, Register
  <2> QED
    BY <2>1 DEF SetupInv, ReadyInv
<1>4. ASSUME setup.alone
      PROVE  ReadyInv'
  <2>1. /\ \/ job[p] = JobOf("saving", NoModel) /\ registryFile = TornFile
           \/ /\ \/ job[p] = AtRest
                 \/ job[p] = JobOf(m, NoModel) /\ setup.at = "activate"
              /\ registryFile = [kind |-> "ok", entries |-> registry[p]]
        /\ setup.at # "download" => m \in disk
        /\ setup.at \in {"guardian", "grant"} => ActiveIn(registry[p]) = {m}
    BY <1>3, <1>4 DEF SetupInv, ReadyInv
  <2>2. m \in Model
    BY <1>3, ChosenModelType DEF SetupInv
  <2>3. CASE EndSave(p)
    <3>1. job[p] = JobOf("saving", NoModel) /\ registryFile = TornFile
      BY <2>1, <2>2, <2>3, ModelNames, EntriesTypes DEF EndSave, JobOf
    <3>2. job'[p] = AtRest /\ registry' = registry
      BY <1>1, <2>3, <3>1, EndSaveTypes DEF JobOf, AtRest
    <3>3. registryFile' = [kind |-> "ok", entries |-> registry[p]] /\ disk' = disk
      BY <2>3, <3>1 DEF EndSave
    <3> QED
      BY <1>1, <1>2, <1>3, <2>1, <3>2, <3>3 DEF ReadyInv
  <2>4. CASE RemoveModelFile(p)
    BY <2>1, <2>2, <2>4, ModelNames, EntriesTypes DEF RemoveModelFile, JobOf
  <2>5. ASSUME NEW k \in Model, Register(p, k)
        PROVE  ReadyInv'
    <3>1. k = m /\ setup.at = "activate" /\ m \in disk
      BY <2>1, <2>2, <2>5, ModelNames, EntriesTypes DEF Register, JobOf
    <3> DEFINE entries == [registry[p] EXCEPT ![m] = "idle"]
    <3>2. entries \in [Model -> Entry]
      BY <1>1, <2>2 DEF RegistryTypes, Entry
    <3>3. Save(p, entries, NoModel) /\ UNCHANGED disk
      BY <2>5, <3>1 DEF Register
    <3> HIDE DEF entries
    <3>4. registryFile' = TornFile /\ job'[p] = JobOf("saving", NoModel)
      BY <1>1, <3>2, <3>3, SaveTypes
    <3> QED
      BY <1>1, <1>2, <1>3, <3>1, <3>3, <3>4 DEF ReadyInv
  <2> QED
    BY <1>1, <2>3, <2>4, <2>5 DEF Continue
<1>5. ReadyInv'
  BY <1>1, <1>3, <1>4 DEF ReadyInv
<1> QED
  BY <1>2, <1>5 DEF SetupInv

(* What others do is seen by the run, or leaves alone what it relies on.       *)
LEMMA OtherKeeps ==
  ASSUME SetupInv, OtherCall
  PROVE  SetupInv'
<1> DEFINE p == SetupProcess
<1>1. PICK q \in Others : RegistryCall(q)
  BY DEF OtherCall
<1>2. RegistryTypes' /\ job'[p] = job[p] /\ registry'[p] = registry[p]
  <2>1. p \in Process /\ q \in Process /\ p # q
    BY SetupConstants DEF Others
  <2> QED
    BY <1>1, <2>1, CallTypes DEF Stays, SetupInv
<1> DEFINE alone == setup.alone /\ (setup.at = "down" \/ UNCHANGED <<disk, registryFile>>)
<1>3. setup' = [setup EXCEPT !.alone = alone] /\ UNCHANGED granted /\ alone \in BOOLEAN
  BY DEF OtherCall, SetupInv, Run
<1> HIDE DEF alone
<1>4. /\ setup' \in Run /\ setup'.at = setup.at /\ setup'.alone = alone
      /\ setup'.asked = setup.asked /\ setup'.profile = setup.profile
      /\ setup'.permissions = setup.permissions /\ setup'.left = setup.left
      /\ setup'.database = setup.database
  BY <1>3 DEF SetupInv, Run
<1>5. GoalInv' /\ ChosenModel' = ChosenModel
  BY <1>3, <1>4 DEF SetupInv, GoalInv, ChosenModel
<1>6. ReadyInv'
  <2>1. setup'.alone /\ setup.at # "down" => setup.alone /\ UNCHANGED <<disk, registryFile>>
    BY <1>4 DEF alone
  <2> QED
    BY <1>2, <1>4, <1>5, <2>1 DEF SetupInv, ReadyInv
<1> QED
  BY <1>2, <1>4, <1>5, <1>6 DEF SetupInv

LEMMA DroppedKeeps ==
  ASSUME SetupInv, RegistryDropped
  PROVE  SetupInv'
<1> DEFINE p == SetupProcess
<1>1. /\ registryFile = TornFile /\ registryFile' = NoFile /\ p \in Process /\ job[p].at # "saving"
      /\ UNCHANGED <<disk, registry, job, setup, granted>>
  BY SetupConstants DEF RegistryDropped, DropTornRegistry
<1>2. setup.at \notin {"down", "open"} => ~ setup.alone
  BY <1>1, EntriesTypes DEF SetupInv, ReadyInv, JobOf
<1>3. ReadyInv' /\ GoalInv'
  BY <1>1, <1>2 DEF SetupInv, ReadyInv, GoalInv
<1> QED
  BY <1>1, <1>3, EntriesTypes DEF SetupInv, RegistryTypes

LEMMA SetupStep ==
  ASSUME SetupInv, [SetupNext]_setupVars
  PROVE  SetupInv'
<1>1. CASE WriteStamp \/ Abandon
  BY <1>1, RunEnds DEF WriteStamp, Abandon
<1>2. CASE UNCHANGED setupVars
  BY <1>2 DEF setupVars, registryVars, SetupInv, RegistryTypes, GoalInv, ReadyInv, ChosenModel
<1> QED
  BY <1>1, <1>2, BootKeeps, OpensKeeps, DownloadKeeps, ActivateKeeps, GuardianKeeps, GrantKeeps,
     ContinueKeeps, OtherKeeps, DroppedKeeps DEF SetupNext

LEMMA SetupBegins == SetupInit => SetupInv
<1> SUFFICES ASSUME SetupInit
             PROVE  SetupInv
  OBVIOUS
<1>1. RegistryTypes /\ job[SetupProcess].at = "down"
  BY EntriesTypes, SetupConstants DEF SetupInit, RegistryInit, RegistryTypes
<1>2. setup \in Run /\ setup.at = "down"
  BY NotRunningType DEF SetupInit
<1> QED
  BY <1>1, <1>2 DEF SetupInv, GoalInv, ReadyInv

(* The stamp speaks the truth: for any catalog, hardware, requests and number   *)
(* of other processes, what it says was asked for, is on the disk, listed and   *)
(* the one active model unless another process wrote meanwhile, and is granted. *)
THEOREM StampIsTrue == SetupSpec => StampMeansReady
<1>1. SetupInit => SetupInv
  BY SetupBegins
<1>2. SetupInv /\ [SetupNext]_setupVars => SetupInv'
  BY SetupStep
<1> DEFINE Told == LET profile == Profiles[stamp'.profile]
                   IN  /\ AsAsked(setup.asked, profile)
                       /\ setup.alone =>
                            /\ profile.file \in disk /\ registryFile.kind = "ok"
                            /\ {m \in Model : registryFile.entries[m] = "active"} = {profile.file}
                       /\ setup.database =>
                            ToSet(PermissionProfiles[stamp'.permissions].grants) \subseteq granted
<1>3. ASSUME SetupInv, [SetupNext]_setupVars, stamp' # stamp
      PROVE  Told
  <2>1. WriteStamp
    BY <1>3 DEF SetupNext, Boot, SetupOpens, Download, Activate, OpenGuardian, ApplyGrant, Abandon,
                SetupContinues, OtherCall, RegistryDropped, setupVars
  <2>2. /\ stamp'.profile = setup.profile /\ stamp'.permissions = setup.permissions
        /\ setup.at = "grant" /\ setup.left = <<>> /\ job[SetupProcess] = AtRest
    BY <2>1 DEF WriteStamp, Setup, BetweenCalls
  <2>3. ToSet(setup.left) = {}
    BY <2>2 DEF ToSet
  <2>4. AsAsked(setup.asked, Profiles[setup.profile])
    BY <1>3, <2>2 DEF SetupInv, GoalInv
  <2>5. setup.database =>
          ToSet(PermissionProfiles[setup.permissions].grants) \subseteq granted
    BY <1>3, <2>2, <2>3 DEF SetupInv, GoalInv
  <2>6. ASSUME setup.alone
        PROVE  /\ ChosenModel \in disk /\ registryFile.kind = "ok"
               /\ {m \in Model : registryFile.entries[m] = "active"} = {ChosenModel}
    <3>1. /\ registryFile = [kind |-> "ok", entries |-> registry[SetupProcess]]
          /\ ChosenModel \in disk /\ ActiveIn(registry[SetupProcess]) = {ChosenModel}
      BY <1>3, <2>2, <2>6, EntriesTypes DEF SetupInv, ReadyInv, JobOf
    <3> QED
      BY <3>1 DEF ActiveIn
  <2> QED
    BY <2>2, <2>4, <2>5, <2>6 DEF ChosenModel
<1>4. SetupInv /\ [SetupNext]_setupVars => [stamp' # stamp => Told]_setupVars
  BY <1>3
<1> QED
  BY <1>1, <1>2, <1>4, PTL DEF SetupSpec, StampMeansReady
-------------------------------------------------------------------------------
\* The types of the services.

\* What the desktop shows is a reading, and what a reading is capped to.
LEMMA CappedIsReading ==
  ASSUME NEW n \in Setting, NEW v \in Readings[n]
  PROVE  v # Unreadable /\ Cap[n][v] \in Readings[n]
  BY SettingsConstants DEF Setting

LEMMA SnapshotOf ==
  ASSUME NEW s \in [Setting -> (UNION {Readings[n] : n \in Setting}) \cup {Unreadable}],
         \A n \in Setting : s[n] \in Readings[n] \cup {Unreadable}
  PROVE  s \in Snapshots
  BY DEF Snapshots

\* The types, and that the desktop and the snapshots are functions
SettingsTypes ==
  /\ desktop \in [Setting -> UNION {Readings[n] : n \in Setting}]
  /\ \A n \in Setting : desktop[n] \in Readings[n]
  /\ lastSnapshot = <<>> \/ \E s \in Snapshots : lastSnapshot = <<s>>
  /\ reverting \in [next : 0 .. Len(Settings) + 1, snap : Snapshots,
                    failed : BOOLEAN, touched : BOOLEAN]

LEMMA DesktopSet ==
  ASSUME SettingsTypes, NEW n \in Setting, NEW v \in Readings[n],
         desktop' = [desktop EXCEPT ![n] = v]
  PROVE  /\ desktop' \in [Setting -> UNION {Readings[m] : m \in Setting}]
         /\ \A m \in Setting : desktop'[m] \in Readings[m]
  BY DEF SettingsTypes

LEMMA NoRevertType ==
  NoRevert \in [next : 0 .. Len(Settings) + 1, snap : Snapshots, failed : BOOLEAN, touched : BOOLEAN]
<1> DEFINE s == [n \in Setting |-> Unreadable]
<1>1. s \in Snapshots
  <2>1. /\ s \in [Setting -> (UNION {Readings[n] : n \in Setting}) \cup {Unreadable}]
        /\ \A n \in Setting : s[n] \in Readings[n] \cup {Unreadable}
    OBVIOUS
  <2> QED
    BY <2>1, SnapshotOf
<1>2. 0 \in 0 .. Len(Settings) + 1
  BY SettingsLength
<1> HIDE DEF s
<1> QED
  BY <1>1, <1>2 DEF NoRevert, s

LEMMA SettingsAreTyped == SettingsSpec => []SettingsTypeOK
<1> DEFINE RevertType == [next : 0 .. Len(Settings) + 1, snap : Snapshots,
                          failed : BOOLEAN, touched : BOOLEAN]
<1>1. SettingsInit => SettingsTypes
  BY NoRevertType DEF SettingsInit, SettingsTypes, Snapshots
<1>2. ASSUME SettingsTypes, [SettingsNext]_settingsVars
      PROVE  SettingsTypes'
  <2>1. CASE TakeSnapshot
    <3>1. PICK unread \in SUBSET Setting :
            lastSnapshot' = <<[n \in Setting |-> IF n \in unread THEN Unreadable ELSE desktop[n]]>>
      BY <2>1 DEF TakeSnapshot
    <3> DEFINE s == [n \in Setting |-> IF n \in unread THEN Unreadable ELSE desktop[n]]
    <3>2. /\ s \in [Setting -> (UNION {Readings[n] : n \in Setting}) \cup {Unreadable}]
          /\ \A n \in Setting : s[n] \in Readings[n] \cup {Unreadable}
      BY <1>2 DEF SettingsTypes
    <3>3. s \in Snapshots /\ lastSnapshot' = <<s>>
      BY <3>1, <3>2, SnapshotOf
    <3> HIDE DEF s
    <3> QED
      BY <1>2, <2>1, <3>3 DEF TakeSnapshot, SettingsTypes
  <2>2. ASSUME NEW n \in Setting, NEW v \in Readings[n], desktop' = [desktop EXCEPT ![n] = v],
               reverting' = Touched, UNCHANGED lastSnapshot
        PROVE  SettingsTypes'
    <3>1. reverting' \in RevertType
      BY <1>2, <2>2 DEF SettingsTypes, Touched
    <3> QED
      BY <1>2, <2>2, <3>1, DesktopSet DEF SettingsTypes
  <2>3. CASE Revert
    <3>1. PICK s \in Snapshots : lastSnapshot = <<s>>
      BY <1>2, <2>3 DEF Revert, SettingsTypes
    <3>2. reverting' = [next |-> 1, snap |-> s, failed |-> FALSE, touched |-> FALSE]
      BY <2>3, <3>1 DEF Revert, NoRevert
    <3>3. reverting' \in RevertType
      BY <3>1, <3>2, SettingsLength
    <3> QED
      BY <1>2, <2>3, <3>3 DEF Revert, SettingsTypes
  <2>4. CASE RevertSetting
    <3> DEFINE k == reverting.next
               n == Settings[k]
               v == reverting.snap[n]
    <3>1. k \in 1 .. Len(Settings) /\ k + 1 \in 0 .. Len(Settings) + 1 /\ n \in Setting
      BY <2>4, SettingsLength DEF RevertSetting, Setting
    <3>2. v # Unreadable => v \in Readings[n] /\ Cap[n][v] \in Readings[n]
      <4>1. reverting.snap \in Snapshots
        BY <1>2 DEF SettingsTypes
      <4> QED
        BY <3>1, <4>1, CappedIsReading DEF Snapshots
    <3>3. reverting' \in RevertType
      <4>1. reverting' = [reverting EXCEPT !.next = k + 1]
            \/ reverting' = [reverting EXCEPT !.next = k + 1, !.failed = TRUE]
        BY <2>4 DEF RevertSetting
      <4> QED
        BY <1>2, <3>1, <4>1 DEF SettingsTypes
    <3>4. \/ v # Unreadable /\ desktop' = [desktop EXCEPT ![n] = Cap[n][v]]
          \/ UNCHANGED desktop
      BY <2>4 DEF RevertSetting
    <3>5. UNCHANGED lastSnapshot
      BY <2>4 DEF RevertSetting
    <3> HIDE DEF k, n, v
    <3>6. /\ desktop' \in [Setting -> UNION {Readings[m] : m \in Setting}]
          /\ \A m \in Setting : desktop'[m] \in Readings[m]
      BY <1>2, <3>1, <3>2, <3>4, DesktopSet DEF SettingsTypes
    <3> QED
      BY <1>2, <3>3, <3>5, <3>6 DEF SettingsTypes
  <2>5. CASE RevertReturns
    BY <1>2, <2>5, NoRevertType DEF RevertReturns, SettingsTypes
  <2>6. CASE UNCHANGED settingsVars
    BY <1>2, <2>6 DEF settingsVars, SettingsTypes
  <2>7. ASSUME NEW n \in Setting, NEW v \in Readings[n], SetSetting(n, v) \/ TurnKnob(n, v)
        PROVE  SettingsTypes'
    <3>1. Cap[n][v] \in Readings[n]
      BY CappedIsReading
    <3> QED
      BY <2>2, <2>7, <3>1 DEF SetSetting, TurnKnob
  <2> QED
    BY <1>2, <2>1, <2>3, <2>4, <2>5, <2>6, <2>7 DEF SettingsNext
<1>3. ASSUME SettingsTypes
      PROVE  SettingsTypeOK
  <2>1. ASSUME NEW s \in Snapshots, lastSnapshot = <<s>>
        PROVE  Len(lastSnapshot) <= 1 /\ \A i \in DOMAIN lastSnapshot : lastSnapshot[i] \in Snapshots
    BY <2>1
  <2>2. ASSUME lastSnapshot = <<>>
        PROVE  Len(lastSnapshot) <= 1 /\ \A i \in DOMAIN lastSnapshot : lastSnapshot[i] \in Snapshots
    BY <2>2
  <2> QED
    BY <1>3, <2>1, <2>2 DEF SettingsTypes, SettingsTypeOK
<1>4. SettingsTypes /\ [SettingsNext]_settingsVars => SettingsTypes'
  BY <1>2
<1> QED
  BY <1>1, <1>3, <1>4, PTL DEF SettingsSpec

\* The history never holds more than its maximum, in memory and in the file.
HistoriesFit ==
  /\ Len(updates.history) <= MaxHistory
  /\ updateFile # <<>> => Len(updateFile[1].history) <= MaxHistory

LEMMA LatestFits ==
  ASSUME NEW h \in Seq(Record), NEW r \in Record, Len(h) <= MaxHistory
  PROVE  Len(Latest(Append(h, r))) <= MaxHistory
<1>1. Append(h, r) \in Seq(Record) /\ Len(Append(h, r)) = Len(h) + 1 /\ Len(h) \in Nat
  OBVIOUS
<1>2. MaxHistory \in Nat
  BY UpdateConstants
<1> DEFINE a == Append(h, r)
<1>3. a # <<>> => Len(Tail(a)) = Len(a) - 1
  BY <1>1
<1>4. a # <<>>
  BY <1>1
<1> HIDE DEF a
<1> QED
  BY <1>1, <1>2, <1>3, <1>4 DEF Latest, a

LEMMA SavedFits ==
  ASSUME HistoriesFit, Len(updates'.history) <= MaxHistory, SaveUpdates
  PROVE  HistoriesFit'
  BY DEF HistoriesFit, SaveUpdates

LEMMA ChangeFits ==
  ASSUME HistoryInv, HistoriesFit, NEW c \in Component, NEW v \in Version, NEW a, Change(c, v, a)
  PROVE  HistoriesFit'
<1> DEFINE r == [component |-> c, version |-> v]
<1>1. updates.history \in Seq(Record) /\ r \in Record
  BY DEF HistoryInv, UpdatesType, Record
<1>2. updates'.history = Latest(Append(updates.history, r)) /\ SaveUpdates
  BY DEF Change
<1> HIDE DEF r
<1> QED
  BY <1>1, <1>2, LatestFits, SavedFits DEF HistoriesFit

LEMMA UpdatesAreTyped == UpdateSpec => []UpdateTypeOK
<1>1. UpdateInit => HistoryInv /\ HistoriesFit
  BY DefaultHistory, UpdateConstants DEF UpdateInit, HistoryInv, HistoriesFit, DefaultUpdates
<1>2. ASSUME HistoryInv, HistoriesFit, [UpdateNext]_updateVars
      PROVE  HistoriesFit'
  <2>1. ASSUME NEW c \in Component, NEW v \in Offered, SetAvailableUpdate(c, v)
        PROVE  HistoriesFit'
    <3>1. updates'.history = updates.history /\ SaveUpdates
      BY <1>2, <2>1 DEF SetAvailableUpdate, HistoryInv, UpdatesType
    <3> QED
      BY <1>2, <3>1, SavedFits DEF HistoriesFit
  <2>2. ASSUME NEW c \in Component, NEW v \in Version, ApplyUpdate(c, v)
        PROVE  HistoriesFit'
    BY <1>2, <2>2, ChangeFits DEF ApplyUpdate
  <2>3. ASSUME NEW c \in Component, RollbackUpdate(c)
        PROVE  HistoriesFit'
    BY <1>2, <2>3, PreviousIsEarlier, ChangeFits DEF RollbackUpdate
  <2>4. CASE RestartUpdates
    BY <1>2, <2>4, UpdateConstants DEF RestartUpdates, HistoriesFit, DefaultUpdates
  <2>5. CASE UNCHANGED updateVars
    BY <1>2, <2>5 DEF updateVars, HistoriesFit
  <2> QED
    BY <1>2, <2>1, <2>2, <2>3, <2>4, <2>5 DEF UpdateNext
<1>3. ASSUME HistoryInv, HistoriesFit
      PROVE  UpdateTypeOK
  <2>1. ASSUME NEW u \in UpdatesType, Len(u.history) <= MaxHistory
        PROVE  UpdatesOK(u)
    BY <2>1 DEF UpdatesType, UpdatesOK
  <2>2. updates \in UpdatesType
    BY <1>3 DEF HistoryInv
  <2>3. UpdatesOK(updates)
    BY <1>3, <2>1, <2>2 DEF HistoriesFit
  <2>4. ASSUME NEW u \in UpdatesType, updateFile = <<u>>
        PROVE  Len(updateFile) = 1 /\ UpdatesOK(updateFile[1])
    <3>1. Len(updateFile) = 1 /\ updateFile[1] = u /\ updateFile # <<>>
      BY <2>4
    <3> QED
      BY <1>3, <2>1, <3>1 DEF HistoriesFit
  <2> QED
    BY <1>3, <2>3, <2>4 DEF HistoryInv, UpdateTypeOK
<1>4. HistoryInv /\ HistoriesFit /\ [UpdateNext]_updateVars => (HistoryInv /\ HistoriesFit)'
  BY <1>2, HistoryStep
<1>5. HistoryInv /\ HistoriesFit => UpdateTypeOK
  BY <1>3
<1> QED
  BY <1>1, <1>4, <1>5, PTL DEF UpdateSpec

(* A snapshot beyond the maximum is one that a call has appended and not yet    *)
(* trimmed.                                                                     *)
Trimming == {t \in Applier : applying[t].at = "trim"}
SnapshotsFit == Len(snapshots) <= MaxSnapshots + Cardinality(Trimming)

LEMMA TrimmingIsFinite ==
  ASSUME NEW S \in SUBSET Applier
  PROVE  IsFiniteSet(S) /\ Cardinality(S) \in Nat
<1>1. IsFiniteSet(S)
  BY EvolutionConstants, FS_Subset
<1> QED
  BY <1>1, FS_CardinalityType

\* A step that keeps the calls that trim, and adds no snapshot
LEMMA FitsOn ==
  ASSUME EvolutionType, EvolutionType', SnapshotsFit, Len(snapshots') <= Len(snapshots), Trimming' = Trimming
  PROVE  SnapshotsFit'
<1>1. Len(snapshots) \in Nat /\ Len(snapshots') \in Nat /\ MaxSnapshots \in Nat
  BY EvolutionConstants DEF EvolutionType
<1>2. Cardinality(Trimming) \in Nat
  BY TrimmingIsFinite DEF Trimming
<1> QED
  BY <1>1, <1>2 DEF SnapshotsFit

\* One call moves, from a place that is no trim to one that is none.
LEMMA TrimmingStays ==
  ASSUME NEW t \in Applier, applying[t].at # "trim", applying'[t].at # "trim",
         \A u \in Applier \ {t} : applying'[u] = applying[u]
  PROVE  Trimming' = Trimming
  BY DEF Trimming

LEMMA FitsStep ==
  ASSUME EvolutionInv, EvolutionInv', SnapshotsFit, [EvolutionNext]_evolutionVars
  PROVE  SnapshotsFit'
<1>1. /\ EvolutionType /\ EvolutionType' /\ MaxSnapshots \in Nat /\ Len(snapshots) \in Nat
      /\ snapshots \in Seq(Proposal) /\ Cardinality(Trimming) \in Nat
  BY EvolutionConstants, TrimmingIsFinite DEF EvolutionInv, EvolutionType, Trimming
<1>2. ASSUME UNCHANGED <<snapshots, applying>>
      PROVE  SnapshotsFit'
  BY <1>1, <1>2 DEF SnapshotsFit, Trimming
<1>3. ASSUME NEW t \in Applier, NEW p \in Proposal, NEW place \in {"signoff", "gates"}, NEW signoff,
             EnterApply(t, p, place, signoff)
      PROVE  SnapshotsFit'
  <2>1. /\ applying[t].at # "trim" /\ applying'[t].at # "trim" /\ UNCHANGED snapshots
        /\ \A u \in Applier \ {t} : applying'[u] = applying[u]
    BY <1>1, <1>3 DEF EnterApply, EvolutionType, Applies
  <2> QED
    BY <1>1, <2>1, FitsOn, TrimmingStays
<1>4. ASSUME NEW t \in Applier, NEW place \in ApplyPlace \ {"trim"}, ApplyGoes(t, place) \/ LeaveApply(t),
             applying[t].at # "trim", Len(snapshots') <= Len(snapshots)
      PROVE  SnapshotsFit'
  <2>1. applying'[t].at # "trim" /\ \A u \in Applier \ {t} : applying'[u] = applying[u]
    BY <1>1, <1>4, CallGoes, CallLeaves
  <2> QED
    BY <1>1, <1>4, <2>1, FitsOn, TrimmingStays
<1>5. ASSUME NEW t \in Applier, PersistSnapshot(t)
      PROVE  SnapshotsFit'
  <2>1. /\ applying[t].at = "snapshot" /\ ApplyGoes(t, "trim")
        /\ snapshots' = Append(snapshots, applying[t].proposal)
    BY <1>5 DEF PersistSnapshot, Applies
  <2>2. applying'[t].at = "trim" /\ \A u \in Applier \ {t} : applying'[u] = applying[u]
    BY <1>1, <2>1, CallGoes DEF ApplyPlace
  <2>3. Trimming' = Trimming \cup {t} /\ t \notin Trimming
    BY <2>1, <2>2 DEF Trimming
  <2>4. Cardinality(Trimming') = Cardinality(Trimming) + 1
    <3>1. IsFiniteSet(Trimming)
      BY TrimmingIsFinite DEF Trimming
    <3> QED
      BY <2>3, <3>1, FS_AddElement
  <2>5. Len(snapshots') = Len(snapshots) + 1
    BY <1>1, <2>1
  <2> QED
    BY <1>1, <2>4, <2>5 DEF SnapshotsFit
<1>6. ASSUME NEW t \in Applier, TrimSnapshots(t)
      PROVE  SnapshotsFit'
  <2>1. /\ applying[t].at = "trim" /\ ApplyGoes(t, "apply")
        /\ snapshots' = IF Len(snapshots) > MaxSnapshots THEN Tail(snapshots) ELSE snapshots
    BY <1>6 DEF TrimSnapshots, Applies
  <2>2. applying'[t].at = "apply" /\ \A u \in Applier \ {t} : applying'[u] = applying[u]
    BY <1>1, <2>1, CallGoes DEF ApplyPlace
  <2>3. Trimming' = Trimming \ {t} /\ t \in Trimming
    BY <2>1, <2>2 DEF Trimming
  <2>4. Cardinality(Trimming') = Cardinality(Trimming) - 1 /\ Cardinality(Trimming') \in Nat
    <3>1. IsFiniteSet(Trimming)
      BY TrimmingIsFinite DEF Trimming
    <3>2. Cardinality(Trimming') = Cardinality(Trimming) - 1
      BY <2>3, <3>1, FS_RemoveElement
    <3>3. Trimming' \in SUBSET Applier
      BY DEF Trimming
    <3> QED
      BY <3>2, <3>3, TrimmingIsFinite
  <2>5. CASE Len(snapshots) > MaxSnapshots
    <3>1. snapshots # <<>>
      BY <1>1, <2>5
    <3>2. Len(snapshots') = Len(snapshots) - 1
      BY <1>1, <2>1, <2>5, <3>1
    <3> QED
      BY <1>1, <2>4, <3>2 DEF SnapshotsFit
  <2>6. CASE ~ Len(snapshots) > MaxSnapshots
    BY <1>1, <2>1, <2>4, <2>6 DEF SnapshotsFit
  <2> QED
    BY <2>5, <2>6
<1>7. ASSUME NEW t \in Applier, RollbackLastSnapshot(t)
      PROVE  SnapshotsFit'
  <2>1. /\ applying[t].at = "rollback" /\ ApplyGoes(t, "undo")
        /\ snapshots' = SubSeq(snapshots, 1, Len(snapshots) - 1)
    BY <1>7 DEF RollbackLastSnapshot, Applies
  <2>2. Len(snapshots') <= Len(snapshots)
    BY <1>1, <2>1
  <2> QED
    BY <1>4, <2>1, <2>2 DEF ApplyPlace
<1>8. ASSUME NEW t \in Applier,
             SignOff(t) \/ CheckGates(t) \/ MarkApplied(t) \/ RunSmokeTests(t) \/ UndoApplied(t)
      PROVE  SnapshotsFit'
  <2>1. /\ applying[t].at # "trim" /\ UNCHANGED snapshots
        /\ LeaveApply(t) \/ \E place \in ApplyPlace \ {"trim"} : ApplyGoes(t, place)
    BY <1>8 DEF SignOff, CheckGates, MarkApplied, RunSmokeTests, UndoApplied, Applies, ApplyPlace
  <2>2. Len(snapshots') <= Len(snapshots) /\ "out" \in ApplyPlace \ {"trim"}
    BY <1>1, <2>1 DEF ApplyPlace
  <2> QED
    BY <1>4, <2>1, <2>2
<1>9. ASSUME NEW t \in Applier, NEW p \in Proposal,
             \/ \E as \in Execution : ExecuteProposal(t, p, as[1], as[2])
             \/ ApplyProposal(t, p)
      PROVE  SnapshotsFit'
  BY <1>3, <1>9 DEF ExecuteProposal, ApplyProposal
<1>10. ASSUME NEW p \in Proposal,
              ApproveProposal(p) \/ \E as \in Creation : CreateProposal(p, as[1], as[2])
       PROVE  SnapshotsFit'
  BY <1>2, <1>10 DEF ApproveProposal, CreateProposal
<1>11. CASE UNCHANGED evolutionVars
  BY <1>2, <1>11 DEF evolutionVars
<1> QED
  BY <1>5, <1>6, <1>7, <1>8, <1>9, <1>10, <1>11 DEF EvolutionNext

LEMMA EvolutionIsTyped == EvolutionSpec => []EvolutionTypeOK
<1>1. EvolutionInit => SnapshotsFit
  <2> SUFFICES ASSUME EvolutionInit
               PROVE  SnapshotsFit
    OBVIOUS
  <2>1. Len(snapshots) = 0
    BY DEF EvolutionInit
  <2>2. Cardinality(Trimming) \in Nat
    BY TrimmingIsFinite DEF Trimming
  <2> QED
    BY <2>1, <2>2, EvolutionConstants DEF SnapshotsFit
<1>2. EvolutionInv /\ EvolutionInv' /\ SnapshotsFit /\ [EvolutionNext]_evolutionVars => SnapshotsFit'
  BY FitsStep
<1>3. ASSUME EvolutionInv, SnapshotsFit
      PROVE  EvolutionTypeOK
  <2>1. EvolutionType /\ MaxSnapshots \in Nat /\ Len(snapshots) \in Nat
    BY <1>3, EvolutionConstants DEF EvolutionInv, EvolutionType
  <2>2. Trimming \subseteq Applier
    BY DEF Trimming
  <2>3. Cardinality(Trimming) <= Cardinality(Applier)
    BY <2>2, EvolutionConstants, FS_Subset
  <2>4. Cardinality(Trimming) \in Nat /\ Cardinality(Applier) \in Nat
    BY <2>2, TrimmingIsFinite
  <2>5. Len(snapshots) <= MaxSnapshots + Cardinality(Applier)
    BY <1>3, <2>1, <2>3, <2>4 DEF SnapshotsFit
  <2>6. NoApply.proposal \in Proposal
    BY EvolutionConstants DEF NoApply
  <2>7. Proposal \cup {NoApply.proposal} = Proposal
    BY <2>6
  <2>8. /\ snapshots \in Seq(Proposal) /\ crowded \in BOOLEAN
        /\ proposals \in [Proposal -> ProposalRecord]
        /\ applying \in [Applier -> [at : ApplyPlace, proposal : Proposal, signoff : BOOLEAN]]
    BY <2>1, <2>7 DEF EvolutionType
  <2>9. \A i \in DOMAIN snapshots : snapshots[i] \in Proposal
    BY <2>8
  <2> QED
    BY <2>5, <2>8, <2>9 DEF EvolutionTypeOK, ProposalRecord, ApplyPlace
<1>4. EvolutionInv /\ [EvolutionNext]_evolutionVars => EvolutionInv'
  BY EvolutionStep
<1>5. EvolutionInv /\ SnapshotsFit => EvolutionTypeOK
  BY <1>3
<1>6. EvolutionInv /\ SnapshotsFit /\ [EvolutionNext]_evolutionVars => (EvolutionInv /\ SnapshotsFit)'
  BY <1>2, <1>4
<1> QED
  BY <1>1, <1>5, <1>6, EvolutionBegins, PTL DEF EvolutionSpec

\* What some permission profile grants is all that is granted, or left to grant.
GrantedByProfile(g) == \E q \in ToSet(PermissionProfiles) : g \in ToSet(q.grants)

StampTypes ==
  /\ \A g \in granted \cup ToSet(setup.left) : GrantedByProfile(g)
  /\ stamp.profile \in 0 .. Len(Profiles)

LEMMA StampTypesStep ==
  ASSUME SetupInv, StampTypes, [SetupNext]_setupVars
  PROVE  StampTypes'
<1>1. setup \in Run /\ NotRunning.left = <<>> /\ ToSet(<<>>) = {}
  BY DEF SetupInv, NotRunning, ToSet
<1>2. ASSUME UNCHANGED <<granted, stamp>>, setup'.left = setup.left \/ setup' = NotRunning
      PROVE  StampTypes'
  BY <1>1, <1>2 DEF StampTypes
<1>3. ASSUME NEW r \in Request, Boot(r)
      PROVE  StampTypes'
  <2>1. PICK q \in ChosenPermissions(r) : setup'.left = PermissionProfiles[q].grants
    BY <1>3 DEF Boot
  <2>2. PermissionProfiles[q] \in ToSet(PermissionProfiles)
    BY <2>1, ChosenPermissionsType DEF ToSet
  <2>3. UNCHANGED <<granted, stamp>>
    BY <1>3 DEF Boot
  <2>4. \A g \in ToSet(setup'.left) : GrantedByProfile(g)
    BY <2>1, <2>2 DEF GrantedByProfile
  <2> QED
    BY <2>3, <2>4 DEF StampTypes
<1>4. ASSUME ApplyGrant
      PROVE  StampTypes'
  <2>1. setup.left \in Seq(STRING) /\ setup.left # <<>> /\ UNCHANGED stamp
    BY <1>1, <1>4 DEF ApplyGrant, Run
  <2>2. setup'.left = Tail(setup.left) /\ granted' \subseteq granted \cup {Head(setup.left)}
    BY <1>1, <1>4 DEF ApplyGrant, Run
  <2> QED
    BY <2>1, <2>2, HeadOrTail DEF StampTypes
<1>5. ASSUME WriteStamp
      PROVE  StampTypes'
  <2>1. stamp'.profile = setup.profile /\ setup' = NotRunning /\ UNCHANGED granted
    BY <1>5 DEF WriteStamp
  <2>2. setup.profile \in 0 .. Len(Profiles)
    BY <1>1 DEF Run
  <2> QED
    BY <1>1, <2>1, <2>2 DEF StampTypes
<1>6. ASSUME SetupOpens \/ Download \/ Activate
      PROVE  StampTypes'
  <2>1. UNCHANGED <<granted, stamp>> /\ \E place : SetupGoes(place)
    BY <1>6 DEF SetupOpens, Download, Activate
  <2>2. setup'.left = setup.left
    BY <1>1, <2>1 DEF SetupGoes, Run
  <2> QED
    BY <1>2, <2>1, <2>2
<1>7. ASSUME OpenGuardian \/ OtherCall
      PROVE  StampTypes'
  <2>1. UNCHANGED <<granted, stamp>>
    BY <1>7 DEF OpenGuardian, OtherCall
  <2>2. setup'.left = setup.left
    BY <1>1, <1>7 DEF OpenGuardian, OtherCall, Run
  <2> QED
    BY <1>2, <2>1, <2>2
<1>8. ASSUME Abandon \/ SetupContinues \/ RegistryDropped
      PROVE  StampTypes'
  BY <1>2, <1>8 DEF Abandon, SetupContinues, RegistryDropped
<1>9. CASE UNCHANGED setupVars
  BY <1>2, <1>9 DEF setupVars
<1> QED
  BY <1>3, <1>4, <1>5, <1>6, <1>7, <1>8, <1>9 DEF SetupNext

LEMMA SetupIsTyped == SetupSpec => []SetupTypeOK
<1>1. SetupInit => SetupInv /\ StampTypes
  <2> SUFFICES ASSUME SetupInit
               PROVE  SetupInv /\ StampTypes
    OBVIOUS
  <2>1. NotRunning.left = <<>> /\ ToSet(<<>>) = {} /\ NoStamp.profile = 0 /\ 0 \in 0 .. Len(Profiles)
    BY Catalog DEF NotRunning, NoStamp, ToSet
  <2>2. StampTypes
    BY <2>1 DEF SetupInit, StampTypes
  <2> QED
    BY <2>2, SetupBegins
<1>2. ASSUME SetupInv, StampTypes
      PROVE  SetupTypeOK
  <2>1. RegistryTypeOK
    BY <1>2 DEF SetupInv, RegistryTypes, RegistryTypeOK, JobType
  <2>2. /\ setup.at \in {"down", "open", "download", "activate", "guardian", "grant"}
        /\ setup.profile \in 0 .. Len(Profiles)
        /\ setup.permissions \in 0 .. Len(PermissionProfiles)
        /\ setup.database \in BOOLEAN /\ setup.alone \in BOOLEAN
    BY <1>2 DEF SetupInv, Run
  <2> QED
    BY <1>2, <2>1, <2>2 DEF StampTypes, GrantedByProfile, SetupTypeOK
<1>3. SetupInv /\ StampTypes /\ [SetupNext]_setupVars => (SetupInv /\ StampTypes)'
  BY SetupStep, StampTypesStep
<1>4. SetupInv /\ StampTypes => SetupTypeOK
  BY <1>2
<1> QED
  BY <1>1, <1>3, <1>4, PTL DEF SetupSpec

-------------------------------------------------------------------------------
\* The services side by side.

Parts == {"daemon", "scheduler", "voice", "updates", "evolution", "secrets", "setup", "settings"}

\* A step is one of the part at work, and for every service one of its own, or none.
LEMMA PartSteps ==
  ASSUME [Next]_<<serviceVars, part>>
  PROVE  /\ UNCHANGED part
         /\ [SchedulerNext]_schedulerVars /\ [VoiceNext]_voiceVars /\ [UpdateNext]_updateVars
         /\ [EvolutionNext]_evolutionVars /\ [SecretNext]_secretVars /\ [SetupNext]_setupVars
         /\ [SettingsNext]_settingsVars
         /\ part = "daemon" => [DaemonNext]_<<daemonVars, schedulerVars>>
         /\ part # "daemon" => UNCHANGED daemonVars
<1>1. CASE UNCHANGED <<serviceVars, part>>
  BY <1>1 DEF serviceVars
<1>2. ASSUME UNCHANGED part, part = "daemon", DaemonCall
      PROVE  [DaemonNext]_<<daemonVars, schedulerVars>> /\ [SchedulerNext]_schedulerVars
  <2>1. [DaemonNext]_<<daemonVars, schedulerVars>>
    BY <1>2 DEF DaemonNext
  <2> QED
    BY <2>1, DaemonStepsSchedule
<1>3. CASE Next
  BY <1>2, <1>3 DEF Next
<1> QED
  BY <1>1, <1>3

(* Each service, while all are side by side, runs as its own specification      *)
(* says: daemon.py calls resource_scheduler.py, and beyond that no service of   *)
(* these writes what another one keeps.                                         *)
THEOREM ServicesRunTheirSpecs ==
  Spec => /\ SchedulerSpec /\ VoiceSpec /\ UpdateSpec /\ EvolutionSpec /\ SecretSpec
          /\ SetupSpec /\ SettingsSpec
          /\ part = "daemon" => DaemonSpec
<1>1. Init => /\ DaemonInit /\ SchedulerInit /\ VoiceInit /\ UpdateInit /\ EvolutionInit
              /\ SecretInit /\ SetupInit /\ SettingsInit
  BY DEF Init, DaemonInit
<1> DEFINE AtDaemon == part = "daemon"
<1>2. AtDaemon /\ [Next]_<<serviceVars, part>> =>
        AtDaemon' /\ [DaemonNext]_<<daemonVars, schedulerVars>>
  BY PartSteps
<1>3. [Next]_<<serviceVars, part>> =>
        /\ [SchedulerNext]_schedulerVars /\ [VoiceNext]_voiceVars /\ [UpdateNext]_updateVars
        /\ [EvolutionNext]_evolutionVars /\ [SecretNext]_secretVars /\ [SetupNext]_setupVars
        /\ [SettingsNext]_settingsVars
  BY PartSteps
<1>4. Spec => SchedulerSpec /\ VoiceSpec /\ UpdateSpec /\ EvolutionSpec /\ SecretSpec
              /\ SetupSpec /\ SettingsSpec
  BY <1>1, <1>3, PTL DEF Spec, SchedulerSpec, VoiceSpec, UpdateSpec, EvolutionSpec, SecretSpec,
     SetupSpec, SettingsSpec
<1>5. Spec /\ AtDaemon => DaemonSpec
  BY <1>1, <1>2, PTL DEF Spec, DaemonSpec
<1> QED
  BY <1>4, <1>5

(* Every service keeps its types while it is at work, for all values of the     *)
(* constants: the histories of the updates and the snapshots of the adapters    *)
(* stay as short as the code says, and what is read from a file has the type of *)
(* what was written.                                                            *)
THEOREM ServicesAreTyped == Spec => []TypesOK
<1> DEFINE AtDaemon == part = "daemon"
           Known == part \in Parts
<1>1. Spec => /\ []SchedulerTypeOK /\ []VoiceTypeOK /\ []UpdateTypeOK /\ []EvolutionTypeOK
              /\ []SecretTypeOK /\ []SetupTypeOK /\ []SettingsTypeOK
  <2>1. MonitorInv => VoiceTypeOK
    BY DEF MonitorInv
  <2>2. YieldInv => SchedulerTypeOK
    BY DEF YieldInv
  <2>3. SchedulerSpec => []SchedulerTypeOK
    BY <2>2, SchedulerStarts, SchedulerStepKeeps, PTL DEF SchedulerSpec
  <2>4. VoiceSpec => []VoiceTypeOK
    BY <2>1, MonitorHolds, PTL
  <2> QED
    BY <2>3, <2>4, ServicesRunTheirSpecs, UpdatesAreTyped, EvolutionIsTyped, SecretsAreTyped,
       SetupIsTyped, SettingsAreTyped
<1>2. Spec => [](AtDaemon => DaemonTypeOK)
  <2>1. DaemonInv => DaemonTypeOK
    BY DEF DaemonInv
  <2>2. Spec /\ AtDaemon => []DaemonTypeOK
    <3>1. Spec /\ AtDaemon => DaemonSpec
      BY ServicesRunTheirSpecs
    <3> QED
      BY <2>1, <3>1, DaemonHolds, PTL
  <2>3. ~ AtDaemon /\ [Next]_<<serviceVars, part>> => ~ AtDaemon'
    BY PartSteps
  <2> QED
    BY <2>2, <2>3, PTL DEF Spec
<1>3. Spec => []Known
  <2>1. Init => Known
    BY DEF Init, Parts
  <2>2. Known /\ [Next]_<<serviceVars, part>> => Known'
    BY PartSteps
  <2> QED
    BY <2>1, <2>2, PTL DEF Spec
<1>4. Known /\ (AtDaemon => DaemonTypeOK) /\ SchedulerTypeOK /\ VoiceTypeOK /\ UpdateTypeOK
        /\ EvolutionTypeOK /\ SecretTypeOK /\ SetupTypeOK /\ SettingsTypeOK => TypesOK
  BY DEF TypesOK, Parts
<1> QED
  BY <1>1, <1>2, <1>3, <1>4, PTL

(* All that is promised of a service by itself holds of the services side by    *)
(* side: the scheduler knows its limits, a voice monitor hears its stop, the    *)
(* snapshots follow what was applied, the queue waits for autonomy, a start     *)
(* resumes, a rollback returns, the audit key stays, the stamp of the first     *)
(* boot is true, and a revert restores.                                         *)
THEOREM ServicesKeepTheirPromises ==
  Spec => /\ []CapsAreOwned /\ []StopIsHeard /\ []SnapshotsFollowApplied
          /\ InputNeedsAutonomy /\ RestartResumes /\ RollbackReturns /\ KeyIsStable
          /\ StampMeansReady /\ RevertRestores
<1> DEFINE AtDaemon == part = "daemon"
<1>1. Spec /\ AtDaemon => InputNeedsAutonomy /\ RestartResumes
  BY ServicesRunTheirSpecs, QueueNeedsAutonomy, StartResumes
<1>2. Spec /\ ~ AtDaemon => InputNeedsAutonomy /\ RestartResumes
  <2>1. ~ AtDaemon /\ [Next]_<<serviceVars, part>> => ~ AtDaemon' /\ UNCHANGED daemonVars
    BY PartSteps
  <2>2. UNCHANGED daemonVars =>
          /\ [inputs' < inputs /\ running' =>
                \E t \in Thread : task[t].at = "pop" /\ task[t].clear]_daemonVars
          /\ [~ running /\ running' /\ starts > 0 /\ reach' # "hidden" /\ Reads(reach') = path =>
                state' = state \/ mixed \/ file[path] = Missing]_daemonVars
    OBVIOUS
  <2> QED
    BY <2>1, <2>2, PTL DEF Spec, InputNeedsAutonomy, RestartResumes
<1>3. Spec => InputNeedsAutonomy /\ RestartResumes
  BY <1>1, <1>2
<1> QED
  BY <1>3, ServicesRunTheirSpecs, LimitsAreOwned, StopsAreHeard, SnapshotsFollow,
     RollbackGoesBack, KeyStays, StampIsTrue, RevertSetsBack
===============================================================================
