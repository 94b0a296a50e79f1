-------------------------------- MODULE Daemon ---------------------------------
(* aegis/daemon.py, the modes: cycles observe, shadow or work the queue, and    *)
(* the user decides about onboarding and autonomy, all from API threads and     *)
(* without a lock.  aegis/state.py keeps the state in memory and writes all of  *)
(* it at every change, aegis/storage.py in place: the file is cut when it is    *)
(* opened and complete when it is closed.                                       *)
EXTENDS ResourceScheduler

CONSTANTS
  ObservationDays,   \* 7
  Missing, Cut,      \* the state file: not there, or not complete
  NoSave,
  MaxInputs,         \* bound: length of the input queue
  MaxStarts          \* bound: starts of the process

ASSUME DaemonConstants == {ObservationDays, MaxInputs, MaxStarts} \subseteq Nat \ {0}

VARIABLES
  running,
  reach,             \* what this process may do with the configured path
  path,              \* SystemState.path: the configured one, or the fallback
  state,             \* SystemState._state
  file,              \* path -> what the state file there holds
  saving,            \* thread -> the snapshot it is writing
  task,              \* thread -> the cycle or the decision it is in
  inputs,            \* length of input_queue
  starts,
  mixed,             \* history: the saves of two threads overlapped
  wanted             \* history: the last decision the user got an answer to

daemonVars == <<running, reach, path, state, file, saving, task, inputs, starts, mixed, wanted>>

Observation == "OBSERVATION_MODE"
Shadow == "ACTIVE_SHADOW_MODE"
Active == "ACTIVE_MODE"
Unknown == "any other string"
Mode == {Observation, Shadow, Active, Unknown}

State == [mode : Mode, day : 1 .. ObservationDays + 1, throttled : BOOLEAN]
ASSUME DaemonValues == Missing # Cut /\ {Missing, Cut, NoSave} \cap State = {}

\* Write it; only read it; neither; or not even make its directory.
Reach == {"write", "read", "hidden", "none"}
Path == {"configured", "fallback"}

DefaultState == [mode |-> Observation, day |-> 1, throttled |-> FALSE]

Decision == {"onboard", "reject", "autonomy"}
Idle == [at |-> "idle", mode |-> Unknown, decision |-> "none", clear |-> FALSE]

DaemonTypeOK ==
  /\ running \in BOOLEAN /\ reach \in Reach /\ path \in Path /\ mixed \in BOOLEAN
  /\ state \in State /\ file \in [Path -> State \cup {Missing, Cut}]
  /\ saving \in [Thread -> State \cup {NoSave}]
  /\ task \in [Thread -> [at : {"idle", "yield", "branch", "observed", "pop", "end",
                                "rejecting", "decided"},
                          mode : Mode, decision : Decision \cup {"none"}, clear : BOOLEAN]]
  /\ inputs \in 0 .. MaxInputs /\ starts \in 0 .. MaxStarts
  /\ wanted \in Decision \cup {"none", "unsure"}

-------------------------------------------------------------------------------
At(t, place) == running /\ task[t].at = place /\ saving[t] = NoSave
Goes(t, place) == task' = [task EXCEPT ![t].at = place]
Deciding == {t \in Thread : task[t].decision # "none"}

\* mutant: a change is kept in memory
SetUnsaved(t, new) == state' = new /\ UNCHANGED <<path, file, saving, mixed>>

(* SystemState.set: the change in memory, then the file is opened and so cut.   *)
(* One that cannot be opened for writing is left as it is, and the rest of the  *)
(* process writes to the fallback.                                              *)
Set(t, new) ==
  /\ state' = new /\ path' = (IF reach = "write" THEN path ELSE "fallback")
  /\ file' = [file EXCEPT ![path'] = Cut]
  /\ saving' = [saving EXCEPT ![t] = new]
  /\ mixed' = \E o \in Thread \ {t} : saving[o] # NoSave

(* The dump is written when the file is closed, over whatever another thread    *)
(* has written by then: a shorter text leaves the end of the longer one.        *)
CloseFile(t) ==
  /\ running /\ saving[t] # NoSave
  /\ \E left \in {saving[t], Cut} :
        /\ left = Cut => file[path] # Cut
        /\ file' = [file EXCEPT ![path] = left]
  /\ saving' = [saving EXCEPT ![t] = NoSave]
  /\ UNCHANGED <<running, reach, path, state, task, inputs, starts, mixed, wanted, schedulerVars>>

-------------------------------------------------------------------------------
(* run_cycle reads the mode, which decides the branch it takes much later.      *)
(* "clear": at that time the user wanted autonomy, or was about to decide.      *)
StartCycle(t) ==
  /\ At(t, "idle") /\ SampleLoad(t)
  /\ task' = [task EXCEPT ![t] =
       [Idle EXCEPT !.at = "yield", !.mode = state.mode,
                    !.clear = wanted \in {"autonomy", "unsure"} \/ Deciding # {}]]
  /\ UNCHANGED <<running, reach, path, state, file, saving, inputs, starts, mixed, wanted>>

Yield(t) == running /\ YieldStep(t) /\ UNCHANGED daemonVars

SetThrottled(t) ==
  /\ At(t, "yield") /\ YieldReturns(t)
  /\ Set(t, [state EXCEPT !.throttled = yielding[t].throttle])
  /\ Goes(t, "branch")
  /\ UNCHANGED <<running, reach, inputs, starts, wanted>>

Observe(t) ==
  /\ At(t, "branch") /\ task[t].mode = Observation
  /\ Set(t, [state EXCEPT !.day = IF @ > ObservationDays THEN @ ELSE @ + 1])   \* bound
  /\ Goes(t, "observed")
  /\ UNCHANGED <<running, reach, inputs, starts, wanted, schedulerVars>>

EndObservation(t) ==
  /\ At(t, "observed")
  /\ \/ /\ state.day >= ObservationDays
        /\ Set(t, [state EXCEPT !.mode = Shadow]) /\ Goes(t, "end")
     \/ /\ state.day < ObservationDays
        /\ Goes(t, "end") /\ UNCHANGED <<path, state, file, saving, mixed>>
  /\ UNCHANGED <<running, reach, inputs, starts, wanted, schedulerVars>>

\* The shadow job is a plan of its own: Orchestrator.
ShadowJob(t) ==
  /\ At(t, "branch")
  /\ \/ task[t].mode = Shadow
     \/ task[t].mode = Active /\ inputs = 0
  /\ Goes(t, "end")
  /\ UNCHANGED <<running, reach, path, state, file, saving, inputs, starts, mixed, wanted, schedulerVars>>

\* mutant: any mode but observation works the queue
FindInputEarly(t) ==
  /\ At(t, "branch") /\ task[t].mode # Observation /\ inputs > 0
  /\ Goes(t, "pop")
  /\ UNCHANGED <<running, reach, path, state, file, saving, inputs, starts, mixed, wanted, schedulerVars>>

FindInput(t) ==
  /\ At(t, "branch") /\ task[t].mode = Active /\ inputs > 0
  /\ Goes(t, "pop")
  /\ UNCHANGED <<running, reach, path, state, file, saving, inputs, starts, mixed, wanted, schedulerVars>>

\* Another cycle may have taken the input: the pop raises and the cycle is over.
ExecuteInput(t) ==
  /\ At(t, "pop") /\ Goes(t, "end")
  /\ inputs' = IF inputs = 0 THEN 0 ELSE inputs - 1
  /\ UNCHANGED <<running, reach, path, state, file, saving, starts, mixed, wanted, schedulerVars>>

ResetMode(t) ==
  /\ At(t, "branch") /\ task[t].mode = Unknown
  /\ Set(t, [state EXCEPT !.mode = Observation]) /\ Goes(t, "end")
  /\ UNCHANGED <<running, reach, inputs, starts, wanted, schedulerVars>>

\* run_cycle returns, or raises; run_soak_test counts that and goes on
EndCycle(t) ==
  /\ At(t, "end") /\ task' = [task EXCEPT ![t] = Idle]
  /\ UNCHANGED <<running, reach, path, state, file, saving, inputs, starts, mixed, wanted, schedulerVars>>

EnqueueInput ==
  /\ running /\ inputs < MaxInputs /\ inputs' = inputs + 1
  /\ UNCHANGED <<running, reach, path, state, file, saving, task, starts, mixed, wanted, schedulerVars>>

-------------------------------------------------------------------------------
\* mutant: the days start over at zero
DecidedDayZero(d) ==
  CASE d = "onboard"  -> [state EXCEPT !.mode = Shadow]
    [] d = "autonomy" -> [state EXCEPT !.mode = Active]
    [] d = "reject"   -> [state EXCEPT !.day = 0]

\* What a decision saves first: a rejection starts the days over, then the mode.
Decided(d) ==
  CASE d = "onboard"  -> [state EXCEPT !.mode = Shadow]
    [] d = "autonomy" -> [state EXCEPT !.mode = Active]
    [] d = "reject"   -> [state EXCEPT !.day = 1]

\* complete_onboarding and enable_autonomy
Decide(t, d) ==
  /\ At(t, "idle") /\ Set(t, Decided(d))
  /\ task' = [o \in Thread |->
       IF o = t THEN [at |-> IF d = "reject" THEN "rejecting" ELSE "decided",
                      mode |-> Unknown, decision |-> d, clear |-> Deciding = {}]
       ELSE IF o \in Deciding THEN [task[o] EXCEPT !.clear = FALSE] ELSE task[o]]
  /\ UNCHANGED <<running, reach, inputs, starts, wanted, schedulerVars>>

Reject(t) ==
  /\ At(t, "rejecting") /\ Goes(t, "decided")
  /\ Set(t, [state EXCEPT !.mode = Observation])
  /\ UNCHANGED <<running, reach, inputs, starts, wanted, schedulerVars>>

\* Of two decisions at once nobody can say which was the last.
DecisionReturns(t) ==
  /\ At(t, "decided") /\ task' = [task EXCEPT ![t] = Idle]
  /\ wanted' = IF task[t].clear THEN task[t].decision ELSE "unsure"
  /\ UNCHANGED <<running, reach, path, state, file, saving, inputs, starts, mixed, schedulerVars>>

-------------------------------------------------------------------------------
\* The process ends, at any step.  (bound: it starts again)
Exit ==
  /\ running /\ starts < MaxStarts /\ running' = FALSE /\ SchedulerRestarts
  /\ saving' = [t \in Thread |-> NoSave] /\ task' = [t \in Thread |-> Idle] /\ inputs' = 0
  /\ wanted' = IF Deciding # {} \/ mixed THEN "unsure" ELSE wanted
  /\ UNCHANGED <<reach, path, state, file, starts, mixed>>

\* The file a start reads, where it may: the fallback takes the place of a path
\* that cannot be set up at all.
Reads(may) == IF may = "none" THEN "fallback" ELSE "configured"

(* SystemState.__init__ and load; who starts the process may reach the path or  *)
(* not.  A cut file raises, so there is no start.  Where none is found, or it   *)
(* cannot be read, the default is saved at once, where that can be: over what   *)
(* an earlier process had saved there.  A file that can only be read is loaded, *)
(* also when a later process has saved elsewhere: who finds the active mode in  *)
(* such an old file does not know whether the user still wants it.              *)
Start ==
  /\ ~ running /\ running' = TRUE /\ starts' = starts + 1 /\ mixed' = FALSE
  /\ reach' \in Reach
  /\ LET found == IF reach' = "hidden" THEN Missing ELSE file[Reads(reach')]
     IN  /\ found # Cut
         /\ state' = (IF found = Missing THEN DefaultState ELSE found)
         /\ path' = IF reach' = "write" \/ (reach' = "read" /\ found # Missing)
                      THEN "configured" ELSE "fallback"
  /\ file' = [file EXCEPT ![path'] = state']
  /\ wanted' = IF state'.mode = Active /\ Reads(reach') # path THEN "unsure" ELSE wanted
  /\ UNCHANGED <<saving, task, inputs, schedulerVars>>

\* Somebody deletes a file that does not load.
DeleteStateFile ==
  /\ ~ running
  /\ \E p \in Path : file[p] = Cut /\ file' = [file EXCEPT ![p] = Missing]
  /\ UNCHANGED <<running, reach, path, state, saving, task, inputs, starts, mixed, wanted, schedulerVars>>

-------------------------------------------------------------------------------
DaemonInit ==
  /\ SchedulerInit
  /\ running = FALSE /\ reach = "write" /\ path = "configured" /\ state = DefaultState
  /\ \E found \in {Missing, [DefaultState EXCEPT !.mode = Unknown]} :
        file = [p \in Path |-> IF p = "configured" THEN found ELSE Missing]
  /\ saving = [t \in Thread |-> NoSave] /\ task = [t \in Thread |-> Idle]
  /\ inputs = 0 /\ starts = 0 /\ mixed = FALSE /\ wanted = "none"

CycleStep(t) ==
  \/ StartCycle(t) \/ Yield(t) \/ SetThrottled(t)
  \/ Observe(t) \/ EndObservation(t) \/ ShadowJob(t)
  \/ FindInput(t) \/ ExecuteInput(t) \/ ResetMode(t) \/ EndCycle(t)

DaemonCall ==
  \/ \E t \in Thread :
       \/ CycleStep(t) \/ CloseFile(t)
       \/ \E d \in Decision : Decide(t, d)
       \/ Reject(t) \/ DecisionReturns(t)
  \/ EnqueueInput \/ Exit \/ Start \/ DeleteStateFile

DaemonNext == DaemonCall \/ (SchedulerEnvironment /\ UNCHANGED daemonVars)

DaemonSpec == DaemonInit /\ [][DaemonNext]_<<daemonVars, schedulerVars>>

-------------------------------------------------------------------------------
(* The queue is worked only by a cycle that began while the user wanted         *)
(* autonomy, whatever cycles and decisions overlap and whichever state a        *)
(* restart finds.  Nothing is claimed where the file may revive an older mode:  *)
(* after saves that overlapped, a decision that was cut short, or a start that  *)
(* finds the active mode in another file than the last process saved to.        *)
InputNeedsAutonomy ==
  [][inputs' < inputs /\ running' =>
       \E t \in Thread : task[t].at = "pop" /\ task[t].clear]_daemonVars

(* A start that may read the file the last process saved to goes on where that  *)
(* ended, unless its saves overlapped or the file had to be deleted.  Any other *)
(* start begins the observation again, or goes on in an older state.            *)
RestartResumes ==
  [][~ running /\ running' /\ starts > 0 /\ reach' # "hidden" /\ Reads(reach') = path =>
       state' = state \/ mixed \/ file[path] = Missing]_daemonVars
===============================================================================
