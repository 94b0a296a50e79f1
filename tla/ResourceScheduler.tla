--------------------------- MODULE ResourceScheduler ---------------------------
(* aegis/resource_scheduler.py: under pressure the scheduler caps the cgroup,   *)
(* and takes the cap away when the pressure is gone.  Daemon cycles and the     *)
(* status end point call it from several threads; there is no lock.             *)
EXTENDS Naturals, FiniteSets

CONSTANTS
  Thread,
  CgroupFiles      \* which of cpu.max, memory.max and io.max the cgroup offers

File == {"cpu", "memory", "io"}

ASSUME SchedulerConstants == CgroupFiles \subseteq File

VARIABLES
  pressure,        \* the machine is over one of the three thresholds
  capped,          \* the files that hold a limit
  lastThrottle,    \* last_throttle_time: unset, within the reaction window or older
  yielding,        \* thread -> the schedule_yield call it is in
  disowned         \* history: a cap the scheduler does not remember, and why not

schedulerVars == <<pressure, capped, lastThrottle, yielding, disowned>>

NoYield == [at |-> "out", throttle |-> FALSE]

SchedulerTypeOK ==
  /\ pressure \in BOOLEAN /\ capped \subseteq CgroupFiles
  /\ lastThrottle \in {"unset", "recent", "old"} /\ disowned \in BOOLEAN
  /\ yielding \in [Thread -> [at : {"out", "verdict", "stamp", "decided"},
                              throttle : BOOLEAN]]

YieldGoesTo(t, place) == yielding' = [yielding EXCEPT ![t].at = place]

-------------------------------------------------------------------------------
\* The load changes, and half a second passes.
LoadChanges == pressure' = ~ pressure /\ UNCHANGED <<capped, lastThrottle, yielding, disowned>>

WindowPasses ==
  /\ lastThrottle = "recent" /\ lastThrottle' = "old"
  /\ UNCHANGED <<pressure, capped, yielding, disowned>>

\* enforce_cgroup_throttle: files that exist, a write that fails is only logged
Enforce == \E written \in SUBSET CgroupFiles : capped' = capped \cup written

\* release_cgroup_throttle gives back cpu.max and memory.max, never io.max.
Release ==
  \E written \in SUBSET ({"cpu", "memory"} \cap CgroupFiles) :
    /\ capped' = capped \ written
    /\ disowned' = (disowned \/ capped' \ {"io"} # {})

(* schedule_yield.  collect and should_throttle sample the load first; calls    *)
(* that overlap decide from samples and a last_throttle_time of different times.*)
SampleLoad(t) ==
  /\ yielding[t].at = "out"
  /\ yielding' = [yielding EXCEPT ![t] = [at |-> "verdict", throttle |-> pressure]]
  /\ disowned' = (disowned \/ \E o \in Thread \ {t} : yielding[o].at \in {"verdict", "stamp"})
  /\ UNCHANGED <<pressure, capped, lastThrottle>>

\* mutant: within the reaction window the cap is repeated but not remembered
EnforceUnstamped(t) ==
  /\ yielding[t].at = "verdict" /\ yielding[t].throttle
  /\ Enforce /\ YieldGoesTo(t, "decided")
  /\ UNCHANGED <<pressure, lastThrottle, disowned>>

Throttle(t) ==
  /\ yielding[t].at = "verdict" /\ yielding[t].throttle /\ lastThrottle # "recent"
  /\ Enforce /\ YieldGoesTo(t, "stamp")
  /\ UNCHANGED <<pressure, lastThrottle, disowned>>

Unthrottle(t) ==
  /\ yielding[t].at = "verdict" /\ ~ yielding[t].throttle /\ lastThrottle # "unset"
  /\ Release /\ YieldGoesTo(t, "stamp")
  /\ UNCHANGED <<pressure, lastThrottle>>

LeaveAsIs(t) ==
  /\ yielding[t].at = "verdict"
  /\ lastThrottle = (IF yielding[t].throttle THEN "recent" ELSE "unset")
  /\ YieldGoesTo(t, "decided")
  /\ UNCHANGED <<pressure, capped, lastThrottle, disowned>>

\* The time is set, or forgotten, after the files are written.
StampThrottle(t) ==
  /\ yielding[t].at = "stamp"
  /\ lastThrottle' = IF yielding[t].throttle THEN "recent" ELSE "unset"
  /\ YieldGoesTo(t, "decided")
  /\ UNCHANGED <<pressure, capped, disowned>>

YieldReturns(t) ==
  /\ yielding[t].at = "decided"
  /\ yielding' = [yielding EXCEPT ![t] = NoYield]
  /\ UNCHANGED <<pressure, capped, lastThrottle, disowned>>

\* monitor() at 85% of memory calls handle_memory_pressure: a cap without a time.
HandleMemoryPressure ==
  /\ Enforce
  /\ disowned' = (\/ disowned \/ lastThrottle = "unset"
                   \/ \E t \in Thread : yielding[t].at = "stamp")
  /\ UNCHANGED <<pressure, lastThrottle, yielding>>

\* restore_llm_resources releases without looking at the time, and leaves it.
RestoreLLMResources ==
  /\ ~ pressure /\ Release
  /\ UNCHANGED <<pressure, lastThrottle, yielding>>

\* A new process; the cgroup keeps what was written into it.
SchedulerRestarts ==
  /\ lastThrottle' = "unset"
  /\ disowned' = (disowned \/ capped \ {"io"} # {})
  /\ yielding' = [t \in Thread |-> NoYield]
  /\ UNCHANGED <<pressure, capped>>

-------------------------------------------------------------------------------
SchedulerInit ==
  /\ pressure \in BOOLEAN /\ capped = {} /\ lastThrottle = "unset"
  /\ yielding = [t \in Thread |-> NoYield] /\ disowned = FALSE

YieldStep(t) == Throttle(t) \/ Unthrottle(t) \/ LeaveAsIs(t) \/ StampThrottle(t)

\* What runs beside the daemon's cycles
SchedulerEnvironment ==
  \/ LoadChanges \/ WindowPasses \/ HandleMemoryPressure \/ RestoreLLMResources

SchedulerNext ==
  \/ SchedulerEnvironment \/ SchedulerRestarts
  \/ \E t \in Thread : SampleLoad(t) \/ YieldStep(t) \/ YieldReturns(t)

SchedulerSpec == SchedulerInit /\ [][SchedulerNext]_schedulerVars

-------------------------------------------------------------------------------
(* A limit on the processor or the memory is one the scheduler knows of, and    *)
(* will take away at the first calm call, unless calls overlapped, a write of   *)
(* the release failed, the process ended, or the limit came from the memory     *)
(* guard, which sets no time: those limits stay until the next pressure.        *)
CapsAreOwned ==
  capped \ {"io"} # {} =>
    \/ lastThrottle # "unset" \/ disowned
    \/ \E t \in Thread : yielding[t].at = "stamp" /\ yielding[t].throttle
===============================================================================
