------------------------------- MODULE LLMRuntime -------------------------------
(* aegis/llm/runtime.py: one llama-server as a child process, the threads that *)
(* start, stop and swap it, and the health monitor that each start launches.   *)
(* aegis/api.py switch_model, aegis/daemon.py run_chaos_scenario and           *)
(* aegis/cli.py "llm" are the callers.  There is no lock.                      *)
(*                                                                             *)
(* Time is left out: a wait ends with what it waits for or with its timeout,   *)
(* a sleep ends at some moment.  The server is external: it loads its model,   *)
(* takes the port when it is free, and may die.                                *)
EXTENDS Naturals, FiniteSets

CONSTANTS
  Caller,
  Model,
  MaxServers,      \* bound: processes started; Popen fails after that
  MaxExits,        \* bound: times the process ends and leaves its server behind
  JoinTimesOut     \* BOOLEAN: a monitor may sleep (30 s) through a join (2 s)

ASSUME RuntimeConstants ==
  /\ MaxServers \in Nat \ {0} /\ MaxExits \in Nat /\ JoinTimesOut \in BOOLEAN
  /\ Caller \cap (0 .. MaxServers) = {}    \* callers are neither monitors nor None

Server == 1 .. MaxServers
Monitor == 1 .. MaxServers
Actor == Caller \cup Monitor
None == 0
Limit == 3         \* failed health checks until a restart

VARIABLES
  server,          \* the child processes: their state and the model they were given
  process,         \* the handle, or None
  modelPath,
  healthStop,      \* the Event
  healthThread,    \* the monitor launched last, or None
  active,          \* the model that the registry names active
  pc, failures,    \* the threads; failures only of a monitor
  call,            \* actor -> what it is doing: after its stop comes a start or not
  exits,
  raced            \* history: calls overlapped, a join timed out or the process ended

runtimeVars == <<process, modelPath, healthStop, healthThread, active>>
vars == <<server, runtimeVars, pc, failures, call, exits, raced>>

NoCall == [op |-> "none", model |-> None, joins |-> None, pid |-> None]

Labels == {"idle", "ended", "stop", "begin join", "join", "signal", "reap",
           "check running", "spawn", "wait", "check", "probe", "sleep"}

TypeOK ==
  /\ server \in [Server -> [state : {"none", "loading", "ready", "stopping", "dead"},
                            model : Model \cup {None}]]
  /\ process \in Server \cup {None} /\ healthThread \in Monitor \cup {None}
  /\ modelPath \in Model /\ active \in Model /\ healthStop \in BOOLEAN
  /\ pc \in [Actor -> Labels] /\ failures \in [Monitor -> 0 .. Limit]
  /\ call \in [Actor -> [op : {"none", "swap", "restart", "stop"}, model : Model \cup {None},
                         joins : Monitor \cup {None}, pid : Server \cup {None}]]
  /\ exits \in 0 .. MaxExits /\ raced \in BOOLEAN

-------------------------------------------------------------------------------
Exited(n) == server[n].state \in {"none", "dead"}
Serving == \E n \in Server : server[n].state = "ready"
LiveMonitors == {m \in Monitor : pc[m] \notin {"idle", "ended"}}

GoTo(a, label) == pc' = [pc EXCEPT ![a] = label]
SetState(n, state) == server' = [server EXCEPT ![n].state = state]

\* A call returns, with a result or by raising: a monitor catches either.
Leave(a) ==
  /\ GoTo(a, IF a \in Caller THEN "idle" ELSE "sleep")
  /\ call' = [call EXCEPT ![a] = NoCall]

\* A start that returns ends the count of the monitor that asked for it.
Recovered(a) == failures' = [i \in Monitor |-> IF i = a THEN 0 ELSE failures[i]]

-------------------------------------------------------------------------------
(* set_active and swap_model of a switch; stop and start of a chaos scenario;  *)
(* a bare stop.                                                                 *)
Begin(c, op, m) ==
  /\ pc[c] = "idle" /\ GoTo(c, "stop")
  /\ call' = [call EXCEPT ![c] = [NoCall EXCEPT !.op = op, !.model = m]]
  /\ raced' = (raced \/ \E o \in Caller : pc[o] # "idle")
  /\ active' = IF op = "swap" THEN m ELSE active
  /\ UNCHANGED <<server, process, modelPath, healthStop, healthThread, failures, exits>>

\* stop(): the flag first
StopHealth(a) ==
  /\ pc[a] = "stop" /\ healthStop' = TRUE
  /\ GoTo(a, "begin join")
  /\ UNCHANGED <<server, process, modelPath, healthThread, active, failures, call, exits, raced>>

\* then the monitor is joined; a thread that joins itself raises RuntimeError
BeginJoin(a) ==
  /\ pc[a] = "begin join"
  /\ \/ /\ healthThread \notin LiveMonitors
        /\ GoTo(a, "signal") /\ UNCHANGED call
     \/ /\ healthThread = a /\ Leave(a)
     \/ /\ healthThread \in LiveMonitors \ {a}
        /\ GoTo(a, "join")
        /\ call' = [call EXCEPT ![a].joins = healthThread]
  /\ UNCHANGED <<server, runtimeVars, failures, exits, raced>>

EndJoin(a) ==
  /\ pc[a] = "join" /\ (JoinTimesOut \/ call[a].joins \notin LiveMonitors)
  /\ GoTo(a, "signal")
  /\ raced' = (raced \/ call[a].joins \in LiveMonitors)
  /\ UNCHANGED <<server, runtimeVars, failures, call, exits>>

\* mutant: the path is set after the start
AfterStopKeepsPath(a) ==
  IF call[a].op = "stop"
  THEN Leave(a) /\ UNCHANGED modelPath
  ELSE GoTo(a, "check running") /\ UNCHANGED <<call, modelPath>>

\* What follows stop(): the path of a swap, the start of a swap or a restart.
AfterStop(a) ==
  IF call[a].op = "stop"
  THEN Leave(a) /\ UNCHANGED modelPath
  ELSE /\ GoTo(a, "check running") /\ UNCHANGED call
       /\ modelPath' = IF call[a].op = "swap" THEN call[a].model ELSE modelPath

\* mutant: a server that is still loading is left alone
SignalReadyOnly(a) ==
  /\ pc[a] = "signal"
  /\ IF process # None /\ server[process].state = "ready"
     THEN /\ SetState(process, "stopping") /\ GoTo(a, "reap")
          /\ call' = [call EXCEPT ![a].pid = process]
          /\ UNCHANGED <<process, modelPath>>
     ELSE AfterStop(a) /\ process' = None /\ UNCHANGED server
  /\ UNCHANGED <<healthStop, healthThread, active, failures, exits, raced>>

Signal(a) ==
  /\ pc[a] = "signal"
  /\ IF process # None /\ ~Exited(process)
     THEN /\ SetState(process, "stopping") /\ GoTo(a, "reap")
          /\ call' = [call EXCEPT ![a].pid = process]
          /\ UNCHANGED <<process, modelPath>>
     ELSE AfterStop(a) /\ process' = None /\ UNCHANGED server
  /\ UNCHANGED <<healthStop, healthThread, active, failures, exits, raced>>

\* mutant: the wait has no timeout
ReapWaits(a) ==
  /\ pc[a] = "reap" /\ Exited(call[a].pid)
  /\ process' = None /\ AfterStop(a)
  /\ UNCHANGED <<server, healthStop, healthThread, active, failures, exits, raced>>

(* It waits for the process it signalled, but kills and forgets whatever       *)
(* self.process is by then; when that is None, kill raises.                    *)
Reap(a) ==
  /\ pc[a] = "reap"
  /\ \/ /\ Exited(call[a].pid)
        /\ process' = None /\ AfterStop(a) /\ UNCHANGED server
     \/ /\ ~Exited(call[a].pid) /\ process # None
        /\ SetState(process, "dead") /\ process' = None /\ AfterStop(a)
     \/ /\ ~Exited(call[a].pid) /\ process = None
        /\ Leave(a) /\ UNCHANGED <<server, process, modelPath>>
  /\ UNCHANGED <<healthStop, healthThread, active, failures, exits, raced>>

\* start(): a live process is taken for a running one, whatever its health
CheckRunning(a) ==
  /\ pc[a] = "check running"
  /\ IF process # None /\ ~Exited(process)
     THEN Leave(a) /\ Recovered(a)
     ELSE GoTo(a, "spawn") /\ UNCHANGED <<call, failures>>
  /\ UNCHANGED <<server, runtimeVars, exits, raced>>

Spawn(a) ==
  /\ pc[a] = "spawn"
  /\ \E n \in Server :
       /\ n = 1 + Cardinality({k \in Server : server[k].state # "none"})
       /\ server' = [server EXCEPT ![n] = [state |-> "loading", model |-> modelPath]]
       /\ process' = n
  /\ GoTo(a, "wait")
  /\ UNCHANGED <<modelPath, healthStop, healthThread, active, failures, call, exits, raced>>

\* Popen raises: no llama-server on the path
SpawnFails(a) ==
  /\ pc[a] = "spawn" /\ Leave(a)
  /\ UNCHANGED <<server, runtimeVars, failures, exits, raced>>

\* Any server that answers on the port makes it ready: a new monitor is launched.
Ready(a) ==
  /\ pc[a] = "wait" /\ Serving
  /\ \E m \in Monitor :
       /\ m = 1 + Cardinality({k \in Monitor : pc[k] # "idle"})
       /\ healthThread' = m /\ healthStop' = FALSE
       /\ pc' = [pc EXCEPT ![m] = "check", ![a] = IF a \in Caller THEN "idle" ELSE "sleep"]
  /\ Recovered(a)
  /\ call' = [call EXCEPT ![a] = NoCall]
  /\ UNCHANGED <<server, process, modelPath, active, exits, raced>>

NotReady(a) ==
  /\ pc[a] = "wait" /\ Leave(a)
  /\ UNCHANGED <<server, runtimeVars, failures, exits, raced>>

-------------------------------------------------------------------------------
\* mutant: the flag is not looked at
CheckFlagNever(m) ==
  /\ pc[m] = "check" /\ GoTo(m, "probe")
  /\ UNCHANGED <<server, runtimeVars, failures, call, exits, raced>>

(* One turn of _monitor_health: the flag, then the probe, whose answer may be  *)
(* late while the server is up, then the restart at the third failure.         *)
CheckFlag(m) ==
  /\ pc[m] = "check" /\ GoTo(m, IF healthStop THEN "ended" ELSE "probe")
  /\ UNCHANGED <<server, runtimeVars, failures, call, exits, raced>>

Healthy(m) ==
  /\ pc[m] = "probe" /\ Serving
  /\ failures' = [failures EXCEPT ![m] = 0] /\ GoTo(m, "sleep")
  /\ UNCHANGED <<server, runtimeVars, call, exits, raced>>

Unhealthy(m) ==
  /\ pc[m] = "probe" /\ failures[m] + 1 < Limit
  /\ failures' = [failures EXCEPT ![m] = @ + 1] /\ GoTo(m, "sleep")
  /\ UNCHANGED <<server, runtimeVars, call, exits, raced>>

AttemptRestart(m) ==
  /\ pc[m] = "probe" /\ failures[m] + 1 >= Limit
  /\ failures' = [failures EXCEPT ![m] = Limit] /\ GoTo(m, "stop")
  /\ call' = [call EXCEPT ![m].op = "restart"]
  /\ UNCHANGED <<server, runtimeVars, exits, raced>>

Wake(m) ==
  /\ pc[m] = "sleep" /\ GoTo(m, "check")
  /\ UNCHANGED <<server, runtimeVars, failures, call, exits, raced>>

-------------------------------------------------------------------------------
\* llama-server: loaded, it takes the port, or dies when another holds it
Load(n) ==
  /\ server[n].state = "loading"
  /\ SetState(n, IF Serving THEN "dead" ELSE "ready")
  /\ UNCHANGED <<runtimeVars, pc, failures, call, exits, raced>>

Die(n) ==
  /\ server[n].state \in {"loading", "ready", "stopping"} /\ SetState(n, "dead")
  /\ UNCHANGED <<runtimeVars, pc, failures, call, exits, raced>>

(* The process ends, as every "aegis llm" command does, and leaves its server  *)
(* running; the next one reads the active model from the registry.             *)
Exit ==
  /\ exits < MaxExits /\ exits' = exits + 1 /\ raced' = TRUE
  /\ \A c \in Caller : pc[c] = "idle"
  /\ process' = None /\ healthThread' = None /\ healthStop' = FALSE
  /\ modelPath' = active
  /\ pc' = [a \in Actor |-> IF a \in Monitor /\ pc[a] # "idle" THEN "ended" ELSE pc[a]]
  /\ call' = [a \in Actor |-> NoCall]
  /\ UNCHANGED <<server, active, failures>>

-------------------------------------------------------------------------------
Init ==
  /\ server = [n \in Server |-> [state |-> "none", model |-> None]]
  /\ process = None /\ healthThread = None /\ healthStop = FALSE
  /\ modelPath \in Model /\ active = modelPath
  /\ pc = [a \in Actor |-> "idle"] /\ failures = [m \in Monitor |-> 0]
  /\ call = [a \in Actor |-> NoCall]
  /\ exits = 0 /\ raced = FALSE

Stop(a) == StopHealth(a) \/ BeginJoin(a) \/ EndJoin(a) \/ Signal(a) \/ Reap(a)
Start(a) == CheckRunning(a) \/ Spawn(a) \/ SpawnFails(a) \/ Ready(a) \/ NotReady(a)
Watch(m) == CheckFlag(m) \/ Healthy(m) \/ Unhealthy(m) \/ AttemptRestart(m) \/ Wake(m)

Next ==
  \/ \E c \in Caller : \/ \E m \in Model : Begin(c, "swap", m)
                       \/ \E op \in {"restart", "stop"} : Begin(c, op, None)
  \/ \E a \in Actor : Stop(a) \/ Start(a)
  \/ \E m \in Monitor : Watch(m)
  \/ \E n \in Server : Load(n) \/ Die(n)
  \/ Exit

\* Every thread that can run does: a wait has a timeout, a sleep an end.
Fairness ==
  /\ \A a \in Actor : WF_vars(Stop(a) \/ Start(a))
  /\ \A m \in Monitor : WF_vars(Watch(m))

Spec == Init /\ [][Next]_vars /\ Fairness

-------------------------------------------------------------------------------
Quiet == \A a \in Actor : pc[a] \in {"idle", "ended", "check", "probe", "sleep"}

(* Every server that runs is the one the handle names, so that the next stop   *)
(* reaches it: the handle is dropped only after the process was ended.  This   *)
(* and the next two hold until calls overlap, a monitor sleeps through a join  *)
(* or the process ends.                                                        *)
NoOrphanServer ==
  raced \/ \A n \in Server : server[n].state \in {"loading", "ready"} => n = process

(* Between calls, whoever answers on the port runs the model that was selected *)
(* last, and the registry names it: also after a swap that failed.             *)
ServesSelected ==
  ~raced /\ Quiet =>
           /\ active = modelPath
           /\ \A n \in Server : server[n].state = "ready" => server[n].model = modelPath

(* No call waits for ever: whatever the server and the monitors do, the joins  *)
(* and waits of stop and start come to an end.                                 *)
CallsReturn == \A c \in Caller : pc[c] # "idle" ~> pc[c] = "idle"

(* A runtime that is stopped and stays stopped ends all its monitors, the ones *)
(* that slept through the join included.                                       *)
StopEndsMonitors ==
  <>[]healthStop => <>[](LiveMonitors = {})

(* "LLM server appears down; attempting restart": a monitor that sees the      *)
(* third failure gets as far as to start a server.                             *)
RestartProceeds ==
  \A m \in Monitor : pc[m] = "stop" ~> pc[m] = "check running"
===============================================================================
