---------------------------- MODULE LLMRuntimeProofs ----------------------------
(* Theorems about LLMRuntime, for any callers, models and number of servers.    *)
EXTENDS LLMRuntime, TLAPS

USE RuntimeConstants

Running(n) == server[n].state \in {"loading", "ready", "stopping"}

\* A monitor that gets as far as its own stop() raises at the join.
Watching == {"idle", "ended", "check", "probe", "sleep", "stop", "begin join"}
\* What a caller does before the path of its swap is set, and after the join.
BeforePath == {"stop", "begin join", "join", "signal", "reap"}
AfterJoin == {"signal", "reap", "check running", "spawn", "wait"}

(* Until calls overlap, a monitor sleeps through a join or the process ends:    *)
(* one call at a time;                                                          *)
OneCall == \A c, d \in Caller : pc[c] # "idle" /\ pc[d] # "idle" => c = d

(* one monitor, which healthThread names, so that a join reaches it;            *)
OneMonitor ==
  \A m \in Monitor : pc[m] \in Watching /\ (m \in LiveMonitors => m = healthThread)

(* one server, which the handle names, with the model of modelPath;             *)
OneServer == \A n \in Server : Running(n) => n = process /\ server[n].model = modelPath

(* a call joins that monitor, leaves none behind, ends that server before it    *)
(* starts another, and the path lags behind the registry only inside a swap.    *)
CallOK(c) ==
  /\ pc[c] = "join" => call[c].joins = healthThread
  /\ pc[c] \in AfterJoin => LiveMonitors = {}
  /\ pc[c] = "reap" => process # None /\ call[c].pid = process
  /\ pc[c] \in {"check running", "spawn"} => process = None
  /\ IF pc[c] \in BeforePath /\ call[c].op = "swap" THEN active = call[c].model
                                                    ELSE active = modelPath

Calm ==
  /\ OneCall /\ OneMonitor /\ OneServer
  /\ \A c \in Caller : pc[c] # "idle" => CallOK(c)
  /\ (\A c \in Caller : pc[c] = "idle") => active = modelPath

SwapsNameModels == \A a \in Actor : call[a].op = "swap" => call[a].model \in Model

Inv == ~ raced => Calm
-------------------------------------------------------------------------------
ServerType == [state : {"none", "loading", "ready", "stopping", "dead"}, model : Model \cup {None}]
CallType == [op : {"none", "swap", "restart", "stop"}, model : Model \cup {None},
             joins : Monitor \cup {None}, pid : Server \cup {None}]

LEMMA Threads ==
  /\ Monitor \subseteq Actor /\ Caller \subseteq Actor /\ \A c \in Caller : c \notin Monitor
  /\ \A a \in Actor : a \notin Caller => a \in Monitor
  BY DEF Actor, Monitor

LEMMA LeaveTypes ==
  ASSUME TypeOK, SwapsNameModels, NEW a \in Actor, Leave(a)
  PROVE  pc' \in [Actor -> Labels] /\ call' \in [Actor -> CallType] /\ SwapsNameModels'
<1>1. pc' \in [Actor -> Labels]
  BY DEF Leave, GoTo, TypeOK, Labels
<1>2. NoCall \in CallType /\ NoCall.op # "swap"
  BY DEF NoCall, CallType
<1> QED
  BY <1>1, <1>2 DEF Leave, TypeOK, CallType, SwapsNameModels

LEMMA SetStateType ==
  ASSUME TypeOK, NEW n \in Server, NEW state \in {"none", "loading", "ready", "stopping", "dead"},
         SetState(n, state)
  PROVE  server' \in [Server -> ServerType]
<1>1. [server[n] EXCEPT !.state = state] \in ServerType
  BY DEF TypeOK, ServerType
<1> QED
  BY <1>1 DEF SetState, TypeOK, ServerType

LEMMA AfterStopTypes ==
  ASSUME TypeOK, SwapsNameModels, NEW a \in Actor, AfterStop(a)
  PROVE  /\ pc' \in [Actor -> Labels] /\ call' \in [Actor -> CallType] /\ modelPath' \in Model
         /\ SwapsNameModels'
<1>1. CASE call[a].op = "stop"
  BY <1>1, LeaveTypes DEF AfterStop, TypeOK
<1>2. CASE call[a].op # "stop"
  BY <1>2 DEF AfterStop, TypeOK, CallType, GoTo, Labels, SwapsNameModels
<1> QED
  BY <1>1, <1>2

LEMMA StopTypes ==
  ASSUME TypeOK, SwapsNameModels, NEW a \in Actor, Stop(a)
  PROVE  TypeOK' /\ SwapsNameModels'
<1>1. CASE StopHealth(a)
  BY <1>1 DEF StopHealth, GoTo, TypeOK, Labels, SwapsNameModels
<1>2. CASE BeginJoin(a)
  <2>1. CASE Leave(a)
    BY <1>2, <2>1, LeaveTypes DEF BeginJoin, TypeOK, runtimeVars, CallType
  <2>2. CASE GoTo(a, "signal") /\ UNCHANGED call
    BY <1>2, <2>2 DEF BeginJoin, TypeOK, runtimeVars, GoTo, Labels, SwapsNameModels
  <2>3. CASE GoTo(a, "join") /\ call' = [call EXCEPT ![a].joins = healthThread]
    <3>1. [call[a] EXCEPT !.joins = healthThread] \in CallType
      BY DEF TypeOK, CallType
    <3>2. call' \in [Actor -> CallType]
      BY <2>3, <3>1 DEF TypeOK, CallType
    <3>3. SwapsNameModels'
      BY <2>3 DEF TypeOK, SwapsNameModels
    <3> QED
      BY <1>2, <2>3, <3>2, <3>3 DEF BeginJoin, TypeOK, CallType, runtimeVars, GoTo, Labels
  <2> QED
    BY <1>2, <2>1, <2>2, <2>3 DEF BeginJoin
<1>3. CASE EndJoin(a)
  BY <1>3 DEF EndJoin, GoTo, TypeOK, Labels, runtimeVars, SwapsNameModels
<1>4. CASE Signal(a)
  <2>1. CASE AfterStop(a) /\ process' = None /\ UNCHANGED server
    BY <1>4, <2>1, AfterStopTypes DEF Signal, TypeOK, CallType
  <2>2. CASE /\ process # None /\ SetState(process, "stopping") /\ GoTo(a, "reap")
             /\ call' = [call EXCEPT ![a].pid = process] /\ UNCHANGED <<process, modelPath>>
    <3>1. server' \in [Server -> ServerType]
      BY <2>2, SetStateType DEF TypeOK
    <3>2. [call[a] EXCEPT !.pid = process] \in CallType
      BY DEF TypeOK, CallType
    <3>3. call' \in [Actor -> CallType]
      BY <2>2, <3>2 DEF TypeOK, CallType
    <3>4. SwapsNameModels'
      BY <2>2 DEF TypeOK, SwapsNameModels
    <3> QED
      BY <1>4, <2>2, <3>1, <3>3, <3>4 DEF Signal, TypeOK, ServerType, CallType, GoTo, Labels
  <2> QED
    BY <1>4, <2>1, <2>2 DEF Signal
<1>5. CASE Reap(a)
  <2>1. CASE process' = None /\ AfterStop(a) /\ UNCHANGED server
    BY <1>5, <2>1, AfterStopTypes DEF Reap, TypeOK, CallType
  <2>2. CASE process # None /\ SetState(process, "dead") /\ process' = None /\ AfterStop(a)
    <3>1. server' \in [Server -> ServerType]
      BY <2>2, SetStateType DEF TypeOK
    <3> QED
      BY <1>5, <2>2, <3>1, AfterStopTypes DEF Reap, TypeOK, ServerType, CallType
  <2>3. CASE Leave(a) /\ UNCHANGED <<server, process, modelPath>>
    BY <1>5, <2>3, LeaveTypes DEF Reap, TypeOK, CallType
  <2> QED
    BY <1>5, <2>1, <2>2, <2>3 DEF Reap
<1> QED
  BY <1>1, <1>2, <1>3, <1>4, <1>5 DEF Stop

LEMMA StartTypes ==
  ASSUME TypeOK, SwapsNameModels, NEW a \in Actor, Start(a)
  PROVE  TypeOK' /\ SwapsNameModels'
<1>1. Recovered(a) => failures' \in [Monitor -> 0 .. Limit]
  BY DEF Recovered, TypeOK, Limit
<1>2. CASE CheckRunning(a)
  <2>1. CASE Leave(a) /\ Recovered(a)
    BY <1>1, <1>2, <2>1, LeaveTypes DEF CheckRunning, TypeOK, CallType, runtimeVars
  <2>2. CASE GoTo(a, "spawn") /\ UNCHANGED <<call, failures>>
    BY <1>2, <2>2 DEF CheckRunning, TypeOK, GoTo, Labels, runtimeVars, SwapsNameModels
  <2> QED
    BY <1>2, <2>1, <2>2 DEF CheckRunning
<1>3. CASE Spawn(a)
  <2>1. PICK n \in Server : /\ server' = [server EXCEPT ![n] = [state |-> "loading", model |-> modelPath]]
                            /\ process' = n
    BY <1>3 DEF Spawn
  <2>2. [state |-> "loading", model |-> modelPath] \in ServerType
    BY DEF ServerType, TypeOK
  <2>3. server' \in [Server -> ServerType]
    BY <2>1, <2>2 DEF TypeOK, ServerType
  <2> QED
    BY <1>3, <2>1, <2>3 DEF Spawn, TypeOK, ServerType, GoTo, Labels, SwapsNameModels
<1>4. CASE SpawnFails(a) \/ NotReady(a)
  BY <1>4, LeaveTypes DEF SpawnFails, NotReady, TypeOK, CallType, runtimeVars
<1>5. CASE Ready(a)
  <2>1. PICK m \in Monitor :
          /\ healthThread' = m /\ healthStop' = FALSE
          /\ pc' = [pc EXCEPT ![m] = "check", ![a] = IF a \in Caller THEN "idle" ELSE "sleep"]
    BY <1>5 DEF Ready
  <2>2. pc' \in [Actor -> Labels]
    BY <2>1 DEF TypeOK, Labels
  <2>3. NoCall \in CallType /\ NoCall.op # "swap"
    BY DEF NoCall, CallType
  <2>4. call' \in [Actor -> CallType] /\ SwapsNameModels'
    BY <1>5, <2>3 DEF Ready, TypeOK, CallType, SwapsNameModels
  <2> QED
    BY <1>1, <1>5, <2>1, <2>2, <2>4 DEF Ready, TypeOK, CallType
<1> QED
  BY <1>2, <1>3, <1>4, <1>5 DEF Start

LEMMA WatchTypes ==
  ASSUME TypeOK, SwapsNameModels, NEW m \in Monitor, Watch(m)
  PROVE  TypeOK' /\ SwapsNameModels'
<1> USE Threads
<1>1. CASE CheckFlag(m) \/ Wake(m)
  BY <1>1 DEF CheckFlag, Wake, GoTo, TypeOK, Labels, runtimeVars, SwapsNameModels
<1>2. CASE Healthy(m) \/ Unhealthy(m)
  <2>1. failures' \in [Monitor -> 0 .. Limit]
    BY <1>2 DEF Healthy, Unhealthy, TypeOK, Limit
  <2> QED
    BY <1>2, <2>1 DEF Healthy, Unhealthy, GoTo, TypeOK, Labels, runtimeVars, SwapsNameModels
<1>3. CASE AttemptRestart(m)
  <2>1. failures' \in [Monitor -> 0 .. Limit]
    BY <1>3 DEF AttemptRestart, TypeOK, Limit
  <2>2. [call[m] EXCEPT !.op = "restart"] \in CallType
    BY DEF TypeOK, CallType
  <2>3. call' \in [Actor -> CallType]
    BY <1>3, <2>2 DEF AttemptRestart, TypeOK, CallType
  <2>4. SwapsNameModels'
    BY <1>3 DEF AttemptRestart, TypeOK, SwapsNameModels
  <2> QED
    BY <1>3, <2>1, <2>3, <2>4 DEF AttemptRestart, GoTo, TypeOK, CallType, Labels, runtimeVars
<1> QED
  BY <1>1, <1>2, <1>3 DEF Watch

LEMMA TypeStep ==
  ASSUME TypeOK, SwapsNameModels, [Next]_vars
  PROVE  TypeOK' /\ SwapsNameModels'
<1>1. CASE UNCHANGED vars
  BY <1>1 DEF vars, runtimeVars, TypeOK, SwapsNameModels
<1>2. ASSUME NEW c \in Caller, NEW op \in {"swap", "restart", "stop"}, NEW m \in Model \cup {None},
             op = "swap" => m \in Model, Begin(c, op, m)
      PROVE  TypeOK' /\ SwapsNameModels'
  <2>1. [NoCall EXCEPT !.op = op, !.model = m] \in CallType
    BY DEF NoCall, CallType
  <2>2. call' \in [Actor -> CallType]
    BY <1>2, <2>1 DEF Begin, TypeOK, CallType
  <2>3. \A a \in Actor : call'[a] = IF a = c THEN [NoCall EXCEPT !.op = op, !.model = m] ELSE call[a]
    BY <1>2 DEF Begin, TypeOK
  <2>4. SwapsNameModels'
    BY <1>2, <2>3 DEF SwapsNameModels, NoCall
  <2> QED
    BY <1>2, <2>2, <2>4 DEF Begin, GoTo, TypeOK, CallType, Labels
<1>3. ASSUME NEW n \in Server, Load(n) \/ Die(n)
      PROVE  TypeOK' /\ SwapsNameModels'
  <2>1. server' \in [Server -> ServerType]
    BY <1>3, SetStateType DEF Load, Die
  <2> QED
    BY <1>3, <2>1 DEF Load, Die, TypeOK, ServerType, runtimeVars, SwapsNameModels
<1>4. CASE Exit
  <2>1. NoCall \in CallType /\ NoCall.op # "swap"
    BY DEF NoCall, CallType
  <2>2. call' \in [Actor -> CallType] /\ SwapsNameModels'
    BY <1>4, <2>1 DEF Exit, SwapsNameModels
  <2>3. pc' \in [Actor -> Labels]
    BY <1>4 DEF Exit, TypeOK, Labels
  <2>4. exits' \in 0 .. MaxExits
    BY <1>4 DEF Exit, TypeOK
  <2> QED
    BY <1>4, <2>2, <2>3, <2>4 DEF Exit, TypeOK, CallType
<1>5. \A m \in Model : m \in Model \cup {None}
  OBVIOUS
<1> QED
  BY <1>1, <1>2, <1>3, <1>4, <1>5, StopTypes, StartTypes, WatchTypes DEF Next

LEMMA TypeInit ==
  Init => TypeOK /\ SwapsNameModels
<1> SUFFICES ASSUME Init PROVE TypeOK /\ SwapsNameModels
  OBVIOUS
<1>1. NoCall \in CallType /\ NoCall.op # "swap"
  BY DEF NoCall, CallType
<1>2. call \in [Actor -> CallType] /\ SwapsNameModels
  BY <1>1 DEF Init, SwapsNameModels
<1>3. server \in [Server -> ServerType]
  BY DEF Init, ServerType
<1>4. pc \in [Actor -> Labels] /\ failures \in [Monitor -> 0 .. Limit]
  BY DEF Init, Labels, Limit
<1>5. exits \in 0 .. MaxExits
  BY DEF Init
<1> QED
  BY <1>2, <1>3, <1>4, <1>5 DEF Init, TypeOK, ServerType, CallType

(* Types: a handle names a server, a thread to join is a monitor, and the path  *)
(* and the active model are models.                                             *)
THEOREM TypeCorrect == Spec => []TypeOK
  BY TypeInit, TypeStep, PTL DEF Spec

-------------------------------------------------------------------------------
(* What a step of one thread leaves alone: the others' labels and calls.        *)
OthersStay(a) == \A b \in Actor \ {a} : pc'[b] = pc[b] /\ call'[b] = call[b]
Live(m) == pc[m] \notin {"idle", "ended"}

LEMMA LeaveFacts ==
  ASSUME TypeOK, NEW a \in Actor, Leave(a)
  PROVE  /\ OthersStay(a) /\ pc'[a] = IF a \in Caller THEN "idle" ELSE "sleep"
         /\ call'[a] = NoCall
  BY DEF Leave, GoTo, TypeOK, OthersStay

LEMMA AfterStopFacts ==
  ASSUME TypeOK, NEW c \in Caller, AfterStop(c)
  PROVE  /\ OthersStay(c) /\ pc'[c] \in {"idle", "check running"}
         /\ modelPath' = IF call[c].op = "swap" THEN call[c].model ELSE modelPath
<1>1. c \in Actor
  BY DEF Actor
<1>2. CASE call[c].op = "stop"
  BY <1>1, <1>2, LeaveFacts DEF AfterStop
<1>3. CASE call[c].op # "stop"
  BY <1>1, <1>3 DEF AfterStop, GoTo, TypeOK, OthersStay
<1> QED
  BY <1>2, <1>3

(* A caller's step: with one call at a time the other callers stay idle, and a  *)
(* monitor is touched only where the caller launches it.                        *)
LEMMA CallerAlone ==
  ASSUME OneCall, NEW c \in Caller, pc[c] # "idle", OthersStay(c)
  PROVE  /\ \A d \in Caller \ {c} : pc[d] = "idle" /\ pc'[d] = "idle" /\ call'[d] = call[d]
         /\ \A m \in Monitor : pc'[m] = pc[m] /\ (m \in LiveMonitors' <=> m \in LiveMonitors)
         /\ LiveMonitors' = LiveMonitors
         /\ OneCall'
<1>1. \A d \in Caller \ {c} : pc[d] = "idle" /\ pc'[d] = "idle" /\ call'[d] = call[d]
  BY Threads DEF OneCall, OthersStay
<1>2. \A m \in Monitor : pc'[m] = pc[m]
  BY Threads DEF OthersStay
<1> QED
  BY <1>1, <1>2 DEF OneCall, LiveMonitors

LEMMA CallerMoves ==
  ASSUME TypeOK, Calm, NEW c \in Caller, pc[c] # "idle", OthersStay(c), UNCHANGED healthThread,
         OneServer', pc'[c] = "idle" => active' = modelPath', pc'[c] # "idle" => CallOK(c)'
  PROVE  Calm'
<1>1. /\ OneCall' /\ \A m \in Monitor : pc'[m] = pc[m] /\ (m \in LiveMonitors' <=> m \in LiveMonitors)
      /\ \A d \in Caller \ {c} : pc'[d] = "idle"
  BY CallerAlone DEF Calm
<1>2. OneMonitor'
  BY <1>1 DEF Calm, OneMonitor
<1> QED
  BY <1>1, <1>2 DEF Calm

LEMMA MonitorMoves ==
  ASSUME TypeOK, Calm, NEW m \in LiveMonitors, OthersStay(m), pc'[m] \in Watching,
         UNCHANGED <<server, process, modelPath, healthThread, active>>
  PROVE  Calm'
<1>1. m \in Monitor /\ m \notin Caller
  BY Threads DEF LiveMonitors
<1>2. \A c \in Caller : pc'[c] = pc[c] /\ call'[c] = call[c]
  BY <1>1, Threads DEF OthersStay
<1>3. \A k \in Monitor \ {m} : pc'[k] = pc[k]
  BY Threads DEF OthersStay
<1>4. LiveMonitors' \subseteq LiveMonitors
  BY <1>3 DEF LiveMonitors
<1>5. OneMonitor'
  BY <1>1, <1>3, <1>4 DEF Calm, OneMonitor
<1>6. OneServer' /\ OneCall'
  BY <1>2 DEF Calm, OneServer, OneCall, Running
<1>7. \A c \in Caller : CallOK(c) => CallOK(c)'
  BY <1>2, <1>4 DEF CallOK
<1> QED
  BY <1>2, <1>5, <1>6, <1>7 DEF Calm

\* A server that ends, or gets ready, stays the one the handle names.
LEMMA SetStateFacts ==
  ASSUME TypeOK, NEW n \in Server, NEW state, SetState(n, state)
  PROVE  \A k \in Server : /\ server'[k].model = server[k].model
                           /\ server'[k].state = IF k = n THEN state ELSE server[k].state
<1>1. \A k \in Server : server[k] \in ServerType
  BY DEF TypeOK, ServerType
<1>2. server' = [server EXCEPT ![n].state = state] /\ server \in [Server -> ServerType]
  BY DEF SetState, TypeOK, ServerType
<1> QED
  BY <1>1, <1>2 DEF ServerType

LEMMA OthersExited ==
  ASSUME TypeOK, OneServer, NEW n \in Server, n # process \/ Exited(n)
  PROVE  ~ Running(n)
  BY DEF OneServer, Running, Exited

-------------------------------------------------------------------------------
LEMMA BeginStep ==
  ASSUME TypeOK, Inv, NEW c \in Caller, NEW op \in {"swap", "restart", "stop"},
         NEW m \in Model \cup {None}, Begin(c, op, m)
  PROVE  Inv'
<1> SUFFICES ASSUME ~ raced' PROVE Calm'
  BY DEF Inv
<1>1. Calm /\ \A d \in Caller : pc[d] = "idle"
  BY DEF Begin, Inv
<1>2. pc' = [pc EXCEPT ![c] = "stop"] /\ \A d \in Caller : pc'[d] = IF d = c THEN "stop" ELSE "idle"
  BY <1>1, Threads DEF Begin, GoTo, TypeOK
<1>3. call'[c].op = op /\ call'[c].model = m
  <2>1. call'[c] = [NoCall EXCEPT !.op = op, !.model = m]
    BY Threads DEF Begin, TypeOK
  <2> QED
    BY <2>1 DEF NoCall
<1>4. \A k \in Monitor : pc'[k] = pc[k]
  BY <1>2, Threads DEF TypeOK
<1>5. OneCall' /\ OneMonitor' /\ OneServer'
  BY <1>1, <1>2, <1>4 DEF Begin, Calm, OneCall, OneMonitor, OneServer, Running, LiveMonitors
<1>6. CallOK(c)'
  <2>1. active = modelPath
    BY <1>1 DEF Calm
  <2>2. active' = (IF op = "swap" THEN m ELSE active) /\ modelPath' = modelPath
    BY DEF Begin
  <2>3. pc'[c] = "stop"
    BY <1>2
  <2>4. IF pc'[c] \in BeforePath /\ call'[c].op = "swap" THEN active' = call'[c].model
                                                       ELSE active' = modelPath'
    BY <1>3, <2>1, <2>2, <2>3 DEF BeforePath
  <2> QED
    BY <2>3, <2>4 DEF CallOK, AfterJoin
<1> QED
  BY <1>2, <1>5, <1>6 DEF Calm

LEMMA StopHealthStep ==
  ASSUME TypeOK, Calm, NEW a \in Actor, StopHealth(a)
  PROVE  Calm'
<1>1. OthersStay(a) /\ pc'[a] = "begin join" /\ call'[a] = call[a] /\ pc[a] = "stop"
  BY DEF StopHealth, GoTo, TypeOK, OthersStay
<1>2. CASE a \in Caller
  <2>1. CallOK(a)
    BY <1>1, <1>2 DEF Calm
  <2>2. CallOK(a)'
    BY <1>1, <2>1 DEF StopHealth, CallOK, AfterJoin, BeforePath
  <2>3. OneServer'
    BY DEF StopHealth, Calm, OneServer, Running
  <2> QED
    BY <1>1, <1>2, <2>2, <2>3, CallerMoves DEF StopHealth
<1>3. CASE a \in Monitor
  BY <1>1, <1>3, MonitorMoves DEF StopHealth, LiveMonitors, Watching
<1> QED
  BY <1>2, <1>3 DEF Actor

LEMMA BeginJoinStep ==
  ASSUME TypeOK, Calm, NEW a \in Actor, BeginJoin(a)
  PROVE  Calm'
<1>0. UNCHANGED <<server, process, modelPath, healthThread, active>> /\ pc[a] = "begin join"
  BY DEF BeginJoin, runtimeVars
<1>1. CASE a \in Monitor
  <2>1. a \in LiveMonitors /\ healthThread = a
    BY <1>0, <1>1 DEF LiveMonitors, Calm, OneMonitor
  <2>2. Leave(a)
    BY <2>1 DEF BeginJoin
  <2>3. OthersStay(a) /\ pc'[a] = "sleep"
    BY <1>1, <2>2, LeaveFacts, Threads
  <2> QED
    BY <1>0, <2>1, <2>3, MonitorMoves DEF Watching
<1>2. CASE a \in Caller
  <2>1. a # healthThread \/ healthThread \notin LiveMonitors
    BY <1>2, Threads DEF LiveMonitors
  <2>2. OneServer' /\ CallOK(a) /\ OneCall
    BY <1>0, <1>2 DEF Calm, OneServer, Running
  <2>3. CASE healthThread \notin LiveMonitors /\ GoTo(a, "signal") /\ UNCHANGED call
    <3>1. OthersStay(a) /\ pc'[a] = "signal" /\ call'[a] = call[a]
      BY <2>3 DEF GoTo, TypeOK, OthersStay
    <3>2. LiveMonitors = {}
      BY <2>3 DEF Calm, OneMonitor, LiveMonitors
    <3>3. LiveMonitors' = {}
      BY <1>0, <1>2, <2>2, <3>1, <3>2, CallerAlone
    <3>4. CallOK(a)'
      BY <1>0, <2>2, <3>1, <3>3 DEF CallOK, BeforePath
    <3> QED
      BY <1>0, <1>2, <2>2, <3>1, <3>4, CallerMoves
  <2>4. CASE GoTo(a, "join") /\ call' = [call EXCEPT ![a].joins = healthThread]
    <3>1. call[a] \in CallType
      BY DEF TypeOK, CallType
    <3>2. OthersStay(a) /\ pc'[a] = "join" /\ call'[a] = [call[a] EXCEPT !.joins = healthThread]
      BY <2>4 DEF GoTo, TypeOK, OthersStay
    <3>3. call'[a].op = call[a].op /\ call'[a].model = call[a].model /\ call'[a].joins = healthThread
      BY <3>1, <3>2 DEF CallType
    <3>4. CallOK(a)'
      BY <1>0, <2>2, <3>2, <3>3 DEF CallOK, BeforePath, AfterJoin
    <3> QED
      BY <1>0, <1>2, <2>2, <3>2, <3>4, CallerMoves
  <2>5. healthThread # a
    BY <1>2 DEF TypeOK, Monitor, None
  <2> QED
    BY <2>3, <2>4, <2>5 DEF BeginJoin
<1> QED
  BY <1>1, <1>2 DEF Actor

\* From here on a thread is a caller: a monitor never gets that far.
LEMMA OnlyCallers ==
  ASSUME Calm, NEW a \in Actor, pc[a] \notin Watching
  PROVE  a \in Caller /\ pc[a] # "idle" /\ CallOK(a)
  BY DEF Calm, OneMonitor, Actor, Watching

LEMMA EndJoinStep ==
  ASSUME TypeOK, Calm, NEW a \in Actor, EndJoin(a), ~ raced'
  PROVE  Calm'
<1>1. a \in Caller /\ CallOK(a) /\ pc[a] = "join"
  BY OnlyCallers DEF EndJoin, Watching
<1>2. OthersStay(a) /\ pc'[a] = "signal" /\ call'[a] = call[a]
  BY DEF EndJoin, GoTo, TypeOK, OthersStay
<1>3. LiveMonitors = {}
  <2>1. healthThread \notin LiveMonitors
    BY <1>1 DEF EndJoin, CallOK
  <2> QED
    BY <2>1 DEF Calm, OneMonitor, LiveMonitors
<1>4. LiveMonitors' = {}
  BY <1>1, <1>2, <1>3, CallerAlone DEF Calm
<1>5. CallOK(a)'
  BY <1>1, <1>2, <1>4 DEF EndJoin, runtimeVars, CallOK, BeforePath
<1>6. OneServer'
  BY DEF EndJoin, runtimeVars, Calm, OneServer, Running
<1> QED
  BY <1>1, <1>2, <1>5, <1>6, CallerMoves DEF EndJoin, runtimeVars

(* The end of stop(): no server is left when the path is set.                   *)
LEMMA AfterStopStep ==
  ASSUME TypeOK, Calm, NEW c \in Caller, pc[c] \in {"signal", "reap"}, AfterStop(c),
         process' = None, UNCHANGED <<healthThread, active>>, \A n \in Server : ~ Running(n)'
  PROVE  Calm'
<1>1. /\ OthersStay(c) /\ pc'[c] \in {"idle", "check running"}
      /\ modelPath' = IF call[c].op = "swap" THEN call[c].model ELSE modelPath
  BY AfterStopFacts
<1>2. CallOK(c)
  BY DEF Calm
<1>3. active' = modelPath'
  BY <1>1, <1>2 DEF CallOK, BeforePath
<1>4. LiveMonitors' = {}
  <2>1. LiveMonitors = {}
    BY <1>2 DEF CallOK, AfterJoin
  <2> QED
    BY <1>1, <2>1, CallerAlone DEF Calm
<1>5. pc'[c] # "idle" => CallOK(c)'
  BY <1>1, <1>3, <1>4 DEF CallOK, BeforePath
<1>6. OneServer'
  BY DEF OneServer
<1> QED
  BY <1>1, <1>3, <1>5, <1>6, CallerMoves

LEMMA SignalStep ==
  ASSUME TypeOK, Calm, NEW a \in Actor, Signal(a)
  PROVE  Calm'
<1>1. a \in Caller /\ CallOK(a) /\ pc[a] = "signal"
  BY OnlyCallers DEF Signal, Watching
<1>2. CASE /\ process = None \/ Exited(process)
           /\ AfterStop(a) /\ process' = None /\ UNCHANGED server
  <2>1. \A n \in Server : ~ Running(n)
    BY <1>2, OthersExited DEF Calm, Server, None
  <2>2. \A n \in Server : ~ Running(n)'
    BY <1>2, <2>1 DEF Running
  <2> QED
    BY <1>1, <1>2, <2>2, AfterStopStep DEF Signal
<1>3. CASE /\ process # None /\ ~ Exited(process)
           /\ SetState(process, "stopping") /\ GoTo(a, "reap")
           /\ call' = [call EXCEPT ![a].pid = process] /\ UNCHANGED <<process, modelPath>>
  <2>1. process \in Server
    BY <1>3 DEF TypeOK
  <2>2. call[a] \in CallType
    BY DEF TypeOK, CallType
  <2>3. OthersStay(a) /\ pc'[a] = "reap" /\ call'[a] = [call[a] EXCEPT !.pid = process]
    BY <1>3 DEF GoTo, TypeOK, OthersStay
  <2>4. call'[a].op = call[a].op /\ call'[a].model = call[a].model /\ call'[a].pid = process
    BY <2>2, <2>3 DEF CallType
  <2>5. LiveMonitors' = {}
    <3>1. LiveMonitors = {}
      BY <1>1 DEF CallOK, AfterJoin
    <3> QED
      BY <1>1, <2>3, <3>1, CallerAlone DEF Calm
  <2>6. UNCHANGED <<healthThread, active>>
    BY DEF Signal
  <2>7. CallOK(a)'
    BY <1>1, <1>3, <2>3, <2>4, <2>5, <2>6 DEF CallOK, BeforePath
  <2>8. OneServer'
    <3>1. \A n \in Server : server'[n].model = server[n].model
                            /\ server'[n].state = IF n = process THEN "stopping" ELSE server[n].state
      BY <1>3, <2>1, SetStateFacts
    <3>2. Running(process)
      BY <1>3, <2>1 DEF Running, Exited, TypeOK
    <3> QED
      BY <1>3, <2>1, <3>1, <3>2 DEF Calm, OneServer, Running
  <2> QED
    BY <1>1, <2>3, <2>6, <2>7, <2>8, CallerMoves
<1> QED
  BY <1>2, <1>3 DEF Signal

LEMMA ReapStep ==
  ASSUME TypeOK, Calm, NEW a \in Actor, Reap(a)
  PROVE  Calm'
<1>1. a \in Caller /\ CallOK(a) /\ pc[a] = "reap"
  BY OnlyCallers DEF Reap, Watching
<1>2. process \in Server /\ call[a].pid = process /\ process # None
  BY <1>1 DEF CallOK, TypeOK
<1>3. UNCHANGED <<healthThread, active>>
  BY DEF Reap
<1>4. CASE Exited(process) /\ process' = None /\ AfterStop(a) /\ UNCHANGED server
  <2>1. \A n \in Server : ~ Running(n)
    BY <1>4, OthersExited DEF Calm
  <2>2. \A n \in Server : ~ Running(n)'
    BY <1>4, <2>1 DEF Running
  <2> QED
    BY <1>1, <1>3, <1>4, <2>2, AfterStopStep
<1>5. CASE SetState(process, "dead") /\ process' = None /\ AfterStop(a)
  <2>1. \A n \in Server : server'[n].state = IF n = process THEN "dead" ELSE server[n].state
    BY <1>2, <1>5, SetStateFacts
  <2>2. \A n \in Server : ~ Running(n)'
    BY <2>1, OthersExited DEF Calm, Running
  <2> QED
    BY <1>1, <1>3, <1>5, <2>2, AfterStopStep
<1> QED
  BY <1>2, <1>4, <1>5 DEF Reap

LEMMA StartStep ==
  ASSUME TypeOK, Calm, NEW a \in Actor, Start(a)
  PROVE  Calm'
<1>1. a \in Caller /\ CallOK(a) /\ pc[a] # "idle" /\ pc[a] \in {"check running", "spawn", "wait"}
  BY OnlyCallers DEF Start, CheckRunning, Spawn, SpawnFails, Ready, NotReady, Watching
<1>2. LiveMonitors = {} /\ active = modelPath
  BY <1>1 DEF CallOK, AfterJoin, BeforePath
<1>3. OneServer /\ OneCall
  BY DEF Calm
<1>4. CASE UNCHANGED <<server, process, modelPath, healthThread, active>> /\ Leave(a)
  <2>1. OthersStay(a) /\ pc'[a] = "idle"
    BY <1>1, <1>4, LeaveFacts
  <2>2. OneServer'
    BY <1>3, <1>4 DEF OneServer, Running
  <2> QED
    BY <1>1, <1>2, <1>4, <2>1, <2>2, CallerMoves
<1>5. CASE CheckRunning(a) /\ GoTo(a, "spawn") /\ UNCHANGED call
  <2>1. OthersStay(a) /\ pc'[a] = "spawn"
    BY <1>5 DEF GoTo, TypeOK, OthersStay
  <2>2. LiveMonitors' = {}
    BY <1>1, <1>2, <1>3, <2>1, CallerAlone
  <2>3. process = None
    BY <1>1, <1>5 DEF CallOK, CheckRunning
  <2>4. CallOK(a)'
    BY <1>2, <1>5, <2>1, <2>2, <2>3 DEF CheckRunning, runtimeVars, CallOK, BeforePath
  <2>5. OneServer'
    BY <1>3, <1>5 DEF CheckRunning, runtimeVars, OneServer, Running
  <2> QED
    BY <1>1, <1>5, <2>1, <2>4, <2>5, CallerMoves DEF CheckRunning, runtimeVars
<1>6. CASE Spawn(a)
  <2>1. PICK n \in Server : /\ server' = [server EXCEPT ![n] = [state |-> "loading", model |-> modelPath]]
                            /\ process' = n
    BY <1>6 DEF Spawn
  <2>2. \A k \in Server : ~ Running(k)
    BY <1>1, <1>3, <1>6 DEF Spawn, CallOK, OneServer, Server, None
  <2>3. OneServer'
    BY <1>6, <2>1, <2>2 DEF Spawn, OneServer, Running, TypeOK
  <2>4. OthersStay(a) /\ pc'[a] = "wait"
    BY <1>6 DEF Spawn, GoTo, TypeOK, OthersStay
  <2>5. LiveMonitors' = {}
    BY <1>1, <1>2, <1>3, <2>4, CallerAlone
  <2>6. CallOK(a)'
    BY <1>2, <1>6, <2>4, <2>5 DEF Spawn, CallOK, BeforePath
  <2> QED
    BY <1>1, <1>6, <2>3, <2>4, <2>6, CallerMoves DEF Spawn
<1>7. CASE Ready(a)
  <2>1. PICK m \in Monitor :
          /\ healthThread' = m
          /\ pc' = [pc EXCEPT ![m] = "check", ![a] = IF a \in Caller THEN "idle" ELSE "sleep"]
    BY <1>7 DEF Ready
  <2>2. m \in Actor /\ m # a /\ m \notin Caller
    BY <1>1, Threads
  <2>3. \A b \in Actor : pc'[b] = IF b = a THEN "idle" ELSE IF b = m THEN "check" ELSE pc[b]
    BY <1>1, <2>1, <2>2 DEF TypeOK
  <2>4. \A c \in Caller : pc'[c] = "idle"
    BY <1>1, <1>3, <2>2, <2>3, Threads DEF OneCall
  <2>5. OneMonitor'
    <3>1. \A k \in Monitor : pc'[k] = IF k = m THEN "check" ELSE pc[k]
      BY <1>1, <2>3, Threads
    <3> QED
      BY <1>2, <2>1, <3>1 DEF Calm, OneMonitor, LiveMonitors, Watching
  <2>6. OneServer'
    BY <1>3, <1>7 DEF Ready, OneServer, Running
  <2> QED
    BY <1>2, <1>7, <2>4, <2>5, <2>6 DEF Ready, Calm, OneCall
<1> QED
  BY <1>4, <1>5, <1>6, <1>7 DEF Start, CheckRunning, SpawnFails, NotReady, runtimeVars

LEMMA WatchStep ==
  ASSUME TypeOK, Calm, NEW m \in Monitor, Watch(m)
  PROVE  Calm'
<1>1. m \in LiveMonitors /\ m \in Actor
  BY Threads DEF Watch, CheckFlag, Healthy, Unhealthy, AttemptRestart, Wake, LiveMonitors
<1>2. OthersStay(m)
  BY <1>1 DEF Watch, CheckFlag, Healthy, Unhealthy, AttemptRestart, Wake, GoTo, TypeOK, OthersStay
<1>3. pc'[m] \in Watching
  BY <1>1 DEF Watch, CheckFlag, Healthy, Unhealthy, AttemptRestart, Wake, GoTo, TypeOK, Watching
<1>4. UNCHANGED <<server, process, modelPath, healthThread, active>>
  BY DEF Watch, CheckFlag, Healthy, Unhealthy, AttemptRestart, Wake, runtimeVars
<1> QED
  BY <1>1, <1>2, <1>3, <1>4, MonitorMoves

LEMMA ServerStep ==
  ASSUME TypeOK, Calm, NEW n \in Server, Load(n) \/ Die(n)
  PROVE  Calm'
<1>1. Running(n) /\ UNCHANGED <<runtimeVars, pc, call>>
  BY DEF Load, Die, Running
<1>2. \A k \in Server : server'[k].model = server[k].model /\ (Running(k)' => Running(k))
  <2>1. ASSUME NEW state, SetState(n, state)
        PROVE  \A k \in Server : server'[k].model = server[k].model /\ (Running(k)' => Running(k))
    BY <1>1, <2>1, SetStateFacts DEF Running
  <2> QED
    BY <2>1 DEF Load, Die
<1>3. OneServer'
  BY <1>1, <1>2 DEF Calm, OneServer, runtimeVars
<1>4. \A c \in Caller : CallOK(c) => CallOK(c)'
  BY <1>1 DEF CallOK, LiveMonitors, runtimeVars
<1> QED
  BY <1>1, <1>3, <1>4 DEF Calm, OneCall, OneMonitor, LiveMonitors, runtimeVars

LEMMA InvStep ==
  ASSUME TypeOK, Inv, [Next]_vars
  PROVE  Inv'
<1>1. CASE UNCHANGED vars
  BY <1>1 DEF vars, runtimeVars, Inv, Calm, OneCall, OneMonitor, OneServer, CallOK, Running, LiveMonitors
<1>2. CASE Exit
  BY <1>2 DEF Exit, Inv
<1>3. ASSUME NEW c \in Caller,
             \/ \E m \in Model : Begin(c, "swap", m)
             \/ \E op \in {"restart", "stop"} : Begin(c, op, None)
      PROVE  Inv'
  BY <1>3, BeginStep
<1>4. ASSUME NEW a \in Actor, Stop(a) \/ Start(a)
      PROVE  Inv'
  <2>1. raced => raced'
    BY <1>4 DEF Stop, Start, StopHealth, BeginJoin, EndJoin, Signal, Reap, CheckRunning, Spawn,
                SpawnFails, Ready, NotReady
  <2> QED
    BY <1>4, <2>1, StopHealthStep, BeginJoinStep, EndJoinStep, SignalStep, ReapStep, StartStep
       DEF Stop, Inv
<1>5. ASSUME NEW m \in Monitor, Watch(m)
      PROVE  Inv'
  <2>1. UNCHANGED raced
    BY <1>5 DEF Watch, CheckFlag, Healthy, Unhealthy, AttemptRestart, Wake
  <2> QED
    BY <1>5, <2>1, WatchStep DEF Inv
<1>6. ASSUME NEW n \in Server, Load(n) \/ Die(n)
      PROVE  Inv'
  <2>1. UNCHANGED raced
    BY <1>6 DEF Load, Die
  <2> QED
    BY <1>6, <2>1, ServerStep DEF Inv
<1> QED
  BY <1>1, <1>2, <1>3, <1>4, <1>5, <1>6 DEF Next

LEMMA InvInit ==
  Init => Inv
<1> SUFFICES ASSUME Init PROVE Calm
  BY DEF Inv
<1>1. \A a \in Actor : pc[a] = "idle"
  BY DEF Init
<1>2. \A n \in Server : ~ Running(n)
  BY DEF Init, Running
<1> QED
  BY <1>1, <1>2, Threads DEF Init, Calm, OneCall, OneMonitor, OneServer, LiveMonitors, Watching

(* Until calls overlap, a monitor sleeps through a join or the process ends:    *)
(* one call, one monitor and one server, and each is where the next stop()      *)
(* looks for it.                                                                *)
THEOREM RuntimeInvariant == Spec => [](TypeOK /\ Inv)
  BY InvInit, InvStep, TypeInit, TypeStep, PTL DEF Spec

(* A server that runs is the one the handle names, so that the next stop        *)
(* reaches it, however one call at a time interleaves with the monitors and     *)
(* with servers that load late or die.                                          *)
THEOREM NoServerIsLost == Spec => []NoOrphanServer
<1>1. Inv => NoOrphanServer
  BY DEF Inv, Calm, OneServer, Running, NoOrphanServer
<1> QED
  BY <1>1, RuntimeInvariant, PTL

(* Between calls the model that answers, the path and the registry agree.       *)
THEOREM SelectedIsServed == Spec => []ServesSelected
<1>1. ASSUME Inv, ~ raced, Quiet
      PROVE  active = modelPath /\ \A n \in Server : server[n].state = "ready" => server[n].model = modelPath
  <2>1. Calm
    BY <1>1 DEF Inv
  <2>2. \A c \in Caller : pc[c] \notin BeforePath
    BY <1>1, Threads DEF Quiet, BeforePath
  <2>3. active = modelPath
    BY <2>1, <2>2 DEF Calm, CallOK
  <2> QED
    BY <2>1, <2>3 DEF Calm, OneServer, Running
<1>2. Inv => ServesSelected
  BY <1>1 DEF ServesSelected
<1> QED
  BY <1>2, RuntimeInvariant, PTL

===============================================================================
