------------------------------ MODULE VoiceMonitor ------------------------------
(* Hands-free listening: start_voice_monitoring and stop_voice_monitoring of    *)
(* aegis/daemon.py, the loop they steer in aegis/voice/session.py, and the      *)
(* microphone it reads.  The end points, the chaos scenario and shutdown call   *)
(* them; one flag carries the wish to stop, and there is no lock.               *)
EXTENDS Naturals, FiniteSets

CONSTANTS
  Caller,
  MaxMonitors      \* bound: monitor threads launched

ASSUME VoiceConstants == MaxMonitors \in Nat \ {0}

Monitor == 1 .. MaxMonitors
NoMonitor == 0

VARIABLES
  monitor,         \* the monitor threads
  monitorThread,   \* _voice_monitor_thread
  interrupt,       \* _interrupt_requested
  voiceCall,       \* caller -> the call it is in
  answered,        \* history: what the last call to return was for
  overlapped,      \* history: two calls overlapped
  unheard          \* history: a loop, on entry, took back the last request to stop

voiceVars == <<monitor, monitorThread, interrupt, voiceCall, answered, overlapped, unheard>>

VoiceTypeOK ==
  /\ monitor \in [Monitor -> {"none", "entry", "loop", "listen", "ended"}]
  /\ monitorThread \in Monitor \cup {NoMonitor} /\ interrupt \in BOOLEAN
  /\ voiceCall \in [Caller -> {"none", "launch", "join"}]
  /\ answered \in {"none", "start", "stop"} /\ overlapped \in BOOLEAN /\ unheard \in BOOLEAN

Alive == {m \in Monitor : monitor[m] \in {"entry", "loop", "listen"}}

Enters(c, place) ==
  /\ voiceCall' = [voiceCall EXCEPT ![c] = place]
  /\ overlapped' = (overlapped \/ \E o \in Caller \ {c} : voiceCall[o] # "none")

Answers(c, call) ==
  voiceCall' = [voiceCall EXCEPT ![c] = "none"] /\ answered' = call

-------------------------------------------------------------------------------
\* start_voice_monitoring returns when a monitor is alive, even one that is
\* about to end; the end point answers "started" all the same.
AlreadyMonitoring(c) ==
  /\ voiceCall[c] = "none" /\ monitorThread \in Alive
  /\ answered' = "start"
  /\ UNCHANGED <<monitor, monitorThread, interrupt, voiceCall, overlapped, unheard>>

StartMonitoring(c) ==
  /\ voiceCall[c] = "none" /\ monitorThread \notin Alive
  /\ \E m \in Monitor : monitor[m] = "none"
  /\ interrupt' = FALSE /\ Enters(c, "launch")
  /\ UNCHANGED <<monitor, monitorThread, answered, unheard>>

LaunchMonitor(c) ==
  /\ voiceCall[c] = "launch"
  /\ \E m \in Monitor :
       /\ monitor[m] = "none" /\ \A n \in Monitor : monitor[n] = "none" => m <= n
       /\ monitor' = [monitor EXCEPT ![m] = "entry"] /\ monitorThread' = m
  /\ Answers(c, "start")
  /\ UNCHANGED <<interrupt, overlapped, unheard>>

\* mutant: a stop waits, and does not ask
StopSilently(c) ==
  /\ voiceCall[c] = "none" /\ Enters(c, "join")
  /\ UNCHANGED <<monitor, monitorThread, interrupt, answered, unheard>>

\* stop_voice_monitoring, also from shutdown and from the chaos scenario
StopMonitoring(c) ==
  /\ voiceCall[c] = "none" /\ interrupt' = TRUE /\ Enters(c, "join")
  /\ unheard' = FALSE
  /\ UNCHANGED <<monitor, monitorThread, answered>>

\* The join gives up after a second; a chunk of sound alone takes two.
EndMonitorJoin(c) ==
  /\ voiceCall[c] = "join" /\ Answers(c, "stop")
  /\ UNCHANGED <<monitor, monitorThread, interrupt, overlapped, unheard>>

-------------------------------------------------------------------------------
MonitorGoes(m, place) == monitor' = [monitor EXCEPT ![m] = place]

\* stream_loop clears the flag before it looks at it.
EnterLoop(m) ==
  /\ monitor[m] = "entry" /\ MonitorGoes(m, "loop")
  /\ unheard' = (unheard \/ interrupt) /\ interrupt' = FALSE
  /\ UNCHANGED <<monitorThread, voiceCall, answered, overlapped>>

LookAtInterrupt(m) ==
  /\ monitor[m] = "loop" /\ MonitorGoes(m, IF interrupt THEN "ended" ELSE "listen")
  /\ UNCHANGED <<monitorThread, interrupt, voiceCall, answered, overlapped, unheard>>

(* One round: capture, transcription, the plan and the spoken answer, whose     *)
(* errors are caught.  What the microphone itself raises ends the thread.       *)
Listen(m) ==
  /\ monitor[m] = "listen" /\ \E place \in {"loop", "ended"} : MonitorGoes(m, place)
  /\ UNCHANGED <<monitorThread, interrupt, voiceCall, answered, overlapped, unheard>>

-------------------------------------------------------------------------------
VoiceInit ==
  /\ monitor = [m \in Monitor |-> "none"] /\ monitorThread = NoMonitor
  /\ interrupt = FALSE /\ voiceCall = [c \in Caller |-> "none"]
  /\ answered = "none" /\ overlapped = FALSE /\ unheard = FALSE

VoiceNext ==
  \/ \E c \in Caller :
       \/ AlreadyMonitoring(c) \/ StartMonitoring(c) \/ LaunchMonitor(c)
       \/ StopMonitoring(c) \/ EndMonitorJoin(c)
  \/ \E m \in Monitor : EnterLoop(m) \/ LookAtInterrupt(m) \/ Listen(m)

VoiceSpec == VoiceInit /\ [][VoiceNext]_voiceVars

-------------------------------------------------------------------------------
(* Where calls come one after the other, one monitor listens at most, and after *)
(* a stop none does without having the request before it, however late the      *)
(* round it is in ends; unless the stop met a monitor that had not yet reached  *)
(* its loop, which forgets the request and listens on.                          *)
StopIsHeard ==
  overlapped \/
    /\ Cardinality(Alive) <= 1
    /\ answered = "stop" /\ (\A c \in Caller : voiceCall[c] = "none") =>
         Alive = {} \/ interrupt \/ unheard \/ monitor[monitorThread] = "entry"
===============================================================================
