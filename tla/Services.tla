-------------------------------- MODULE Services --------------------------------
(* The services around the plans, side by side.  They share no variable but the *)
(* scheduler, which the daemon calls, so each is explored by itself: part says  *)
(* which one is at work, and the others stay as they began.                     *)
EXTENDS Daemon, VoiceMonitor, UpdateManager, EvolutionManager, SecretStore,
        FirstBoot, SettingsSkill

VARIABLE part

serviceVars ==
  <<daemonVars, schedulerVars, voiceVars, updateVars, evolutionVars, secretVars, setupVars,
    settingsVars>>

Init ==
  /\ DaemonInit /\ VoiceInit /\ UpdateInit /\ EvolutionInit /\ SecretInit /\ SetupInit
  /\ SettingsInit
  /\ part \in {"daemon", "scheduler", "voice", "updates", "evolution", "secrets", "setup",
               "settings"}

Next ==
  /\ UNCHANGED part
  /\ \/ /\ part = "daemon" /\ DaemonCall
        /\ UNCHANGED <<voiceVars, updateVars, evolutionVars, secretVars, setupVars, settingsVars>>
     \/ /\ part = "scheduler" /\ SchedulerNext /\ UNCHANGED <<daemonVars, voiceVars>>
        /\ UNCHANGED <<updateVars, evolutionVars, secretVars, setupVars, settingsVars>>
     \/ /\ UNCHANGED <<daemonVars, schedulerVars>>
        /\ \/ /\ part = "voice" /\ VoiceNext
              /\ UNCHANGED <<updateVars, evolutionVars, secretVars, setupVars, settingsVars>>
           \/ /\ part = "updates" /\ UpdateNext
              /\ UNCHANGED <<voiceVars, evolutionVars, secretVars, setupVars, settingsVars>>
           \/ /\ part = "evolution" /\ EvolutionNext
              /\ UNCHANGED <<voiceVars, updateVars, secretVars, setupVars, settingsVars>>
           \/ /\ part = "secrets" /\ SecretNext
              /\ UNCHANGED <<voiceVars, updateVars, evolutionVars, setupVars, settingsVars>>
           \/ /\ part = "setup" /\ SetupNext
              /\ UNCHANGED <<voiceVars, updateVars, evolutionVars, secretVars, settingsVars>>
           \/ /\ part = "settings" /\ SettingsNext
              /\ UNCHANGED <<voiceVars, updateVars, evolutionVars, secretVars, setupVars>>

Spec == Init /\ [][Next]_<<serviceVars, part>>

(* Each service keeps its types while it is at work.                            *)
TypesOK ==
  CASE part = "daemon" -> DaemonTypeOK /\ SchedulerTypeOK
    [] part = "scheduler" -> SchedulerTypeOK
    [] part = "voice" -> VoiceTypeOK
    [] part = "updates" -> UpdateTypeOK
    [] part = "evolution" -> EvolutionTypeOK
    [] part = "secrets" -> SecretTypeOK
    [] part = "setup" -> SetupTypeOK
    [] part = "settings" -> SettingsTypeOK
===============================================================================
