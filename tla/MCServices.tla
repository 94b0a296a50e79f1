------------------------------- MODULE MCServices -------------------------------
(* The services around the plans, one part at a time: the daemon, under no      *)
(* load; the scheduler called by itself, under a load that changes; the voice   *)
(* monitor; updates of two components; proposals, one of which fails its smoke  *)
(* test and one makes it raise, two at a time; the secrets; the first boot with *)
(* two models and an API beside it; two settings, of which the volume can read  *)
(* above its cap.                                                               *)
EXTENDS Services, TLC

CONSTANTS good, odd, bad

MCCreation == {<<"full", TRUE>>}
MCExecution == {<<"partial", TRUE>>, <<"full", FALSE>>}

MCSettings == <<"volume", "network">>
MCReadings == [volume |-> {"50", "100", "150"}, network |-> {"on", "off"}]
MCCap ==
  [n \in DOMAIN MCReadings |-> [v \in MCReadings[n] |-> IF v = "150" THEN "100" ELSE v]]

\* The small profile fits the machine, the big one does not, only for its rom.
QwenProfile(id, size, model, need, rom) ==
  [id |-> id, provider |-> "qwen", size |-> size, file |-> model, gpu |-> FALSE,
   ram |-> need, cpu |-> need, storage |-> need, rom |-> rom, vram |-> need]
MCProfiles == <<QwenProfile("small", "1.5b", "q1", 4, 4),
                QwenProfile("big", "7b", "q7", 6, 16)>>
MCHardware == [ram |-> 8, cpu |-> 8, storage |-> 8, vram |-> 4, gpu |-> TRUE]
MCPermissionProfiles == <<[id |-> "strict", grants |-> <<"echo">>],
                          [id |-> "open", grants |-> <<"echo", "shell">>]>>

\* The unit leaves it to the hardware; a run by hand asks for a provider and a
\* size, or has a variable in its environment that names no profile.
Plain == [id |-> Unset, provider |-> Unset, size |-> Unset, envId |-> Unset,
          envProvider |-> Unset, envSize |-> Unset, interactive |-> FALSE, auto |-> FALSE,
          permissions |-> Unset, envPermissions |-> Unset, interactivePermissions |-> FALSE,
          byHand |-> TRUE]
MCRequest ==
  {[Plain EXCEPT !.auto = TRUE, !.byHand = FALSE],
   [Plain EXCEPT !.provider = "qwen", !.size = "1.5b", !.permissions = "open"],
   [Plain EXCEPT !.envId = "gone"]}

\* What one part leaves open is fixed while another is at work: the machine is
\* calm, no state was saved, the desktop is as it came.
MCInit ==
  /\ Init /\ ~ pressure
  /\ part # "daemon" => file["configured"] = Missing
  /\ part # "secrets" => ~ hasKeyring /\ access = "full"
  /\ part # "settings" => desktop = [volume |-> "50", network |-> "on"]

\* Bound: the first process may write the path of the state; the second may
\* write it or only read it; the third writes it or has the fallback, takes no
\* decision any more, and has one cycle at a time.
ReachOf == <<{"write"}, {"write", "read"}, {"write", "hidden", "none"}>>
Busy == {t \in Thread : task[t] # Idle}
MCNext ==
  /\ Next
  /\ starts' # starts => reach' \in ReachOf[starts']
  /\ starts' = 3 => Deciding' = {} /\ Cardinality(Busy') <= 1

MCSpec == MCInit /\ [][MCNext]_<<serviceVars, part>>

\* The threads of the API are also its callers and its appliers.
\* Of a proposal that raises the model says what it says of one that passes: both
\* stand.
Symmetric == Permutations(Thread) \cup Permutations({good, odd})
===============================================================================
