------------------------------- MODULE FirstBoot -------------------------------
(* aegis/firstboot.py: the first boot chooses a model and a permission profile, *)
(* fetches the model, makes it the active one, grants the permissions and       *)
(* writes the stamp that keeps its systemd units from running again.  It may    *)
(* fail or be stopped anywhere, then it starts over at the next boot.           *)
EXTENDS ModelRegistry, SequencesExt

CONSTANTS
  SetupProcess,
  Profiles,          \* the catalog: a list of [id, provider, size, file, ram, cpu,
                     \* storage, rom, vram, gpu]
  Hardware,          \* [ram, cpu, storage, vram, gpu] of this machine
  PermissionProfiles,\* a list of [id, grants]
  Request,           \* what a run is asked for, by its arguments and environment
  NoRequest

Profile == [id : STRING, provider : STRING, size : STRING, file : Model,
            ram : Nat, cpu : Nat, storage : Nat, rom : Nat, vram : Nat, gpu : BOOLEAN]
PermissionProfile == [id : STRING, grants : Seq(STRING)]

ASSUME SetupConstants ==
  /\ SetupProcess \in Process
  /\ Profiles \in Seq(Profile) \ {<<>>}
  /\ PermissionProfiles \in Seq(PermissionProfile) \ {<<>>}

VARIABLES
  setup,             \* the run: where it is, what it chose, the grants it has left
  granted,           \* the rows of the guardian's database
  stamp              \* what the stamp file says

setupVars == <<registryVars, setup, granted, stamp>>

Unset == ""
NoStamp == [profile |-> 0, permissions |-> 0]
NotRunning == [at |-> "down", asked |-> NoRequest, profile |-> 0, permissions |-> 0,
               left |-> <<>>, database |-> TRUE, alone |-> TRUE]

SetupTypeOK ==
  /\ RegistryTypeOK
  /\ setup.at \in {"down", "open", "download", "activate", "guardian", "grant"}
  /\ setup.profile \in 0 .. Len(Profiles)
  /\ setup.permissions \in 0 .. Len(PermissionProfiles)
  /\ setup.database \in BOOLEAN /\ setup.alone \in BOOLEAN
  /\ stamp.profile \in 0 .. Len(Profiles)
  /\ \A g \in granted : \E q \in ToSet(PermissionProfiles) : g \in ToSet(q.grants)

-------------------------------------------------------------------------------
(* choose_profile.  Choices are indices into the list, 0 is none.               *)
Earliest(found) == IF found = {} THEN 0 ELSE CHOOSE i \in found : \A j \in found : i <= j

ById(id) == Earliest({i \in DOMAIN Profiles : Profiles[i].id = id})

\* _default_profile, of the profiles with these indices
Default(among) ==
  LET wanted == {i \in among : Profiles[i].id = "medium"}
      sizes == <<"7b", "8b", "10b", "14b">>
      ofSize(n) == {i \in among : Profiles[i].size = sizes[n]}
      offered == {n \in 1 .. 4 : ofSize(n) # {}}
  IN  IF wanted # {} THEN Earliest(wanted)
      ELSE IF offered # {} THEN Earliest(ofSize(Earliest(offered)))
      ELSE Earliest(among)

\* _resolve_by_provider_size
ByProviderSize(provider, size) ==
  LET offered == {i \in DOMAIN Profiles : provider \in {Unset, Profiles[i].provider}}
      fitting == {i \in offered : Profiles[i].size = size}
  IN  IF size = Unset THEN Default(offered) ELSE Earliest(fitting)

Needs(p) == <<p.ram, p.cpu, p.storage, p.vram>>
Lexicographic(a, b) ==
  \E i \in 1 .. 4 : a[i] < b[i] /\ \A j \in 1 .. i - 1 : a[j] = b[j]

Fits(p) ==
  /\ Hardware.ram >= p.ram /\ Hardware.cpu >= p.cpu
  /\ Hardware.storage >= p.storage /\ Hardware.storage >= p.rom
  /\ p.gpu => Hardware.gpu /\ Hardware.vram >= p.vram

\* _choose_profile_for_hardware: the most demanding one that fits
ForHardware ==
  LET eligible == {i \in DOMAIN Profiles : Fits(Profiles[i])}
  IN  Earliest({i \in eligible : \A j \in eligible :
                  ~ Lexicographic(Needs(Profiles[i]), Needs(Profiles[j]))})

\* An argument that matches nothing raises (0); a variable that does not is passed
\* over.
Chosen(r) ==
  LET byEnvId == IF r.envId = Unset THEN 0 ELSE ById(r.envId)
      byEnvSize == IF r.envProvider = Unset /\ r.envSize = Unset THEN 0
                   ELSE ByProviderSize(r.envProvider, r.envSize)
  IN  IF r.id # Unset THEN {ById(r.id)} \ {0}
      ELSE IF r.provider # Unset \/ r.size # Unset
        THEN {ByProviderSize(r.provider, r.size)} \ {0}
      ELSE IF byEnvId # 0 THEN {byEnvId}
      ELSE IF byEnvSize # 0 THEN {byEnvSize}
      ELSE IF r.interactive THEN DOMAIN Profiles
      ELSE IF r.auto /\ ForHardware # 0 THEN {ForHardware}
      ELSE {Default(DOMAIN Profiles)}

\* choose_permission_profile
ChosenPermissions(r) ==
  LET called(id) == Earliest({i \in DOMAIN PermissionProfiles : PermissionProfiles[i].id = id})
      byEnv == IF r.envPermissions = Unset THEN 0 ELSE called(r.envPermissions)
  IN  IF r.permissions # Unset THEN {called(r.permissions)} \ {0}
      ELSE IF byEnv # 0 THEN {byEnv}
      ELSE IF r.interactivePermissions THEN DOMAIN PermissionProfiles
      ELSE IF called("prompt_once") # 0 THEN {called("prompt_once")} ELSE {1}

-------------------------------------------------------------------------------
Others == Process \ {SetupProcess}
SetupGoes(place) == setup' = [setup EXCEPT !.at = place]
Setup(place) == setup.at = place /\ BetweenCalls(SetupProcess)

\* The units are held back by the stamp, a run by hand is not.
Boot(r) ==
  /\ setup.at = "down" /\ (stamp = NoStamp \/ r.byHand)
  /\ \E i \in Chosen(r), q \in ChosenPermissions(r) :
        setup' = [at |-> "open", asked |-> r, profile |-> i, permissions |-> q,
                  left |-> PermissionProfiles[q].grants, database |-> TRUE,
                  alone |-> \A p \in Others : job[p].at \in {"down", "rest"}]
  /\ UNCHANGED <<registryVars, granted, stamp>>

SetupOpens ==
  /\ setup.at = "open" /\ OpenRegistry(SetupProcess) /\ SetupGoes("download")
  /\ UNCHANGED <<granted, stamp>>

ChosenModel == Profiles[setup.profile].file

Download ==
  /\ Setup("download") /\ Fetch(SetupProcess, ChosenModel) /\ SetupGoes("activate")
  /\ UNCHANGED <<granted, stamp>>

\* mutant: the model becomes the active one only where it is the first
ActivateFirst ==
  /\ Setup("activate") /\ SetupGoes("guardian") /\ UNCHANGED <<granted, stamp>>
  /\ IF \E m \in Model : registry[SetupProcess][m] = "active" THEN UNCHANGED registryVars
     ELSE SetActive(SetupProcess, ChosenModel)

\* set_active raises where the model was not listed
Activate ==
  /\ Setup("activate") /\ SetActive(SetupProcess, ChosenModel) /\ SetupGoes("guardian")
  /\ UNCHANGED <<granted, stamp>>

\* Guardian(): where its database cannot be opened the grants die with the run
OpenGuardian ==
  /\ Setup("guardian")
  /\ \E opened \in BOOLEAN : setup' = [setup EXCEPT !.at = "grant", !.database = opened]
  /\ UNCHANGED <<registryVars, granted, stamp>>

ApplyGrant ==
  /\ Setup("grant") /\ setup.left # <<>>
  /\ setup' = [setup EXCEPT !.left = Tail(@)]
  /\ granted' = IF setup.database THEN granted \cup {Head(setup.left)} ELSE granted
  /\ UNCHANGED <<registryVars, stamp>>

WriteStamp ==
  /\ Setup("grant") /\ setup.left = <<>>
  /\ stamp' = [profile |-> setup.profile, permissions |-> setup.permissions]
  /\ setup' = NotRunning /\ ExitProcess(SetupProcess) /\ UNCHANGED granted

\* An error, or the end of the power
Abandon ==
  /\ setup.at # "down" /\ setup' = NotRunning /\ UNCHANGED <<granted, stamp>>
  /\ IF job[SetupProcess].at = "down" THEN UNCHANGED registryVars
     ELSE ExitProcess(SetupProcess)

SetupContinues == Continue(SetupProcess) /\ UNCHANGED <<setup, granted, stamp>>

OtherCall ==
  /\ \E p \in Others : RegistryCall(p)
  /\ setup' = [setup EXCEPT !.alone =
                  @ /\ (setup.at = "down" \/ UNCHANGED <<disk, registryFile>>)]
  /\ UNCHANGED <<granted, stamp>>

RegistryDropped == DropTornRegistry /\ UNCHANGED <<setup, granted, stamp>>
-------------------------------------------------------------------------------
SetupInit == RegistryInit /\ setup = NotRunning /\ granted = {} /\ stamp = NoStamp

SetupNext ==
  \/ \E r \in Request : Boot(r)
  \/ SetupOpens \/ Download \/ Activate \/ OpenGuardian \/ ApplyGrant \/ WriteStamp
  \/ Abandon \/ SetupContinues \/ OtherCall \/ RegistryDropped

SetupSpec == SetupInit /\ [][SetupNext]_setupVars

-------------------------------------------------------------------------------
ByArgument(r) == {r.id, r.provider, r.size} # {Unset}
FromEnvironment(r) == {r.envId, r.envProvider, r.envSize} # {Unset}

AsAsked(r, p) ==
  /\ r.id # Unset => p.id = r.id
  /\ ByArgument(r) /\ r.id = Unset => r.provider \in {Unset, p.provider} /\ r.size \in {Unset, p.size}
  /\ r.auto /\ ~ r.interactive /\ ~ ByArgument(r) /\ ~ FromEnvironment(r)
       => Fits(p) \/ ~ \E q \in ToSet(Profiles) : Fits(q)

(* When the stamp is written the machine is set up as it says and as it was     *)
(* asked: the profile is the one an argument named, or, where the hardware      *)
(* decides and one fits, one that fits; its model is on the disk, listed and    *)
(* the only active one, unless another process wrote the registry during the    *)
(* run; and every grant of its permission profile is in the database, unless    *)
(* that could not be opened.                                                    *)
StampMeansReady ==
  [][stamp' # stamp =>
       LET profile == Profiles[stamp'.profile]
       IN  /\ AsAsked(setup.asked, profile)
           /\ setup.alone =>
                /\ profile.file \in disk /\ registryFile.kind = "ok"
                /\ {m \in Model : registryFile.entries[m] = "active"} = {profile.file}
           /\ setup.database =>
                ToSet(PermissionProfiles[stamp'.permissions].grants) \subseteq granted]_setupVars
===============================================================================
