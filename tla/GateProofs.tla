------------------------------- MODULE GateProofs -------------------------------
(* Theorems about what a step has to pass, for all values of the constants: the *)
(* guardian, the package skill, the runners and the policy, each by itself.     *)
EXTENDS Guardian, ExecutionPolicy, PackageManager, SkillRunners, FiniteSetTheorems,
        TLAPS

-------------------------------------------------------------------------------
\* The guardian.

PermissionsOK == permissions \in [Skill -> [Capability -> Expiry]] /\ now \in Nat

\* What an earlier day ends in ends earlier.
LEMMA EarlierDay ==
  ASSUME NEW a \in Nat, NEW b \in Nat, a \div HoursPerDay < b \div HoursPerDay
  PROVE  a < b
<1>1. HoursPerDay \in Nat \ {0}
  BY GuardianConstants
<1> QED
  BY <1>1, SMT

LEMMA StaleIsDead ==
  ASSUME NEW e \in Expiry, now \in Nat, Stale(e)
  PROVE  ~ Live(e, now) /\ e # Never
<1>1. e \in Nat
  BY DEF Stale, Expiry, Absent, Never
<1>2. e < now
  BY <1>1, EarlierDay DEF Stale
<1> QED
  BY <1>1, <1>2 DEF Live, Never

LEMMA LaterIsNotLive ==
  ASSUME NEW e \in Expiry, NEW t \in Nat, NEW u \in Nat, t <= u, Live(e, u)
  PROVE  Live(e, t)
  BY DEF Live, Expiry, Absent, Never

LEMMA PermissionStep == ASSUME PermissionsOK, [GuardianNext]_guardianVars
                        PROVE  PermissionsOK' /\ now <= now'
<1>1. CASE PermissionCall /\ UNCHANGED <<persistent, roles, assignments, now>>
  <2>1. ASSUME NEW s \in Skill, NEW c \in Capability, NEW e \in Expiry, WritePermission(s, c, e)
        PROVE  PermissionsOK'
    BY <1>1, <2>1 DEF WritePermission, PermissionsOK
  <2>2. {Never, Absent} \subseteq Expiry /\ \A d \in Durations : now + d \in Expiry
    BY GuardianConstants DEF Expiry, PermissionsOK
  <2>3. CASE Cleanup
    BY <1>1, <2>2, <2>3 DEF Cleanup, PermissionsOK
  <2>4. CASE ReopenGuardian
    BY <1>1, <2>2, <2>4 DEF ReopenGuardian, NoPermissions, PermissionsOK
  <2> QED
    BY <1>1, <2>1, <2>2, <2>3, <2>4 DEF PermissionCall, Grant, GrantFor, Revoke, PermissionsOK
<1>2. CASE RoleCall /\ UNCHANGED <<persistent, permissions, now>>
  BY <1>2 DEF PermissionsOK
<1>3. CASE HourPasses /\ UNCHANGED <<persistent, permissions, roles, assignments>>
  BY <1>3 DEF HourPasses, PermissionsOK
<1>4. CASE UNCHANGED guardianVars
  BY <1>4 DEF guardianVars, PermissionsOK
<1> QED
  BY <1>1, <1>2, <1>3, <1>4 DEF GuardianNext

(* guardian.py:102-212: the answer of check turns to yes for a skill only by a   *)
(* write to a row of that skill, with any rows, roles and times, and a cleanup  *)
(* changes no answer, although sqlite compares the times as text and so by      *)
(* whole days (StaleIsDead).                                                    *)
THEOREM AccessNeedsGrants == GuardianSpec => AccessFollowsGrants
<1>1. GuardianInit => PermissionsOK
  BY DEF GuardianInit, PermissionsOK, NoPermissions, Expiry
<1>2. PermissionsOK /\ [GuardianNext]_guardianVars => PermissionsOK'
  BY PermissionStep
<1>3. ASSUME PermissionsOK, [GuardianNext]_guardianVars, NEW s \in Skill, NEW a \in Capability
      PROVE  /\ ~ Allowed(s, a) /\ Allowed(s, a)'
                  => \E c \in {a, AnyAction, NoneAction} :
                       /\ permissions'[s][c] # permissions[s][c]
                       /\ permissions'[s][c] # Absent
             /\ Cleanup /\ UNCHANGED now => (Allowed(s, a) <=> Allowed(s, a)')
  <2>1. PermissionsOK' /\ now <= now' /\ now \in Nat /\ now' \in Nat
    BY <1>3, PermissionStep DEF PermissionsOK
  <2>2. \A c \in {a, AnyAction, NoneAction} :
          c \in Capability /\ permissions[s][c] \in Expiry /\ permissions'[s][c] \in Expiry
    BY <1>3, <2>1, GuardianConstants DEF PermissionsOK
  <2>3. ASSUME ~ Allowed(s, a), Allowed(s, a)'
        PROVE  \E c \in {a, AnyAction, NoneAction} :
                 permissions'[s][c] # permissions[s][c] /\ permissions'[s][c] # Absent
    <3>1. PICK c \in {a, AnyAction, NoneAction} : Live(permissions'[s][c], now')
      BY <2>3 DEF Allowed
    <3>2. ~ Live(permissions[s][c], now)
      BY <2>3 DEF Allowed
    <3>3. permissions'[s][c] # permissions[s][c]
      BY <2>1, <2>2, <3>1, <3>2, LaterIsNotLive
    <3>4. permissions'[s][c] # Absent
      BY <3>1 DEF Live, Absent, Never
    <3> QED
      BY <3>3, <3>4
  <2>4. ASSUME Cleanup, UNCHANGED now
        PROVE  Allowed(s, a) <=> Allowed(s, a)'
    <3>1. ASSUME NEW c \in {a, AnyAction, NoneAction}
          PROVE  Live(permissions[s][c], now) <=> Live(permissions'[s][c], now)
      <4>1. permissions'[s][c] = IF Stale(permissions[s][c]) THEN Absent ELSE permissions[s][c]
        BY <2>2, <2>4 DEF Cleanup
      <4>2. Stale(permissions[s][c]) => ~ Live(permissions[s][c], now)
        BY <2>1, <2>2, StaleIsDead
      <4>3. ~ Live(Absent, now)
        BY DEF Live, Absent, Never
      <4> QED
        BY <4>1, <4>2, <4>3
    <3> QED
      BY <2>4, <3>1 DEF Allowed
  <2> QED
    BY <2>3, <2>4
<1>4. PermissionsOK /\ [GuardianNext]_guardianVars =>
        [\A s \in Skill, a \in Capability :
           /\ ~ Allowed(s, a) /\ Allowed(s, a)'
                => \E c \in {a, AnyAction, NoneAction} :
                     /\ permissions'[s][c] # permissions[s][c]
                     /\ permissions'[s][c] # Absent
           /\ Cleanup /\ UNCHANGED now => (Allowed(s, a) <=> Allowed(s, a)')]_guardianVars
  BY <1>3
<1> QED
  BY <1>1, <1>2, <1>4, PTL DEF GuardianSpec, AccessFollowsGrants

(* Rows, roles and assignments keep their types: guardian.py through any calls, *)
(* cleanups and restarts.                                                       *)
THEOREM GuardianIsTyped == GuardianSpec => []GuardianTypeOK
<1>1. GuardianInit => GuardianTypeOK
  BY DEF GuardianInit, GuardianTypeOK, NoPermissions, Expiry
<1>2. ASSUME GuardianTypeOK, [GuardianNext]_guardianVars
      PROVE  GuardianTypeOK'
  <2>1. PermissionsOK'
    BY <1>2, PermissionStep DEF PermissionsOK, GuardianTypeOK
  <2>2. ASSUME NEW r \in Role, NEW s \in Skill, NEW c \in Capability,
               CreateRole(r) \/ AssignRole(r, s, c)
        PROVE  roles' \subseteq Role /\ assignments' \subseteq Role \X Skill \X Capability
    <3>1. <<r, s, c>> \in Role \X Skill \X Capability
      OBVIOUS
    <3> QED
      BY <1>2, <2>2, <3>1 DEF CreateRole, AssignRole, GuardianTypeOK
  <2>3. ASSUME NEW r \in Role, CreateRole(r)
        PROVE  roles' \subseteq Role /\ assignments' \subseteq Role \X Skill \X Capability
    BY <1>2, <2>3 DEF CreateRole, GuardianTypeOK
  <2>4. roles' \subseteq Role /\ assignments' \subseteq Role \X Skill \X Capability
    BY <1>2, <2>2, <2>3 DEF GuardianNext, RoleCall, GuardianTypeOK, guardianVars
  <2>5. persistent' \in BOOLEAN
    BY <1>2 DEF GuardianNext, GuardianTypeOK, guardianVars
  <2> QED
    BY <2>1, <2>4, <2>5 DEF GuardianTypeOK, PermissionsOK
<1> QED
  BY <1>1, <1>2, PTL DEF GuardianSpec

-------------------------------------------------------------------------------
\* The package skill.

LEMMA VerdictOk ==
  ASSUME NEW action \in {"install", "remove", "upgrade"}, NEW name, NEW confirmed \in BOOLEAN,
         Verdict(action, name, confirmed) = "ok"
  PROVE  confirmed /\ (Resolved[name] # NoPackage => Permitted(Resolved[name]))
<1>1. confirmed
  BY DEF Verdict
<1>2. ASSUME Resolved[name] # NoPackage
      PROVE  Permitted(Resolved[name])
  <2>1. backend # "none" /\ PolicyError(name, Resolved[name]) = "ok"
    BY <1>1, <1>2 DEF Verdict
  <2> QED
    BY <2>1 DEF PolicyError, Permitted
<1> QED
  BY <1>1, <1>2

(* package_manager_skill.py:123-257: a package changes in a confirmed call      *)
(* only, an upgrade of everything or one whose argument passed the lists and is *)
(* or reaches the package, whatever alias it is asked for by, whatever the      *)
(* package manager adds to it and however the command ends.                     *)
THEOREM ChangesWerePermitted == PackageSpec => ChangesArePermitted
<1> DEFINE Reason(p) ==
             /\ answer'.confirmed
             /\ IF answer'.package = NoPackage THEN answer'.action = "upgrade"
                ELSE Permitted(answer'.package)
                     /\ p \in Along[answer'.package] \cup {answer'.package}
<1>1. ASSUME NEW p \in Package, [PackageNext]_packageVars, installed'[p] # installed[p]
      PROVE  Reason(p)
  <2>1. ASSUME NEW name \in Name, NEW confirmed \in BOOLEAN,
               NEW action \in {"install", "remove", "upgrade"},
               ChangePackage(action, name, confirmed)
        PROVE  Reason(p)
    <3>1. PICK result \in {"ok", "COMMAND"} :
            /\ Command(action, Resolved[name], Along[Resolved[name]], result)
            /\ Answers(action, name, confirmed, result)
      BY <2>1 DEF ChangePackage
    <3>2. p \in Along[Resolved[name]] \cup {Resolved[name]}
      BY <1>1, <3>1 DEF Command
    <3>3. Verdict(action, name, confirmed) = "ok" /\ Resolved[name] # NoPackage
      BY <2>1 DEF ChangePackage
    <3>4. confirmed /\ Permitted(Resolved[name])
      BY <3>3, VerdictOk
    <3> QED
      BY <3>1, <3>2, <3>3, <3>4 DEF Answers
  <2>2. ASSUME NEW name \in Name, NEW confirmed \in BOOLEAN, UpgradeAll(name, confirmed)
        PROVE  Reason(p)
    <3>1. \E result \in {"ok", "COMMAND"} : Answers("upgrade", name, confirmed, result)
      BY <2>2 DEF UpgradeAll
    <3>2. Verdict("upgrade", name, confirmed) = "ok" /\ Resolved[name] = NoPackage
      BY <2>2 DEF UpgradeAll
    <3>3. confirmed
      BY <3>2, VerdictOk
    <3> QED
      BY <3>1, <3>2, <3>3 DEF Answers
  <2> QED
    BY <1>1, <2>1, <2>2 DEF PackageNext, Refuse, Look, ListInstalled, packageVars
<1>2. [PackageNext]_packageVars =>
        [\A p \in Package : installed'[p] # installed[p] => Reason(p)]_packageVars
  BY <1>1
<1> QED
  BY <1>2, PTL DEF PackageSpec, ChangesArePermitted

Answer ==
  [action : {"none", "resolve", "search", "simulate_install", "install", "remove", "upgrade",
             "list_installed"},
   package : Argument \cup {NoPackage}, confirmed : BOOLEAN,
   result : Fault \cup {"ok"}, packages : SUBSET Package]

(* What a call of the skill may answer.                                        *)
LEMMA AnswersAreTyped ==
  ASSUME NEW name \in Name, NEW confirmed \in BOOLEAN, NEW result \in Fault \cup {"ok"},
         NEW action \in {"resolve", "search", "simulate_install", "install", "remove",
                         "upgrade"},
         Answers(action, name, confirmed, result)
  PROVE  answer' \in Answer
<1>1. Resolved[name] \in Argument \cup {NoPackage}
  BY PackageConstants
<1> QED
  BY <1>1 DEF Answers, Answer

LEMMA VerdictsAreFaults ==
  ASSUME NEW action, NEW name, NEW confirmed
  PROVE  Verdict(action, name, confirmed) \in Fault \cup {"ok"}
  BY DEF Verdict, PolicyError, Fault

LEMMA CallsAreTyped ==
  ASSUME NEW name \in Name, NEW confirmed \in BOOLEAN,
         NEW action \in {"resolve", "search", "simulate_install", "install", "remove",
                         "upgrade"},
         \/ Refuse(action, name, confirmed)
         \/ Look(action, name)
         \/ ChangePackage(action, name, confirmed)
         \/ UpgradeAll(name, confirmed)
  PROVE  answer' \in Answer
<1>1. {"ok", "COMMAND"} \subseteq Fault \cup {"ok"} /\ FALSE \in BOOLEAN
  BY DEF Fault
<1>2. CASE Refuse(action, name, confirmed)
  BY <1>2, VerdictsAreFaults, AnswersAreTyped DEF Refuse
<1>3. CASE Look(action, name)
  BY <1>1, <1>3, AnswersAreTyped DEF Look
<1>4. CASE ChangePackage(action, name, confirmed)
  BY <1>1, <1>4, AnswersAreTyped DEF ChangePackage
<1>5. CASE UpgradeAll(name, confirmed)
  BY <1>1, <1>5, AnswersAreTyped DEF UpgradeAll
<1> QED
  BY <1>2, <1>3, <1>4, <1>5

(* The system and the answers keep their types, whatever the commands leave.    *)
THEOREM PackagesAreTyped == PackageSpec => []PackageTypeOK
<1>1. PackageInit => PackageTypeOK
  BY DEF PackageInit, PackageTypeOK, Condition, NoAnswer
<1>2. ASSUME PackageTypeOK, [PackageNext]_packageVars
      PROVE  PackageTypeOK'
  <2>1. answer \in Answer
    BY <1>2 DEF PackageTypeOK, Answer
  <2>2. ASSUME NEW shown \in SUBSET Package, ListInstalled(shown)
        PROVE  answer' \in Answer
    <3>1. NoAnswer \in Answer
      BY DEF NoAnswer, Answer
    <3>2. {"NO_PACKAGE_MANAGER", "COMMAND", "ok"} \subseteq Fault \cup {"ok"}
      BY DEF Fault
    <3>3. ASSUME NEW result \in Fault \cup {"ok"}, NEW packages \in SUBSET Package
          PROVE  /\ [NoAnswer EXCEPT !.action = "list_installed", !.result = result] \in Answer
                 /\ [NoAnswer EXCEPT !.action = "list_installed", !.packages = packages]
                      \in Answer
      BY <3>3 DEF NoAnswer, Answer
    <3>4. (IF backend = "none" THEN "NO_PACKAGE_MANAGER" ELSE "COMMAND") \in Fault \cup {"ok"}
      BY <3>2
    <3>5. ASSUME NEW names, names \subseteq shown,
                 answer' = [NoAnswer EXCEPT !.action = "list_installed", !.packages = names]
          PROVE  answer' \in Answer
      BY <2>2, <3>2, <3>3, <3>5
    <3>6. ASSUME NEW fault \in {IF backend = "none" THEN "NO_PACKAGE_MANAGER" ELSE "COMMAND"},
                 answer' = [NoAnswer EXCEPT !.action = "list_installed", !.result = fault]
          PROVE  answer' \in Answer
      BY <3>3, <3>4, <3>6
    <3>7. \/ \E fault \in {IF backend = "none" THEN "NO_PACKAGE_MANAGER" ELSE "COMMAND"} :
              answer' = [NoAnswer EXCEPT !.action = "list_installed", !.result = fault]
          \/ \E names \in SUBSET shown :
              answer' = [NoAnswer EXCEPT !.action = "list_installed", !.packages = names]
      BY <2>2 DEF ListInstalled
    <3> QED
      BY <3>5, <3>6, <3>7
  <2>3. answer' \in Answer
    BY <1>2, <2>1, <2>2, CallsAreTyped DEF PackageNext, packageVars
  <2>4. installed' \in [Package -> Condition]
    BY <1>2, ZenonT(40) DEF PackageNext, packageVars, PackageTypeOK, Refuse, Look, ChangePackage, UpgradeAll,
                ListInstalled, Command
  <2>5. lists' \in {"stale", "fresh"} /\ backend' \in Backend
    BY <1>2, ZenonT(40) DEF PackageNext, packageVars, PackageTypeOK, Refuse, Look, ChangePackage, UpgradeAll,
                ListInstalled
  <2> QED
    BY <2>3, <2>4, <2>5 DEF PackageTypeOK, Answer
<1> QED
  BY <1>1, <1>2, PTL DEF PackageSpec

-------------------------------------------------------------------------------
\* The runners.

Place == {"idle", "verify", "scan", "prepare", "container", "skill"}
Dispatch == [at : Place, runs : Container \cup {NoContainer}, checked : Image \cup {NoImage}]
Started == [state : {"none", "running", "gone"}, image : Image \cup {NoImage},
            checked : Image \cup {NoImage}, reported : {"none", "ok", "failed", "timeout", "lost"}]

RunnerTypes ==
  /\ settings \in Settings /\ image \in Image /\ sandbox \subseteq Worker
  /\ dispatch \in [Worker -> Dispatch] /\ container \in [Container -> Started]

(* A worker that waits has its sandbox directory, waits for a container that    *)
(* was started and not given up, and waits for it alone; a container that runs  *)
(* and was not given up is waited for.                                          *)
WaitInv ==
  /\ \A w \in Worker : dispatch[w].at = "container" =>
       /\ w \in sandbox /\ dispatch[w].runs \in Container
       /\ container[dispatch[w].runs].state # "none"
       /\ container[dispatch[w].runs].reported = "none"
  /\ \A v, w \in Worker :
       dispatch[v].at = "container" /\ dispatch[w].at = "container"
         /\ dispatch[v].runs = dispatch[w].runs => v = w
  /\ \A c \in Container : container[c].state = "running" /\ container[c].reported = "none" =>
       \E w \in Worker : dispatch[w].at = "container" /\ dispatch[w].runs = c
  /\ \A c \in Container : container[c].state = "running" => container[c].reported # "ok"

\* What was looked at before a start had passed the settings, which do not change.
VettedInv ==
  /\ \A w \in Worker : dispatch[w].at \in {"scan", "prepare"} => Verified(dispatch[w].checked)
  /\ \A c \in Container : container[c].state # "none" => Verified(container[c].checked)

RunnerInv == RunnerTypes /\ WaitInv /\ VettedInv

LEMMA RunnerBegins == RunnerInit => RunnerInv
<1>1. NoDispatch \in Dispatch /\ NoDispatch.at = "idle"
  BY DEF NoDispatch, Dispatch, Place
<1>2. NotStarted \in Started /\ NotStarted.state = "none"
  BY DEF NotStarted, Started
<1> QED
  BY <1>1, <1>2 DEF RunnerInit, RunnerInv, RunnerTypes, WaitInv, VettedInv

\* A worker moves on, or ends its call, without a container of its own.
LEMMA WorkerStep ==
  ASSUME RunnerInv, NEW w \in Worker, NEW d \in Dispatch,
         dispatch' = [dispatch EXCEPT ![w] = d], UNCHANGED <<settings, container>>,
         image' \in Image, sandbox' \subseteq Worker, \A v \in Worker \ {w} : v \in sandbox => v \in sandbox',
         dispatch[w].at # "container" \/ container[dispatch[w].runs].state = "gone",
         d.at # "container", d.at \in {"scan", "prepare"} => Verified(d.checked)
  PROVE  RunnerInv'
<1>1. /\ dispatch' \in [Worker -> Dispatch] /\ dispatch'[w] = d
      /\ \A v \in Worker : v # w => dispatch'[v] = dispatch[v]
  BY DEF RunnerInv, RunnerTypes
<1>2. RunnerTypes'
  BY <1>1 DEF RunnerInv, RunnerTypes
<1>3. WaitInv'
  <2>1. \A v \in Worker : dispatch'[v].at = "container" => v # w /\ dispatch'[v] = dispatch[v]
    BY <1>1
  <2>2. ASSUME NEW c \in Container, container[c].state = "running", container[c].reported = "none"
        PROVE  \E v \in Worker : dispatch'[v].at = "container" /\ dispatch'[v].runs = c
    <3>1. PICK v \in Worker : dispatch[v].at = "container" /\ dispatch[v].runs = c
      BY <2>2 DEF RunnerInv, WaitInv
    <3>2. v # w
      BY <2>2, <3>1
    <3> QED
      BY <1>1, <3>1, <3>2
  <2> QED
    BY <2>1, <2>2 DEF RunnerInv, WaitInv
<1>4. \A i : Verified(i) <=> Verified(i)'
  BY DEF Verified
<1>5. VettedInv'
  BY <1>1, <1>4 DEF RunnerInv, VettedInv
<1> QED
  BY <1>2, <1>3, <1>5 DEF RunnerInv

LEMMA StartStep ==
  ASSUME RunnerInv, NEW w \in Worker, StartContainer(w)
  PROVE  RunnerInv'
<1>1. PICK c \in Container :
        /\ container[c].state = "none"
        /\ container' = [container EXCEPT ![c] = [state |-> "running", image |-> image,
                               checked |-> dispatch[w].checked, reported |-> "none"]]
        /\ dispatch' = [dispatch EXCEPT ![w].at = "container", ![w].runs = c]
  BY DEF StartContainer
<1>2. /\ dispatch[w].at = "prepare" /\ w \in sandbox /\ UNCHANGED <<settings, image, sandbox>>
      /\ image \in Image /\ dispatch[w] \in Dispatch /\ dispatch[w].checked \in Image \cup {NoImage}
  <2>1. dispatch[w] \in Dispatch /\ image \in Image
    BY DEF RunnerInv, RunnerTypes
  <2> QED
    BY <2>1 DEF StartContainer, Dispatch
<1>3. /\ container' \in [Container -> Started]
      /\ container'[c].state = "running" /\ container'[c].reported = "none"
      /\ container'[c].checked = dispatch[w].checked
      /\ \A e \in Container : e # c => container'[e] = container[e]
  BY <1>1, <1>2 DEF RunnerInv, RunnerTypes, Started
<1>4. /\ dispatch' \in [Worker -> Dispatch]
      /\ dispatch'[w].at = "container" /\ dispatch'[w].runs = c
      /\ \A v \in Worker : v # w => dispatch'[v] = dispatch[v]
  BY <1>1, <1>2 DEF RunnerInv, RunnerTypes, Dispatch, Place
<1>5. RunnerTypes'
  BY <1>2, <1>3, <1>4 DEF RunnerInv, RunnerTypes
<1>6. \A v \in Worker : dispatch[v].at = "container" => v # w /\ dispatch[v].runs # c
  BY <1>1, <1>2 DEF RunnerInv, WaitInv
<1>7. WaitInv'
  <2>1. \A v \in Worker : dispatch'[v].at = "container" =>
          /\ v \in sandbox' /\ dispatch'[v].runs \in Container
          /\ container'[dispatch'[v].runs].state # "none"
          /\ container'[dispatch'[v].runs].reported = "none"
    BY <1>2, <1>3, <1>4, <1>6 DEF RunnerInv, WaitInv
  <2>2. \A u, v \in Worker :
          dispatch'[u].at = "container" /\ dispatch'[v].at = "container"
            /\ dispatch'[u].runs = dispatch'[v].runs => u = v
    BY <1>4, <1>6 DEF RunnerInv, WaitInv
  <2>3. ASSUME NEW e \in Container, container'[e].state = "running", container'[e].reported = "none"
        PROVE  \E v \in Worker : dispatch'[v].at = "container" /\ dispatch'[v].runs = e
    <3>1. CASE e = c
      BY <1>4, <3>1
    <3>2. CASE e # c
      <4>1. PICK v \in Worker : dispatch[v].at = "container" /\ dispatch[v].runs = e
        BY <1>3, <2>3, <3>2 DEF RunnerInv, WaitInv
      <4> QED
        BY <1>4, <1>6, <4>1
    <3> QED
      BY <3>1, <3>2
  <2>4. \A e \in Container : container'[e].state = "running" => container'[e].reported # "ok"
    BY <1>3 DEF RunnerInv, WaitInv
  <2> QED
    BY <2>1, <2>2, <2>3, <2>4 DEF WaitInv
<1>8. \A i : Verified(i) <=> Verified(i)'
  BY <1>2 DEF Verified
<1>9. VettedInv'
  BY <1>2, <1>3, <1>4, <1>8 DEF RunnerInv, VettedInv
<1> QED
  BY <1>5, <1>7, <1>9 DEF RunnerInv

\* A container ends, or its worker reports on it.
LEMMA ContainerStep ==
  ASSUME RunnerInv, NEW c \in Container, NEW e \in Started,
         container' = [container EXCEPT ![c] = e], UNCHANGED <<settings, image>>,
         container[c].state # "none", e.state # "none", e.checked = container[c].checked,
         \/ e.state = "gone" /\ e.reported = container[c].reported /\ UNCHANGED <<dispatch, sandbox>>
         \/ /\ e.reported # "none" /\ (e.state = "running" => e.reported # "ok")
            /\ \E w \in Worker : /\ dispatch[w].at = "container" /\ dispatch[w].runs = c
                                 /\ Returns(w) /\ sandbox' = sandbox \ {w}
  PROVE  RunnerInv'
<1>1. /\ container' \in [Container -> Started] /\ container'[c] = e
      /\ \A d \in Container : d # c => container'[d] = container[d]
  BY DEF RunnerInv, RunnerTypes
<1>2. \A i : Verified(i) <=> Verified(i)'
  BY DEF Verified
<1>3. CASE e.state = "gone" /\ e.reported = container[c].reported /\ UNCHANGED <<dispatch, sandbox>>
  <2>1. RunnerTypes'
    BY <1>1, <1>3 DEF RunnerInv, RunnerTypes
  <2>2. WaitInv'
    BY <1>1, <1>3 DEF RunnerInv, WaitInv
  <2>3. VettedInv'
    BY <1>1, <1>2, <1>3 DEF RunnerInv, VettedInv
  <2> QED
    BY <2>1, <2>2, <2>3 DEF RunnerInv
<1>4. CASE /\ e.reported # "none" /\ (e.state = "running" => e.reported # "ok")
           /\ \E w \in Worker : /\ dispatch[w].at = "container" /\ dispatch[w].runs = c
                                /\ Returns(w) /\ sandbox' = sandbox \ {w}
  <2>1. PICK w \in Worker : /\ dispatch[w].at = "container" /\ dispatch[w].runs = c
                            /\ Returns(w) /\ sandbox' = sandbox \ {w}
    BY <1>4
  <2>2. NoDispatch \in Dispatch /\ NoDispatch.at = "idle"
    BY DEF NoDispatch, Dispatch, Place
  <2>3. /\ dispatch' \in [Worker -> Dispatch] /\ dispatch'[w].at = "idle"
        /\ \A v \in Worker : v # w => dispatch'[v] = dispatch[v]
    BY <2>1, <2>2 DEF Returns, RunnerInv, RunnerTypes
  <2>4. RunnerTypes'
    BY <1>1, <2>1, <2>3 DEF RunnerInv, RunnerTypes
  <2>5. \A v \in Worker : dispatch'[v].at = "container" =>
          v # w /\ dispatch'[v] = dispatch[v] /\ dispatch[v].runs # c
    BY <2>1, <2>3 DEF RunnerInv, WaitInv
  <2>6. WaitInv'
    <3>1. ASSUME NEW d \in Container, container'[d].state = "running",
                 container'[d].reported = "none"
          PROVE  \E v \in Worker : dispatch'[v].at = "container" /\ dispatch'[v].runs = d
      <4>1. d # c
        BY <1>1, <1>4, <3>1
      <4>2. PICK v \in Worker : dispatch[v].at = "container" /\ dispatch[v].runs = d
        BY <1>1, <3>1, <4>1 DEF RunnerInv, WaitInv
      <4> QED
        BY <2>1, <2>3, <4>1, <4>2
    <3>2. \A v \in Worker : dispatch'[v].at = "container" =>
            /\ v \in sandbox' /\ dispatch'[v].runs \in Container
            /\ container'[dispatch'[v].runs].state # "none"
            /\ container'[dispatch'[v].runs].reported = "none"
      BY <1>1, <2>1, <2>5 DEF RunnerInv, WaitInv
    <3>3. \A d \in Container : container'[d].state = "running" => container'[d].reported # "ok"
      BY <1>1, <1>4 DEF RunnerInv, WaitInv
    <3> QED
      BY <2>5, <3>1, <3>2, <3>3 DEF RunnerInv, WaitInv
  <2>7. VettedInv'
    BY <1>1, <1>2, <2>3 DEF RunnerInv, VettedInv
  <2> QED
    BY <2>4, <2>6, <2>7 DEF RunnerInv
<1> QED
  BY <1>3, <1>4

LEMMA RunnerStep == ASSUME RunnerInv, [RunnerNext]_runnerVars PROVE RunnerInv'
<1>1. /\ RunnerTypes /\ NoDispatch \in Dispatch /\ NoDispatch.at = "idle"
      /\ \A w \in Worker : dispatch[w] \in Dispatch
  BY DEF NoDispatch, Dispatch, Place, RunnerInv, RunnerTypes
(* The steps of a worker that neither start a container nor give one up *)
<1>2. ASSUME NEW w \in Worker, NEW place \in Place \ {"container"}, Goes(w, place),
             UNCHANGED <<settings, image, container, sandbox>>, dispatch[w].at # "container",
             place \in {"scan", "prepare"} => Verified(dispatch[w].checked)
      PROVE  RunnerInv'
  <2> DEFINE d == [dispatch[w] EXCEPT !.at = place]
  <2>1. d \in Dispatch /\ d.at = place /\ d.checked = dispatch[w].checked
    BY <1>1 DEF Dispatch
  <2>2. dispatch' = [dispatch EXCEPT ![w] = d]
    BY <1>1, <1>2 DEF Goes, RunnerTypes
  <2>3. image' \in Image /\ sandbox' \subseteq Worker
    BY <1>1, <1>2 DEF RunnerTypes
  <2> HIDE DEF d
  <2> QED
    BY <1>2, <2>1, <2>2, <2>3, WorkerStep
<1>3. ASSUME NEW w \in Worker, Returns(w), UNCHANGED <<settings, image, container>>,
             sandbox' = sandbox \/ sandbox' = sandbox \ {w},
             dispatch[w].at # "container" \/ container[dispatch[w].runs].state = "gone"
      PROVE  RunnerInv'
  <2>1. image' \in Image /\ sandbox' \subseteq Worker
        /\ \A v \in Worker \ {w} : v \in sandbox => v \in sandbox'
    BY <1>1, <1>3 DEF RunnerTypes
  <2>2. dispatch' = [dispatch EXCEPT ![w] = NoDispatch]
    BY <1>3 DEF Returns
  <2> QED
    BY <1>1, <1>3, <2>1, <2>2, WorkerStep
<1>4. ASSUME NEW w \in Worker, DispatchInProcess(w) \/ DispatchToContainer(w) \/ EndInProcess(w)
      PROVE  RunnerInv'
  BY <1>2, <1>3, <1>4 DEF DispatchInProcess, DispatchToContainer, EndInProcess, Place
<1>5. ASSUME NEW w \in Worker, VerifyImage(w)
      PROVE  RunnerInv'
  <2> DEFINE d == [dispatch[w] EXCEPT !.at = "scan", !.checked = image]
  <2>1. CASE Verified(image)
    <3>1. image \in Image /\ dispatch' = [dispatch EXCEPT ![w] = d]
          /\ dispatch[w].at = "verify" /\ UNCHANGED <<settings, image, container, sandbox>>
      BY <1>1, <1>5, <2>1 DEF VerifyImage, RunnerTypes
    <3>2. d \in Dispatch /\ d.at = "scan" /\ d.checked = image
      BY <1>1, <3>1 DEF Dispatch, Place
    <3>3. image' \in Image /\ sandbox' \subseteq Worker
      BY <1>1, <3>1 DEF RunnerTypes
    <3> HIDE DEF d
    <3> QED
      BY <2>1, <3>1, <3>2, <3>3, WorkerStep
  <2>2. CASE ~ Verified(image)
    BY <1>3, <1>5, <2>2 DEF VerifyImage
  <2> QED
    BY <2>1, <2>2
<1>6. ASSUME NEW w \in Worker, ScanImage(w)
      PROVE  RunnerInv'
  <2>1. Verified(dispatch[w].checked)
    BY <1>6 DEF ScanImage, RunnerInv, VettedInv
  <2> QED
    BY <1>2, <1>3, <1>6, <2>1 DEF ScanImage, Place
<1>7. ASSUME NEW w \in Worker, PrepareSandbox(w)
      PROVE  RunnerInv'
  <2>1. /\ dispatch[w].at = "prepare" /\ sandbox' = sandbox \cup {w}
        /\ UNCHANGED <<settings, image, dispatch, container>>
    BY <1>7 DEF PrepareSandbox
  <2>2. Verified(dispatch[w].checked) /\ dispatch' = [dispatch EXCEPT ![w] = dispatch[w]]
    BY <1>1, <2>1 DEF RunnerInv, VettedInv, RunnerTypes
  <2>3. image' \in Image /\ sandbox' \subseteq Worker
    BY <1>1, <2>1 DEF RunnerTypes
  <2> QED
    BY <1>1, <2>1, <2>2, <2>3, WorkerStep
<1>8. ASSUME NEW w \in Worker, FailToStart(w)
      PROVE  RunnerInv'
  BY <1>3, <1>8 DEF FailToStart
(* A worker reports on its container, which ended or goes on *)
<1>9. ASSUME NEW w \in Worker, ReadContainer(w) \/ ClientFails(w) \/ ContainerTimesOut(w)
      PROVE  RunnerInv'
  <2> DEFINE c == dispatch[w].runs
  <2>1. /\ dispatch[w].at = "container" /\ sandbox' = sandbox \ {w} /\ Returns(w)
        /\ UNCHANGED <<settings, image>>
    BY <1>9 DEF ReadContainer, ClientFails, ContainerTimesOut, Reports
  <2>2. c \in Container /\ container[c].state # "none" /\ container[c] \in Started
    BY <1>1, <2>1 DEF RunnerInv, WaitInv, RunnerTypes
  <2> DEFINE With(state, reported) ==
               [container[c] EXCEPT !.state = state, !.reported = reported]
  <2>3. \E state \in {"running", "gone"}, reported \in {"ok", "failed", "timeout"} :
          /\ state = "running" => reported # "ok"
          /\ container' = [container EXCEPT ![c] = With(state, reported)]
    <3>1. container[c] = [container[c] EXCEPT !.state = container[c].state]
      BY <2>2 DEF Started
    <3>2. ASSUME NEW reported \in {"ok", "failed"},
                 container' = [container EXCEPT ![c].reported = reported]
          PROVE  container' = [container EXCEPT ![c] = With(container[c].state, reported)]
      BY <1>1, <2>2, <3>1, <3>2 DEF RunnerTypes, Started
    <3>3. CASE ReadContainer(w)
      BY <3>2, <3>3 DEF ReadContainer, Reports
    <3>4. CASE ClientFails(w)
      BY <3>2, <3>4 DEF ClientFails, Reports
    <3>5. CASE ContainerTimesOut(w)
      BY <1>1, <2>2, <3>5 DEF ContainerTimesOut, RunnerTypes
    <3> QED
      BY <1>9, <3>3, <3>4, <3>5
  <2>4. PICK state \in {"running", "gone"}, reported \in {"ok", "failed", "timeout"} :
          /\ state = "running" => reported # "ok"
          /\ container' = [container EXCEPT ![c] = With(state, reported)]
    BY <2>3
  <2> DEFINE e == With(state, reported)
  <2>5. /\ e \in Started /\ e.state = state /\ e.reported = reported
        /\ e.checked = container[c].checked
    BY <2>2 DEF Started
  <2>6. container' = [container EXCEPT ![c] = e]
    BY <2>4
  <2> HIDE DEF e
  <2> QED
    BY <2>1, <2>2, <2>4, <2>5, <2>6, ContainerStep
<1>10. ASSUME NEW c \in Container, ContainerEnds(c)
       PROVE  RunnerInv'
  <2> DEFINE e == [container[c] EXCEPT !.state = "gone"]
  <2>1. /\ container[c].state = "running" /\ container' = [container EXCEPT ![c] = e]
        /\ container[c] \in Started /\ UNCHANGED <<settings, image, dispatch, sandbox>>
    BY <1>1, <1>10 DEF ContainerEnds, RunnerTypes
  <2>2. /\ e \in Started /\ e.state = "gone" /\ e.reported = container[c].reported
        /\ e.checked = container[c].checked
    BY <2>1 DEF Started
  <2> HIDE DEF e
  <2> QED
    BY <2>1, <2>2, ContainerStep
<1>11. ASSUME NEW i \in Image, MoveTag(i)
       PROVE  RunnerInv'
  BY <1>11 DEF MoveTag, RunnerInv, RunnerTypes, WaitInv, VettedInv, Verified
<1>12. CASE RunnerExits
  <2>1. /\ dispatch' \in [Worker -> Dispatch] /\ \A w \in Worker : dispatch'[w].at = "idle"
        /\ sandbox' = {} /\ UNCHANGED <<settings, image>>
    BY <1>1, <1>12 DEF RunnerExits
  <2>2. ASSUME NEW c \in Container
        PROVE  /\ container'[c] \in Started /\ container'[c].checked = container[c].checked
               /\ container'[c].state = container[c].state
               /\ container'[c].state = "running" => container'[c].reported = "lost"
    <3>1. container[c] \in Started
      BY <1>1 DEF RunnerTypes
    <3>2. container'[c] = IF container[c].state = "running"
                          THEN [container[c] EXCEPT !.reported = "lost"] ELSE container[c]
      BY <1>12 DEF RunnerExits
    <3> QED
      BY <3>1, <3>2 DEF Started
  <2>3. container' \in [Container -> Started]
    BY <1>12, <2>2 DEF RunnerExits
  <2>4. RunnerTypes'
    BY <1>1, <2>1, <2>3 DEF RunnerTypes
  <2>5. WaitInv'
    BY <2>1, <2>2 DEF WaitInv
  <2>6. VettedInv'
    <3>1. \A i : Verified(i) <=> Verified(i)'
      BY <2>1 DEF Verified
    <3> QED
      BY <2>1, <2>2, <3>1 DEF RunnerInv, VettedInv
  <2> QED
    BY <2>4, <2>5, <2>6 DEF RunnerInv
<1>13. CASE UNCHANGED runnerVars
  BY <1>13 DEF runnerVars, RunnerInv, RunnerTypes, WaitInv, VettedInv, Verified
<1> QED
  BY <1>4, <1>5, <1>6, <1>7, <1>8, <1>9, <1>10, <1>11, <1>12, <1>13, StartStep DEF RunnerNext

LEMMA RunnerInvariant == RunnerSpec => []RunnerInv
<1>1. RunnerInv /\ [RunnerNext]_runnerVars => RunnerInv'
  BY RunnerStep
<1> QED
  BY <1>1, RunnerBegins, PTL DEF RunnerSpec

(* container_runner.py:174-219: while a container runs, its step is waited for  *)
(* by exactly one worker, with its sandbox directory, or was reported, and not  *)
(* as a success, for any number of workers, containers and images.              *)
THEOREM StragglersAreKnown == RunnerSpec => []StragglersAreReported
<1>1. ASSUME RunnerInv, NEW c \in Container, container[c].state = "running",
             container[c].reported = "none"
      PROVE  Cardinality(Waiting(c)) = 1 /\ Waiting(c) \subseteq sandbox
  <2>1. PICK w \in Worker : dispatch[w].at = "container" /\ dispatch[w].runs = c
    BY <1>1 DEF RunnerInv, WaitInv
  <2>2. Waiting(c) = {w}
    BY <1>1, <2>1 DEF Waiting, RunnerInv, WaitInv
  <2>3. w \in sandbox
    BY <1>1, <2>1 DEF RunnerInv, WaitInv
  <2> QED
    BY <2>2, <2>3, FS_Singleton
<1>2. RunnerInv => StragglersAreReported
  BY <1>1 DEF StragglersAreReported, RunnerInv, WaitInv
<1> QED
  BY <1>2, RunnerInvariant, PTL

(* container_security.py:103-197 before container_runner.py:199: whatever runs  *)
(* in a container is listed, has the digest that is named and the signature     *)
(* that is asked for, unless the tag carries its digest or moved after the      *)
(* check.                                                                       *)
THEOREM RunsWereVetted == RunnerSpec => []RunsAreVetted
<1>1. RunnerInv => RunsAreVetted
  BY DEF RunnerInv, VettedInv, Verified, RunsAreVetted
<1> QED
  BY <1>1, RunnerInvariant, PTL

-------------------------------------------------------------------------------
\* The quotas.

About(t, k) == call[t] # Idle /\ call[t].key = k

\* The uses of unconfirmed calls that still count.
Counting(k) == {i \in DOMAIN admissions[k] : InWindow(admissions[k][i], clock)}
Covers(uses, k) == \A i \in Counting(k) : admissions[k][i] \in uses

(* What holds of a key that no two calls were about at once: each use that     *)
(* counts is in the list and in the copy of the one call about the key, and    *)
(* a call that passed the check still finds room.                              *)
KeyInv(k) ==
  /\ \A t, u \in Thread : About(t, k) /\ About(u, k) => t = u
  /\ \A i, j \in Counting(k) : admissions[k][i] = admissions[k][j] => i = j
  /\ Covers(usage[k], k)
  /\ \A t \in Thread : About(t, k) =>
       /\ call[t].at # "record" /\ call[t].samples # {} => Covers(call[t].samples, k)
       /\ call[t].at \in {"record", "write"} /\ ~ call[t].confirmed /\ call[t].limit # NoLimit
            => RecentAdmissions(k) < call[t].limit

PolicyOK ==
  /\ PolicyTypeOK
  /\ \A k \in Key : IsFiniteSet(usage[k])
  /\ \A t \in Thread : call[t] # Idle => IsFiniteSet(call[t].samples) /\ call[t].time <= clock

PolicyInv == PolicyOK /\ \A k \in Key \ contended : KeyInv(k)

LEMMA CallsAre ==
  ASSUME PolicyTypeOK, NEW t \in Thread
  PROVE  /\ call[t] = Idle <=> call[t].at = "idle"
         /\ call[t] # Idle =>
              /\ call[t].at \in {"check", "record", "write", "status"} /\ call[t].key \in Key
              /\ call[t].confirmed \in BOOLEAN /\ call[t].limit \in Nat \cup {NoLimit}
              /\ call[t].samples \in SUBSET Use /\ call[t].time \in Nat
              /\ call[t] = [at |-> call[t].at, key |-> call[t].key,
                            confirmed |-> call[t].confirmed, limit |-> call[t].limit,
                            samples |-> call[t].samples, time |-> call[t].time]
<1>1. call[t] \in Calls
  BY DEF PolicyTypeOK
<1>2. Idle.at = "idle"
  BY DEF Idle
<1>3. CASE call[t] = Idle
  BY <1>2, <1>3
<1>4. CASE call[t] \in [at : {"check", "record", "write", "status"}, key : Key,
                        confirmed : BOOLEAN, limit : Nat \cup {NoLimit},
                        samples : SUBSET Use, time : Nat]
  BY <1>2, <1>4
<1> QED
  BY <1>1, <1>3, <1>4 DEF Calls

(* What does not touch the key, or ends a call about it, keeps what holds of it. *)
LEMMA KeyFrame ==
  ASSUME NEW k \in Key, KeyInv(k), UNCHANGED clock,
         usage'[k] = usage[k], admissions'[k] = admissions[k],
         \A t \in Thread : call'[t] = call[t] \/ ~ About(t, k)'
  PROVE  KeyInv(k)'
<1>1. Counting(k)' = Counting(k) /\ RecentAdmissions(k)' = RecentAdmissions(k)
  BY DEF Counting, RecentAdmissions, InWindow, TimeOf
<1>2. \A uses : Covers(uses, k) => Covers(uses, k)'
  BY <1>1 DEF Covers
<1>3. \A t \in Thread : About(t, k)' => call'[t] = call[t] /\ About(t, k)
  BY DEF About
<1>4. Covers(usage[k], k)'
  <2>1. Covers(usage[k], k)
    BY DEF KeyInv
  <2> QED
    BY <1>1, <2>1 DEF Covers
<1>5. ASSUME NEW t \in Thread, About(t, k)'
      PROVE  /\ call'[t].at # "record" /\ call'[t].samples # {} => Covers(call[t].samples, k)'
             /\ call'[t].at \in {"record", "write"} /\ ~ call'[t].confirmed /\ call'[t].limit # NoLimit
                  => RecentAdmissions(k)' < call'[t].limit
  <2>1. call'[t] = call[t] /\ About(t, k)
    BY <1>3, <1>5
  <2>2. call[t].at # "record" /\ call[t].samples # {} => Covers(call[t].samples, k)
    BY <2>1 DEF KeyInv
  <2>3. call[t].at \in {"record", "write"} /\ ~ call[t].confirmed /\ call[t].limit # NoLimit
          => RecentAdmissions(k) < call[t].limit
    BY <2>1 DEF KeyInv
  <2>4. Covers(call[t].samples, k) => Covers(call[t].samples, k)'
    BY <1>1, <2>1 DEF Covers
  <2> QED
    BY <1>1, <2>1, <2>2, <2>3, <2>4
<1> QED
  BY <1>1, <1>3, <1>4, <1>5 DEF KeyInv

LEMMA CountingIsFinite ==
  ASSUME PolicyTypeOK, NEW k \in Key
  PROVE  /\ IsFiniteSet(Counting(k)) /\ RecentAdmissions(k) = Cardinality(Counting(k))
         /\ RecentAdmissions(k) \in Nat
         /\ \A i \in Counting(k) : i \in Nat /\ admissions[k][i] \in Use
<1>1. admissions[k] \in Seq(Use)
  BY DEF PolicyTypeOK
<1>2. Counting(k) \subseteq 1 .. Len(admissions[k]) /\ Len(admissions[k]) \in Nat
  BY <1>1 DEF Counting
<1>3. IsFiniteSet(1 .. Len(admissions[k]))
  BY <1>2, FS_Interval
<1>4. IsFiniteSet(Counting(k))
  BY <1>2, <1>3, FS_Subset
<1>5. RecentAdmissions(k) = Cardinality(Counting(k))
  BY DEF RecentAdmissions, Counting
<1> QED
  BY <1>1, <1>2, <1>4, <1>5, FS_CardinalityType

(* A list that has the uses that count has as many.                            *)
LEMMA CountingFits ==
  ASSUME PolicyTypeOK, NEW k \in Key, KeyInv(k), NEW uses, IsFiniteSet(uses),
         Covers(uses, k)
  PROVE  RecentAdmissions(k) <= Cardinality(uses)
<1> DEFINE f == [i \in Counting(k) |-> admissions[k][i]]
<1>1. f \in Injection(Counting(k), uses)
  <2>1. f \in [Counting(k) -> uses]
    BY DEF Covers
  <2>2. \A i, j \in Counting(k) : f[i] = f[j] => i = j
    BY DEF KeyInv
  <2> QED
    BY <2>1, <2>2 DEF Injection, IsInjective
<1> HIDE DEF f
<1>2. Cardinality(Counting(k)) <= Cardinality(uses)
  BY <1>1, FS_Injection
<1> QED
  BY <1>2, CountingIsFinite

\* Pruning drops nothing that counts.
LEMMA PruningKeeps ==
  ASSUME PolicyOK, NEW t \in Thread, call[t] # Idle, call[t].at # "record",
         call[t].key \notin contended, KeyInv(call[t].key)
  PROVE  Covers(Pruned(t), call[t].key)
<1> DEFINE k == call[t].key
<1>1. /\ k \in Key /\ call[t].time \in Nat /\ call[t].time <= clock /\ clock \in Nat
      /\ QuotaWindow \in Nat
  BY CallsAre, PolicyConstants DEF PolicyOK, PolicyTypeOK
<1>2. CASE call[t].samples = {}
  BY <1>2 DEF Pruned, KeyInv
<1>3. CASE call[t].samples # {}
  <2>1. Covers(call[t].samples, k)
    BY <1>3 DEF KeyInv, About
  <2>2. Pruned(t) = Recent(call[t].samples, call[t].time)
    BY <1>3 DEF Pruned
  <2>3. ASSUME NEW i \in Counting(k)
        PROVE  admissions[k][i] \in Pruned(t)
    <3>1. admissions[k][i] \in call[t].samples /\ admissions[k][i] \in Use
      BY <1>1, <2>1, CountingIsFinite DEF Covers, PolicyOK
    <3>2. TimeOf(admissions[k][i]) >= clock - QuotaWindow
      BY DEF Counting, InWindow
    <3>3. TimeOf(admissions[k][i]) \in Nat
      BY <3>1 DEF Use, TimeOf
    <3>4. InWindow(admissions[k][i], call[t].time)
      BY <1>1, <3>2, <3>3 DEF InWindow
    <3> QED
      BY <2>2, <3>1, <3>4 DEF Recent
  <2> QED
    BY <2>3 DEF Covers
<1> QED
  BY <1>2, <1>3

LEMMA PrunedIs ==
  ASSUME PolicyOK, NEW t \in Thread, call[t] # Idle
  PROVE  Pruned(t) \in SUBSET Use /\ IsFiniteSet(Pruned(t))
<1>1. /\ call[t].key \in Key /\ call[t].samples \in SUBSET Use
      /\ IsFiniteSet(call[t].samples) /\ IsFiniteSet(usage[call[t].key])
      /\ usage[call[t].key] \in SUBSET Use
  BY CallsAre DEF PolicyOK, PolicyTypeOK
<1>2. Recent(call[t].samples, call[t].time) \subseteq call[t].samples
  BY DEF Recent
<1> QED
  BY <1>1, <1>2, FS_Subset DEF Pruned

(* A new use is not in the list yet.                                           *)
LEMMA NewUseIsNew ==
  ASSUME NEW uses, IsFiniteSet(uses), NEW time \in Nat
  PROVE  NewUse(uses, time) \in Use /\ NewUse(uses, time) \notin uses
<1> DEFINE N == 0 .. Cardinality(uses)
           f == [n \in N |-> <<time, n>>]
<1>1. Cardinality(uses) \in Nat
  BY FS_CardinalityType
<1>2. IsFiniteSet(N) /\ Cardinality(N) = Cardinality(uses) + 1
  BY <1>1, FS_Interval
<1>3. \E n \in N : <<time, n>> \notin uses
  <2> SUFFICES ASSUME \A n \in N : <<time, n>> \in uses
               PROVE  FALSE
    OBVIOUS
  <2>1. f \in [N -> uses] /\ \A n, m \in N : f[n] = f[m] => n = m
    OBVIOUS
  <2>2. f \in Injection(N, uses)
    BY <2>1 DEF Injection, IsInjective
  <2> HIDE DEF f
  <2>3. Cardinality(N) <= Cardinality(uses)
    BY <2>2, FS_Injection
  <2> QED
    BY <1>1, <1>2, <2>3
<1> DEFINE new == CHOOSE n \in N : <<time, n>> \notin uses
<1>4. new \in N /\ <<time, new>> \notin uses
  BY <1>3
<1>5. NewUse(uses, time) = <<time, new>>
  BY DEF NewUse
<1>6. new \in Nat
  BY <1>1, <1>4
<1> HIDE DEF new
<1> QED
  BY <1>4, <1>5, <1>6 DEF Use

(* A step of a call puts another one in its place.                             *)
LEMMA OneCallTyped ==
  ASSUME PolicyOK, NEW t \in Thread, NEW c \in Calls,
         c # Idle => IsFiniteSet(c.samples) /\ c.time <= clock,
         call' = [call EXCEPT ![t] = c], UNCHANGED <<profile, stored, clock>>,
         usage' \in [Key -> SUBSET Use], \A k \in Key : IsFiniteSet(usage'[k]),
         admissions' \in [Key -> Seq(Use)], contended' \subseteq Key
  PROVE  PolicyOK' /\ call'[t] = c /\ \A u \in Thread \ {t} : call'[u] = call[u]
<1>1. /\ call' \in [Thread -> Calls] /\ call'[t] = c
      /\ \A u \in Thread \ {t} : call'[u] = call[u]
  BY DEF PolicyOK, PolicyTypeOK
<1>2. PolicyTypeOK'
  BY <1>1 DEF PolicyOK, PolicyTypeOK, Calls, Use
<1>3. \A u \in Thread : call'[u] # Idle => IsFiniteSet(call'[u].samples) /\ call'[u].time <= clock
  BY <1>1 DEF PolicyOK
<1> QED
  BY <1>1, <1>2, <1>3 DEF PolicyOK

(* A call begins, about a key that no other is about, or contends for it.      *)
BeginsWith(t, c) ==
  /\ call[t] = Idle /\ c.key \in Key /\ Contends(t, c.key)
  /\ call' = [call EXCEPT ![t] = c]
  /\ UNCHANGED <<profile, stored, usage, clock>>

LEMMA BeginKeeps ==
  ASSUME PolicyInv, NEW t \in Thread, NEW c \in Calls, BeginsWith(t, c), c # Idle,
         IsFiniteSet(c.samples), c.time <= clock,
         c.at # "record" /\ c.samples # {} => c.samples = usage[c.key],
         c.at \in {"record", "write"} => c.confirmed \/ c.limit = NoLimit
  PROVE  PolicyInv'
<1> DEFINE k == c.key
<1>1. PolicyOK' /\ call'[t] = c /\ \A u \in Thread \ {t} : call'[u] = call[u]
  <2>1. <<>> \in Seq(Use) /\ admissions \in [Key -> Seq(Use)] /\ contended \subseteq Key
        /\ usage \in [Key -> SUBSET Use] /\ k \in Key
    BY DEF PolicyInv, PolicyOK, PolicyTypeOK, BeginsWith
  <2>2. admissions' \in [Key -> Seq(Use)] /\ contended' \subseteq Key
    BY <2>1 DEF BeginsWith, Contends
  <2>3. usage' = usage /\ \A j \in Key : IsFiniteSet(usage'[j])
    BY DEF BeginsWith, PolicyInv, PolicyOK
  <2> QED
    BY <2>1, <2>2, <2>3, OneCallTyped DEF BeginsWith, PolicyInv
<1>2. ASSUME NEW j \in Key \ contended', j # k
      PROVE  KeyInv(j)'
  <2>1. j \notin contended /\ admissions'[j] = admissions[j] /\ usage' = usage /\ clock' = clock
    BY <1>2 DEF BeginsWith, Contends, PolicyInv, PolicyOK, PolicyTypeOK
  <2>2. ~ About(t, j)'
    BY <1>1, <1>2 DEF About
  <2> QED
    BY <1>1, <2>1, <2>2, KeyFrame DEF PolicyInv
<1>3. ASSUME k \notin contended'
      PROVE  KeyInv(k)'
  <2>1. /\ k \in Key \ contended /\ admissions' = admissions /\ usage' = usage /\ clock' = clock
        /\ \A u \in Thread \ {t} : ~ About(u, k)
    BY <1>3 DEF BeginsWith, Contends, About
  <2>2. KeyInv(k)
    BY <2>1 DEF PolicyInv
  <2>3. \A u \in Thread : About(u, k)' => u = t
    BY <1>1, <2>1 DEF About
  <2>4. Counting(k)' = Counting(k)
    BY <2>1 DEF Counting, InWindow, TimeOf
  <2>5. Covers(usage[k], k)
    BY <2>2 DEF KeyInv
  <2>6. Covers(usage[k], k)' /\ (c.at # "record" /\ c.samples # {} => Covers(c.samples, k)')
    BY <2>1, <2>4, <2>5 DEF Covers
  <2>7. \A i, j \in Counting(k)' : admissions'[k][i] = admissions'[k][j] => i = j
    BY <2>1, <2>2, <2>4 DEF KeyInv
  <2> QED
    BY <1>1, <2>3, <2>6, <2>7 DEF KeyInv, Covers
<1>4. \A j \in Key \ contended' : KeyInv(j)'
  BY <1>2, <1>3
<1> QED
  BY <1>1, <1>4 DEF PolicyInv

LEMMA EvaluateKeeps ==
  ASSUME PolicyInv, NEW t \in Thread, NEW k \in Key, NEW confirmed \in BOOLEAN,
         NEW blocked \in BOOLEAN, Evaluate(t, k, confirmed, blocked), UNCHANGED clock
  PROVE  PolicyInv'
<1> DEFINE checks == ChecksQuota(k, confirmed)
           c == [at |-> IF checks THEN "check" ELSE "record",
                 key |-> k, confirmed |-> confirmed,
                 limit |-> Limit[profile][k], time |-> clock,
                 samples |-> IF checks THEN usage[k] ELSE {}]
<1>1. /\ profile \in Profile /\ usage[k] \in SUBSET Use /\ IsFiniteSet(usage[k])
      /\ clock \in Nat /\ Limit[profile][k] \in Nat \cup {NoLimit}
      /\ IsFiniteSet({})
  BY PolicyConstants, FS_EmptySet DEF PolicyInv, PolicyOK, PolicyTypeOK
<1>2. /\ c.key = k /\ c.confirmed = confirmed /\ c.limit = Limit[profile][k] /\ c.time = clock
      /\ c.at = (IF checks THEN "check" ELSE "record")
      /\ c.samples = (IF checks THEN usage[k] ELSE {})
  OBVIOUS
<1>3. c \in Calls
  BY <1>1 DEF Calls
<1>4. c # Idle
  <2>1. Idle.at = "idle"
    BY DEF Idle
  <2> QED
    BY <1>2, <2>1
<1>5. checks <=> ~ confirmed /\ Limit[profile][k] # NoLimit
  BY DEF ChecksQuota
<1>6. call' = [call EXCEPT ![t] = c]
  BY DEF Evaluate
<1> HIDE DEF c, checks
<1>7. BeginsWith(t, c)
  BY <1>2, <1>6 DEF BeginsWith, Evaluate
<1>8. IsFiniteSet(c.samples) /\ c.time <= clock
  BY <1>1, <1>2
<1>9. c.at # "record" /\ c.samples # {} => c.samples = usage[c.key]
  BY <1>2
<1>10. c.at \in {"record", "write"} => c.confirmed \/ c.limit = NoLimit
  BY <1>2, <1>5
<1> QED
  BY <1>3, <1>4, <1>7, <1>8, <1>9, <1>10, BeginKeeps

LEMMA StatusBegins ==
  ASSUME PolicyInv, NEW t \in Thread, NEW k \in Key, ReadForStatus(t, k), UNCHANGED clock
  PROVE  PolicyInv'
<1> DEFINE c == [at |-> "status", key |-> k, confirmed |-> FALSE,
                 limit |-> Limit[profile][k], samples |-> usage[k], time |-> clock]
<1>1. /\ profile \in Profile /\ usage[k] \in SUBSET Use /\ IsFiniteSet(usage[k])
      /\ clock \in Nat /\ Limit[profile][k] \in Nat \cup {NoLimit}
  BY PolicyConstants DEF PolicyInv, PolicyOK, PolicyTypeOK
<1>2. c.key = k /\ c.time = clock /\ c.at = "status" /\ c.samples = usage[k]
  OBVIOUS
<1>3. c \in Calls
  BY <1>1 DEF Calls
<1>4. c # Idle
  <2>1. Idle.at = "idle"
    BY DEF Idle
  <2> QED
    BY <1>2, <2>1
<1>5. call' = [call EXCEPT ![t] = c]
  BY DEF ReadForStatus
<1> HIDE DEF c
<1>6. BeginsWith(t, c)
  BY <1>2, <1>5 DEF BeginsWith, ReadForStatus
<1>7. /\ IsFiniteSet(c.samples) /\ c.time <= clock /\ c.samples = usage[c.key]
      /\ c.at \notin {"record", "write"}
  BY <1>1, <1>2
<1> QED
  BY <1>3, <1>4, <1>6, <1>7, BeginKeeps

(* A call goes on, or ends, and changes the list of its key only.              *)
ContinuesWith(t, c, uses) ==
  /\ call[t] # Idle /\ (c # Idle => c.key = call[t].key)
  /\ call' = [call EXCEPT ![t] = c]
  /\ usage' = [usage EXCEPT ![call[t].key] = uses]
  /\ UNCHANGED <<profile, stored, contended, clock>>
  /\ \A j \in Key \ {call[t].key} : admissions'[j] = admissions[j]

LEMMA ContinueKeeps ==
  ASSUME PolicyInv, NEW t \in Thread, NEW k, k = call[t].key,
         NEW c \in Calls, NEW uses \in SUBSET Use,
         ContinuesWith(t, c, uses), IsFiniteSet(uses),
         c # Idle => IsFiniteSet(c.samples) /\ c.time <= clock,
         admissions' \in [Key -> Seq(Use)],
         k \notin contended /\ call'[t] = c => KeyInv(k)'
  PROVE  PolicyInv'
<1>1. k \in Key /\ usage \in [Key -> SUBSET Use] /\ contended \subseteq Key
  BY CallsAre DEF ContinuesWith, PolicyInv, PolicyOK, PolicyTypeOK
<1>2. /\ usage' \in [Key -> SUBSET Use] /\ usage'[k] = uses
      /\ \A j \in Key \ {k} : usage'[j] = usage[j]
  BY <1>1 DEF ContinuesWith
<1>3. \A j \in Key : IsFiniteSet(usage'[j])
  <2>1. \A j \in Key : IsFiniteSet(usage[j])
    BY DEF PolicyInv, PolicyOK
  <2> QED
    BY <1>2, <2>1
<1>4. PolicyOK' /\ call'[t] = c /\ \A u \in Thread \ {t} : call'[u] = call[u]
  BY <1>1, <1>2, <1>3, OneCallTyped DEF ContinuesWith, PolicyInv
<1>5. ASSUME NEW j \in Key \ contended', j # k
      PROVE  KeyInv(j)'
  <2>1. /\ j \notin contended /\ admissions'[j] = admissions[j] /\ usage'[j] = usage[j]
        /\ clock' = clock
    BY <1>2, <1>5 DEF ContinuesWith
  <2>2. ~ About(t, j)'
    BY <1>4, <1>5 DEF About, ContinuesWith
  <2>3. KeyInv(j)
    BY <2>1 DEF PolicyInv
  <2> QED
    BY <1>4, <2>1, <2>2, <2>3, KeyFrame
<1>6. k \notin contended' => KeyInv(k)'
  BY <1>4 DEF ContinuesWith
<1>7. \A j \in Key \ contended' : KeyInv(j)'
  BY <1>5, <1>6
<1> QED
  BY <1>4, <1>7 DEF PolicyInv

(* Where no other call is about the key, what counts is what counted.          *)
LEMMA AloneKeeps ==
  ASSUME PolicyInv, NEW t \in Thread, NEW k \in Key \ contended, About(t, k),
         UNCHANGED clock, admissions'[k] = admissions[k],
         \A u \in Thread \ {t} : call'[u] = call[u],
         Covers(usage'[k], k),
         About(t, k)' =>
           /\ call'[t].at # "record" /\ call'[t].samples # {} => Covers(call'[t].samples, k)
           /\ call'[t].at \in {"record", "write"} /\ ~ call'[t].confirmed /\ call'[t].limit # NoLimit
                => RecentAdmissions(k) < call'[t].limit
  PROVE  KeyInv(k)'
<1>1. Counting(k)' = Counting(k) /\ RecentAdmissions(k)' = RecentAdmissions(k)
  BY DEF Counting, RecentAdmissions, InWindow, TimeOf
<1>2. KeyInv(k)
  BY DEF PolicyInv
<1>3. \A u \in Thread : About(u, k)' => u = t
  BY <1>2 DEF KeyInv, About
<1>4. Covers(usage[k], k)'
  BY <1>1 DEF Covers
<1>5. \A i, j \in Counting(k)' : admissions'[k][i] = admissions'[k][j] => i = j
  BY <1>1, <1>2 DEF KeyInv
<1>6. ASSUME NEW u \in Thread, About(u, k)'
      PROVE  /\ call'[u].at # "record" /\ call'[u].samples # {} => Covers(call[u].samples, k)'
             /\ call'[u].at \in {"record", "write"} /\ ~ call'[u].confirmed /\ call'[u].limit # NoLimit
                  => RecentAdmissions(k)' < call'[u].limit
  <2>1. u = t
    BY <1>3, <1>6
  <2>2. Covers(call'[t].samples, k) => Covers(call[t].samples, k)'
    BY <1>1 DEF Covers
  <2> QED
    BY <1>1, <1>6, <2>1, <2>2
<1> QED
  BY <1>3, <1>4, <1>5, <1>6 DEF KeyInv

LEMMA IdleIsCall == Idle \in Calls
  BY DEF Calls

GoneOn(t, label, uses, time) ==
  [call[t] EXCEPT !.at = label, !.samples = uses, !.time = time]

LEMMA CallGoesOn ==
  ASSUME PolicyTypeOK, NEW t \in Thread, call[t] # Idle,
         NEW label \in {"check", "record", "write", "status"}, NEW uses \in SUBSET Use,
         NEW time \in Nat
  PROVE  LET c == GoneOn(t, label, uses, time)
         IN  /\ c \in Calls /\ c.at = label /\ c.samples = uses /\ c.time = time
             /\ c.key = call[t].key /\ c.confirmed = call[t].confirmed
             /\ c.limit = call[t].limit
<1> DEFINE R == [at : {"check", "record", "write", "status"}, key : Key, confirmed : BOOLEAN,
                 limit : Nat \cup {NoLimit}, samples : SUBSET Use, time : Nat]
<1>1. call[t] \in R
  <2>1. call[t] \in Calls
    BY DEF PolicyTypeOK
  <2> QED
    BY <2>1 DEF Calls
<1>2. GoneOn(t, label, uses, time) \in R
  BY <1>1 DEF GoneOn
<1>3. R \subseteq Calls
  BY DEF Calls
<1> QED
  BY <1>1, <1>2, <1>3 DEF GoneOn

LEMMA CheckKeeps ==
  ASSUME PolicyInv, NEW t \in Thread, CheckQuota(t), UNCHANGED clock
  PROVE  PolicyInv'
<1>0. PICK k : k = call[t].key
  OBVIOUS
<1> DEFINE kept == Pruned(t)
           passed == [call[t] EXCEPT !.at = "record", !.samples = {}]
           c == IF Cardinality(kept) >= call[t].limit THEN Idle ELSE passed
<1>1. call[t].at = "check" /\ call[t] # Idle /\ k \in Key /\ PolicyOK
  BY <1>0, CallsAre DEF CheckQuota, PolicyInv, PolicyOK
<1>2. /\ kept \in SUBSET Use /\ IsFiniteSet(kept) /\ Cardinality(kept) \in Nat
  BY <1>1, PrunedIs, FS_CardinalityType
<1>3. /\ passed.at = "record" /\ passed.key = k /\ passed.samples = {}
      /\ passed.confirmed = call[t].confirmed /\ passed.limit = call[t].limit
      /\ passed.time = call[t].time /\ passed \in Calls
  <2>1. passed = GoneOn(t, "record", {}, call[t].time)
    <3>1. call[t] = [call[t] EXCEPT !.time = call[t].time]
      BY <1>1, CallsAre DEF PolicyOK
    <3> QED
      BY <3>1 DEF GoneOn
  <2>2. {} \in SUBSET Use /\ call[t].time \in Nat
    BY <1>1, CallsAre DEF PolicyOK
  <2> HIDE DEF passed
  <2> QED
    BY <1>0, <1>1, <2>1, <2>2, CallGoesOn DEF PolicyOK
<1>4. call' = [call EXCEPT ![t] = c]
  BY DEF CheckQuota
<1>5. usage' = [usage EXCEPT ![k] = kept] /\ UNCHANGED <<profile, stored, admissions, contended>>
  BY <1>0 DEF CheckQuota
<1>6. call[t].time <= clock /\ call[t].limit \in Nat \cup {NoLimit}
  BY <1>1, CallsAre DEF PolicyOK
<1> HIDE DEF kept, passed
<1>7. c \in Calls /\ (c # Idle => c = passed /\ ~ Cardinality(kept) >= call[t].limit)
  BY <1>3, IdleIsCall
<1> HIDE DEF c
<1>8. ContinuesWith(t, c, kept)
  BY <1>0, <1>1, <1>3, <1>4, <1>5, <1>7 DEF ContinuesWith
<1>9. c # Idle => IsFiniteSet(c.samples) /\ c.time <= clock
  BY <1>3, <1>6, <1>7, FS_EmptySet
<1>10. admissions' \in [Key -> Seq(Use)] /\ admissions' = admissions
  BY <1>1, <1>5 DEF PolicyOK, PolicyTypeOK
<1>11. ASSUME k \notin contended, call'[t] = c
       PROVE  KeyInv(k)'
  <2>1. About(t, k) /\ k \in Key \ contended /\ KeyInv(k)
    BY <1>0, <1>1, <1>11 DEF About, PolicyInv
  <2>2. Covers(kept, k)
    BY <1>0, <1>1, <2>1, PruningKeeps DEF kept
  <2>3. usage'[k] = kept /\ \A u \in Thread \ {t} : call'[u] = call[u]
    BY <1>1, <1>4, <1>5 DEF PolicyOK, PolicyTypeOK
  <2>4. ASSUME c # Idle, call[t].limit # NoLimit
        PROVE  RecentAdmissions(k) < call[t].limit
    <3>1. RecentAdmissions(k) <= Cardinality(kept)
      BY <1>1, <1>2, <2>1, <2>2, CountingFits DEF PolicyOK
    <3>2. Cardinality(kept) < call[t].limit
      BY <1>2, <1>6, <1>7, <2>4
    <3>3. RecentAdmissions(k) \in Nat
      BY <1>1, CountingIsFinite DEF PolicyOK
    <3> QED
      BY <1>2, <1>6, <2>4, <3>1, <3>2, <3>3
  <2>5. About(t, k)' => c # Idle
    BY <1>11 DEF About
  <2>6. About(t, k)' => call'[t].at = "record" /\ call'[t].limit = call[t].limit
    BY <1>3, <1>7, <1>11, <2>5
  <2> QED
    BY <1>10, <2>1, <2>2, <2>3, <2>4, <2>5, <2>6, AloneKeeps
<1> QED
  BY <1>0, <1>2, <1>7, <1>8, <1>9, <1>10, <1>11, ContinueKeeps

LEMMA ReadKeeps ==
  ASSUME PolicyInv, NEW t \in Thread, ReadSamples(t), UNCHANGED clock
  PROVE  PolicyInv'
<1>0. PICK k : k = call[t].key
  OBVIOUS
<1> DEFINE c == [call[t] EXCEPT !.at = "write", !.samples = usage[k], !.time = clock]
<1>1. call[t].at = "record" /\ call[t] # Idle /\ k \in Key /\ PolicyOK
  BY <1>0, CallsAre DEF ReadSamples, PolicyInv, PolicyOK
<1>2. /\ usage[k] \in SUBSET Use /\ IsFiniteSet(usage[k]) /\ clock \in Nat
      /\ usage = [usage EXCEPT ![k] = usage[k]] /\ admissions \in [Key -> Seq(Use)]
  BY <1>1 DEF PolicyOK, PolicyTypeOK
<1>3. /\ c.at = "write" /\ c.key = k /\ c.samples = usage[k]
      /\ c.confirmed = call[t].confirmed /\ c.limit = call[t].limit
      /\ c.time = clock /\ c \in Calls
  <2> HIDE DEF c
  <2>1. c = GoneOn(t, "write", usage[k], clock)
    BY DEF c, GoneOn
  <2> QED
    BY <1>0, <1>1, <1>2, <2>1, CallGoesOn DEF PolicyOK
<1>4. call' = [call EXCEPT ![t] = c] /\ UNCHANGED <<profile, stored, usage, admissions, contended>>
  <2>1. call' = [call EXCEPT ![t].at = "write", ![t].samples = usage[k], ![t].time = clock]
    BY <1>0 DEF ReadSamples
  <2> QED
    BY <2>1 DEF ReadSamples
<1> HIDE DEF c
<1>5. ContinuesWith(t, c, usage[k])
  BY <1>0, <1>1, <1>2, <1>3, <1>4 DEF ContinuesWith
<1>6. IsFiniteSet(c.samples) /\ c.time <= clock
  BY <1>2, <1>3
<1>7. ASSUME k \notin contended, call'[t] = c
      PROVE  KeyInv(k)'
  <2>1. About(t, k) /\ k \in Key \ contended /\ KeyInv(k)
    BY <1>0, <1>1, <1>7 DEF About, PolicyInv
  <2>2. Covers(usage[k], k)
    BY <2>1 DEF KeyInv
  <2>3. ~ call[t].confirmed /\ call[t].limit # NoLimit => RecentAdmissions(k) < call[t].limit
    BY <1>0, <1>1, <2>1 DEF KeyInv
  <2>4. \A u \in Thread \ {t} : call'[u] = call[u]
    BY <1>1, <1>4 DEF PolicyOK, PolicyTypeOK
  <2> QED
    BY <1>3, <1>4, <1>7, <2>1, <2>2, <2>3, <2>4, AloneKeeps
<1>8. usage[k] \in SUBSET Use /\ IsFiniteSet(usage[k]) /\ admissions' \in [Key -> Seq(Use)]
  BY <1>2, <1>4
<1> QED
  BY <1>0, <1>3, <1>5, <1>6, <1>7, <1>8, ContinueKeeps

LEMMA StatusEnds ==
  ASSUME PolicyInv, NEW t \in Thread, PruneForStatus(t), UNCHANGED clock
  PROVE  PolicyInv'
<1>0. PICK k : k = call[t].key
  OBVIOUS
<1> DEFINE kept == Pruned(t)
<1>1. call[t].at = "status" /\ call[t] # Idle /\ k \in Key /\ PolicyOK
  BY <1>0, CallsAre DEF PruneForStatus, PolicyInv, PolicyOK
<1>2. kept \in SUBSET Use /\ IsFiniteSet(kept)
  BY <1>1, PrunedIs
<1>3. /\ usage' = [usage EXCEPT ![k] = kept] /\ call' = [call EXCEPT ![t] = Idle]
      /\ UNCHANGED <<profile, stored, admissions, contended>>
  BY <1>0 DEF PruneForStatus
<1> HIDE DEF kept
<1>4. ContinuesWith(t, Idle, kept)
  BY <1>0, <1>1, <1>3 DEF ContinuesWith
<1>5. admissions' \in [Key -> Seq(Use)]
  BY <1>1, <1>3 DEF PolicyOK, PolicyTypeOK
<1>6. ASSUME k \notin contended, call'[t] = Idle
      PROVE  KeyInv(k)'
  <2>1. About(t, k) /\ k \in Key \ contended /\ KeyInv(k) /\ ~ About(t, k)'
    BY <1>0, <1>1, <1>6 DEF About, PolicyInv
  <2>2. Covers(kept, k)
    BY <1>0, <1>1, <2>1, PruningKeeps DEF kept
  <2>3. usage'[k] = kept /\ \A u \in Thread \ {t} : call'[u] = call[u]
    BY <1>1, <1>3 DEF PolicyOK, PolicyTypeOK
  <2> QED
    BY <1>3, <2>1, <2>2, <2>3, AloneKeeps
<1> QED
  BY <1>0, <1>2, <1>4, <1>5, <1>6, IdleIsCall, ContinueKeeps

LEMMA RecordKeeps ==
  ASSUME PolicyInv, NEW t \in Thread, call[t] # Idle, RecordQuotaUsage(t), UNCHANGED clock
  PROVE  PolicyInv'
<1>0. PICK k : k = call[t].key
  OBVIOUS
<1>1. PICK kept : kept = Pruned(t)
  OBVIOUS
<1>2. PICK use : use = NewUse(kept, call[t].time)
  OBVIOUS
<1>3. call[t].at = "write" /\ k \in Key /\ PolicyOK /\ PolicyTypeOK
  BY <1>0, CallsAre DEF RecordQuotaUsage, PolicyInv, PolicyOK
<1>4. kept \in SUBSET Use /\ IsFiniteSet(kept)
  BY <1>1, <1>3, PrunedIs
<1>5. use \in Use /\ use \notin kept
  <2>1. call[t].time \in Nat
    BY <1>3, CallsAre
  <2> QED
    BY <1>2, <1>4, <2>1, NewUseIsNew
<1>6. kept \cup {use} \in SUBSET Use /\ IsFiniteSet(kept \cup {use})
  BY <1>4, <1>5, FS_AddElement
<1>7. /\ usage' = [usage EXCEPT ![k] = kept \cup {use}]
      /\ call' = [call EXCEPT ![t] = Idle]
      /\ UNCHANGED <<profile, stored, contended>>
      /\ admissions' = [admissions EXCEPT ![k] =
           IF call[t].confirmed \/ k \in contended THEN @ ELSE Append(@, use)]
  BY <1>0, <1>1, <1>2 DEF RecordQuotaUsage
<1>8. /\ admissions \in [Key -> Seq(Use)] /\ Append(admissions[k], use) \in Seq(Use)
  BY <1>3, <1>5 DEF PolicyTypeOK
<1>9. /\ admissions' \in [Key -> Seq(Use)]
      /\ \A j \in Key \ {k} : admissions'[j] = admissions[j]
      /\ admissions'[k] = IF call[t].confirmed \/ k \in contended THEN admissions[k]
                                                      ELSE Append(admissions[k], use)
  BY <1>3, <1>7, <1>8
<1>10. ContinuesWith(t, Idle, kept \cup {use})
  BY <1>0, <1>7, <1>9 DEF ContinuesWith
<1>11. ASSUME k \notin contended, call'[t] = Idle
       PROVE  KeyInv(k)'
  <2>1. About(t, k) /\ k \in Key \ contended /\ KeyInv(k) /\ ~ About(t, k)'
    BY <1>0, <1>3, <1>11 DEF About, PolicyInv
  <2>2. Covers(kept, k)
    BY <1>0, <1>1, <1>3, <2>1, PruningKeeps
  <2>3. usage'[k] = kept \cup {use} /\ \A u \in Thread \ {t} : call'[u] = call[u]
    BY <1>3, <1>7 DEF PolicyTypeOK
  <2>4. Covers(usage'[k], k)
    BY <2>2, <2>3 DEF Covers
  <2>5. CASE admissions'[k] = admissions[k]
    BY <2>1, <2>3, <2>4, <2>5, AloneKeeps
  <2>6. CASE admissions'[k] = Append(admissions[k], use)
    <3> DEFINE n == Len(admissions[k])
    <3>1. /\ n \in Nat /\ DOMAIN admissions[k] = 1 .. n /\ DOMAIN admissions'[k] = 1 .. n + 1
          /\ admissions'[k][n + 1] = use
          /\ \A i \in 1 .. n : admissions'[k][i] = admissions[k][i]
      <4>1. admissions[k] \in Seq(Use)
        BY <1>3, <1>8
      <4> QED
        BY <1>5, <2>6, <4>1
    <3> HIDE DEF n
    <3>2. \A i : i \in Counting(k)' => i \in Counting(k) \/ i = n + 1
      <4>1. ASSUME NEW i \in Counting(k)', i # n + 1
            PROVE  i \in Counting(k)
        <5>1. i \in 1 .. n + 1 /\ InWindow(admissions'[k][i], clock)
          BY <3>1, <4>1 DEF Counting, InWindow, TimeOf
        <5>2. i \in 1 .. n
          BY <3>1, <4>1, <5>1
        <5> QED
          BY <3>1, <5>1, <5>2 DEF Counting
      <4> QED
        BY <4>1
    <3>3. \A i \in Counting(k) : i \in 1 .. n /\ admissions[k][i] \in kept
      BY <2>2, <3>1 DEF Counting, Covers
    <3>4. \A i \in Counting(k)' : admissions'[k][i] \in kept \/ (i = n + 1 /\ admissions'[k][i] = use)
      BY <3>1, <3>2, <3>3
    <3>5. \A u \in Thread : ~ About(u, k)'
      <4>1. \A u \in Thread : About(u, k) => u = t
        BY <2>1 DEF KeyInv
      <4> QED
        BY <2>1, <2>3, <4>1 DEF About
    <3>6. Covers(usage[k], k)'
      BY <2>3, <3>4 DEF Covers
    <3>7. ASSUME NEW i \in Counting(k)', NEW j \in Counting(k)',
                 admissions'[k][i] = admissions'[k][j]
          PROVE  i = j
      <4>1. CASE i = n + 1 /\ j = n + 1
        BY <4>1
      <4>2. CASE i # n + 1 /\ j # n + 1
        <5>1. i \in Counting(k) /\ j \in Counting(k)
          BY <3>2, <4>2
        <5>2. admissions[k][i] = admissions[k][j]
          BY <3>1, <3>3, <3>7, <5>1
        <5> QED
          BY <2>1, <5>1, <5>2 DEF KeyInv
      <4>3. CASE i = n + 1 /\ j # n + 1
        BY <1>5, <3>1, <3>4, <3>7, <4>3
      <4>4. CASE i # n + 1 /\ j = n + 1
        BY <1>5, <3>1, <3>4, <3>7, <4>4
      <4> QED
        BY <4>1, <4>2, <4>3, <4>4
    <3> QED
      BY <3>5, <3>6, <3>7 DEF KeyInv
  <2> QED
    BY <1>9, <2>5, <2>6
<1> QED
  BY <1>0, <1>6, <1>9, <1>10, <1>11, IdleIsCall, ContinueKeeps

LEMMA ResetKeeps ==
  ASSUME PolicyInv, NEW t \in Thread, NEW keys \in SUBSET Key, ResetQuotaUsage(t, keys),
         UNCHANGED clock
  PROVE  PolicyInv'
<1>1. /\ UNCHANGED <<profile, stored, call, contended, clock>>
      /\ \A k \in Key : usage'[k] = IF k \in keys THEN {} ELSE usage[k]
      /\ \A k \in Key : admissions'[k] = IF k \in keys THEN <<>> ELSE admissions[k]
      /\ usage' \in [Key -> SUBSET Use] /\ admissions' \in [Key -> Seq(Use)]
  BY DEF ResetQuotaUsage, PolicyInv, PolicyOK, PolicyTypeOK
<1>2. PolicyOK'
  <2>1. PolicyTypeOK'
    BY <1>1 DEF PolicyInv, PolicyOK, PolicyTypeOK, Calls, Use
  <2>2. \A k \in Key : IsFiniteSet(usage'[k])
    BY <1>1, FS_EmptySet DEF PolicyInv, PolicyOK
  <2> QED
    BY <1>1, <2>1, <2>2 DEF PolicyInv, PolicyOK
<1>3. ASSUME NEW k \in Key \ contended', k \notin keys
      PROVE  KeyInv(k)'
  <2>1. KeyInv(k)
    BY <1>1, <1>3 DEF PolicyInv
  <2>2. usage'[k] = usage[k] /\ admissions'[k] = admissions[k] /\ call' = call /\ clock' = clock
    BY <1>1, <1>3
  <2> QED
    BY <2>1, <2>2, KeyFrame
<1>4. ASSUME NEW k \in Key \ contended', k \in keys
      PROVE  KeyInv(k)'
  <2>1. KeyInv(k) /\ admissions'[k] = <<>>
    BY <1>1, <1>4 DEF PolicyInv
  <2>2. Counting(k)' = {}
    BY <2>1 DEF Counting
  <2>3. RecentAdmissions(k)' = 0
    <3>1. RecentAdmissions(k)' = Cardinality(Counting(k)')
      BY DEF RecentAdmissions, Counting
    <3> QED
      BY <2>2, <3>1, FS_EmptySet
  <2>4. ASSUME NEW u \in Thread, About(u, k)', call'[u].at \in {"record", "write"},
               ~ call'[u].confirmed, call'[u].limit # NoLimit
        PROVE  RecentAdmissions(k)' < call'[u].limit
    <3>1. call'[u] = call[u] /\ About(u, k)
      BY <1>1, <2>4 DEF About
    <3>2. RecentAdmissions(k) < call[u].limit
      BY <2>1, <2>4, <3>1 DEF KeyInv
    <3>3. RecentAdmissions(k) \in Nat
      BY CountingIsFinite DEF PolicyInv, PolicyOK
    <3>4. call[u].limit \in Nat
      BY <2>4, <3>1, CallsAre DEF About, PolicyInv, PolicyOK
    <3> QED
      BY <2>3, <3>1, <3>2, <3>3, <3>4
  <2>5. \A u1, u2 \in Thread : About(u1, k)' /\ About(u2, k)' => u1 = u2
    BY <1>1, <2>1 DEF KeyInv, About
  <2>6. Covers(usage[k], k)' /\ \A u \in Thread : Covers(call[u].samples, k)'
    BY <2>2 DEF Covers
  <2>7. \A i, j \in Counting(k)' : admissions'[k][i] = admissions'[k][j] => i = j
    BY <2>2
  <2> QED
    BY <2>4, <2>5, <2>6, <2>7 DEF KeyInv
<1> QED
  BY <1>2, <1>3, <1>4 DEF PolicyInv

LEMMA SetProfileKeeps ==
  ASSUME PolicyInv, NEW t \in Thread, NEW p \in Profile, SetProfile(t, p), UNCHANGED clock
  PROVE  PolicyInv'
<1>1. UNCHANGED <<usage, call, admissions, contended, clock>> /\ profile' = p
  BY DEF SetProfile
<1>2. PolicyOK'
  <2>1. stored' \in Profile \cup {NoProfile}
    BY DEF SetProfile, PolicyInv, PolicyOK, PolicyTypeOK
  <2>2. PolicyTypeOK'
    BY <1>1, <2>1 DEF PolicyInv, PolicyOK, PolicyTypeOK
  <2> QED
    BY <1>1, <2>2 DEF PolicyInv, PolicyOK
<1>3. ASSUME NEW k \in Key \ contended'
      PROVE  KeyInv(k)'
  BY <1>1, KeyFrame DEF PolicyInv
<1> QED
  BY <1>2, <1>3 DEF PolicyInv

\* Where nothing was used and no call is under way, everything holds.
Fresh ==
  /\ usage = [k \in Key |-> {}] /\ admissions = [k \in Key |-> <<>>] /\ contended = {}
  /\ call = [t \in Thread |-> Idle]
  /\ profile \in Profile /\ stored \in Profile \cup {NoProfile} /\ clock \in Nat

LEMMA FreshHolds == Fresh => PolicyInv
<1> SUFFICES ASSUME Fresh
             PROVE  PolicyInv
  OBVIOUS
<1>1. PolicyOK
  <2>1. /\ \A t \in Thread : call[t] = Idle
        /\ \A k \in Key : usage[k] = {}
    BY DEF Fresh
  <2>2. PolicyTypeOK
    <3>1. usage \in [Key -> SUBSET Use] /\ admissions \in [Key -> Seq(Use)]
      BY DEF Fresh
    <3>2. call \in [Thread -> Calls]
      BY IdleIsCall DEF Fresh
    <3> QED
      BY <3>1, <3>2 DEF Fresh, PolicyTypeOK
  <2> QED
    BY <2>1, <2>2, FS_EmptySet DEF PolicyOK
<1>2. ASSUME NEW k \in Key
      PROVE  KeyInv(k)
  <2>1. Counting(k) = {} /\ \A t \in Thread : ~ About(t, k)
    BY DEF Fresh, Counting, About
  <2> QED
    BY <2>1 DEF KeyInv, Covers
<1> QED
  BY <1>1, <1>2 DEF PolicyInv

LEMMA RestartKeeps ==
  ASSUME PolicyInv, NEW f \in Profile \cup {NoProfile}, RestartPolicy(f), UNCHANGED clock
  PROVE  PolicyInv'
<1>1. Fresh'
  BY PolicyConstants DEF RestartPolicy, Fresh, Idle, PolicyInv, PolicyOK, PolicyTypeOK
<1> QED
  BY <1>1, FreshHolds, PTL

\* As time passes fewer uses count.
LEMMA ClockKeeps ==
  ASSUME PolicyInv, ClockTicks,
         UNCHANGED <<profile, stored, usage, call, admissions, contended>>
  PROVE  PolicyInv'
<1>1. clock' = clock + 1 /\ clock \in Nat /\ QuotaWindow \in Nat
  BY PolicyConstants DEF ClockTicks, PolicyInv, PolicyOK, PolicyTypeOK
<1>2. PolicyOK'
  <2>1. PolicyTypeOK'
    BY <1>1 DEF PolicyInv, PolicyOK, PolicyTypeOK
  <2>2. ASSUME NEW t \in Thread, call[t] # Idle
        PROVE  call[t].time <= clock'
    <3>1. call[t].time <= clock /\ call[t].time \in Nat
      BY <2>2, CallsAre DEF PolicyInv, PolicyOK
    <3> QED
      BY <1>1, <3>1
  <2> QED
    BY <2>1, <2>2 DEF PolicyInv, PolicyOK
<1>3. ASSUME NEW k \in Key \ contended'
      PROVE  KeyInv(k)'
  <2>1. KeyInv(k) /\ PolicyTypeOK /\ PolicyTypeOK'
    BY <1>2, <1>3 DEF PolicyInv, PolicyOK
  <2>2. Counting(k)' \subseteq Counting(k)
    <3> SUFFICES ASSUME NEW i \in Counting(k)'
                 PROVE  i \in Counting(k)
      OBVIOUS
    <3>1. i \in DOMAIN admissions[k] /\ InWindow(admissions[k][i], clock')
      BY DEF Counting, InWindow, TimeOf
    <3>2. admissions[k][i] \in Use
      BY <2>1, <3>1 DEF PolicyTypeOK
    <3>3. TimeOf(admissions[k][i]) \in Nat
      BY <3>2 DEF Use, TimeOf
    <3>4. InWindow(admissions[k][i], clock)
      BY <1>1, <3>1, <3>3 DEF InWindow
    <3> QED
      BY <3>1, <3>4 DEF Counting
  <2>3. /\ IsFiniteSet(Counting(k)) /\ RecentAdmissions(k) = Cardinality(Counting(k))
        /\ RecentAdmissions(k) \in Nat
    BY <2>1, CountingIsFinite
  <2>4. RecentAdmissions(k)' <= RecentAdmissions(k) /\ RecentAdmissions(k)' \in Nat
    <3>1. RecentAdmissions(k)' = Cardinality(Counting(k)')
      BY DEF RecentAdmissions, Counting
    <3>2. IsFiniteSet(Counting(k)') /\ Cardinality(Counting(k)') <= Cardinality(Counting(k))
      BY <2>2, <2>3, FS_Subset
    <3> QED
      BY <2>3, <3>1, <3>2, FS_CardinalityType
  <2>5. ASSUME NEW t \in Thread, About(t, k)', call'[t].at \in {"record", "write"},
               ~ call'[t].confirmed, call'[t].limit # NoLimit
        PROVE  RecentAdmissions(k)' < call'[t].limit
    <3>1. About(t, k) /\ call'[t] = call[t]
      BY <2>5 DEF About
    <3>2. RecentAdmissions(k) < call[t].limit
      BY <2>1, <2>5, <3>1 DEF KeyInv
    <3>3. call[t].limit \in Nat
      BY <2>1, <2>5, <3>1, CallsAre DEF About
    <3> QED
      BY <2>3, <2>4, <3>1, <3>2, <3>3
  <2>6. \A t, u \in Thread : About(t, k)' /\ About(u, k)' => t = u
    BY <2>1 DEF KeyInv, About
  <2>7. \A i, j \in Counting(k)' : admissions'[k][i] = admissions'[k][j] => i = j
    BY <2>1, <2>2 DEF KeyInv
  <2>8. Covers(usage[k], k)'
    BY <2>1, <2>2 DEF KeyInv, Covers
  <2>9. ASSUME NEW t \in Thread, About(t, k)', call'[t].at # "record", call'[t].samples # {}
        PROVE  Covers(call[t].samples, k)'
    <3>1. Covers(call[t].samples, k)
      BY <2>1, <2>9 DEF KeyInv, About
    <3> QED
      BY <2>2, <3>1 DEF Covers
  <2> QED
    BY <2>5, <2>6, <2>7, <2>8, <2>9 DEF KeyInv
<1> QED
  BY <1>2, <1>3 DEF PolicyInv

LEMMA PolicyStep == PolicyInv /\ [PolicyNext]_policyVars => PolicyInv'
<1> SUFFICES ASSUME PolicyInv, [PolicyNext]_policyVars
             PROVE  PolicyInv'
  OBVIOUS
<1>1. ASSUME NEW t \in Thread, Step(t) \/ Admin(t), UNCHANGED clock
      PROVE  PolicyInv'
  <2>1. CASE \E k \in Key, confirmed, blocked \in BOOLEAN : Evaluate(t, k, confirmed, blocked)
    BY <1>1, <2>1, EvaluateKeeps
  <2>2. CASE CheckQuota(t)
    BY <1>1, <2>2, CheckKeeps
  <2>3. CASE ReadSamples(t)
    BY <1>1, <2>3, ReadKeeps
  <2>4. CASE call[t] # Idle /\ RecordQuotaUsage(t)
    BY <1>1, <2>4, RecordKeeps
  <2>5. CASE \E k \in Key : ReadForStatus(t, k)
    BY <1>1, <2>5, StatusBegins
  <2>6. CASE PruneForStatus(t)
    BY <1>1, <2>6, StatusEnds
  <2>7. CASE Admin(t)
    <3>1. CASE \E p \in Profile : SetProfile(t, p)
      BY <1>1, <3>1, SetProfileKeeps
    <3>2. CASE \E keys \in SUBSET Key : ResetQuotaUsage(t, keys)
      BY <1>1, <3>2, ResetKeeps
    <3>3. \/ \E p \in Profile : SetProfile(t, p)
          \/ \E keys \in SUBSET Key : ResetQuotaUsage(t, keys)
      <4>1. \A k \in Key : {k} \in SUBSET Key
        OBVIOUS
      <4> QED
        BY <2>7, <4>1 DEF Admin
    <3> QED
      BY <3>1, <3>2, <3>3
  <2> QED
    BY <1>1, <2>1, <2>2, <2>3, <2>4, <2>5, <2>6, <2>7 DEF Step
<1>2. CASE (RestartPolicy(stored) \/ CrashWhileSaving) /\ UNCHANGED clock
  <2>1. stored \in Profile \cup {NoProfile}
    BY DEF PolicyInv, PolicyOK, PolicyTypeOK
  <2>2. \E f \in Profile \cup {NoProfile} : RestartPolicy(f)
    BY <1>2, <2>1 DEF CrashWhileSaving
  <2> QED
    BY <1>2, <2>2, RestartKeeps
<1>3. CASE ClockTicks /\ UNCHANGED <<profile, stored, usage, call, admissions, contended>>
  BY <1>3, ClockKeeps
<1>4. CASE UNCHANGED policyVars
  <2>1. UNCHANGED <<profile, stored, usage, call, clock, admissions, contended>>
    BY <1>4 DEF policyVars
  <2>2. PolicyOK'
    BY <2>1 DEF PolicyInv, PolicyOK, PolicyTypeOK
  <2>3. \A k \in Key \ contended' : KeyInv(k)'
    BY <2>1, KeyFrame DEF PolicyInv
  <2> QED
    BY <2>2, <2>3 DEF PolicyInv
<1> QED
  BY <1>1, <1>2, <1>3, <1>4 DEF PolicyNext

(* policy.py:123-144: where no two calls were about one key at once, a quota   *)
(* of n lets n unconfirmed uses through in a window and no more, for any quota *)
(* and window, across profile switches, resets, status reads and restarts.     *)
THEOREM QuotasHold == PolicySpec => QuotaEnforced
<1>1. PolicyInit => PolicyInv
  <2> SUFFICES ASSUME PolicyInit
               PROVE  PolicyInv
    OBVIOUS
  <2>1. Fresh
    BY PolicyConstants DEF PolicyInit, Fresh
  <2> QED
    BY <2>1, FreshHolds
<1>2. PolicyInv /\ [PolicyNext]_policyVars
        => [\A k \in Key \ contended :
              Len(admissions'[k]) > Len(admissions[k])
                => \E t \in Thread :
                     /\ call[t] # Idle /\ call[t].key = k
                     /\ call[t].limit = NoLimit \/ RecentAdmissions(k) < call[t].limit]_policyVars
  <2> SUFFICES ASSUME PolicyInv, PolicyNext, NEW k \in Key \ contended,
                      Len(admissions'[k]) > Len(admissions[k])
               PROVE  \E t \in Thread :
                        /\ call[t] # Idle /\ call[t].key = k
                        /\ call[t].limit = NoLimit \/ RecentAdmissions(k) < call[t].limit
    OBVIOUS
  <2>1. admissions \in [Key -> Seq(Use)] /\ Len(admissions[k]) \in Nat
    BY DEF PolicyInv, PolicyOK, PolicyTypeOK
  <2>2. admissions'[k] # admissions[k] /\ admissions'[k] # <<>>
    BY <2>1
  <2>3. \E t \in Thread : call[t] # Idle /\ RecordQuotaUsage(t)
    <3>1. ~ ClockTicks \/ admissions' # admissions
      BY <2>2
    <3>2. ASSUME NEW f, RestartPolicy(f)
          PROVE  FALSE
      BY <2>2, <3>2 DEF RestartPolicy
    <3>3. ASSUME NEW t \in Thread, NEW j \in Key, Contends(t, j)
          PROVE  FALSE
      BY <2>1, <2>2, <3>3 DEF Contends
    <3>4. ASSUME NEW t \in Thread, NEW keys \in SUBSET Key, ResetQuotaUsage(t, keys)
          PROVE  FALSE
      BY <2>2, <3>4 DEF ResetQuotaUsage
    <3>5. ASSUME NEW t \in Thread, Step(t)
          PROVE  call[t] # Idle /\ RecordQuotaUsage(t)
      BY <2>2, <3>3, <3>5 DEF Step, Evaluate, CheckQuota, ReadSamples, ReadForStatus, PruneForStatus
    <3>6. ASSUME NEW t \in Thread, Admin(t)
          PROVE  FALSE
      <4>1. \A j \in Key : {j} \in SUBSET Key
        OBVIOUS
      <4> QED
        BY <2>2, <3>4, <3>6, <4>1 DEF Admin, SetProfile
    <3> QED
      BY <2>2, <3>2, <3>5, <3>6 DEF PolicyNext, CrashWhileSaving
  <2>4. PICK t \in Thread : call[t] # Idle /\ RecordQuotaUsage(t)
    BY <2>3
  <2>5. call[t].key = k /\ ~ call[t].confirmed /\ call[t].at = "write"
    BY <2>1, <2>2, <2>4 DEF RecordQuotaUsage
  <2>6. KeyInv(k)
    BY DEF PolicyInv
  <2>7. call[t].limit = NoLimit \/ RecentAdmissions(k) < call[t].limit
    BY <2>4, <2>5, <2>6 DEF KeyInv, About
  <2> QED
    BY <2>4, <2>5, <2>7
<1> QED
  BY <1>1, <1>2, PolicyStep, PTL DEF PolicySpec, QuotaEnforced

===============================================================================
