----------------------------- MODULE PackageManager -----------------------------
(* aegis/skills/package_manager_skill.py: the skill that installs, removes and  *)
(* upgrades packages of the system through its package manager (external).      *)
(* The skill keeps no state of its own; what it changes is the system.          *)
EXTENDS Naturals, FiniteSets

CONSTANTS
  Package,
  Name,            \* what a caller may ask for
  Argument,        \* what the pattern lets through: a package's name, or not
  NoPackage,       \* no name, or one that the pattern does not let through
  Resolved,        \* name -> argument: lower case, pattern and _ALIASES
  Along,           \* argument -> packages that a command about it reaches besides
  PackageAllowlist, \* AEGIS_PACKAGE_ALLOWLIST; empty: every argument
  Blocklist        \* AEGIS_PACKAGE_BLOCKLIST

(* Along is the package manager's: dependencies, dependents and conflicts, and  *)
(* what it takes an argument for that names no package of its own (apt reads    *)
(* "name-" as the removal of name, "name+" as its installation).                *)
ASSUME PackageConstants ==
  /\ NoPackage \notin Argument /\ Resolved \in [Name -> Argument \cup {NoPackage}]
  /\ Along \in [Argument -> SUBSET Package]

VARIABLES
  backend,         \* what _detect_backend finds
  installed,       \* the packages of the system
  lists,           \* apt's idea of what is new: "stale" or "fresh"
  answer           \* history: the last call and its result

packageVars == <<backend, installed, lists, answer>>

Backend == {"apt", "brew", "dnf", "pacman", "none"}
Condition == {"absent", "old", "new", "half"}
Fault == {"CONFIRMATION_REQUIRED", "NO_PACKAGE_MANAGER", "MISSING_PACKAGE",
          "PACKAGE_BLOCKED", "PACKAGE_NOT_ALLOWED", "COMMAND"}
NoAnswer == [action |-> "none", package |-> NoPackage, confirmed |-> FALSE,
             result |-> "ok", packages |-> {}]

PackageTypeOK ==
  /\ backend \in Backend /\ lists \in {"stale", "fresh"}
  /\ installed \in [Package -> Condition]
  /\ answer \in [action : {"none", "resolve", "search", "simulate_install", "install",
                           "remove", "upgrade", "list_installed"},
                 package : Argument \cup {NoPackage}, confirmed : BOOLEAN,
                 result : Fault \cup {"ok"}, packages : SUBSET Package]

-------------------------------------------------------------------------------
\* mutant: the lists are compared with the name that was asked for
PolicyErrorOfName(name, argument) ==
  IF name \in Blocklist THEN "PACKAGE_BLOCKED"
  ELSE IF PackageAllowlist # {} /\ argument \notin PackageAllowlist THEN "PACKAGE_NOT_ALLOWED"
  ELSE "ok"

\* _check_package_policy: the lists are about the argument, not what it reaches.
PolicyError(name, argument) ==
  IF argument \in Blocklist THEN "PACKAGE_BLOCKED"
  ELSE IF PackageAllowlist # {} /\ argument \notin PackageAllowlist THEN "PACKAGE_NOT_ALLOWED"
  ELSE "ok"

\* What a call answers before any command runs; "ok": the command runs.  resolve
\* ignores the lists; an upgrade without a package is one of everything.
Verdict(action, name, confirmed) ==
  LET argument == Resolved[name] IN
  CASE action \in {"install", "remove", "upgrade"} /\ ~ confirmed -> "CONFIRMATION_REQUIRED"
    [] action \in {"resolve", "search"} /\ argument = NoPackage -> "MISSING_PACKAGE"
    [] OTHER ->
         CASE backend = "none" -> "NO_PACKAGE_MANAGER"
           [] backend # "none" /\ argument = NoPackage ->
                IF action = "upgrade" THEN "ok" ELSE "MISSING_PACKAGE"
           [] OTHER -> IF action = "resolve" THEN "ok" ELSE PolicyError(name, argument)

Answers(action, name, confirmed, result) ==
  answer' = [action |-> action, package |-> Resolved[name], confirmed |-> confirmed,
             result |-> result, packages |-> {}]

\* What the command makes of the package it is about when it succeeds.
After(action, condition) ==
  CASE action = "install" -> "new"
    [] action = "remove"  -> "absent"
    [] action = "upgrade" -> IF condition = "absent" /\ backend # "pacman" THEN "absent" ELSE "new"

(* _run: a command that succeeds leaves the package it is about as it should    *)
(* be, and what it reaches besides installed, removed or alone; one that fails, *)
(* or is killed when its time is up, has done all, some or nothing of it.       *)
Command(action, argument, besides, result) ==
  LET done(p) == IF p = argument THEN {After(action, installed[p])}
                                 ELSE {installed[p], "new", "absent"}
      left(p) == IF result = "ok" THEN {} ELSE {installed[p], "half"}
  IN  /\ installed' \in [Package -> Condition]
      /\ \A p \in Package : IF p = argument \/ p \in besides
                            THEN installed'[p] \in done(p) \cup left(p)
                            ELSE installed'[p] = installed[p]

-------------------------------------------------------------------------------
Refuse(action, name, confirmed) ==
  LET verdict == Verdict(action, name, confirmed) IN
  /\ verdict # "ok" /\ Answers(action, name, confirmed, verdict)
  /\ UNCHANGED <<backend, installed, lists>>

\* resolve, search and simulate_install change nothing; only search runs a command.
Look(action, name) ==
  /\ action \in {"resolve", "search", "simulate_install"}
  /\ Verdict(action, name, FALSE) = "ok"
  /\ \E result \in {"ok", "COMMAND"} :
       (result = "ok" \/ action = "search") /\ Answers(action, name, FALSE, result)
  /\ UNCHANGED <<backend, installed, lists>>

\* install, remove and upgrade of one argument
ChangePackage(action, name, confirmed) ==
  /\ action \in {"install", "remove", "upgrade"}
  /\ Verdict(action, name, confirmed) = "ok" /\ Resolved[name] # NoPackage
  /\ \E result \in {"ok", "COMMAND"} :
       /\ Command(action, Resolved[name], Along[Resolved[name]], result)
       /\ Answers(action, name, confirmed, result)
  /\ UNCHANGED <<backend, lists>>

(* upgrade of everything: what the lists forbid by name is reached too, and     *)
(* what is held back stays.  apt first refreshes its lists, and stops when that *)
(* fails.                                                                       *)
UpgradeAll(name, confirmed) ==
  /\ Verdict("upgrade", name, confirmed) = "ok" /\ Resolved[name] = NoPackage
  /\ \/ /\ backend = "apt" /\ Answers("upgrade", name, confirmed, "COMMAND")
        /\ UNCHANGED <<installed, lists>>
     \/ /\ lists' = IF backend = "apt" THEN "fresh" ELSE lists
        /\ \E result \in {"ok", "COMMAND"} :
             /\ Command("upgrade", NoPackage, Package, result)
             /\ Answers("upgrade", name, confirmed, result)
  /\ UNCHANGED backend

(* list_installed cuts first and filters then, and compares whole lines with    *)
(* the lists: dnf and pacman print a version behind the name, which equals no   *)
(* entry of either list.                                                        *)
ListInstalled(shown) ==
  LET bare == backend \in {"apt", "brew"} IN
  /\ shown \subseteq {p \in Package : installed[p] # "absent"}
  /\ \/ \E fault \in {IF backend = "none" THEN "NO_PACKAGE_MANAGER" ELSE "COMMAND"} :
          answer' = [NoAnswer EXCEPT !.action = "list_installed", !.result = fault]
     \/ backend # "none" /\ answer' = [NoAnswer EXCEPT !.action = "list_installed",
          !.packages = {p \in shown : /\ PackageAllowlist = {} \/ (bare /\ p \in PackageAllowlist)
                                      /\ bare => p \notin Blocklist}]
  /\ UNCHANGED <<backend, installed, lists>>

-------------------------------------------------------------------------------
PackageInit ==
  /\ backend \in Backend /\ installed \in [Package -> {"absent", "old"}]
  /\ lists = "stale" /\ answer = NoAnswer

PackageNext ==
  \/ \E name \in Name, confirmed \in BOOLEAN :
       \/ \E action \in {"resolve", "search", "simulate_install"} :
            Refuse(action, name, FALSE) \/ Look(action, name)
       \/ \E action \in {"install", "remove", "upgrade"} :
            Refuse(action, name, confirmed) \/ ChangePackage(action, name, confirmed)
       \/ UpgradeAll(name, confirmed)
  \/ \E shown \in SUBSET Package : ListInstalled(shown)

PackageSpec == PackageInit /\ [][PackageNext]_packageVars

-------------------------------------------------------------------------------
Permitted(argument) ==
  argument \notin Blocklist /\ (PackageAllowlist = {} \/ argument \in PackageAllowlist)

(* A package changes only in a confirmed call: an upgrade of everything, or one *)
(* about an argument that the lists permit, whatever alias it was asked for by, *)
(* and that is the package or reaches it.  (So a package that the lists forbid  *)
(* still changes beside one that they permit, or for an argument that apt takes *)
(* for it: the lists guard the argument and nothing else.)                      *)
ChangesArePermitted ==
  [][\A p \in Package :
       installed'[p] # installed[p] =>
         LET argument == answer'.package IN
         /\ answer'.confirmed
         /\ IF argument = NoPackage THEN answer'.action = "upgrade"
            ELSE Permitted(argument) /\ p \in Along[argument] \cup {argument}]_packageVars
===============================================================================
