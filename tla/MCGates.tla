--------------------------------- MODULE MCGates ---------------------------------
(* What a step has to pass, one part at a time: the guardian, over days of two  *)
(* hours, so that rows expire within a day, at its end and on a later day; the  *)
(* policy, with a quota of two for search under balanced and of one under       *)
(* strict, which also denies launch; the package skill; and the runners.        *)
EXTENDS Guardian, ExecutionPolicy, PackageManager, SkillRunners, TLC

CONSTANTS search, launch, balanced, strict

MCDeniedBy == [p \in {balanced, strict} |-> IF p = strict THEN {launch} ELSE {}]

MCLimit == [p \in {balanced, strict} |->
              [k \in {search, launch} |->
                 IF k = launch THEN NoLimit ELSE IF p = strict THEN 1 ELSE 2]]

\* One use of launch is enough, to meet calls about search.
MCMaxSamples == [k \in {search, launch} |-> IF k = search THEN 2 ELSE 1]

\* vim is no argument that the lists permit, but git reaches it.
MCAlong == [argument \in {"code", "git", "vim"} |-> IF argument = "git" THEN {"vim"} ELSE {}]

MCResolved == [vscode |-> "code", git |-> "git", vim |-> "vim", nothing |-> "none"]

VARIABLE part

\* The settings vary one at a time from a listed image with a named digest.
OneSettingChanged ==
  LET base == [runtime |-> TRUE, listed |-> TRUE, pinned |-> FALSE, strict |-> FALSE,
               digests |-> "named", cosign |-> "installed", trivy |-> TRUE]
  IN  {s \in Settings : Cardinality({f \in DOMAIN s : s[f] # base[f]}) <= 1}

Init ==
  /\ GuardianInit /\ PolicyInit /\ PackageInit /\ RunnerInit
  /\ part \in {"guardian", "policy", "packages", "runners"}
  /\ part # "guardian" => persistent
  /\ part # "packages" => backend = "none" /\ \A p \in Package : installed[p] = "old"
  /\ IF part = "runners" THEN settings \in OneSettingChanged
     ELSE settings = CHOOSE s \in OneSettingChanged : s.runtime
  /\ part # "runners" => image \in Expected

Next ==
  /\ UNCHANGED part
  /\ \/ part = "guardian" /\ GuardianNext /\ UNCHANGED <<policyVars, packageVars, runnerVars>>
     \/ part = "policy" /\ PolicyNext /\ UNCHANGED <<guardianVars, packageVars, runnerVars>>
     \/ part = "packages" /\ PackageNext /\ UNCHANGED <<guardianVars, policyVars, runnerVars>>
     \/ part = "runners" /\ RunnerNext /\ UNCHANGED <<guardianVars, policyVars, packageVars>>

Spec == Init /\ [][Next]_<<guardianVars, policyVars, packageVars, runnerVars, part>>

Symmetric == Permutations(Worker) \cup Permutations(Thread)
===============================================================================
