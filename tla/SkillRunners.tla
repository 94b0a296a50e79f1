------------------------------ MODULE SkillRunners ------------------------------
(* _dispatch_step of aegis/orchestrator/core.py and the runners behind it,      *)
(* container_runner.py and container_security.py: a step of a tier 1 skill runs *)
(* in a thread of this process, one of a higher tier in a container whose image *)
(* is checked first.  Several workers dispatch at once.  podman, cosign and     *)
(* trivy are external.                                                          *)
EXTENDS Naturals, FiniteSets

CONSTANTS
  Worker,
  Image,           \* contents the image tag can stand for
  Expected,        \* contents with the digest AEGIS_IMAGE_DIGESTS names
  Signed,          \* contents cosign accepts
  Vulnerable,      \* contents trivy has findings for
  MaxContainers    \* bound: containers started

ASSUME RunnerConstants ==
  /\ Expected \cup Signed \cup Vulnerable \subseteq Image /\ "none" \notin Image
  /\ MaxContainers \in Nat \ {0}

Container == 1 .. MaxContainers
NoContainer == 0

(* The environment of the process: podman or docker found; the tag on the list  *)
(* or written with a digest; the digest policy, which may be unset, no JSON,    *)
(* without this image ("silent") or naming a digest for it; and the rest.       *)
Settings == [runtime : BOOLEAN, listed : BOOLEAN, pinned : BOOLEAN, strict : BOOLEAN,
             digests : {"unset", "invalid", "silent", "named"},
             cosign : {"not required", "missing", "installed"}, trivy : BOOLEAN]

VARIABLES
  settings,
  image,           \* what the tag stands for now
  dispatch,        \* worker -> where its dispatch is
  container,       \* what each started container was started from and does
  sandbox          \* workers whose sandbox directory exists

runnerVars == <<settings, image, dispatch, container, sandbox>>

NoImage == "none"
NoDispatch == [at |-> "idle", runs |-> NoContainer, checked |-> NoImage]
NotStarted == [state |-> "none", image |-> NoImage, checked |-> NoImage, reported |-> "none"]

RunnerTypeOK ==
  /\ settings \in Settings /\ image \in Image /\ sandbox \subseteq Worker
  /\ dispatch \in [Worker -> [at : {"idle", "verify", "scan", "prepare", "container", "skill"},
                              runs : Container \cup {NoContainer},
                              checked : Image \cup {NoImage}]]
  /\ container \in [Container -> [state : {"none", "running", "gone"},
                                  image : Image \cup {NoImage},
                                  checked : Image \cup {NoImage},
                                  reported : {"none", "ok", "failed", "timeout", "lost"}]]

-------------------------------------------------------------------------------
Goes(w, place) == dispatch' = [dispatch EXCEPT ![w].at = place]
\* A result, or the reason of a failed step, for the orchestrator.
Returns(w) == dispatch' = [dispatch EXCEPT ![w] = NoDispatch]

\* mutant: the digest of an image is compared only in strict mode
VerifiedLaxly(i) ==
  /\ settings.listed \/ settings.pinned
  /\ settings.pinned \/
       /\ settings.digests = "named" /\ settings.strict => i \in Expected
       /\ settings.cosign # "not required" => settings.cosign = "installed" /\ i \in Signed

(* verify_image_provenance.  A tag with a digest is believed.  A signature is   *)
(* asked for in addition to the digest; without that policy, strict mode is     *)
(* content with any digest policy, even one that is silent about this image.    *)
Verified(i) ==
  /\ settings.listed \/ settings.pinned
  /\ settings.pinned \/
       /\ settings.digests # "invalid"
       /\ settings.digests = "named" => i \in Expected
       /\ IF settings.cosign = "not required"
          THEN settings.strict => settings.digests # "unset"
          ELSE settings.cosign = "installed" /\ i \in Signed

\* vulnerability_scan: without trivy "clean", and a scan that fails is accepted.
ScanAnswers(i) ==
  IF settings.trivy THEN {IF i \in Vulnerable THEN "vulnerable" ELSE "clean", "unknown"}
                    ELSE {"clean"}

-------------------------------------------------------------------------------
\* _dispatch_step by tier.  No container runtime raises, which is a failed step.
DispatchInProcess(w) ==
  /\ dispatch[w].at = "idle" /\ Goes(w, "skill")
  /\ UNCHANGED <<settings, image, container, sandbox>>

DispatchToContainer(w) ==
  /\ dispatch[w].at = "idle"
  /\ IF settings.runtime THEN Goes(w, "verify") ELSE Returns(w)
  /\ UNCHANGED <<settings, image, container, sandbox>>

(* InProcessRunner: the executor is left, and so the thread awaited, also when  *)
(* the time is up: a timeout is reported when the skill has ended, with its     *)
(* effect, and a skill that never ends keeps the worker.                        *)
EndInProcess(w) ==
  /\ dispatch[w].at = "skill" /\ Returns(w)
  /\ UNCHANGED <<settings, image, container, sandbox>>

VerifyImage(w) ==
  /\ dispatch[w].at = "verify"
  /\ IF Verified(image)
     THEN dispatch' = [dispatch EXCEPT ![w].at = "scan", ![w].checked = image]
     ELSE Returns(w)
  /\ UNCHANGED <<settings, image, container, sandbox>>

ScanImage(w) ==
  /\ dispatch[w].at = "scan"
  /\ \E status \in ScanAnswers(image) :
       IF status \in {"clean", "unknown"} THEN Goes(w, "prepare") ELSE Returns(w)
  /\ UNCHANGED <<settings, image, container, sandbox>>

\* The directory with the seccomp profile, then the command, on what the tag is now.
PrepareSandbox(w) ==
  /\ dispatch[w].at = "prepare" /\ w \notin sandbox /\ sandbox' = sandbox \cup {w}
  /\ UNCHANGED <<settings, image, dispatch, container>>

StartContainer(w) ==
  /\ dispatch[w].at = "prepare" /\ w \in sandbox
  /\ \E c \in Container :
       /\ container[c].state = "none" /\ \A d \in Container : container[d].state = "none" => c <= d
       /\ container' = [container EXCEPT ![c] = [state |-> "running", image |-> image,
                              checked |-> dispatch[w].checked, reported |-> "none"]]
       /\ dispatch' = [dispatch EXCEPT ![w].at = "container", ![w].runs = c]
  /\ UNCHANGED <<settings, image, sandbox>>

\* The command cannot be started: subprocess.run raises, and finally cleans up.
FailToStart(w) ==
  /\ dispatch[w].at = "prepare" /\ w \in sandbox
  /\ sandbox' = sandbox \ {w} /\ Returns(w)
  /\ UNCHANGED <<settings, image, container>>

ContainerEnds(c) ==
  /\ container[c].state = "running" /\ container' = [container EXCEPT ![c].state = "gone"]
  /\ UNCHANGED <<settings, image, dispatch, sandbox>>

Reports(w, reported) ==
  /\ container' = [container EXCEPT ![dispatch[w].runs].reported = reported]
  /\ sandbox' = sandbox \ {w} /\ Returns(w)

\* The exit status and what the worker printed decide.
ReadContainer(w) ==
  /\ dispatch[w].at = "container" /\ container[dispatch[w].runs].state = "gone"
  /\ \E reported \in {"ok", "failed"} : Reports(w, reported)
  /\ UNCHANGED <<settings, image>>

\* mutant: the exit status of the client is not looked at, only what was printed
BelievesOutput(w) ==
  /\ dispatch[w].at = "container" /\ container[dispatch[w].runs].state = "running"
  /\ \E reported \in {"ok", "failed"} : Reports(w, reported)
  /\ UNCHANGED <<settings, image>>

(* The client of the runtime is killed or loses the runtime: its exit status is *)
(* not 0, which is reported like a failure of the skill.  The container goes    *)
(* on, without its sandbox directory.                                           *)
ClientFails(w) ==
  /\ dispatch[w].at = "container" /\ container[dispatch[w].runs].state = "running"
  /\ Reports(w, "failed") /\ UNCHANGED <<settings, image>>

(* The time is up: subprocess.run kills the client of the runtime.  The         *)
(* container may end with it or go on, without its sandbox directory.           *)
ContainerTimesOut(w) ==
  /\ dispatch[w].at = "container" /\ container[dispatch[w].runs].state = "running"
  /\ sandbox' = sandbox \ {w} /\ Returns(w)
  /\ \E state \in {"running", "gone"} :
       container' = [container EXCEPT ![dispatch[w].runs].state = state,
                                      ![dispatch[w].runs].reported = "timeout"]
  /\ UNCHANGED <<settings, image>>

\* The tag is pulled or built anew.
MoveTag(i) ==
  /\ i # image /\ image' = i
  /\ UNCHANGED <<settings, dispatch, container, sandbox>>

\* The process ends: containers go on, and directories stay under /tmp.
RunnerExits ==
  /\ dispatch' = [w \in Worker |-> NoDispatch] /\ sandbox' = {}
  /\ container' = [c \in Container |-> IF container[c].state = "running"
                                       THEN [container[c] EXCEPT !.reported = "lost"]
                                       ELSE container[c]]
  /\ UNCHANGED <<settings, image>>

-------------------------------------------------------------------------------
RunnerInit ==
  /\ settings \in Settings /\ image \in Image
  /\ dispatch = [w \in Worker |-> NoDispatch] /\ container = [c \in Container |-> NotStarted]
  /\ sandbox = {}

RunnerNext ==
  \/ \E w \in Worker :
       \/ DispatchInProcess(w) \/ DispatchToContainer(w) \/ EndInProcess(w)
       \/ VerifyImage(w) \/ ScanImage(w) \/ PrepareSandbox(w) \/ StartContainer(w)
       \/ FailToStart(w) \/ ReadContainer(w) \/ ClientFails(w) \/ ContainerTimesOut(w)
  \/ \E c \in Container : ContainerEnds(c)
  \/ \E i \in Image : MoveTag(i)
  \/ RunnerExits

RunnerSpec == RunnerInit /\ [][RunnerNext]_runnerVars

-------------------------------------------------------------------------------
Waiting(c) == {w \in Worker : dispatch[w].at = "container" /\ dispatch[w].runs = c}

(* While a container runs, its step is either waited for, by exactly one worker *)
(* and with its sandbox directory in place, or it has failed: by its time-out,  *)
(* by the end of the client or of the process.  Never does a step succeed while *)
(* its skill is still at work.  (A retry after such a failure runs beside it.)  *)
StragglersAreReported ==
  \A c \in Container :
    container[c].state = "running" =>
      IF container[c].reported = "none"
      THEN Cardinality(Waiting(c)) = 1 /\ Waiting(c) \subseteq sandbox
      ELSE container[c].reported # "ok"

(* What runs in a container is what the settings demand: listed, with the named *)
(* digest, signed; unless the tag carries its digest, or moved between the      *)
(* check and the start.                                                         *)
RunsAreVetted ==
  \A c \in Container :
    container[c].state = "running" /\ ~ settings.pinned
      /\ container[c].image = container[c].checked =>
      /\ settings.listed
      /\ settings.digests = "named" => container[c].image \in Expected
      /\ settings.cosign # "not required" => container[c].image \in Signed
===============================================================================
