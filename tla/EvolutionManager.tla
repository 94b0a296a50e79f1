---------------------------- MODULE EvolutionManager ----------------------------
(* aegis/evolution.py: proposals pass their gates, an adapter snapshot is kept  *)
(* of each, and a failed smoke test takes it back.  API threads call it without *)
(* a lock; everything is in memory.                                             *)
EXTENDS Naturals, FiniteSets, SequencesExt

CONSTANTS
  Proposal,
  DeltaWithin,     \* their perplexity delta is a finite number within the threshold
  SmokePasses,     \* run_smoke_tests answers yes
  SmokeRaises,     \* it raises: a min_eval_score that is no number
  Creation,        \* the <<canary, signoff required>> a proposal is created with
  Execution,       \* the <<canary, signoff>> it is executed with
  Applier,         \* API threads
  MaxSnapshots     \* 4

Canary == {"none", "partial", "full"}     \* 0, between, 100 per cent

ASSUME EvolutionConstants ==
  /\ Proposal # {} /\ IsFiniteSet(Applier) /\ SmokePasses \cap SmokeRaises = {}
  /\ MaxSnapshots \in Nat \ {0} /\ Creation \cup Execution \subseteq Canary \X BOOLEAN

VARIABLES
  proposals,       \* proposal -> its record
  snapshots,       \* adapter_snapshots, the newest last
  applying,        \* thread -> the call it is in
  appliedLog,      \* history: the proposals whose application was not taken back, in order
  crowded          \* history: two calls overlapped

evolutionVars == <<proposals, snapshots, applying, appliedLog, crowded>>

Fresh(known, canary, required) ==
  [known |-> known, approved |-> FALSE, applied |-> FALSE,
   canary |-> canary, required |-> required, signoff |-> FALSE]

NoApply == [at |-> "out", proposal |-> CHOOSE p \in Proposal : TRUE, signoff |-> FALSE]

EvolutionTypeOK ==
  /\ proposals \in [Proposal -> [known : BOOLEAN, approved : BOOLEAN, applied : BOOLEAN,
                                 canary : Canary, required : BOOLEAN, signoff : BOOLEAN]]
  /\ Len(snapshots) <= MaxSnapshots + Cardinality(Applier)
  /\ \A i \in DOMAIN snapshots : snapshots[i] \in Proposal
  /\ applying \in [Applier -> [at : {"out", "signoff", "gates", "snapshot", "trim", "apply",
                                     "smoke", "rollback", "undo"},
                               proposal : Proposal, signoff : BOOLEAN]]
  /\ crowded \in BOOLEAN

Applies(t, place) == applying[t].at = place
ApplyGoes(t, place) == applying' = [applying EXCEPT ![t].at = place]
LeaveApply(t) == applying' = [applying EXCEPT ![t] = NoApply]
SetProposal(t, field, value) ==
  proposals' = [proposals EXCEPT ![applying[t].proposal][field] = value]

-------------------------------------------------------------------------------
CreateProposal(p, canary, required) ==
  /\ ~ proposals[p].known
  /\ proposals' = [proposals EXCEPT ![p] = Fresh(TRUE, canary, required)]
  /\ UNCHANGED <<snapshots, applying, appliedLog, crowded>>

ApproveProposal(p) ==
  /\ proposals[p].known
  /\ proposals' = [proposals EXCEPT ![p].approved = TRUE]
  /\ UNCHANGED <<snapshots, applying, appliedLog, crowded>>

EnterApply(t, p, place, signoff) ==
  /\ Applies(t, "out") /\ proposals[p].known
  /\ applying' = [applying EXCEPT ![t] = [at |-> place, proposal |-> p, signoff |-> signoff]]
  /\ crowded' = (crowded \/ \E o \in Applier : ~ Applies(o, "out"))
  /\ UNCHANGED <<snapshots, appliedLog>>

\* execute_proposal sets the canary, and then the signoff, before it looks
\* whether the proposal is approved.
ExecuteProposal(t, p, canary, signoff) ==
  /\ ~ proposals[p].applied
  /\ EnterApply(t, p, "signoff", signoff)
  /\ proposals' = [proposals EXCEPT ![p].canary = canary]

SignOff(t) ==
  /\ Applies(t, "signoff") /\ ApplyGoes(t, "gates")
  /\ SetProposal(t, "signoff", applying[t].signoff)
  /\ UNCHANGED <<snapshots, appliedLog, crowded>>

ApplyProposal(t, p) ==
  EnterApply(t, p, "gates", FALSE) /\ UNCHANGED proposals

\* The gates of apply_proposal, for the proposal as it is now
Passes(p) ==
  LET it == proposals[p] IN
    /\ ~ it.applied /\ it.approved
    /\ it.required \/ it.canary = "partial" => it.signoff
    /\ p \in DeltaWithin

CheckGates(t) ==
  /\ Applies(t, "gates")
  /\ IF Passes(applying[t].proposal) THEN ApplyGoes(t, "snapshot") ELSE LeaveApply(t)
  /\ UNCHANGED <<proposals, snapshots, appliedLog, crowded>>

\* persist_snapshot
PersistSnapshot(t) ==
  /\ Applies(t, "snapshot") /\ ApplyGoes(t, "trim")
  /\ snapshots' = Append(snapshots, applying[t].proposal)
  /\ UNCHANGED <<proposals, appliedLog, crowded>>

TrimSnapshots(t) ==
  /\ Applies(t, "trim") /\ ApplyGoes(t, "apply")
  /\ snapshots' = IF Len(snapshots) > MaxSnapshots THEN Tail(snapshots) ELSE snapshots
  /\ UNCHANGED <<proposals, appliedLog, crowded>>

MarkApplied(t) ==
  /\ Applies(t, "apply") /\ ApplyGoes(t, "smoke")
  /\ SetProposal(t, "applied", TRUE)
  /\ UNCHANGED <<snapshots, appliedLog, crowded>>

\* An exception leaves the call as a yes does: nothing is taken back.
Stands(p) == p \in SmokePasses \cup SmokeRaises

RunSmokeTests(t) ==
  /\ Applies(t, "smoke")
  /\ \/ /\ Stands(applying[t].proposal) /\ LeaveApply(t)
        /\ appliedLog' = Append(appliedLog, applying[t].proposal)
     \/ /\ ~ Stands(applying[t].proposal) /\ ApplyGoes(t, "rollback")
        /\ UNCHANGED appliedLog
  /\ UNCHANGED <<proposals, snapshots, crowded>>

\* mutant: the oldest snapshot goes
RollbackFirstSnapshot(t) ==
  /\ Applies(t, "rollback") /\ ApplyGoes(t, "undo")
  /\ snapshots' = IF snapshots = <<>> THEN <<>> ELSE Tail(snapshots)
  /\ UNCHANGED <<proposals, appliedLog, crowded>>

\* The newest snapshot goes, whoever appended it; what the trim dropped is gone.
RollbackLastSnapshot(t) ==
  /\ Applies(t, "rollback") /\ ApplyGoes(t, "undo")
  /\ snapshots' = SubSeq(snapshots, 1, Len(snapshots) - 1)
  /\ UNCHANGED <<proposals, appliedLog, crowded>>

UndoApplied(t) ==
  /\ Applies(t, "undo") /\ LeaveApply(t)
  /\ SetProposal(t, "applied", FALSE)
  /\ UNCHANGED <<snapshots, appliedLog, crowded>>

-------------------------------------------------------------------------------
EvolutionInit ==
  /\ proposals = [p \in Proposal |-> Fresh(FALSE, "none", FALSE)]
  /\ snapshots = <<>> /\ applying = [t \in Applier |-> NoApply]
  /\ appliedLog = <<>> /\ crowded = FALSE

EvolutionNext ==
  \/ \E p \in Proposal :
       \/ \E as \in Creation : CreateProposal(p, as[1], as[2])
       \/ ApproveProposal(p)
       \/ \E t \in Applier :
            \/ \E as \in Execution : ExecuteProposal(t, p, as[1], as[2])
            \/ ApplyProposal(t, p)
  \/ \E t \in Applier :
       \/ SignOff(t) \/ CheckGates(t) \/ PersistSnapshot(t) \/ TrimSnapshots(t)
       \/ MarkApplied(t) \/ RunSmokeTests(t) \/ RollbackLastSnapshot(t) \/ UndoApplied(t)

EvolutionSpec == EvolutionInit /\ [][EvolutionNext]_evolutionVars

-------------------------------------------------------------------------------
Resting == {p \in Proposal : \A t \in Applier : Applies(t, "out") \/ applying[t].proposal # p}

(* What is applied, when no call is at work on it, was approved and passes its  *)
(* tests, or is one whose tests raise: that stays applied, though they never    *)
(* passed; however calls overlap.  Where they do not, it also has the signoff   *)
(* its canary asks for, and the snapshots are those of the last proposals that  *)
(* were applied, all of them up to one short of the maximum: a rollback at the  *)
(* maximum does not bring back what its snapshot had pushed out.                *)
SnapshotsFollowApplied ==
  /\ \A p \in Resting : proposals[p].applied =>
       proposals[p].approved /\ p \in DeltaWithin /\ Stands(p)
  /\ ~ crowded /\ Resting = Proposal =>
       /\ \A p \in Proposal : proposals[p].applied =>
            (proposals[p].required \/ proposals[p].canary = "partial" => proposals[p].signoff)
       /\ {p \in Proposal : proposals[p].applied} = {appliedLog[i] : i \in DOMAIN appliedLog}
       /\ IsSuffix(snapshots, appliedLog)
       /\ Len(snapshots) >= Len(appliedLog) \/ Len(snapshots) >= MaxSnapshots - 1
===============================================================================
