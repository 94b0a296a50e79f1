----------------------------- MODULE UpdateManager -----------------------------
(* aegis/update_manager.py: which version of each component is current, which   *)
(* is offered, and what was applied, in that order.  Every call holds the lock  *)
(* and ends with the state written in place.                                    *)
EXTENDS Naturals, Sequences, FiniteSetsExt

CONSTANTS
  Component,         \* os, agent, model
  Version,
  Offered,           \* the versions that are announced
  Installed,         \* the version a component comes with
  NoVersion,
  MaxHistory         \* 200

ASSUME UpdateConstants ==
  /\ Installed \in Version /\ Offered \subseteq Version /\ NoVersion \notin Version
  /\ MaxHistory \in Nat \ {0}

VARIABLES
  updates,           \* UpdateManager._state, and a history: the version before
                     \* the last change of each component
  updateFile         \* the state the file holds, as a sequence: empty when it is
                     \* missing or does not parse, which __init__ takes alike

updateVars == <<updates, updateFile>>

Record == [component : Component, version : Version]

UpdatesOK(u) ==
  /\ u.current \in [Component -> Version]
  /\ u.available \in [Component -> Version \cup {NoVersion}]
  /\ u.earlier \in [Component -> Version \cup {NoVersion}]
  /\ Len(u.history) <= MaxHistory /\ \A i \in DOMAIN u.history : u.history[i] \in Record

UpdateTypeOK ==
  UpdatesOK(updates) /\ (updateFile = <<>> \/ (Len(updateFile) = 1 /\ UpdatesOK(updateFile[1])))

DefaultUpdates ==
  [current |-> [c \in Component |-> Installed], available |-> [c \in Component |-> NoVersion],
   history |-> <<>>, earlier |-> [c \in Component |-> NoVersion]]

-------------------------------------------------------------------------------
(* _save: what fails, or is cut by the end of the process, leaves the file as   *)
(* it was (bound: one save behind at most) or unreadable, and the change in     *)
(* memory.                                                                      *)
SaveUpdates ==
  \/ updateFile' \in {<<updates'>>, <<>>}
  \/ updateFile = <<updates>> /\ UNCHANGED updateFile

Latest(records) ==
  IF Len(records) > MaxHistory THEN Tail(records) ELSE records

\* The component changes to the version, and the record goes to the history.
Change(c, v, available) ==
  /\ updates' = [current |-> [updates.current EXCEPT ![c] = v],
                 available |-> available,
                 history |-> Latest(Append(updates.history, [component |-> c, version |-> v])),
                 earlier |-> IF v = updates.current[c] THEN updates.earlier
                             ELSE [updates.earlier EXCEPT ![c] = updates.current[c]]]
  /\ SaveUpdates

SetAvailableUpdate(c, v) ==
  updates' = [updates EXCEPT !.available[c] = v] /\ SaveUpdates

\* An update that was offered is offered no more; any version can be applied.
ApplyUpdate(c, v) ==
  Change(c, v, IF updates.available[c] = v THEN [updates.available EXCEPT ![c] = NoVersion]
               ELSE updates.available)

\* The records of the component that hold another version than the current one
OtherRecords(c) ==
  {i \in DOMAIN updates.history :
     /\ updates.history[i].component = c
     /\ updates.history[i].version # updates.current[c]}

\* mutant: the history is read from its beginning
PreviousVersionFirst(c) == updates.history[Min(OtherRecords(c))].version

PreviousVersion(c) == updates.history[Max(OtherRecords(c))].version

\* Without another version in the history the call is refused.
RollbackUpdate(c) ==
  OtherRecords(c) # {} /\ Change(c, PreviousVersion(c), updates.available)

RestartUpdates ==
  /\ updates' = IF updateFile = <<>> THEN DefaultUpdates ELSE updateFile[1]
  /\ UNCHANGED updateFile

UpdateInit == updates = DefaultUpdates /\ updateFile = <<>>

UpdateNext ==
  \/ \E c \in Component :
       \/ \E v \in Offered : SetAvailableUpdate(c, v)
       \/ \E v \in Version : ApplyUpdate(c, v)
       \/ RollbackUpdate(c)
  \/ RestartUpdates

UpdateSpec == UpdateInit /\ [][UpdateNext]_updateVars

-------------------------------------------------------------------------------
(* A rollback takes a component to the version before its last change, and     *)
(* nothing else changes: also after repeated updates to one version, rollbacks  *)
(* of rollbacks, changes of other components, a history that dropped its        *)
(* oldest records, failed saves and restarts.                                   *)
RollbackReturns ==
  [][\A c \in Component :
       RollbackUpdate(c) =>
         updates'.current = [updates.current EXCEPT ![c] = updates.earlier[c]]]_updateVars
===============================================================================
