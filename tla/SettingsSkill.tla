----------------------------- MODULE SettingsSkill -----------------------------
(* aegis/skills/settings_skill.py on Linux: settings of the desktop, each read  *)
(* and set by a tool of its own that may be missing or fail; a snapshot of all  *)
(* of them, and the revert that sets them back one after the other.  "dnd" is   *)
(* what gsettings calls show-banners: it is read and set alike.  The skill has  *)
(* tier 2, and the worker in the container does not know it: what is modelled   *)
(* runs when its tier was lowered to 1, in worker threads that share the skill. *)
EXTENDS Naturals, Sequences

CONSTANTS
  Settings,          \* volume, brightness, network, dnd: in the order of revert
  Readings,          \* setting -> what its tool can report
  Cap,               \* setting -> what a value is set to: 150 per cent becomes 100
  Unreadable         \* None

ASSUME SettingsConstants ==
  /\ Settings \in Seq(DOMAIN Readings)
  /\ \A i \in DOMAIN Settings : \A v \in Readings[Settings[i]] :
       v # Unreadable /\ Cap[Settings[i]][v] \in Readings[Settings[i]]

VARIABLES
  desktop,           \* what is set
  lastSnapshot,      \* _last_snapshot, as a sequence: empty when there is none
  reverting          \* the revert that runs (bound: one at a time)

settingsVars == <<desktop, lastSnapshot, reverting>>

Setting == {Settings[i] : i \in DOMAIN Settings}
Snapshots == {s \in [Setting -> (UNION {Readings[n] : n \in Setting}) \cup {Unreadable}] :
                \A n \in Setting : s[n] \in Readings[n] \cup {Unreadable}}

\* next: the setting to set back; failed: an error was collected;
\* touched: a history, something else set one meanwhile
NoRevert == [next |-> 0, snap |-> [n \in Setting |-> Unreadable], failed |-> FALSE,
             touched |-> FALSE]

SettingsTypeOK ==
  /\ \A n \in Setting : desktop[n] \in Readings[n]
  /\ Len(lastSnapshot) <= 1 /\ \A i \in DOMAIN lastSnapshot : lastSnapshot[i] \in Snapshots
  /\ reverting \in [next : 0 .. Len(Settings) + 1, snap : Snapshots,
                    failed : BOOLEAN, touched : BOOLEAN]

-------------------------------------------------------------------------------
\* snapshot: what cannot be read is None; a tool that hangs ends the call before
\* the snapshot is kept.
TakeSnapshot ==
  /\ \E unread \in SUBSET Setting :
       lastSnapshot' = <<[n \in Setting |-> IF n \in unread THEN Unreadable ELSE desktop[n]]>>
  /\ UNCHANGED <<desktop, reverting>>

Touched == [reverting EXCEPT !.touched = reverting.next # 0]

\* set_volume and its like; a tool that fails changes nothing
SetSetting(n, v) ==
  /\ desktop' = [desktop EXCEPT ![n] = Cap[n][v]] /\ reverting' = Touched
  /\ UNCHANGED lastSnapshot

\* The user, at the desktop itself
TurnKnob(n, v) ==
  /\ desktop' = [desktop EXCEPT ![n] = v] /\ reverting' = Touched
  /\ UNCHANGED lastSnapshot

\* revert holds on to the snapshot it began with.
Revert ==
  /\ reverting.next = 0 /\ lastSnapshot # <<>>
  /\ reverting' = [NoRevert EXCEPT !.next = 1, !.snap = lastSnapshot[1]]
  /\ UNCHANGED <<desktop, lastSnapshot>>

\* mutant: each value is taken from the snapshot there is by then
RevertSettingLate ==
  /\ reverting.next \in DOMAIN Settings
  /\ LET n == Settings[reverting.next]
         v == lastSnapshot[1][n]
     IN  \/ /\ v # Unreadable /\ desktop' = [desktop EXCEPT ![n] = Cap[n][v]]
            /\ reverting' = [reverting EXCEPT !.next = @ + 1]
         \/ /\ v # Unreadable /\ UNCHANGED desktop
            /\ reverting' = [reverting EXCEPT !.next = @ + 1, !.failed = TRUE]
         \/ /\ v = Unreadable /\ UNCHANGED desktop
            /\ reverting' = [reverting EXCEPT !.next = @ + 1]
  /\ UNCHANGED lastSnapshot

\* One setting: set back, not set back because the tool failed, or left alone
\* because the snapshot does not know it.
RevertSetting ==
  /\ reverting.next \in DOMAIN Settings
  /\ LET n == Settings[reverting.next]
         v == reverting.snap[n]
     IN  \/ /\ v # Unreadable /\ desktop' = [desktop EXCEPT ![n] = Cap[n][v]]
            /\ reverting' = [reverting EXCEPT !.next = @ + 1]
         \/ /\ v # Unreadable /\ UNCHANGED desktop
            /\ reverting' = [reverting EXCEPT !.next = @ + 1, !.failed = TRUE]
         \/ /\ v = Unreadable /\ UNCHANGED desktop
            /\ reverting' = [reverting EXCEPT !.next = @ + 1]
  /\ UNCHANGED lastSnapshot

RevertReturns ==
  /\ reverting.next > Len(Settings) /\ reverting' = NoRevert
  /\ UNCHANGED <<desktop, lastSnapshot>>

-------------------------------------------------------------------------------
SettingsInit ==
  /\ desktop \in {d \in Snapshots : \A n \in Setting : d[n] # Unreadable}
  /\ lastSnapshot = <<>> /\ reverting = NoRevert

SettingsNext ==
  \/ TakeSnapshot \/ Revert \/ RevertSetting \/ RevertReturns
  \/ \E n \in Setting : \E v \in Readings[n] : SetSetting(n, v) \/ TurnKnob(n, v)

SettingsSpec == SettingsInit /\ [][SettingsNext]_settingsVars

-------------------------------------------------------------------------------
(* A revert that answers "reverted", while nothing else set anything, has set   *)
(* back every setting its snapshot knows, as far as it goes (a volume beyond    *)
(* 100 per cent comes back as 100): also when another snapshot is taken while   *)
(* it runs.  What the snapshot could not read is not restored, and the answer   *)
(* does not say so.                                                             *)
RevertRestores ==
  [][reverting.next # 0 /\ reverting'.next = 0 /\ ~ reverting.failed /\ ~ reverting.touched =>
       \A n \in Setting : reverting.snap[n] # Unreadable =>
         desktop[n] = Cap[n][reverting.snap[n]]]_settingsVars
===============================================================================
