-------------------------------- MODULE Guardian --------------------------------
(* aegis/guardian.py: the capability table every step is checked against.      *)
(* A row (skill, capability) holds the hour it expires in, Never for a NULL    *)
(* expiry, or Absent when there is no row.  The table lives in sqlite, or in a *)
(* dictionary when the database cannot be opened (persistent = FALSE).         *)
EXTENDS Integers

CONSTANTS
  Skill,
  Capability,     \* actions and tier capabilities; AnyAction and NoneAction are two of them
  AnyAction,      \* the row "all"
  NoneAction,     \* the row "none", which check also accepts
  Role,
  Durations,      \* values of duration_hours tried by callers
  HoursPerDay,    \* 24; the cleanup of sqlite rows compares whole days
  MaxNow          \* bound: last value of the clock

ASSUME GuardianConstants ==
  /\ {AnyAction, NoneAction} \subseteq Capability
  /\ Durations \subseteq Nat
  /\ HoursPerDay \in Nat \ {0}
  /\ MaxNow \in Nat

VARIABLES
  persistent,    \* the database could be opened
  permissions,   \* table permissions, or the dictionary in_memory
  roles,         \* table roles
  assignments,   \* table role_assignments
  now

guardianVars == <<persistent, permissions, roles, assignments, now>>

Absent == -2
Never == -1
Expiry == Nat \cup {Absent, Never}

GuardianTypeOK ==
  /\ persistent \in BOOLEAN
  /\ permissions \in [Skill -> [Capability -> Expiry]]
  /\ roles \subseteq Role
  /\ assignments \subseteq Role \X Skill \X Capability
  /\ now \in Nat

-------------------------------------------------------------------------------
\* mutant: a row without an expiry is not looked at
LiveTimedOnly(expires, t) == expires \notin {Absent, Never} /\ t <= expires

\* _check_entry: the hour of expiry itself still counts
Live(expires, t) == expires = Never \/ (expires # Absent /\ t <= expires)

\* check(skill, action)
Allowed(skill, action) ==
  \E c \in {action, AnyAction, NoneAction} : Live(permissions[skill][c], now)

WritePermission(skill, c, expires) ==
  permissions' = [permissions EXCEPT ![skill][c] = expires]

\* grant: INSERT OR REPLACE, so a timed grant replaces a permanent one
Grant(skill, c) == WritePermission(skill, c, Never)
GrantFor(skill, c, hours) == WritePermission(skill, c, now + hours)

Revoke(skill, c) == WritePermission(skill, c, Absent)

\* mutant: the day, or the hour, of expiry is already stale
StaleAtExpiry(expires) ==
  /\ expires >= 0
  /\ IF persistent THEN expires \div HoursPerDay <= now \div HoursPerDay
                   ELSE now >= expires

(* cleanup: the dictionary is compared in time, a sqlite row as text: its      *)
(* "T" separator sorts after the blank of the parameter, so only rows of an    *)
(* earlier day are deleted.                                                    *)
Stale(expires) ==
  /\ expires >= 0
  /\ IF persistent THEN expires \div HoursPerDay < now \div HoursPerDay
                   ELSE now > expires

Cleanup ==
  permissions' = [s \in Skill |-> [c \in Capability |->
                    IF Stale(permissions[s][c]) THEN Absent ELSE permissions[s][c]]]

\* Roles are kept by the database only, and check never reads them.
CreateRole(r) ==
  /\ persistent
  /\ roles' = roles \cup {r}
  /\ UNCHANGED assignments

AssignRole(r, skill, c) ==
  /\ persistent
  /\ roles' = roles \cup {r}
  /\ assignments' = assignments \cup {<<r, skill, c>>}

\* The process restarts: sqlite keeps its rows, the dictionary starts empty.
NoPermissions == [s \in Skill |-> [c \in Capability |-> Absent]]
ReopenGuardian == permissions' = IF persistent THEN permissions ELSE NoPermissions

HourPasses == now < MaxNow /\ now' = now + 1

-------------------------------------------------------------------------------
GuardianInit ==
  /\ persistent \in BOOLEAN
  /\ permissions = NoPermissions
  /\ roles = {} /\ assignments = {}
  /\ now = 0

PermissionCall ==
  \/ \E s \in Skill, c \in Capability :
       \/ Grant(s, c)
       \/ \E d \in Durations : GrantFor(s, c, d)
       \/ Revoke(s, c)
  \/ Cleanup
  \/ ReopenGuardian

RoleCall ==
  \E r \in Role :
    \/ CreateRole(r)
    \/ \E s \in Skill, c \in Capability : AssignRole(r, s, c)

GuardianNext ==
  \/ PermissionCall /\ UNCHANGED <<persistent, roles, assignments, now>>
  \/ RoleCall /\ UNCHANGED <<persistent, permissions, now>>
  \/ HourPasses /\ UNCHANGED <<persistent, permissions, roles, assignments>>

GuardianSpec == GuardianInit /\ [][GuardianNext]_guardianVars

-------------------------------------------------------------------------------
(* The answer of check turns from no to yes for a skill only when a row of     *)
(* that skill is written with an expiry: neither the clock, a revocation, a     *)
(* role nor a restart ever gives a capability.  And cleanup, which compares     *)
(* times as text, deletes no row that check still accepts.                      *)
AccessFollowsGrants ==
  [][\A s \in Skill, a \in Capability :
       /\ ~ Allowed(s, a) /\ Allowed(s, a)'
            => \E c \in {a, AnyAction, NoneAction} :
                 /\ permissions'[s][c] # permissions[s][c]
                 /\ permissions'[s][c] # Absent
       /\ Cleanup /\ UNCHANGED now => (Allowed(s, a) <=> Allowed(s, a)')]_guardianVars
===============================================================================
