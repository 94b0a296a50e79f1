---------------------------- MODULE ExecutionPolicy ----------------------------
(* DefaultExecutionPolicy of aegis/orchestrator/policy.py: the profile, its    *)
(* persisted copy and the sliding-window quota, called by several API worker   *)
(* threads at once.  evaluate() holds no lock: pruning reads the sample list   *)
(* of a key and later replaces it, and the verdict is taken before the use is  *)
(* recorded, so a call is several steps.                                       *)
(*                                                                             *)
(* The order of the samples in a list plays no part: a list is a set of uses,  *)
(* each its time and a number that tells the uses at one time apart.           *)
EXTENDS Integers, Sequences, FiniteSets

CONSTANTS
  Thread,
  Key,               \* "skill:action"
  Profile,
  DefaultProfile,    \* AEGIS_POLICY_PROFILE, "balanced"
  DeniedBy,          \* PROFILE_DENY_RULES: profile -> denied keys
  Limit,             \* PROFILE_QUOTA_RULES: profile -> key -> quota or NoLimit
  EnforceAllowlist,  \* AEGIS_ENFORCE_ACTION_ALLOWLIST
  Allowlist,         \* keys the allowlist names
  QuotaWindow,       \* quota_window_seconds
  MaxClock,          \* bound: last value of the clock
  MaxSamples         \* bound: uses recorded per key

NoLimit == -1
NoProfile == "no profile in the file"

ASSUME PolicyConstants ==
  /\ DefaultProfile \in Profile /\ NoProfile \notin Profile
  /\ DeniedBy \in [Profile -> SUBSET Key]
  /\ Limit \in [Profile -> [Key -> Nat \cup {NoLimit}]]
  /\ EnforceAllowlist \in BOOLEAN /\ Allowlist \subseteq Key
  /\ QuotaWindow \in Nat /\ MaxClock \in Nat /\ MaxSamples \in [Key -> Nat]

VARIABLES
  profile,      \* self.profile
  stored,       \* the profile in policy_state.json
  usage,        \* _quota_usage: key -> the samples of its list
  call,         \* thread -> the evaluate() call it is in
  clock,
  admissions,   \* history: key -> the uses of unconfirmed calls that were allowed,
                \* as long as the key is not contended
  contended     \* history: keys that two calls were about at once

policyVars == <<profile, stored, usage, call, clock, admissions, contended>>

Idle == [at |-> "idle"]
Use == Nat \X Nat
TimeOf(use) == use[1]

Calls ==
  {Idle}
  \cup [at : {"check", "record", "write", "status"}, key : Key, confirmed : BOOLEAN,
        limit : Nat \cup {NoLimit}, samples : SUBSET Use, time : Nat]

PolicyTypeOK ==
  /\ profile \in Profile
  /\ stored \in Profile \cup {NoProfile}
  /\ usage \in [Key -> SUBSET Use]
  /\ call \in [Thread -> Calls]
  /\ clock \in Nat
  /\ admissions \in [Key -> Seq(Use)]
  /\ contended \subseteq Key

-------------------------------------------------------------------------------
\* _prune_quota keeps the samples of the window, its far end included
InWindow(use, t) == TimeOf(use) >= t - QuotaWindow
Recent(samples, t) == {use \in samples : InWindow(use, t)}

NewUse(samples, t) ==
  <<t, CHOOSE n \in 0 .. Cardinality(samples) : <<t, n>> \notin samples>>

\* What pruning leaves in the list of thread t's key, from the copy and the time
\* it read; an empty copy leaves the list alone.
Pruned(t) ==
  IF call[t].samples = {} THEN usage[call[t].key]
                          ELSE Recent(call[t].samples, call[t].time)

\* evaluate() up to the quota: what is refused at once
Refused(k, confirmed, blocked) ==
  \/ blocked
  \/ k \in DeniedBy[profile] /\ ~ confirmed
  \/ EnforceAllowlist /\ ~ confirmed /\ k \notin Allowlist

\* Only an unconfirmed call of a limited key looks at the quota.
ChecksQuota(k, confirmed) == ~ confirmed /\ Limit[profile][k] # NoLimit

\* The histories, when a call begins: another thread is in a call about the key.
Contends(t, k) ==
  LET met == \E o \in Thread \ {t} : call[o] # Idle /\ call[o].key = k
  IN  /\ contended' = IF met THEN contended \cup {k} ELSE contended
      /\ admissions' = IF met THEN [admissions EXCEPT ![k] = <<>>] ELSE admissions

(* The call starts, from execute_plan or from simulate_plan, which is the same *)
(* here.  The trust ledger's answer is an input.  A refused call ends at once  *)
(* and changes nothing.                                                        *)
Evaluate(t, k, confirmed, blocked) ==
  /\ call[t] = Idle
  /\ ~ Refused(k, confirmed, blocked)
  /\ call' = [call EXCEPT ![t] =
       [at |-> IF ChecksQuota(k, confirmed) THEN "check" ELSE "record",
        key |-> k, confirmed |-> confirmed,
        limit |-> Limit[profile][k], time |-> clock,
        samples |-> IF ChecksQuota(k, confirmed) THEN usage[k] ELSE {}]]
  /\ Contends(t, k)
  /\ UNCHANGED <<profile, stored, usage>>

\* mutant: the quota is exceeded one use too late
CheckQuotaLate(t) ==
  LET k == call[t].key
  IN  /\ call[t].at = "check"
      /\ usage' = [usage EXCEPT ![k] = Pruned(t)]
      /\ call' = [call EXCEPT ![t] = IF Cardinality(Pruned(t)) > @.limit THEN Idle
                                     ELSE [@ EXCEPT !.at = "record", !.samples = {}]]
      /\ UNCHANGED <<profile, stored, admissions, contended>>

\* _is_quota_exceeded: the pruned copy replaces the list, and its length decides
CheckQuota(t) ==
  LET k == call[t].key
      kept == Pruned(t)
  IN  /\ call[t].at = "check"
      /\ usage' = [usage EXCEPT ![k] = kept]
      /\ call' = [call EXCEPT ![t] = IF Cardinality(kept) >= @.limit THEN Idle
                                     ELSE [@ EXCEPT !.at = "record", !.samples = {}]]
      /\ UNCHANGED <<profile, stored, admissions, contended>>

\* _record_quota_usage, first half: prune reads the list
ReadSamples(t) ==
  /\ call[t].at = "record"
  /\ call' = [call EXCEPT ![t].at = "write", ![t].samples = usage[call[t].key],
                           ![t].time = clock]
  /\ UNCHANGED <<profile, stored, usage, admissions, contended>>

\* second half: the pruned copy replaces the list and the time is appended; allowed
RecordQuotaUsage(t) ==
  LET k == call[t].key
      use == NewUse(Pruned(t), call[t].time)
  IN  /\ call[t].at = "write"
      /\ usage' = [usage EXCEPT ![k] = Pruned(t) \cup {use}]
      /\ admissions' = [admissions EXCEPT ![k] =
           IF call[t].confirmed \/ k \in contended THEN @ ELSE Append(@, use)]
      /\ call' = [call EXCEPT ![t] = Idle]
      /\ UNCHANGED <<profile, stored, contended>>

-------------------------------------------------------------------------------
(* set_profile by an idle thread: an OSError while saving is swallowed, the    *)
(* profile in memory is switched all the same.                                 *)
SetProfile(t, p) ==
  /\ call[t] = Idle
  /\ profile' = p
  /\ stored' \in {p, stored}
  /\ UNCHANGED <<usage, call, admissions, contended>>

\* get_quota_status prunes the list of every key with a quota, one after another
ReadForStatus(t, k) ==
  /\ call[t] = Idle /\ Limit[profile][k] # NoLimit
  /\ call' = [call EXCEPT ![t] =
       [at |-> "status", key |-> k, confirmed |-> FALSE,
        limit |-> Limit[profile][k], samples |-> usage[k], time |-> clock]]
  /\ Contends(t, k)
  /\ UNCHANGED <<profile, stored, usage>>

PruneForStatus(t) ==
  /\ call[t].at = "status"
  /\ usage' = [usage EXCEPT ![call[t].key] = Pruned(t)]
  /\ call' = [call EXCEPT ![t] = Idle]
  /\ UNCHANGED <<profile, stored, admissions, contended>>

ResetQuotaUsage(t, keys) ==
  /\ call[t] = Idle
  /\ usage' = [k \in Key |-> IF k \in keys THEN {} ELSE usage[k]]
  /\ admissions' = [k \in Key |-> IF k \in keys THEN <<>> ELSE admissions[k]]
  /\ UNCHANGED <<profile, stored, call, contended>>

\* __init__ after a restart; the usage was only in memory
RestartPolicy(file) ==
  /\ stored' = file
  /\ profile' = IF file = NoProfile THEN DefaultProfile ELSE file
  /\ usage' = [k \in Key |-> {}] /\ admissions' = [k \in Key |-> <<>>]
  /\ contended' = {}
  /\ call' = [t \in Thread |-> Idle]

(* The state file is written in place: a crash inside write_text leaves an     *)
(* empty or cut file, which loads as no profile.                               *)
CrashWhileSaving == RestartPolicy(NoProfile)

ClockTicks == clock < MaxClock /\ clock' = clock + 1

-------------------------------------------------------------------------------
PolicyInit ==
  /\ profile = DefaultProfile /\ stored = NoProfile
  /\ usage = [k \in Key |-> {}] /\ admissions = [k \in Key |-> <<>>] /\ contended = {}
  /\ call = [t \in Thread |-> Idle]
  /\ clock = 0

\* The bound holds for both, since a stale copy may bring old uses back.
Step(t) ==
  \/ \E k \in Key, confirmed, blocked \in BOOLEAN :
       /\ Cardinality(usage[k]) < MaxSamples[k]
       /\ Evaluate(t, k, confirmed, blocked)
  \/ CheckQuota(t)
  \/ ReadSamples(t)
  \/ call[t] # Idle /\ Cardinality(Pruned(t)) < MaxSamples[call[t].key] /\ RecordQuotaUsage(t)
  \/ \E k \in Key : ReadForStatus(t, k)
  \/ PruneForStatus(t)

Admin(t) ==
  \/ \E p \in Profile : SetProfile(t, p)
  \/ \E k \in Key : ResetQuotaUsage(t, {k})
  \/ ResetQuotaUsage(t, Key)

PolicyNext ==
  \/ \E t \in Thread : (Step(t) \/ Admin(t)) /\ UNCHANGED clock
  \/ (RestartPolicy(stored) \/ CrashWhileSaving) /\ UNCHANGED clock
  \/ ClockTicks /\ UNCHANGED <<profile, stored, usage, call, admissions, contended>>

PolicySpec == PolicyInit /\ [][PolicyNext]_policyVars

-------------------------------------------------------------------------------
RecentAdmissions(k) ==
  Cardinality({i \in DOMAIN admissions[k] : InWindow(admissions[k][i], clock)})

(* The quota is a quota: when an unconfirmed use is allowed, fewer than the    *)
(* limit it was checked against were allowed in the window before it, resets   *)
(* and restarts aside, also while other threads are in calls about other keys, *)
(* switch the profile or reset.  The verdict and the recording are separate    *)
(* steps over a list that pruning replaces, so two calls about one key can     *)
(* take its last use twice, or lose one: nothing is claimed of a key after     *)
(* that.                                                                       *)
QuotaEnforced ==
  [][\A k \in Key \ contended :
       Len(admissions'[k]) > Len(admissions[k])
         => \E t \in Thread :
              /\ call[t] # Idle /\ call[t].key = k
              /\ call[t].limit = NoLimit \/ RecentAdmissions(k) < call[t].limit]_policyVars
===============================================================================
