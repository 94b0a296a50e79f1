------------------------------ MODULE TrustLedger ------------------------------
(* aegis/trust_ledger.py: the per-category trust record that the orchestrator  *)
(* feeds with the outcome of every dispatch and that the execution policy      *)
(* consults before a skill is admitted.                                        *)
(*                                                                             *)
(* The dictionary records is split in two: known is its key set (the policy    *)
(* tests membership), scores gives the value of each category, NewScores for   *)
(* one that has no entry yet, which is what setdefault inserts.  Time is a     *)
(* discrete clock; suspended_until = 0 stands for None.                        *)
EXTENDS Integers

CONSTANTS
  Category,             \* keys of records: skill names
  UnlockConfirmed,      \* UNLOCK_CONFIRMED
  RateNum, RateDen,     \* UNLOCK_REJECTION_RATE as a fraction
  UnlockMaxErrors,      \* UNLOCK_MAX_ERRORS_30D
  SuspensionHours,      \* TEMP_SUSPENSION_HOURS
  RejectionThreshold,   \* PERMANENT_REJECTION_THRESHOLD
  MaxNow                \* bound: last value of the clock

ASSUME LedgerConstants ==
  /\ UnlockConfirmed \in Nat \ {0}
  /\ RateNum \in Nat /\ RateDen \in Nat \ {0}
  /\ UnlockMaxErrors \in Nat
  /\ SuspensionHours \in Nat \ {0}
  /\ RejectionThreshold \in Nat \ {0}
  /\ MaxNow \in Nat

VARIABLES known, scores, now

ledgerVars == <<known, scores>>
vars == <<known, scores, now>>

Scores == [confirmed : Nat, rejected : Nat, errors_last_30d : Nat,
           consecutive_rejections : Nat, suspended_until : Nat,
           permanently_locked : BOOLEAN]

NewScores == [confirmed |-> 0, rejected |-> 0, errors_last_30d |-> 0,
              consecutive_rejections |-> 0, suspended_until |-> 0,
              permanently_locked |-> FALSE]

TypeOK ==
  /\ known \subseteq Category
  /\ scores \in [Category -> Scores]
  /\ now \in Nat

-------------------------------------------------------------------------------
\* is_unlocked

\* rejected / max(confirmed, 1) <= rate, without the division
RateAcceptable(s) ==
  LET base == IF s.confirmed > 1 THEN s.confirmed ELSE 1
  IN  s.rejected * RateDen <= RateNum * base

\* mutant: a suspension is not looked at
UnlockedWhileSuspended(s, t) ==
  /\ ~ s.permanently_locked /\ s.confirmed >= UnlockConfirmed
  /\ RateAcceptable(s) /\ s.errors_last_30d < UnlockMaxErrors

Unlocked(s, t) ==
  /\ ~ s.permanently_locked
  /\ s.suspended_until <= t
  /\ s.confirmed >= UnlockConfirmed
  /\ RateAcceptable(s)
  /\ s.errors_last_30d < UnlockMaxErrors

\* history exists and the category is not unlocked: DefaultExecutionPolicy denies
Blocked(c) == c \in known /\ ~ Unlocked(scores[c], now)

\* A call of is_unlocked (or get_scores) creates the entry it reads.
IsUnlocked(c) == known' = known \cup {c} /\ UNCHANGED scores

-------------------------------------------------------------------------------
\* record_outcome

Confirm(s) == [s EXCEPT !.confirmed = @ + 1, !.consecutive_rejections = 0]

Reject(s, t) ==
  LET n == s.consecutive_rejections + 1
      r == [s EXCEPT !.rejected = @ + 1, !.consecutive_rejections = n]
  IN  IF n >= RejectionThreshold
      THEN [r EXCEPT !.permanently_locked = TRUE]
      ELSE [r EXCEPT !.suspended_until = t + SuspensionHours]

ChargeError(s, error) ==
  [s EXCEPT !.errors_last_30d = IF error THEN @ + 1 ELSE @]

\* mutant: a locked category goes on counting
NextScoresPastLock(s, confirmed, error, t) ==
  ChargeError(IF confirmed THEN Confirm(s) ELSE Reject(s, t), error)

NextScores(s, confirmed, error, t) ==
  IF s.permanently_locked
  THEN s
  ELSE ChargeError(IF confirmed THEN Confirm(s) ELSE Reject(s, t), error)

RecordOutcome(c, confirmed, error) ==
  /\ known' = known \cup {c}
  /\ scores' = [scores EXCEPT ![c] = NextScores(@, confirmed, error, now)]

-------------------------------------------------------------------------------
\* administrative calls; no caller of these exists in aegis, only tests

ResetCategory(c) ==
  /\ known' = known \cup {c}
  /\ scores' = [scores EXCEPT ![c] = NewScores]

\* mutant: the run of rejections is not reset
UnlockCategoryKeepsRun(c) ==
  /\ known' = known \cup {c}
  /\ scores' = [scores EXCEPT ![c].permanently_locked = FALSE, ![c].suspended_until = 0]

UnlockCategory(c) ==
  /\ known' = known \cup {c}
  /\ scores' = [scores EXCEPT ![c].permanently_locked = FALSE,
                              ![c].suspended_until = 0,
                              ![c].consecutive_rejections = 0]

\* now_utc() advances.
Tick == now < MaxNow /\ now' = now + 1 /\ UNCHANGED ledgerVars

-------------------------------------------------------------------------------
Init ==
  /\ known = {}
  /\ scores = [c \in Category |-> NewScores]
  /\ now = 0

Operation(c) ==
  \/ \E confirmed, error \in BOOLEAN : RecordOutcome(c, confirmed, error)
  \/ IsUnlocked(c)
  \/ ResetCategory(c)
  \/ UnlockCategory(c)

Next ==
  \/ \E c \in Category : Operation(c) /\ UNCHANGED now
  \/ Tick

Spec == Init /\ [][Next]_vars

-------------------------------------------------------------------------------
(* The permanent lock and the run of rejections are one fact: a category is    *)
(* locked exactly when its consecutive rejections reached the threshold, and   *)
(* the count stops there.  record_outcome keeps the two in separate fields,    *)
(* unlock_category must reset both or the next rejection locks again at once.  *)
LockMatchesRejections ==
  \A c \in Category :
    /\ scores[c].permanently_locked <=>
         scores[c].consecutive_rejections = RejectionThreshold
    /\ scores[c].consecutive_rejections <= RejectionThreshold
    /\ scores[c].consecutive_rejections <= scores[c].rejected

(* A category with an unanswered rejection (no success since) carries a        *)
(* suspension or the lock, and no suspension ends later than one full term     *)
(* from now: a rejection is never forgotten and never over-charged.            *)
RejectionIsSanctioned ==
  \A c \in Category :
    /\ scores[c].consecutive_rejections > 0
         => scores[c].suspended_until > 0 \/ scores[c].permanently_locked
    /\ scores[c].suspended_until <= now + SuspensionHours

(* is_unlocked cannot become true while a suspension is running: the clock     *)
(* must reach its end, or unlock_category must lift it; a success recorded in  *)
(* between (a retry that worked) does not shorten it.                          *)
SuspensionIsServed ==
  [][\A c \in Category :
       now < scores[c].suspended_until /\ Unlocked(scores'[c], now')
         => \/ now' >= scores[c].suspended_until
            \/ scores'[c].suspended_until = 0]_vars

(* A recorded rejection always leaves the category blocked, whatever it had    *)
(* earned before.                                                              *)
RejectionBlocks ==
  [][\A c \in Category :
       scores'[c].rejected > scores[c].rejected
         => ~ Unlocked(scores'[c], now')]_vars

(* A success recorded without an error never takes the unlock away: the        *)
(* rejection rate only falls.                                                  *)
SuccessNeverBlocks ==
  [][\A c \in Category :
       ( /\ scores'[c].confirmed > scores[c].confirmed
         /\ scores'[c].errors_last_30d = scores[c].errors_last_30d
         /\ Unlocked(scores[c], now) )
       => Unlocked(scores'[c], now')]_vars
===============================================================================
