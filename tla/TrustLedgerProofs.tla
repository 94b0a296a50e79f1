--------------------------- MODULE TrustLedgerProofs ---------------------------
(* Theorems about TrustLedger, for every set of categories and every value of  *)
(* the thresholds the assumption LedgerConstants admits.                       *)
EXTENDS TrustLedger, TLAPS

(* The clock value t and the record s of one category, related the way the     *)
(* two invariants of the ledger relate them.                                   *)
Sound(s, t) ==
  /\ s.permanently_locked <=> s.consecutive_rejections = RejectionThreshold
  /\ s.consecutive_rejections <= RejectionThreshold
  /\ s.consecutive_rejections <= s.rejected
  /\ s.consecutive_rejections > 0 => s.suspended_until > 0 \/ s.permanently_locked
  /\ s.suspended_until <= t + SuspensionHours

IInv == TypeOK /\ \A c \in Category : Sound(scores[c], now)

(* record_outcome on one record keeps it well typed and sound.                 *)
LEMMA NextScoresSound ==
  ASSUME NEW s \in Scores, NEW t \in Nat, NEW confirmed \in BOOLEAN,
         NEW error \in BOOLEAN, Sound(s, t)
  PROVE  /\ NextScores(s, confirmed, error, t) \in Scores
         /\ Sound(NextScores(s, confirmed, error, t), t)
<1> USE LedgerConstants
<1>1. CASE s.permanently_locked
  BY <1>1 DEF NextScores
<1>2. CASE ~ s.permanently_locked /\ confirmed
  <2> DEFINE r == NextScores(s, confirmed, error, t)
             e == IF error THEN s.errors_last_30d + 1 ELSE s.errors_last_30d
  <2>1. r = [confirmed |-> s.confirmed + 1, rejected |-> s.rejected,
             errors_last_30d |-> e, consecutive_rejections |-> 0,
             suspended_until |-> s.suspended_until,
             permanently_locked |-> FALSE]
    BY <1>2 DEF NextScores, ChargeError, Confirm, Scores
  <2>2. r \in Scores
    BY <2>1 DEF Scores
  <2>3. /\ ~ r.permanently_locked /\ r.consecutive_rejections = 0
        /\ r.rejected = s.rejected /\ r.suspended_until = s.suspended_until
    BY <2>1
  <2> HIDE DEF r
  <2>4. Sound(r, t)
    BY <2>3 DEF Sound, Scores
  <2> QED
    BY <2>2, <2>4 DEF r
<1>3. CASE ~ s.permanently_locked /\ ~ confirmed
  <2> DEFINE r == NextScores(s, confirmed, error, t)
             e == IF error THEN s.errors_last_30d + 1 ELSE s.errors_last_30d
             n == s.consecutive_rejections + 1
  <2>1. CASE n >= RejectionThreshold
    <3>1. r = [confirmed |-> s.confirmed, rejected |-> s.rejected + 1,
               errors_last_30d |-> e, consecutive_rejections |-> n,
               suspended_until |-> s.suspended_until,
               permanently_locked |-> TRUE]
      BY <1>3, <2>1 DEF NextScores, ChargeError, Reject, Scores
    <3>2. r \in Scores
      BY <3>1 DEF Scores
    <3> QED
      BY <1>3, <2>1, <3>1, <3>2 DEF Sound, Scores
  <2>2. CASE ~ (n >= RejectionThreshold)
    <3>1. r = [confirmed |-> s.confirmed, rejected |-> s.rejected + 1,
               errors_last_30d |-> e, consecutive_rejections |-> n,
               suspended_until |-> t + SuspensionHours,
               permanently_locked |-> s.permanently_locked]
      BY <1>3, <2>2 DEF NextScores, ChargeError, Reject, Scores
    <3>2. r \in Scores
      BY <3>1 DEF Scores
    <3> QED
      BY <1>3, <2>2, <3>1, <3>2 DEF Sound, Scores
  <2> QED
    BY <2>1, <2>2
<1> QED
  BY <1>1, <1>2, <1>3

(* A fresh record and one just unlocked are sound.                             *)
LEMMA FreshScoresSound ==
  ASSUME NEW t \in Nat
  PROVE  NewScores \in Scores /\ Sound(NewScores, t)
BY LedgerConstants DEF NewScores, Scores, Sound

LEMMA IInvInit == Init => IInv
BY FreshScoresSound DEF Init, IInv, TypeOK

LEMMA IInvStep == IInv /\ [Next]_vars => IInv'
<1> SUFFICES ASSUME IInv, [Next]_vars PROVE IInv'
  OBVIOUS
<1> USE LedgerConstants DEF IInv
<1>1. ASSUME NEW c \in Category, NEW confirmed \in BOOLEAN, NEW error \in BOOLEAN,
             RecordOutcome(c, confirmed, error), UNCHANGED now
      PROVE  IInv'
  <2>1. /\ NextScores(scores[c], confirmed, error, now) \in Scores
        /\ Sound(NextScores(scores[c], confirmed, error, now), now)
    BY NextScoresSound DEF TypeOK
  <2>2. scores' = [scores EXCEPT ![c] = NextScores(scores[c], confirmed, error, now)]
    BY <1>1 DEF RecordOutcome
  <2> QED
    BY <1>1, <2>1, <2>2 DEF RecordOutcome, TypeOK
<1>2. ASSUME NEW c \in Category, IsUnlocked(c), UNCHANGED now
      PROVE  IInv'
  BY <1>2 DEF IsUnlocked, TypeOK
<1>3. ASSUME NEW c \in Category, ResetCategory(c), UNCHANGED now
      PROVE  IInv'
  BY <1>3, FreshScoresSound DEF ResetCategory, TypeOK
<1>4. ASSUME NEW c \in Category, UnlockCategory(c), UNCHANGED now
      PROVE  IInv'
  <2>1. \A d \in Category \ {c} : scores'[d] = scores[d]
    BY <1>4 DEF UnlockCategory, TypeOK
  <2>2. /\ scores'[c] \in Scores
        /\ Sound(scores'[c], now)
    <3>1. scores'[c] = [scores[c] EXCEPT !.permanently_locked = FALSE,
                                         !.suspended_until = 0,
                                         !.consecutive_rejections = 0]
      BY <1>4 DEF UnlockCategory, TypeOK
    <3>3. scores[c] \in Scores /\ now \in Nat
      BY DEF TypeOK
    <3> HIDE DEF IInv, TypeOK
    <3>2. scores'[c] = [confirmed |-> scores[c].confirmed,
                        rejected |-> scores[c].rejected,
                        errors_last_30d |-> scores[c].errors_last_30d,
                        consecutive_rejections |-> 0,
                        suspended_until |-> 0,
                        permanently_locked |-> FALSE]
      BY <3>1, <3>3 DEF Scores
    <3>4. Sound(scores[c], now)
      BY DEF IInv
    <3>5. scores'[c] \in Scores
      BY <3>2, <3>3 DEF Scores
    <3>6. /\ scores'[c].rejected = scores[c].rejected /\ scores'[c].rejected \in Nat
          /\ scores'[c].consecutive_rejections = 0 /\ scores'[c].suspended_until = 0
          /\ scores'[c].permanently_locked = FALSE
      BY <3>2, <3>3 DEF Scores
    <3>7. Sound(scores'[c], now)
      BY <3>3, <3>6, LedgerConstants DEF Sound
    <3> QED
      BY <3>5, <3>7
  <2>3. scores' \in [Category -> Scores]
    BY <1>4, <2>1, <2>2 DEF UnlockCategory, TypeOK
  <2> QED
    BY <1>4, <2>1, <2>2, <2>3 DEF UnlockCategory, TypeOK
<1>5. CASE Tick
  <2>1. now' = now + 1 /\ scores' = scores /\ known' = known
    BY <1>5 DEF Tick, ledgerVars
  <2>2. ASSUME NEW c \in Category PROVE Sound(scores'[c], now')
    <3>1. scores[c] \in Scores /\ Sound(scores[c], now) /\ now \in Nat
      BY DEF TypeOK
    <3>2. scores[c].suspended_until <= now' + SuspensionHours
      BY <2>1, <3>1 DEF Sound, Scores
    <3> QED
      BY <2>1, <3>1, <3>2 DEF Sound
  <2> QED
    BY <2>1, <2>2 DEF TypeOK
<1>6. CASE UNCHANGED vars
  BY <1>6 DEF vars, TypeOK
<1> QED
  BY <1>1, <1>2, <1>3, <1>4, <1>5, <1>6 DEF Next, Operation

(* Every reachable record has its type and satisfies both invariants.          *)
THEOREM LedgerInvariant == Spec => []IInv
BY IInvInit, IInvStep, PTL DEF Spec

(* The type invariant of the ledger.                                           *)
THEOREM TypeCorrect == Spec => []TypeOK
<1>1. IInv => TypeOK
  BY DEF IInv
<1> QED
  BY <1>1, LedgerInvariant, PTL

(* A category is permanently locked exactly when its consecutive rejections    *)
(* reached the threshold: record_outcome and unlock_category never let the     *)
(* flag and the counter part.                                                  *)
THEOREM LockIsExact == Spec => []LockMatchesRejections
<1>1. IInv => LockMatchesRejections
  BY DEF IInv, Sound, LockMatchesRejections
<1> QED
  BY <1>1, LedgerInvariant, PTL

(* A category with an unanswered rejection is suspended or locked, and no      *)
(* suspension outlasts one term.                                               *)
THEOREM RejectionsAreSanctioned == Spec => []RejectionIsSanctioned
<1>1. IInv => RejectionIsSanctioned
  BY DEF IInv, Sound, RejectionIsSanctioned
<1> QED
  BY <1>1, LedgerInvariant, PTL
(* record_outcome as the policy sees it: a rejection blocks the category, a    *)
(* success without an error keeps an unlocked category unlocked.               *)
LEMMA RejectedIsBlocked ==
  ASSUME NEW s \in Scores, NEW t \in Nat, NEW error \in BOOLEAN,
         ~ s.permanently_locked
  PROVE  ~ Unlocked(NextScores(s, FALSE, error, t), t)
<1> DEFINE n == s.consecutive_rejections + 1
           r == NextScores(s, FALSE, error, t)
<1>1. CASE n >= RejectionThreshold
  <2>1. r.permanently_locked = TRUE
    BY <1>1 DEF NextScores, ChargeError, Reject, Scores
  <2> QED
    BY <2>1 DEF Unlocked
<1>2. CASE ~ (n >= RejectionThreshold)
  <2>1. r.suspended_until = t + SuspensionHours
    BY <1>2 DEF NextScores, ChargeError, Reject, Scores
  <2> HIDE DEF r
  <2>2. ~ (r.suspended_until <= t)
    BY <2>1, LedgerConstants
  <2> QED
    BY <2>2 DEF Unlocked, r
<1> QED
  BY <1>1, <1>2

LEMMA SumGrows ==
  ASSUME NEW x \in Int, NEW y \in Int, NEW z \in Int, NEW d \in Int,
         x <= y, z = y + d, d >= 0
  PROVE  x <= z
OBVIOUS

LEMMA ConfirmedStaysUnlocked ==
  ASSUME NEW s \in Scores, NEW t \in Nat, Unlocked(s, t)
  PROVE  Unlocked(NextScores(s, TRUE, FALSE, t), t)
<1> DEFINE r == NextScores(s, TRUE, FALSE, t)
           base == IF s.confirmed > 1 THEN s.confirmed ELSE 1
           more == IF s.confirmed + 1 > 1 THEN s.confirmed + 1 ELSE 1
<1>0. ~ s.permanently_locked
  BY DEF Unlocked
<1>1. /\ ~ r.permanently_locked /\ r.confirmed = s.confirmed + 1
      /\ r.rejected = s.rejected /\ r.errors_last_30d = s.errors_last_30d
      /\ r.suspended_until = s.suspended_until
  BY <1>0 DEF NextScores, ChargeError, Confirm, Scores
<1>2. s.rejected * RateDen <= RateNum * more
  <2>1. /\ s.rejected * RateDen <= RateNum * base
        /\ base \in Nat /\ more \in Nat /\ base <= more
    BY DEF Unlocked, RateAcceptable, Scores
  <2>2. RateNum * more = RateNum * base + RateNum * (more - base)
    BY <2>1, LedgerConstants, SMT
  <2>3. RateNum * (more - base) >= 0
    BY <2>1, LedgerConstants, SMT
  <2>4. s.rejected * RateDen \in Int /\ RateNum * base \in Int /\ RateNum * more \in Int
    BY <2>1, LedgerConstants DEF Scores
  <2>5. RateNum * (more - base) \in Int
    BY <2>1, LedgerConstants
  <2> QED
    BY <2>1, <2>2, <2>3, <2>4, <2>5, SumGrows
<1>3. RateAcceptable(r)
  BY <1>1, <1>2 DEF RateAcceptable
<1> HIDE DEF r
<1>4. s.confirmed + 1 >= UnlockConfirmed
  BY LedgerConstants DEF Unlocked, Scores
<1>5. Unlocked(r, t)
  BY <1>1, <1>3, <1>4 DEF Unlocked
<1> QED
  BY <1>5 DEF r

-------------------------------------------------------------------------------
(* What one step can do to the record of a category.                           *)
Lifted(s) == [s EXCEPT !.permanently_locked = FALSE, !.suspended_until = 0,
                       !.consecutive_rejections = 0]

Recorded(d) ==
  \E confirmed, error \in BOOLEAN :
    scores'[d] = NextScores(scores[d], confirmed, error, now)

LEMMA RecordStep ==
  ASSUME TypeOK, [Next]_vars, NEW d \in Category
  PROVE  \/ scores'[d] = scores[d]
         \/ now' = now /\ ( \/ Recorded(d)
                            \/ scores'[d] = NewScores
                            \/ scores'[d] = Lifted(scores[d]) )
<1>1. ASSUME NEW c \in Category, NEW confirmed \in BOOLEAN, NEW error \in BOOLEAN,
             RecordOutcome(c, confirmed, error)
      PROVE  scores'[d] = scores[d] \/ Recorded(d)
  BY <1>1 DEF RecordOutcome, Recorded, TypeOK
<1>2. ASSUME NEW c \in Category, IsUnlocked(c)
      PROVE  scores'[d] = scores[d]
  BY <1>2 DEF IsUnlocked
<1>3. ASSUME NEW c \in Category, ResetCategory(c)
      PROVE  scores'[d] = scores[d] \/ scores'[d] = NewScores
  BY <1>3 DEF ResetCategory, TypeOK
<1>4. ASSUME NEW c \in Category, UnlockCategory(c)
      PROVE  scores'[d] = scores[d] \/ scores'[d] = Lifted(scores[d])
  BY <1>4 DEF UnlockCategory, Lifted, TypeOK
<1>5. CASE Tick
  BY <1>5 DEF Tick, ledgerVars
<1>6. CASE UNCHANGED vars
  BY <1>6 DEF vars
<1> QED
  BY <1>1, <1>2, <1>3, <1>4, <1>5, <1>6 DEF Next, Operation

(* Every rejection the ledger records leaves its category blocked: the         *)
(* suspension it starts, or the lock, takes effect in the same step.           *)
THEOREM EveryRejectionBlocks == Spec => RejectionBlocks
<1>1. ASSUME TypeOK, [Next]_vars, NEW d \in Category,
             scores'[d].rejected > scores[d].rejected
      PROVE  ~ Unlocked(scores'[d], now')
  <2>1. scores[d] \in Scores /\ now \in Nat
    BY <1>1 DEF TypeOK
  <2>2. ~ (scores'[d] = scores[d])
    BY <1>1, <2>1 DEF Scores
  <2>3. ~ (scores'[d] = NewScores)
    BY <1>1, <2>1 DEF Scores, NewScores
  <2>4. ~ (scores'[d] = Lifted(scores[d]))
    <3>1. Lifted(scores[d]).rejected = scores[d].rejected
      BY <2>1 DEF Scores, Lifted
    <3>2. scores[d].rejected \in Nat
      BY <2>1 DEF Scores
    <3> QED
      BY <1>1, <3>1, <3>2
  <2>5. now' = now /\ Recorded(d)
    BY <1>1, <2>2, <2>3, <2>4, RecordStep
  <2>6. PICK confirmed \in BOOLEAN, error \in BOOLEAN :
          scores'[d] = NextScores(scores[d], confirmed, error, now)
    BY <2>5 DEF Recorded
  <2>7. ~ scores[d].permanently_locked
    BY <2>2, <2>6 DEF NextScores
  <2>8. ~ confirmed
    BY <1>1, <2>1, <2>6, <2>7 DEF NextScores, ChargeError, Confirm, Scores
  <2> QED
    BY <2>1, <2>5, <2>6, <2>7, <2>8, RejectedIsBlocked
<1>2. TypeOK /\ [Next]_vars =>
        [\A c \in Category : scores'[c].rejected > scores[c].rejected
                               => ~ Unlocked(scores'[c], now')]_vars
  BY <1>1
<1> QED
  BY <1>2, TypeCorrect, PTL DEF Spec, RejectionBlocks

(* No call but unlock_category (and reset_category, after which nothing is     *)
(* unlocked) makes is_unlocked true before a running suspension has ended.     *)
THEOREM SuspensionsAreServed == Spec => SuspensionIsServed
<1>1. ASSUME TypeOK, [Next]_vars, NEW d \in Category,
             now < scores[d].suspended_until, Unlocked(scores'[d], now')
      PROVE  \/ now' >= scores[d].suspended_until
             \/ scores'[d].suspended_until = 0
  <2>1. scores[d] \in Scores /\ now \in Nat
    BY <1>1 DEF TypeOK
  <2>2. CASE scores'[d] = scores[d]
    <3>1. scores[d].suspended_until <= now'
      BY <1>1, <2>2 DEF Unlocked
    <3>2. now' \in Nat
      BY <1>1 DEF TypeOK, Next, Tick, vars
    <3> QED
      BY <2>1, <3>1, <3>2 DEF Scores
  <2>3. CASE now' = now /\ Recorded(d)
    <3>1. PICK confirmed \in BOOLEAN, error \in BOOLEAN :
            scores'[d] = NextScores(scores[d], confirmed, error, now)
      BY <2>3 DEF Recorded
    <3>2. CASE scores[d].permanently_locked
      BY <1>1, <3>1, <3>2 DEF NextScores, Unlocked
    <3>3. CASE ~ scores[d].permanently_locked /\ ~ confirmed
      BY <1>1, <2>1, <2>3, <3>1, <3>3, RejectedIsBlocked
    <3>4. CASE ~ scores[d].permanently_locked /\ confirmed
      <4>1. scores'[d].suspended_until = scores[d].suspended_until
        BY <2>1, <3>1, <3>4 DEF NextScores, ChargeError, Confirm, Scores
      <4> QED
        BY <1>1, <2>1, <2>3, <4>1 DEF Unlocked, Scores
    <3> QED
      BY <3>2, <3>3, <3>4
  <2>4. CASE scores'[d] = NewScores
    BY <2>4 DEF NewScores
  <2>5. CASE scores'[d] = Lifted(scores[d])
    BY <2>1, <2>5 DEF Lifted, Scores
  <2> QED
    BY <1>1, <2>2, <2>3, <2>4, <2>5, RecordStep
<1>2. TypeOK /\ [Next]_vars =>
        [\A c \in Category :
           now < scores[c].suspended_until /\ Unlocked(scores'[c], now')
             => \/ now' >= scores[c].suspended_until
                \/ scores'[c].suspended_until = 0]_vars
  BY <1>1
<1> QED
  BY <1>2, TypeCorrect, PTL DEF Spec, SuspensionIsServed

(* A success recorded without an error never takes an unlocked category's      *)
(* unlock away: the rejection rate only falls with it.                         *)
THEOREM SuccessesKeepUnlock == Spec => SuccessNeverBlocks
<1>1. ASSUME TypeOK, [Next]_vars, NEW d \in Category,
             scores'[d].confirmed > scores[d].confirmed,
             scores'[d].errors_last_30d = scores[d].errors_last_30d,
             Unlocked(scores[d], now)
      PROVE  Unlocked(scores'[d], now')
  <2>1. scores[d] \in Scores /\ now \in Nat
    BY <1>1 DEF TypeOK
  <2>2. ~ (scores'[d] = scores[d])
    BY <1>1, <2>1 DEF Scores
  <2>3. ~ (scores'[d] = NewScores)
    BY <1>1, <2>1 DEF Scores, NewScores
  <2>4. ~ (scores'[d] = Lifted(scores[d]))
    <3>1. Lifted(scores[d]).confirmed = scores[d].confirmed
      BY <2>1 DEF Scores, Lifted
    <3>2. scores[d].confirmed \in Nat
      BY <2>1 DEF Scores
    <3> QED
      BY <1>1, <3>1, <3>2
  <2>5. now' = now /\ Recorded(d)
    BY <1>1, <2>2, <2>3, <2>4, RecordStep
  <2>6. PICK confirmed \in BOOLEAN, error \in BOOLEAN :
          scores'[d] = NextScores(scores[d], confirmed, error, now)
    BY <2>5 DEF Recorded
  <2>7. ~ scores[d].permanently_locked
    BY <1>1 DEF Unlocked
  <2>8. confirmed
    BY <1>1, <2>1, <2>6, <2>7 DEF NextScores, ChargeError, Reject, Scores
  <2>9. ~ error
    BY <1>1, <2>1, <2>6, <2>7, <2>8 DEF NextScores, ChargeError, Confirm, Scores
  <2> QED
    BY <1>1, <2>1, <2>5, <2>6, <2>8, <2>9, ConfirmedStaysUnlocked
<1>2. TypeOK /\ [Next]_vars =>
        [\A c \in Category :
           ( /\ scores'[c].confirmed > scores[c].confirmed
             /\ scores'[c].errors_last_30d = scores[c].errors_last_30d
             /\ Unlocked(scores[c], now) )
           => Unlocked(scores'[c], now')]_vars
  BY <1>1
<1> QED
  BY <1>2, TypeCorrect, PTL DEF Spec, SuccessNeverBlocks
===============================================================================
