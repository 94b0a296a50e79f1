----------------------------- MODULE MCTrustLedger -----------------------------
(* TrustLedger with small thresholds: one success in the numbers below stands  *)
(* for twenty-five of the source's fifty, the rate 1/2 for 5%.                 *)
EXTENDS TrustLedger

CONSTANT MaxOutcomes    \* bound: outcomes recorded per category

WithinBound == \A c \in Category : scores[c].confirmed + scores[c].rejected <= MaxOutcomes
MCSpec == Init /\ [][Next /\ WithinBound']_vars
===============================================================================
