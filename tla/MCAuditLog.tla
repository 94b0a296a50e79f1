------------------------------ MODULE MCAuditLog ------------------------------
EXTENDS AuditLog

CONSTANTS t1, t2, own1, own2,
  MaxUpset         \* bound: events recorded after the log was upset

\* the objects are made alike
ObjectSymmetry == Permutations({own1, own2})

\* No client follows the stream here.  What upsets the log does so early; a third
\* rotation drops a full backup.
MCStep ==
  /\ UNCHANGED streamVars
  /\ recorded' # recorded /\ upsets # {} => recorded' <= MaxUpset
===============================================================================
