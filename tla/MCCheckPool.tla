------------------------------ MODULE MCCheckPool ------------------------------
(***************************************************************************)
(* Small instances of CheckPool.                                           *)
(***************************************************************************)
EXTENDS CheckPool, TLC

\* Checks are interchangeable.
CheckSymmetry == Permutations(Check)

\* Of what earlier runs left: canceled results count as failed ones do (Retryable), and a
\* check without a result is treated as one with a failed result in the scope and as one
\* with a completed result outside of it (LastExec, Stored).
PoolInit ==
  /\ Init
  /\ scope # Everything => \A c \in Check : old[c] # NoResult /\ old[c].kind # "canceled"
PoolSpec == PoolInit /\ [][Next]_vars
=============================================================================
