----------------------------- MODULE MCSumpStats -----------------------------
(***************************************************************************)
(* Model-checking instances of SumpStats.                                  *)
(***************************************************************************)
EXTENDS SumpStats, TLC

CONSTANTS r1, r2    \* requests

RequestSymmetry == Permutations(Requests)
=============================================================================
