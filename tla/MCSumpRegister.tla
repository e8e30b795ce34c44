---------------------------- MODULE MCSumpRegister ----------------------------
(***************************************************************************)
(* Model-checking instances of SumpRegister: three paths to one disk and   *)
(* one to another, two SPDK threads.                                       *)
(***************************************************************************)
EXTENDS SumpRegister, TLC

CONSTANTS b1, b2, b3, b4, u1, u2    \* bdevs and uuids

DiskOf == b1 :> u1 @@ b2 :> u1 @@ b3 :> u1 @@ b4 :> u2

PathSymmetry == Permutations({b1, b2, b3})
=============================================================================
