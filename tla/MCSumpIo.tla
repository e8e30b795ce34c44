------------------------------ MODULE MCSumpIo ------------------------------
(***************************************************************************)
(* Model-checking instances of SumpIo.                                     *)
(***************************************************************************)
EXTENDS SumpIo, TLC

CONSTANTS i1, i2    \* two bdev_io objects

IoSymmetry == Permutations({i1, i2})

FirstPath == {0}
LastPath == {NPaths - 1}
NoPath == {}
=============================================================================
