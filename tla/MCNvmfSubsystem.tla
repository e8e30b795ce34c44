--------------------------- MODULE MCNvmfSubsystem ---------------------------
(***************************************************************************)
(* Model-checking instance of NvmfSubsystem: the admin queue pair and an   *)
(* I/O queue pair on different poll groups.                                *)
(***************************************************************************)
EXTENDS NvmfSubsystem, TLC

CONSTANTS q0, q1, c1, c2

Placed == (q0 :> 2) @@ (q1 :> 1)
=============================================================================
