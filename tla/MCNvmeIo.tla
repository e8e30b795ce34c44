----------------------------- MODULE MCNvmeIo ------------------------------
(* NvmeIo on a small instance.                                             *)
EXTENDS NvmeIo

CONSTANTS c1, c2, i1, i2

MCPolicies == {"active_passive", "round_robin", "queue_depth"}
MCAnaStates == {"optimized", "inaccessible"}
=============================================================================
