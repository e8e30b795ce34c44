---------------------------- MODULE MCNvmeCtrlr ----------------------------
(* NvmeCtrlr on a small instance.                                          *)
EXTENDS NvmeCtrlr

(* A fabrics controller with ANA and no delayed reconnection, one that     *)
(* delays it and may give up, and PCIe controllers without and with it.    *)
MCConfigs ==
  {[delay |-> FALSE, loss |-> FALSE, fabrics |-> TRUE, ana |-> TRUE],
   [delay |-> TRUE, loss |-> TRUE, fabrics |-> TRUE, ana |-> FALSE],
   [delay |-> FALSE, loss |-> FALSE, fabrics |-> FALSE, ana |-> TRUE],
   [delay |-> TRUE, loss |-> FALSE, fabrics |-> FALSE, ana |-> FALSE]}
=============================================================================
