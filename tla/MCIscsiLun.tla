---------------------------- MODULE MCIscsiLun -----------------------------
(* IscsiLun on a small instance.                                           *)
EXTENDS IscsiLun

CONSTANTS p1, p2, i1, i2
=============================================================================
