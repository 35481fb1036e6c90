--------------------------- MODULE MCCISKubeBench ---------------------------
(* Finite instances of CISKubeBench for TLC.                                *)
EXTENDS CISKubeBench, TLC

CONSTANT n1
=============================================================================
