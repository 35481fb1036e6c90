------------------------------ MODULE MCCLIScan ------------------------------
(* Finite instances of CLIScan for TLC.                                     *)
EXTENDS CLIScan, TLC

CONSTANTS p1, p2, t1

SameTarget == p1 :> t1 @@ p2 :> t1
=============================================================================
