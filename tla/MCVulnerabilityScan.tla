------------------------- MODULE MCVulnerabilityScan -------------------------
(* A workload with registry credentials whose containers change, for TLC.   *)
EXTENDS VulnerabilityScan, TLC

CONSTANTS w1, k1, s1, s2, c1

SingleWorkload == w1 :> k1

OneContainer == s1 :> {c1} @@ s2 :> {c1}
=============================================================================
