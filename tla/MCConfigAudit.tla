---------------------------- MODULE MCConfigAudit ----------------------------
(* A resource that is edited, and three contents of the policies ConfigMap,  *)
(* for TLC.                                                                  *)
EXTENDS ConfigAudit, TLC

CONSTANTS r1, k1, s1, s2, p1, p2, p3, h0, h1, h2

SingleResource == r1 :> k1

\* p1 and p2 name the kind with different policies, p3 does not name it.
HashOf == p1 :> (k1 :> h1) @@ p2 :> (k1 :> h2) @@ p3 :> (k1 :> h0)
AppliesTo == p1 :> {k1} @@ p2 :> {k1} @@ p3 :> {}
=============================================================================
