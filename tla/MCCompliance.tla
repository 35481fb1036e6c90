---------------------------- MODULE MCCompliance ----------------------------
(* Finite instances of Compliance for TLC.                                  *)
EXTENDS Compliance, TLC

CONSTANTS c1, c2, c3, k1, k2

\* c1 has the check k1 of workloads, c2 the checks k1 and k2 of nodes, c3 none.
Scanners == c1 :> "config-audit" @@ c2 :> "kube-bench" @@ c3 :> "kube-bench"
ControlKinds == c1 :> {"Workload"} @@ c2 :> {"Node"} @@ c3 :> {"Node"}
ControlChecksOf == c1 :> {k1} @@ c2 :> {k1, k2} @@ c3 :> {}
Defaults == c1 :> "FAIL" @@ c2 :> "PASS" @@ c3 :> ""
TwoItems == {1, 2}
ItemScanners == <<"config-audit", "kube-bench">>
ItemKinds == <<"Pod", "Node">>
=============================================================================
