------------------------ MODULE MCPluginConfigAudit ------------------------
(* A resource that is audited by Conftest or by Polaris, for TLC.           *)
EXTENDS PluginConfigAudit

CONSTANTS r1, s1, c1, c2, c3, p1, p2

\* Polaris refuses what one of its configs leads to.
RefusedOfOne == {<<s1, p2>>}
=============================================================================
