----------------------------- MODULE MCTrivyScan -----------------------------
(* A pod of two containers, two registries and a mirror, for TLC.           *)
EXTENDS TrivyScan, TLC

CONSTANTS c1, c2, hub, quay, corp, p1, n1, n2, u1, u2, q1, s1, s2

\* corp stands for quay.io.corp, whose name starts with quay.io.
PrefixNames == {<<quay, corp>>}
TwoRegistries == (c1 :> hub) @@ (c2 :> quay)
NeedLogin == (hub :> {u2}) @@ (quay :> {Anonymous, q1}) @@ (corp :> {Anonymous, u2})
\* u1 is outdated.
HubSecrets == {hub :> u1, (hub :> u2) @@ (quay :> q1)}
One == <<s1>>
Two == <<s2>>

Base == [image |-> "0.25.2", mode |-> "Standalone", command |-> "image", serverURL |-> TRUE, dbRepository |-> TRUE,
         serverInsecure |-> FALSE, ignoreFile |-> FALSE,
         mirrors |-> <<>>, insecure |-> {quay}, quantities |-> TRUE]
FSBase == [Base EXCEPT !.command = "filesystem"]

Initially == {Base, FSBase}
AllConfigs == {Base, [Base EXCEPT !.ignoreFile = TRUE], [Base EXCEPT !.mirrors = hub :> corp],
               [Base EXCEPT !.mode = "ClientServer", !.serverInsecure = TRUE, !.insecure = {}],
               [Base EXCEPT !.mode = "ClientServer", !.serverURL = FALSE],
               [Base EXCEPT !.image = Missing], [Base EXCEPT !.dbRepository = FALSE],
               [Base EXCEPT !.quantities = FALSE],
               FSBase, [FSBase EXCEPT !.ignoreFile = TRUE], [FSBase EXCEPT !.mode = "ClientServer"]}
=============================================================================
