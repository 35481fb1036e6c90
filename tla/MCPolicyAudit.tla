---------------------------- MODULE MCPolicyAudit ----------------------------
(* Two policies, a library and two kinds of resources, for TLC.              *)
EXTENDS PolicyAudit, TLC

CONSTANTS p1, p2, l1, deny, both, mixed, minor, list, broken, Pod, Role

None == [total |-> 0, objects |-> 0, messages |-> 0]
Two == [total |-> 2, objects |-> 2, messages |-> 2]
\* One of the two results is a plain string.
OneString == [total |-> 2, objects |-> 1, messages |-> 1]
Passes == [parses |-> TRUE, metadata |-> "complete", severity |-> "HIGH", deny |-> None, warn |-> None]
AllMeanings == (deny :> [Passes EXCEPT !.deny = Two])
               @@ (both :> [Passes EXCEPT !.deny = Two, !.warn = Two, !.severity = "LOW"])
               @@ (mixed :> [Passes EXCEPT !.deny = OneString])
               @@ (minor :> [Passes EXCEPT !.deny = Two, !.severity = "UNKNOWN"])
               @@ (list :> [Passes EXCEPT !.metadata = "notObject"])
               @@ (broken :> [Passes EXCEPT !.parses = FALSE])
Meanings == [s \in Scripts |-> AllMeanings[s]]
Lists == {{"*"}, {"Workload"}, {Role}}
SameName == {<<p1, l1>>}
=============================================================================
