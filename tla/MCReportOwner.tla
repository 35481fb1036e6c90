---------------------------- MODULE MCReportOwner ----------------------------
(* Finite instances of ReportOwner for TLC.                                 *)
EXTENDS ReportOwner, TLC

CONSTANTS dep, rs, pod1, cron, job1, pod2, sts, pod3, fw, pod4, scanJob

Hierarchies == {dep, rs, pod1, cron, job1, pod2, sts, pod3, fw, pod4, scanJob}

Kinds == dep :> "Deployment" @@ rs :> "ReplicaSet"
  @@ cron :> "CronJob" @@ job1 :> "Job" @@ scanJob :> "Job" @@ fw :> "Framework"
  @@ sts :> "StatefulSet" @@ [p \in {pod1, pod2, pod3, pod4} |-> "Pod"]

\* cron has a name that is no valid label.
Names == dep :> <<"web">> @@ rs :> <<"web", "1">> @@ pod1 :> <<"web", "1", "x">>
  @@ cron :> <<"a", "b", "c", "d", "e">> @@ job1 :> <<"a", "1">> @@ pod2 :> <<"a", "1", "x">>
  @@ sts :> <<"db">> @@ pod3 :> <<"db", "0">> @@ fw :> <<"fw">> @@ pod4 :> <<"fw", "0">>
  @@ scanJob :> <<"scan">>

Namespaces == [o \in {dep, rs, pod1} |-> "app"] @@ [o \in {cron, job1, pod2} |-> "batch"]
  @@ [o \in {sts, pod3, fw, pod4, scanJob} |-> "starboard"]

Controllers == rs :> dep @@ pod1 :> rs @@ job1 :> cron @@ pod2 :> job1 @@ pod3 :> sts
  @@ pod4 :> fw @@ [o \in {dep, cron, sts, fw, scanJob} |-> None]

ContainersOf == [o \in {dep, rs, pod1} |-> {<<"c">>, <<"d">>}]
  @@ [o \in {cron, job1, pod2, sts, pod3, fw, pod4, scanJob} |-> {<<"c">>}]

\* What ScanThenGet needs of the names, and the proof of it assumes.
ASSUME NamesAssumption == NoCollision

ReplicaSetOf == dep :> rs
ScanObjects == {scanJob}

\* The CIS controller extends the caches of one or several target namespaces.
AllModes ==
  {[ns |-> "starboard", targets |-> t, excluded |-> {}, cis |-> b] :
     t \in {<<"app">>, <<"app", "batch">>}, b \in BOOLEAN}
  \cup {[ns |-> "starboard", targets |-> <<>>, excluded |-> e, cis |-> TRUE] : e \in {{}, {"batch"}}}
  \cup {[ns |-> "starboard", targets |-> <<"starboard">>, excluded |-> {}, cis |-> TRUE]}
=============================================================================
