----------------------------- MODULE ReportOwner -----------------------------
(***************************************************************************)
(* Which object owns a vulnerability report, and how the report is found   *)
(* again: owners and labels (pkg/kube/object.go), report names and stored  *)
(* reports (pkg/vulnerabilityreport builder.go and io.go), the workloads   *)
(* that the operator leaves out (controller.go, pkg/operator/predicate,    *)
(* pkg/operator/etc), and the CLI, which writes to the same reports.       *)
(*                                                                         *)
(* Names are sequences of the parts between their dashes.  The operator's  *)
(* queues and jobs are the subject of VulnerabilityScan: here a workload   *)
(* that the operator watches is reconciled at any time, others after an    *)
(* event of a report that they own, and specs never change.                *)
(***************************************************************************)
EXTENDS Naturals, Sequences, FiniteSets

CONSTANTS
  Objects, Kind, Name, Namespace,
  Controller,        \* Controller[o]: the object that controls o, or None
  Containers,        \* Containers[o]: names of the containers of a workload
  Managed,           \* objects labelled as managed by Starboard: scan jobs and their pods
  CurrentRS,         \* the ReplicaSet of a Deployment
  Configs,           \* of the operator: [ns, targets (a sequence), excluded, cis]
  ClusterScope,      \* the empty namespace of the cache
  MaxLabel,          \* parts of the longest valid label value
  None,
  MaxScans, MaxDeletes   \* bounds on scans of the CLI and on deletions

\* What the API server and the controllers of Kubernetes guarantee: an object has
\* its name in its namespace alone, and each kind of controller controls its kind
\* of workload.  The operator does not start without its namespace.
Controls(kind, workloads) ==
  \A o \in Objects : Controller[o] # None /\ Kind[Controller[o]] = kind => Kind[o] \in workloads

ASSUME ConstantsAssumption ==
  /\ None \notin Objects /\ \A o \in Objects : Controller[o] \in Objects \cup {None}
  /\ \A o \in Objects : Name[o] \in Seq(STRING) /\ Name[o] # None
  /\ \A o \in Objects : Containers[o] # {} /\ \A c \in Containers[o] : c \in Seq(STRING)
  /\ \A o, q \in Objects : Kind[o] = Kind[q] /\ Namespace[o] = Namespace[q] /\ Name[o] = Name[q] => o = q
  /\ \A d \in Objects : Kind[d] = "Deployment" =>
       CurrentRS[d] \in Objects /\ Kind[CurrentRS[d]] = "ReplicaSet"
  /\ Controls("Deployment", {"ReplicaSet"}) /\ Controls("CronJob", {"Job"}) /\ Controls("Pod", {})
  /\ \A kind \in {"ReplicaSet", "ReplicationController", "StatefulSet", "DaemonSet", "Job"} :
       Controls(kind, {"Pod"})
  /\ \A d \in Configs : d.targets \in Seq(STRING) /\ d.ns # ClusterScope
  /\ MaxLabel \in Nat /\ MaxScans \in Nat /\ MaxDeletes \in Nat

VARIABLES
  config,
  live,        \* objects that exist
  jobs,        \* metadata of the operator's scan jobs
  reports,     \* stored reports
  events,      \* owners, not watched themselves, of reports that changed
  scanned,     \* history: the objects that the CLI stored reports of
  cli,         \* what the CLI scanned last, and whether get finds it
  scans, deletes

vars == <<config, live, jobs, reports, events, scanned, cli, scans, deletes>>

-----------------------------------------------------------------------------
(* Owners (object.go)                                                       *)

ControlledBy(o, kinds) == Controller[o] # None /\ Kind[Controller[o]] \in kinds

BuiltInWorkload == {"ReplicaSet", "ReplicationController", "StatefulSet", "DaemonSet", "Job"}

\* Mutant: a pod of any controller.
ControlledByAny(o) == Controller[o] # None

IsBuiltInWorkload(o) == ControlledBy(o, BuiltInWorkload)

JobOwner(j) == IF ControlledBy(j, {"CronJob"}) THEN Controller[j] ELSE j

\* Mutant: the job of a pod is taken as it is.
ReportOwnerOfPod(o) ==
  CASE Kind[o] = "Deployment" -> CurrentRS[o]
    [] Kind[o] = "Job" -> JobOwner(o)
    [] Kind[o] = "Pod" /\ ControlledBy(o, {"ReplicaSet", "Job"}) -> Controller[o]
    [] OTHER -> o

ReportOwner(o) ==
  CASE Kind[o] = "Deployment" -> CurrentRS[o]
    [] Kind[o] = "Job" -> JobOwner(o)
    [] Kind[o] = "Pod" /\ ControlledBy(o, {"ReplicaSet"}) -> Controller[o]
    [] Kind[o] = "Pod" /\ ControlledBy(o, {"Job"}) -> JobOwner(Controller[o])
    [] OTHER -> o

-----------------------------------------------------------------------------
(* Metadata                                                                 *)

IsValidLabelValue(name) == Len(name) <= MaxLabel

\* The hash is taken to tell names apart.
Hash(name) == <<"hash">> \o name

\* ObjectRefToLabels
Labels(o) ==
  [kind |-> Kind[o], namespace |-> Namespace[o],
   name |-> IF IsValidLabelValue(Name[o]) THEN Name[o] ELSE None,
   nameHash |-> IF IsValidLabelValue(Name[o]) THEN None ELSE Hash(Name[o])]

\* A name that is no label value is kept in an annotation.
ObjectToObjectMeta(o) ==
  [labels |-> Labels(o), name |-> IF IsValidLabelValue(Name[o]) THEN None ELSE Name[o]]

\* The objects that ObjectRefFromObjectMeta refers to, none for an error.
ObjectRefFromObjectMeta(meta) ==
  {o \in live : /\ Kind[o] = meta.labels.kind /\ Namespace[o] = meta.labels.namespace
                /\ Name[o] = IF meta.labels.name # None THEN meta.labels.name ELSE meta.name}

\* reportName in its namespace
ReportName(o, c) ==
  <<Namespace[o], IF IsValidLabelValue(<<Kind[o]>> \o Name[o] \o c)
                  THEN <<Kind[o]>> \o Name[o] \o c ELSE <<Kind[o]>> \o Hash(Name[o] \o c)>>

\* client.MatchingLabels: the labels that the selector sets.
MatchingLabels(sel, labels) ==
  /\ sel.kind = labels.kind /\ sel.namespace = labels.namespace
  /\ sel.name # None => sel.name = labels.name
  /\ sel.nameHash # None => sel.nameHash = labels.nameHash

FindByOwner(o) ==
  {r \in reports : r.name[1] = Namespace[o] /\ MatchingLabels(Labels(o), r.meta.labels)}

\* RelatedReplicaSetName: the empty set stands for its errors too.
RelatedReplicaSet(o) ==
  CASE Kind[o] = "Deployment" -> {CurrentRS[o]}
    [] Kind[o] = "Pod" /\ ControlledBy(o, {"ReplicaSet"}) -> {Controller[o]}
    [] OTHER -> {}

\* Mutant: the fallback is to the object that controls o.
FindByOwnerOrController(o) ==
  IF FindByOwner(o) # {} THEN FindByOwner(o)
  ELSE IF Controller[o] = None THEN {} ELSE FindByOwner(Controller[o])

FindByOwnerInHierarchy(o) ==
  IF FindByOwner(o) # {} THEN FindByOwner(o)
  ELSE UNION {FindByOwner(rs) : rs \in RelatedReplicaSet(o)}

-----------------------------------------------------------------------------
(* Scope of the operator (predicate.go, config.go, operator.go)             *)

TargetNamespaces == {config.targets[i] : i \in DOMAIN config.targets}

ResolveInstallMode ==
  CASE Len(config.targets) = 1 /\ config.targets[1] = config.ns -> "OwnNamespace"
    [] Len(config.targets) = 1 /\ config.targets[1] # config.ns -> "SingleNamespace"
    [] Len(config.targets) > 1 -> "MultiNamespace"
    [] OTHER -> "AllNamespaces"

\* Namespaces of the cache; the empty one, for nodes, adds all of them.
CachedNamespaces ==
  CASE ResolveInstallMode = "OwnNamespace" -> TargetNamespaces
    [] ResolveInstallMode = "AllNamespaces" -> {ClusterScope}
    [] OTHER -> TargetNamespaces \cup {config.ns} \cup (IF config.cis THEN {ClusterScope} ELSE {})

IsCached(o) == Namespace[o] \in CachedNamespaces \/ ClusterScope \in CachedNamespaces

\* Mutant: the cache alone decides.
InCache(o) == TRUE

InstallModePredicate(o) ==
  CASE ResolveInstallMode = "SingleNamespace" ->
         Namespace[o] = config.targets[1] /\ Namespace[o] # config.ns
    [] ResolveInstallMode = "MultiNamespace" -> Namespace[o] \in TargetNamespaces
    [] ResolveInstallMode = "AllNamespaces" -> Namespace[o] \notin config.excluded
    [] OTHER -> TRUE

Workloads ==
  {"Pod", "ReplicaSet", "ReplicationController", "StatefulSet", "DaemonSet", "CronJob", "Job"}

\* SetupWithManager, For: the predicates on the events of the workload itself.
Watched(o) == IsCached(o) /\ InstallModePredicate(o) /\ o \notin Managed

\* SetupWithManager, Owns: an event of a report in the cache enqueues its owner,
\* without a predicate.  It adds nothing to an owner that is watched.
OwnersToEnqueue(rs) == {o \in {r.owner : r \in rs} : IsCached(o) /\ ~Watched(o)}

\* The workloads that reconcileWorkload does not skip.
Reconciled(o) ==
  /\ Kind[o] \in Workloads
  /\ Kind[o] = "Pod" => ~IsBuiltInWorkload(o)
  /\ Kind[o] = "Job" => ~ControlledBy(o, {"CronJob"})

-----------------------------------------------------------------------------
Init ==
  /\ config \in Configs
  /\ live = Objects /\ jobs = {} /\ reports = {} /\ cli = None
  /\ events = {} /\ scanned = {}
  /\ scans = 0 /\ deletes = 0

\* WriteReport for each container: an update replaces labels and data, and keeps
\* the annotation and the owner.
WriteReports(o) ==
  LET stored(n) == {r \in reports : r.name = n}
      write(c) ==
        IF stored(ReportName(o, c)) = {}
        THEN {[name |-> ReportName(o, c), container |-> c, of |-> o,
               meta |-> ObjectToObjectMeta(o), owner |-> o]}
        ELSE {[r EXCEPT !.container = c, !.of = o, !.meta.labels = Labels(o)] :
                r \in stored(ReportName(o, c))}
  IN reports' = {r \in reports : \A c \in Containers[o] : r.name # ReportName(o, c)}
                \cup UNION {write(c) : c \in Containers[o]}

\* The reports of o after a write, each an event for its owner.
EventsOfWrite(o) ==
  events' = events \cup
    OwnersToEnqueue({r \in reports' : \E c \in Containers[o] : r.name = ReportName(o, c)})

\* hasReports
HasReports(o) == {r.container : r \in FindByOwner(o)} = Containers[o]

\* reconcileWorkload: the job carries the object in its metadata, and is not
\* submitted a second time.
Reconcile(o) ==
  /\ o \in live /\ (Watched(o) \/ o \in events)
  /\ jobs' = jobs \cup IF Reconciled(o) /\ ~HasReports(o) THEN {ObjectToObjectMeta(o)} ELSE {}
  /\ events' = events \ {o}
  /\ UNCHANGED <<config, live, reports, scanned, cli, scans, deletes>>

\* processCompleteScanJob; a job whose owner is gone is deleted.
ProcessJob(j) ==
  /\ j \in jobs
  /\ jobs' = jobs \ {j}
  /\ IF ObjectRefFromObjectMeta(j) = {} THEN UNCHANGED <<reports, events>>
     ELSE \E o \in ObjectRefFromObjectMeta(j) :
            IF HasReports(o) THEN UNCHANGED <<reports, events>>
                             ELSE WriteReports(o) /\ EventsOfWrite(o)
  /\ UNCHANGED <<config, live, scanned, cli, scans, deletes>>

\* starboard scan vulnerabilityreports
Scan(o) ==
  /\ scans < MaxScans
  /\ o \in live /\ Kind[o] \in Workloads \cup {"Deployment"}
  /\ ReportOwner(o) \in live
  /\ WriteReports(ReportOwner(o)) /\ EventsOfWrite(ReportOwner(o))
  /\ scanned' = scanned \cup {ReportOwner(o)}
  /\ cli' = [of |-> o, found |-> {}, pc |-> "scanned"]
  /\ scans' = scans + 1
  /\ UNCHANGED <<config, live, jobs, deletes>>

\* starboard get vulnerabilityreports of the same object
Get ==
  /\ cli # None /\ cli.pc = "scanned"
  /\ cli' = [cli EXCEPT !.found = FindByOwnerInHierarchy(cli.of), !.pc = "got"]
  /\ UNCHANGED <<config, live, jobs, reports, events, scanned, scans, deletes>>

\* A user deletes an object or a report, and the garbage collector what it owns.
Gone(o) == {x \in Objects : x = o \/ Controller[x] = o
              \/ (Controller[x] # None /\ Controller[Controller[x]] = o)}

DeleteObject(o) ==
  /\ deletes < MaxDeletes /\ o \in live /\ Kind[o] # "Pod"
  /\ live' = live \ Gone(o)
  /\ reports' = {r \in reports : r.owner \notin Gone(o)}
  /\ deletes' = deletes + 1
  /\ UNCHANGED <<config, jobs, events, scanned, cli, scans>>

DeleteReport(r) ==
  /\ deletes < MaxDeletes /\ r \in reports
  /\ reports' = reports \ {r}
  /\ events' = events \cup OwnersToEnqueue({r})
  /\ deletes' = deletes + 1
  /\ UNCHANGED <<config, live, jobs, scanned, cli, scans>>

Next ==
  \/ \E o \in Objects : Reconcile(o) \/ Scan(o) \/ DeleteObject(o)
  \/ \E j \in jobs : ProcessJob(j)
  \/ \E r \in reports : DeleteReport(r)
  \/ Get

Spec == Init /\ [][Next]_vars

\* The controllers' queues serve every key.
FairSpec ==
  /\ Spec
  /\ \A o \in Objects : WF_vars(Reconcile(o))
  /\ \A o \in Objects : WF_vars(ProcessJob(ObjectToObjectMeta(o)))

-----------------------------------------------------------------------------
\* Every variable has its type.
TypeOK ==
  /\ config \in Configs /\ live \subseteq Objects
  /\ events \subseteq Objects /\ scanned \subseteq Objects
  /\ \A j \in jobs : j.labels.name # None \/ j.name # None
  /\ \A r \in reports : r.of \in Objects /\ r.owner \in Objects /\ r.container \in Containers[r.of]
  /\ \A r, q \in reports : r.name = q.name => r = q
  /\ scans \in 0..MaxScans /\ deletes \in 0..MaxDeletes

\* Objects that run the same containers: o and what controls it.
Chain(o) ==
  {o} \cup IF Controller[o] = None THEN {} ELSE {Controller[o], Controller[Controller[o]]} \ {None}

\* Operator and CLI report on one object of each hierarchy: whatever is scanned,
\* by whom and in which order, no pod has its containers reported twice.  The
\* exception are pods of a StatefulSet, DaemonSet or ReplicationController that
\* the CLI was asked to scan, as ReportOwner does not know these controllers.
OneOwner ==
  \A p \in Objects : \A o, q \in {r.of : r \in reports} \cap Chain(p) :
    o = q \/ ControlledBy(p, {"StatefulSet", "DaemonSet", "ReplicationController"})

\* The namespaces of the install mode.
InScope(ns) ==
  IF config.targets = <<>> THEN ns \notin config.excluded ELSE ns \in TargetNamespaces

\* The operator submits jobs only for the target namespaces, or for all that are
\* not excluded, whatever the caches hold for other controllers.  The exception
\* are objects that the CLI stored reports of: Owns has no predicate, so an event
\* of such a report leads to its owner in any namespace of the cache.
ScopeRespected ==
  \A j \in jobs : \/ InScope(j.labels.namespace)
                  \/ \E o \in scanned : j = ObjectToObjectMeta(o)

\* Every container of every pod in scope is reported in the end: the workloads
\* that the controllers skip are those whose controller is reconciled.
EveryPodReported ==
  <>[](\A p \in live : Kind[p] = "Pod" /\ p \notin Managed /\ InstallModePredicate(p) /\ IsCached(p) =>
         \A c \in Containers[p] : \E r \in reports :
           r.of \in Chain(p) /\ r.container = c /\ r \in FindByOwner(r.of))

\* No two workloads share a report name.  The names allow it, as their parts are
\* joined by dashes: ReplicaSet web with container 1-c, ReplicaSet web-1 with c.
NoCollision ==
  \A o, q \in Objects : \A c \in Containers[o] : \A d \in Containers[q] :
    ReportName(o, c) = ReportName(q, d) => o = q

\* What scan has stored for an object, get finds for the same object, whatever the
\* operator wrote in between.  FindByOwnerInHierarchy relates Deployments and pods
\* to their ReplicaSet only, so what belongs to a Job or a CronJob is left out.
ScanThenGet ==
  cli # None /\ cli.pc = "got" /\ deletes = 0 =>
    cli.found # {} \/ Kind[ReportOwner(cli.of)] \in {"Job", "CronJob"}
=============================================================================
