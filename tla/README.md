# Starboard in TLA+

Starboard runs security scanners against a Kubernetes cluster and keeps their
results next to the scanned objects as custom resources: `VulnerabilityReport`,
`ConfigAuditReport` and `ClusterConfigAuditReport`, `CISKubeBenchReport`,
`KubeHunterReport`, `ClusterComplianceReport`. The operator does it continuously,
as a set of controllers; the CLI does it once, on demand. This directory holds
TLA+ models of the parts where order, staleness and failure matter, TLC
configurations that check them on small instances, and TLAPS proofs for every
instance.

    tlc -workers 2 -config ConfigAudit.cfg MCConfigAudit
    tlapm ComplianceProofs.tla

For a model `M` there are `M.tla` (the specification and its properties), `MCM.tla`
and `M.cfg` (the instance for TLC). The proofs of five models are in `MProofs.tla`;
`PluginProofs` has those of `PolicyAudit`, `AquaScan` and `TrivyScan`, `ReportProofs`
those of `ReportOwner` and `ReportTTL`, `ScanJobProofs` those of `PluginConfigAudit` and
`CISKubeBench`.
`PROJECT.json` lists the runs, the source lines of every definition, the hazards,
the mutants and the theorems.

## 1. The system

### Parts, their state and how they interact

| part | state | operations | model |
|---|---|---|---|
| built-in configuration audit (`pkg/configauditreport/controller.go`) | one report per resource, with the labels `resource-spec-hash` and `plugin-config-hash`; the policies ConfigMap | `reconcileResource` evaluates the policies in process and writes the report; `reconcileConfig` / `reconcileClusterConfig` delete, batch by batch, the reports of other policies | `ConfigAudit` |
| policy evaluation (`pkg/policy`, Conftest plugin) | the policies ConfigMap | which policies apply to a kind, their hash, their evaluation | `PolicyAudit` |
| vulnerability scanner (`pkg/vulnerabilityreport/controller.go`) | one report per container with the label `pod-spec-hash`; one scan job per workload, its pod, its credentials secret | `reconcileWorkload` submits a scan job; `reconcileJobs` turns a finished job into reports and deletes it | `VulnerabilityScan` |
| scan job limit (`pkg/operator/controller/limit_checker.go`) | none: counts the cached jobs | `Check`, called by every controller that submits jobs | `VulnerabilityScan`, `CISKubeBench` |
| plugin-based configuration audit (`configauditreport.go`, `plugins_config.go`) | scan jobs, the secret with the policies, reports, the plugin's ConfigMap | `reconcileResource`, `reconcileJobs`, `reconcileConfig` | `PluginConfigAudit` |
| CIS benchmark (`ciskubebenchreport.go`, `pkg/kubebench`) | one job and one report per node | `reconcileNodes`, `reconcileJobs` | `CISKubeBench` |
| report TTL (`ttl_report.go`) | the TTL annotation and the timestamp of a vulnerability report | delete when expired, otherwise look again at the expiry | `ReportTTL` |
| compliance (`pkg/compliance`) | the cron schedule of a spec, detail report, status | `generateComplianceReport`, the mapping of checks to controls | `Compliance` |
| CLI scanners (`pkg/kube/runnable_job.go`, `pkg/runner`, `*/scanner.go`) | a job, an informer, two channels | run a job, wait for the end or the timeout, collect, delete | `CLIScan`, `ExclusiveScan` |
| object resolver, install modes, predicates (`pkg/kube/object.go`, `pkg/operator/etc`, `predicate`) | none | owner hierarchy, labels, which report belongs to what, which namespaces are watched | `ReportOwner` |
| installer and start-up (`pkg/cmd/installer.go`, `pkg/starboard/config.go`, `pkg/operator/operator.go`) | CRDs, namespace, configuration, RBAC, compliance spec | `Install`, `Uninstall`, the configuration that the operator ensures | `Installation` |
| registry credentials and Trivy (`pkg/kube/secrets.go`, `pkg/docker`, `pkg/plugin/trivy`) | the plugin's ConfigMap, pull secrets | the scan job of a workload, its environment, the parsed output | `TrivyScan` |
| Aqua (`pkg/plugin/aqua`, `cmd/scanner-aqua`) | ConfigMap and Secret of the plugin, the Aqua server | the scan job, the scanner program in its containers | `AquaScan` |

All controllers share one controller-runtime manager. They **read** through the
informer caches of the manager, which lag behind, and **write** to the API
server. They never call one another: a write becomes a watch event, the event
updates the cache and enqueues a key, a worker takes the key and reconciles. An
error or a `RequeueAfter` re-adds the key after a delay; a plain return forgets it.
Each controller has one worker (the default `MaxConcurrentReconciles`), and every
kind has a controller of its own. The garbage collector, the Kubernetes job
controller and users change the same objects at any time. The CLI uses the same
names for its jobs, secrets and reports, and several invocations, or the operator
and an invocation, meet at those names.

### What is hard

* **Forgotten work.** A controller that returns without an error, on the strength
  of a stale read, is not called again unless some event comes. Whether one comes
  depends on what the *other* controllers do.
* **Check, then act.** Limits, existing jobs and existing reports are checked in
  the cache and acted upon in the API server several calls later.
* **Names that come back.** Jobs, secrets and reports have names derived from
  their owner: a pass over a deleted job meets its successor, a re-created
  resource or node meets its predecessor's report.
* **Half-done sequences.** Secret, job and owner reference are three calls; the
  reports of several containers are several; detail report and status are two;
  an installation is a dozen. A restart or an error falls between.
* **One configuration, read many times.** A plugin's ConfigMap is read when the job
  is built (more than once), when its pod starts and when its output is parsed.

The full list, with lines and with the properties aimed at each, is `hazards` in
PROJECT.json. For each component correctness means: no missing or outdated report
is forgotten; once users stop, the current reports exist; after that the operator
does nothing; no result is thrown away or taken for that of another job, image or
configuration; jobs, secrets and slots under the limit are given back.

## 2. The models

Conventions: `X` is what the API server stores, `cX` what the cache shows. `lag`,
`repLag`, `stale` and the like are the objects with a version that the cache has
not seen, so a write that returns to an older value is still an event. `queue` and
`delayed` are the keys of a work queue, `work` is what a worker holds between two
calls of its reconciliation, `work.pc` the call that comes next. One action is one
call that reads or writes shared state, together with the branch taken on its
answer, so that everything else can happen between two calls. Actions of the
program keep the names of its functions. Hashes are modelled by what they tell
apart.

### `ConfigAudit` - built-in configuration audit

| actions | code |
|---|---|
| `ReconcileResource`, `ReadPolicies`, `CheckReport` (`HasReport`), `WriteReport` | `reconcileResource`, `hasReport`, `readWriter.WriteReport` / `WriteClusterReport` |
| `ReconcileConfig`, `ListOutdated` (`Outdated`, `BatchFits`), `DeleteOutdated`, `FinishConfig` | `reconcileConfig`, `reconcileClusterConfig` |
| `ResourceError`, `ConfigError` | every `return ctrl.Result{}, err` |
| `SyncResource`, `SyncReport`, `SyncPolicies` | `SetupWithManager`: watches, owners, predicates |
| `Resync`, `FireDelayed`, `FireCfgDelayed`, `Restart` | controller-runtime (external) |
| `PutResource`, `DeleteResource`, `PutPolicies`, `UserDeletesReport`, `GarbageCollect` | users and Kubernetes (external) |

A re-created resource has a new uid. An update of a report keeps the owner
reference it finds, as `WriteReport` does by copying the existing object, so the
garbage collector may delete what was just written; `Converges` shows that this
heals. Updates carry the cached resource version and are refused when it is old;
deletions carry no precondition.

### `VulnerabilityScan` - vulnerability scanner and scan job limit

| actions | code |
|---|---|
| `ReconcileWorkload`, `CheckReports` (`HasReports`), `CheckScanJob`, `CheckLimit` (`LimitExceeded`) | `reconcileWorkload`, `hasReports`, `hasActiveScanJob`, `LimitChecker.Check` |
| `CreateSecret`, `CreateJob`, `SetOwnerReference` | `submitScanJob` |
| `ReconcileJobs`, `GetOwner`, `CheckJobReports`, `ReadLogs`, `WriteReports` | `reconcileJobs`, `processCompleteScanJob`, `readWriter.Write` |
| `GetStatuses`, `DeleteJob` | `processFailedScanJob`, `deleteJob` |
| `WorkerError`, `JobError` | every `return ctrl.Result{}, err` |
| `SyncWorkload`, `SyncReport`, `SyncJob` | `SetupWithManager`, `JobHasAnyCondition` |
| `StartPod`, `CompleteJob`, `FailJob`, `LosePod`, `CollectSecret`, `CollectReport`, `EditWorkload`, `UserDeletesReport` | Kubernetes and users (external; `FailJob` follows the deadline and the backoff limit that the job builder sets) |

`ReadLogs` looks up the pod through the job *of this name*, `DeleteJob` deletes the
job *of this name*: either may be a later job than the one of the pass. Three histories
record where results come from: `jobWork.from` and `origin` the pod spec whose scan
wrote the output of a pass and of a stored report, `past` the pod specs that a workload
has had. The output of a pod is `"good"`, or `"bad"` when the plugin cannot parse it,
however often it is read.

### The other models

* `CISKubeBench`. As `VulnerabilityScan`, for nodes, which may leave and come back
  with another uid under the same name; the jobs of other scanners take slots of
  the same limit. A node's status is renewed by its kubelet, and each renewal
  enqueues it. A job is created without its pod (`CreatePod` is the job controller's),
  and a pass over a job that is gone may meet the next one before its pod exists.
* `PluginConfigAudit`. The resource, its job, the secret with the policies and the
  report on one side, `reconcileConfig` with its batches on the other. The job
  builder's two reads of the config (`GetScanJobSpec`, then `ConfigHash`) are two
  steps: `used` is what the job evaluates, `config` what its label says. The configs in
  `Conftest` are those of the plugin whose jobs come with a secret (`CopiesPolicies`),
  the others are of Polaris; edits keep the plugin. Polaris refuses the output of some
  audits (`Refused`) each time that it is read; the Conftest plugin drops the error.
  A pod that is missing while its job runs counts as a fault.
* `PolicyAudit`. What the two before take as given: `PoliciesByKind`,
  `ModulesByKind`, `Hash`, `Applicable`, `Eval` of `pkg/policy/policy.go` and their
  counterparts in the Conftest plugin as operators on the contents of a ConfigMap;
  what OPA makes of a script (`Meaning`) is external. Severities include NONE and
  UNKNOWN, which the code accepts; metadata that is not an object makes the evaluation
  panic (`EvalPanics`).
* `ReportTTL`. The controller's clock and cached report against the writer of
  reports, which keeps the annotation of an existing report; `RequeueAfter`
  with its zero value, and the delaying queue, which keeps the earlier of two times.
* `Compliance`. The cron schedule and the generation: lists, mapping to controls,
  detail report, status. `from` is a history of the findings a pass started with. The
  limit on the entries of a control is any integer.
* `CLIScan`. Two goroutines of each invocation (`Runner.Run` and the task), the
  informer callbacks that send on unbuffered channels, the timeout, and the
  deferred deletion of the job. `ExclusiveScan` is its abstract specification: a
  scan takes its target, collects, releases, and returns.
* `ReportOwner`. `ReportOwner`, `ObjectToObjectMeta`, `FindByOwner`,
  `FindByOwnerInHierarchy`, report names and labels, the predicates and
  `InstallMode` as operators; the operator, `scan` and `get` as actors on
  one set of reports. Events of a workload pass the predicates (`Watched`), those of an
  owned report enqueue its owner without any (`OwnersToEnqueue`, `events`).
* `Installation`. `Install`, `Uninstall` and the start of the operator as sequences
  of calls (`StepsOf`), each of which may fail or be the last before a stop, run
  next to each other and again. A CRD that is deleted stays `terminating` until its
  objects are gone (`RemoveInstances`, `RemoveCRD`); `"reports"` and `"compliance"` stand
  for groups of CRDs that are next to each other. The operator initialises the
  plugins of the scanners that it has enabled (`OperatorPlugins`, `ConfigToCreate`).
* `TrivyScan`. Credentials from pull secrets to the variables of a container, the
  four variants of the scan job, mirrors and insecure registries, the node of a
  filesystem scan, and the times at which the ConfigMap is read, with the keys
  that it must have (`RequiredData`).
* `AquaScan`. The plugin's reads of its ConfigMap and the scanner program: ask
  the server for the registry and the image, scan ad hoc when it is unknown. For the
  image command an image is asked for by its repository, without its server (`AskedFor`).

### `ScanProtocol` - what the scan job controllers promise

`VulnerabilityScan`, `PluginConfigAudit` and `CISKubeBench` are three copies of one
idea in the code, each with its own worker, caches, secrets and checks.
`ScanProtocol` is the idea, without any of these, and each of the three implements
it (`FollowsProtocol`):

* a target has at most one scan (`Submit`); as long as users change nothing it is a
  scan of the wanted version;
* a report is stored (`Store`) only for a scan of that target that completed, and under the
  label of that scan, whatever the target has become since (the protocol knows labels only;
  that the content is of the same scan is `LabelledAsScanned`);
* a scan is discarded (`Discard`) only when one of its target has ended, and as long as nobody
  edits and nothing fails only with the wanted reports stored. The scan that is discarded
  need not be the one that ended: `deleteJob` goes by the name;
* reports go (`Remove`) only with their target, or after an edit.

| `ScanProtocol` | `VulnerabilityScan` | `PluginConfigAudit` | `CISKubeBench` |
|---|---|---|---|
| label | hash of the pod spec | hashes of resource and config | none: a constant |
| `wanted` | `spec` | `spec` with `config` | whether the node is there |
| `scan` | the job in the API server | the same | the same |
| `ended` | finished jobs as the API server, the cache and the running pass know them | the same | the same |
| `reports` | `rep`, one per container | `report` | `report` |
| `edited`, `failed` | `edits > 0`, `faults > 0` | the same | the same |

`edited` and `failed` are not assumptions: the steps that they permit are part of the
protocol, which all three implement with edits and faults.

### What the models leave out on purpose

* A `Sync` step takes the cache to the newest version at once and enqueues in the
  same step. An intermediate version that the cache shows for a while is an earlier
  `Sync` step.
* The Rego interpreter and the parsing of scanner output: a parse succeeds, or fails
  for good.
  Reading the logs of all containers is one step; a pod does not lose
  them one at a time. Following the log of a running pod is a `ReadLogs` that
  comes later.
* The existence check and the reading of the policies ConfigMap are one read.
* In `VulnerabilityScan` a deleted workload does not come back (`ConfigAudit` and
  `CISKubeBench` have the re-creation), users delete no jobs, errors of the job
  builder are left out, and the limit counts the jobs of this scanner only
  (`CISKubeBench` has the others). The question whether a ReplicaSet is the current
  revision of its Deployment, and `hasActiveScanJob` when scan jobs run in the
  namespace of the workload, are left out.
* `TrivyScan` and `AquaScan` take the submission of a job, which `VulnerabilityScan`
  takes apart, as one step.
* In `Compliance` totals, severities and texts are left out; a cron expression is
  every multiple of `Period`.

## 3. What is checked

| run | instance | distinct states |
|---|---|---|
| `config_audit` | 1 resource, 2 specs, 3 policy contents of which one does not apply, batches of 1, 2 edits, 1 fault | 645 000 |
| `vulnerability_scan` | 1 private workload, 2 pod specs, good and unparsable output, limit 1, 1 edit, 1 fault, resyncs | 871 000 |
| `cli_scan` | 2 invocations on 1 private target, with a timeout, 1 fault, 1 job deleted by a user | 41 000 |
| `cis_kube_bench` | 1 node, limit 1, 2 edits (a node leaves and rejoins, another scanner's job, a deleted job or report), 1 fault | 626 000 |
| `plugin_config_audit` | 1 resource; Conftest with 3 configs of which one does not apply, or Polaris with 2 of which one leads to output that is refused; 1 edit, 1 fault, resyncs | 944 000 |
| `report_ttl` | 2 reports, TTL 2 or none, 4 ticks, 2 writes, 1 fault | 5 500 |
| `compliance` | 3 controls, 2 checks, 2 scanner reports, 2 activations in 4 ticks, 1 edit, 1 fault | 471 000 |
| `report_owner` | a Deployment, a CronJob, a StatefulSet, a pod of a framework and a scan job, 7 configurations of the operator, 1 scan, 1 deletion | 33 000 |
| `installation` | CLI and operator, an empty, an outdated and a half-installed cluster, 1 edit or 1 fault | 532 000 |
| `trivy_scan` | 2 containers, 2 registries and a mirror, 2 pull secrets, 11 configurations, 3 edits, 1 fault | 246 000 |
| `aqua_scan` | 2 images of one repository on two servers, 2 registries of the Aqua server, 8 configurations, the documented one included, 2 edits, 1 fault | 222 000 |
| `policy_audit` | 2 policies, 1 library, 2 kinds, 4 scripts, all contents 4 edits away from the empty one, built-in scanner and Conftest | 12 265 000 |

| property | model | says |
|---|---|---|
| `NoLostWakeup` | `ConfigAudit` | a missing or outdated report always has an event, a key or a running reconciliation that will repair it, without any resync |
| `SettledIsStable` | `ConfigAudit`, `VulnerabilityScan` | once everything is right no retry, resync, restart or error makes the operator write, scan or delete |
| `Converges` | `ConfigAudit`, `VulnerabilityScan`, `PluginConfigAudit` | when users stop, the current reports exist; in `ConfigAudit` owned by the current incarnation; in the other two except behind a secret that lost its job or a complete job with output that cannot be parsed, which also keeps its place under the limit |
| `NoResultLost` | `VulnerabilityScan`, `CISKubeBench` | a complete job is deleted only with all its results stored |
| `FollowsProtocol` | `VulnerabilityScan`, `PluginConfigAudit`, `CISKubeBench` | the controller implements `ScanProtocol`: stale passes included, reports have the labels of completed scans, and undisturbed no scan is discarded without the wanted reports |
| `LabelledAsScanned` | `VulnerabilityScan` | a report that counts as current holds the output of a scan of the current pod spec, although logs are read from whatever job has the name now, unless the workload has had that pod spec before |
| `JobHasSecret` | `VulnerabilityScan`, `CLIScan` | a job of a private target has its credentials as long as it exists, although the secret of its predecessor of the same name is being collected |
| `JobHasPolicies` | `PluginConfigAudit` | the same of the secret with the policies |
| `OwnResults` | `CLIScan` | a scan reports only on a job that it created itself and that completed |
| `ExclusiveAccess` | `CLIScan` | the scans implement `ExclusiveScan` |
| `Returns` | `CLIScan` | every scan returns |
| `Benchmarked` | `CISKubeBench` | when nodes stop to come and go each has a report that it controls, unless passes over deleted jobs meet the next job before it has its pod again and again |
| `ExpiryScheduled` | `ReportTTL` | a stored report with a TTL has an event, a key or a timer no later than its expiry |
| `ExpiredAreDeleted` | `ReportTTL` | an expired report is deleted or renewed |
| `FailuresHaveDetails` | `Compliance` | a control with failures is in the detail report made from the same findings, with entries if the limit is positive |
| `EveryActivationReports` | `Compliance` | every activation of the schedule is followed by a report |
| `OneOwner` | `ReportOwner` | operator and CLI agree on the owner of the reports of a pod, unless it is one of a StatefulSet, DaemonSet or ReplicationController |
| `ScopeRespected` | `ReportOwner` | the operator submits jobs for target namespaces only, but for objects of which the CLI stored reports |
| `ScanThenGet` | `ReportOwner` | `get` finds what `scan` stored, but for Jobs and CronJobs |
| `EveryPodReported` | `ReportOwner` | every container of every pod in scope is reported |
| `InstallComplete`, `UninstallRemovesAll` | `Installation` | what a command that succeeds leaves behind: everything, but CRDs that were terminating when install updated them; nothing, but CRDs that are terminating |
| `RetriesSucceed` | `Installation` | a command that is repeated succeeds, and the operator starts |
| `OwnCredentials` | `TrivyScan` | a container gets only credentials for the registry of its own image |
| `ScansOnlyUnknown` | `AquaScan` | an ad-hoc scan is only made of an image that the server was asked for and does not know by that name |
| `Scanned` | `TrivyScan`, `AquaScan` | once the configuration stays usable the workload has a report; usable for the image command of Aqua is a login in the ConfigMap, for Trivy that no pull secret is missing |
| `HashIdentifiesResults` | `PolicyAudit` | reports with the hash of the current policies hold what evaluating these gives |
| `OneCheckPerPolicy` | `PolicyAudit` | each applicable policy has one check, and the summary counts the failed ones of the severities LOW to CRITICAL |

`TypeOK` is the type invariant of each module, a theorem for all of them (section 5).
TLC checks it in the run of `ConfigAudit`; in the other runs it is not repeated.

Three of these say less than they may seem to. `FailuresHaveDetails` compares a status
and details made from the same findings; after an error between the two writes they are
of different ones for a while. `HashIdentifiesResults` leaves out the jobs that were
built from two contents of the config (`torn`). And `Scanned` of Trivy needs every pull
secret, as one that is missing holds up all containers of its workload.

**Bounds.** `MaxEdits`, `MaxScans`, `MaxDeletes`, `MaxUserDeletes` and `MaxWrites` count
what users and other writers do, `MaxFaults` what goes wrong, `MaxTime` the ticks of
a clock; `MaxLabel` is the length of a label value. `MaxDisturbances` of `Installation`
bounds edits and faults together. Nothing else is bounded. Two
specs, configs or policy sets give a current and an outdated one. Two edits in
`ConfigAudit` let a resource be deleted and re-created, in `CISKubeBench` a node
leave and rejoin. One fault is a restart, an error, a failed scan or a lost pod
between any two calls; together with one edit it reaches every pair of an outdated
decision and a half-done sequence. Two invocations are enough for the CLI,
as those of one target only meet at one job and one secret. What needs larger instances
is left to the theorems, which have no bounds: a batch that leaves reports of other
resources over (`NeverForgotten`), and the reports of several containers written one
by one (`ResultsStay`).

**Deadlock.** In `ConfigAudit` and `VulnerabilityScan` the periodic resync is always
possible and the deadlock search is on. The other systems may really stop: the CLI
ends, the clock is bounded, or nothing is left to do.

**Fairness.** Weak fairness of informer events, of delayed keys and of workers:
client-go delivers what it watched, timers fire, and a worker that can take a step
does. The work queue is first in, first out, so a key that waits is taken however
often others are added: strong fairness of taking it (`ConfigAudit`, `CISKubeBench`).
The subscripts are the variables that the step is about. Kubernetes is fair in what it promises: the garbage collector
and the namespace controller remove what they have to, pods start, and jobs end,
because the job builders set `activeDeadlineSeconds`. Kubelets renew the status of their nodes
(`CISKubeBench`); CRDs are served after their creation, users repeat a command that
failed, and the kubelet restarts the operator (`Installation`). Where the code needs the periodic resync
(`SyncPeriod` defaults to ten hours) the specification says so: `ResyncSpec` in
`VulnerabilityScan` and `PluginConfigAudit`, `Resync` in `TrivyScan`. In
`VulnerabilityScan` it adds that the resync does not each time fall into the moment
between the deletion of a job and the event of that deletion: otherwise every pass
repeats the deletion of a job that exists only in the cache. Nothing is assumed of
users, errors and restarts.

**Mutants.** For each property PROJECT.json names a plausible wrong version of a
definition (marked "Mutant" in the modules, used by no action) under which TLC finds
the property violated.

## 4. Where the code and its documents disagree

Observations made while the models were written. The properties of section 3 state
what holds in spite of them, with an exception where one is needed.

Scan jobs of the operator:

* **More jobs than the limit** (`limit_checker.go:36`). `docs/operator/configuration.md`
  calls the limit "the maximum number of scan jobs". `Check` counts cached jobs and
  reserves nothing: a second workload is admitted before the cache shows the first job.
* **Failed scans are not retried** (`vulnerabilityreport/controller.go:442`).
  `OPERATOR_SCAN_JOB_RETRY_AFTER` is documented as "the duration to wait before retrying a failed
  scan job"; it is only used for scans over the limit. A failed job is deleted and the
  workload is next looked at when something else enqueues it.
* **A lost wake-up** (`controller.go:279`). `Create` of the job for a new pod spec is
  answered with AlreadyExists while the previous job is being processed, and the
  reconciliation ends without a requeue; the new spec waits for the resync.
* **A secret that blocks its workload** (`controller.go:268`). A secret created just
  before a restart or an error has no owner and is never removed; AlreadyExists
  ends every later reconciliation. This is the exception in `Converges`.
* **Output under the wrong label** (`kube/logs.go:58`). The logs are those of the pod of the
  job that has the name now, the label is the hash of the cached job. When an edit of a
  workload is taken back, a pass over the job of the first version may store the output of
  the second one under the hash of the first, and nothing replaces it. This is the
  exception in `LabelledAsScanned`.
* **Unparsable output** (`controller.go:386`, `operator/controller/configauditreport.go:427`).
  A complete job whose output cannot be parsed is requeued for ever and never deleted: its
  workload is not scanned again, and it keeps its place under the limit. This is the other
  exception in `Converges`.
* **Excluded namespaces** (`controller.go:75`). `docs/operator/configuration.md:7` says that
  the namespaces of `OPERATOR_EXCLUDE_NAMESPACES` are "to be excluded from scanning". `For`
  has the predicate of the install mode, `Owns` has none and `reconcileWorkload` does not
  check: when a report that the CLI stored there is changed or deleted, its owner is enqueued
  and a scan job is submitted. This is the exception in `ScopeRespected`.
* **The plugin's config is ignored** (`operator/controller/configauditreport.go:333`). `hasActiveScanJob`
  compares only the hash of the resource, so after a change of the config the job of
  the old one counts as active, and its resource waits for the resync;
  `docs/operator/index.md:28`: "Rescan is also triggered whenever a config of a
  configuration audit plugin has changed".
* **The config is read twice** (`configauditreport/builder.go:85`): a change in between
  labels the results of the old policies with the new hash, and nothing rescans
  them. This is `torn` in `PolicyAudit`.
* **A benchmark is stored empty** (`ciskubebenchreport.go:294`): the error of
  `ParseCISKubeBenchReportData` is overwritten by the next `:=` before anybody looks
  at it. Likewise in the Conftest plugin (`conftest/plugin.go:370`).
* **A job deleted before its pod exists** (`ciskubebenchreport.go:287`). A pass over a job that
  was deleted meets the next one, and takes a pod that is yet to be created for one that was
  deleted. This may go on for ever: the exception in `Benchmarked`.
* **The node is found by name** (`ciskubebenchreport.go:259`): the comment at lines 30-31 says
  the report is controlled by the node "for which it was generated"; after a rejoin it
  is the new node.
* **ReplicaSets** (`vulnerabilityreport/controller.go:122`, `kube/object.go:415`). One
  whose event comes before the new revision annotation of its Deployment is cached
  counts as inactive and is dropped without a requeue; and `ReplicaSetByDeployment`
  looks at labels and revision, not at the owner reference of which the comment at
  `object.go:523` speaks. (Not modelled: section 6.)

Reports:

* **TTL** (`ttl_report.go:73`, `io.go:71`). The age is that of the cached report and
  the deletion has no precondition, so a report renewed since then is deleted;
  an update keeps the old annotations, although `docs/design/ttl_scans.md:27` has the
  annotation on "all new reports that it generates".
* **Compliance** (`compliance/io.go:144`, `:255`). The detail report is skipped without an error when
  its `Get` fails with anything but NotFound; INFO results are listed below the comment
  "control check detail relevant to fail checks only". And the limit on entries is not
  validated (`starboard/config.go:215`): with zero or less there are failures without any.
* **Owners** (`kube/object.go:388`, `vulnerabilityreport/builder.go:223`, `io.go:107`).
  `ReportOwner` returns a pod of a StatefulSet, DaemonSet or ReplicationController
  itself: when the CLI is asked to scan such a pod, the pod and its controller, which the
  operator scans, both have reports of the same containers, the exception in `OneOwner`.
  Two workloads may share a report name, as parts that contain hyphens are joined with
  hyphens (ReplicaSet `web` with a container `1-c`, ReplicaSet `web-1` with `c`), and the
  second to be written takes the labels of the first away: `NoCollision` excludes this in
  the theorem about `ScanThenGet`. And `get` for a pod of a Job does not find what `scan`
  stored with the Job, the exception in `ScanThenGet`.

CLI and installer:

* **A failed scan leaves its job behind** (`vulnerabilityreport/scanner.go:114`): the
  deletion is deferred only after `Run` has succeeded, and the next scan of the
  workload ends with AlreadyExists; the flag is described as "delete a scan job
  either complete or failed" (`cmd/commands.go:78`).
* **Uninstall has no timeout** (`installer.go:329`): both timers are made anew in each
  turn of the loop, so the longer one never fires.
* **CRDs are not awaited** (`installer.go:435`). `deleteCRD` only requests the deletion: uninstall
  may succeed while CRDs and reports still exist, and an install that follows updates a CRD
  that is terminating, succeeds, and loses it. This is the exception in both properties.
* **The compliance spec** (`installer.go:419`, `:430`): the update decodes the installed
  spec into the variable of the new one and writes it back; an error of `Get` other
  than NotFound is success. This is why `InstallComplete` leaves it out.

Plugins:

* **Trivy**: `GetNodeName` takes a pod of any phase, where its comment promises
  `ErrNoRunningPods` (`object.go:580`); the version in a report is that of the config at
  parse time (`trivy/plugin.go:1237`); in the namespace of the workload the reference to the
  ConfigMap resolves to nothing and every severity is reported (`:490`); a mirror
  applies to every registry whose name starts with the key (`:1366`); whether a
  connection is insecure is decided by the original registry and not the mirror (`:1203`).
  A ConfigMap without `trivy.dbRepository`, such as one of an earlier release, is an error
  of every scan (`:353`), and a pull secret that is missing one of the whole workload, whichever
  containers need it (`kube/secrets.go:129`).
* **Aqua**: user and password are taken from the ConfigMap through optional references, the
  documentation (`docs/vulnerability-scanning/aqua-enterprise.md:36`)
  stores them in the Secret of the same name (`aqua/plugin.go:264`), and so, with the documented
  setup, the scanner runs without them and nothing is ever scanned; the server is asked for an
  image by its repository only (`scanner/api/scanner.go:39`, image command), so that images of two
  servers share an answer; the summary drops
  unknown severities (`scanner/cli/scanner.go:169`); `scannercli` and its version come
  from two reads of the config (`plugin.go:230`).
* **Policies**: one denial that is not an object makes `Eval` ignore the others of
  that rule (`policy.go:346`); metadata that is not an object is a panic (`:326`);
  failed checks of the severities NONE and UNKNOWN are not in the summary
  (`config_audit_types.go:135`).

## 5. What is proved

The theorems assume only the named assumptions on the constants
(`ConstantsAssumption`, `SentinelsAssumption`), which TLC evaluates in every run: any
sets of resources, nodes, policies or invocations, any bounds. The one exception is
`NoCollision` in `ScannedIsFound`, which `MCReportOwner` assumes of its instance
(`NamesAssumption`). A proof module extends one model; where it holds the proofs of
another, that is a named instance (`Aqua`, `Trivy`, `TTL`, `CIS`), and its theorems
read `ASSUME Aqua!ConstantsAssumption PROVE Aqua!Spec => ...`, since an instance does not
bring its assumptions along. The models do not interact there, even where they share
the name of a variable.

Every model has its type invariant as a theorem: `TypeCorrect` of the model that the
module extends, `AquaTypeCorrect`, `TrivyTypeCorrect`, `TTLTypeCorrect` and
`CISTypeCorrect` of the instances. And:

* `ConfigAuditProofs`. **`NeverForgotten`**: `Spec => []NoLostWakeup`. `NoLostWakeup` is
  not inductive: that *something* is pending says nothing about what it will do. The
  inductive invariant `IInv` names the one that repairs. `CacheExact`: an object
  without a pending event is cached exactly. `SeenFresh`: a worker that holds an old
  version of its resource will get its key again. `SpecRepair`: a report with the
  wrong resource hash has the resource's own controller coming. `ConfigRepair`: a
  report with the wrong config hash has either a worker that is about to replace it
  or the config controller of its kind, which has it among its victims, has yet to
  list, or will come back because its batch was full. The hard step is the worker
  that read the old policies and writes after `reconcileConfig` has listed: the
  event of its write brings its own controller back, with the new policies.
  **`SettledStays`**: `Spec => SettledIsStable`.
* `VulnerabilityScanProofs`. **`CredentialsStay`**: `Spec => []JobHasSecret`. The
  strengthening `SecretFresh` says that a worker between the creation of the secret
  and that of the job holds a secret no deletion of a job can take with it.
  **`ResultsStay`**: `Spec => NoResultLost`. While nobody edits, every hash that a job, a
  pass or a report carries is the current one (`OneVersion`), and a pass only gets
  to its last step with each container either still to write or stored (`PassInv`).
  **`SettledStays`**: `Spec => SettledIsStable`. No step of the operator gets past
  `hasReports`: an undecided reconciliation holds the current hash, for which the cached
  reports are complete (`SettledHasReports`), and no other actor of the operator finds an
  event or a job.
  **`ReportsOfTheirLabel`**: `Spec => []LabelledAsScanned`. What anyone holds or reads is a pod
  spec that the workload has or had (`VersionsOf`); once there is or was a job of a new
  one (`Reached`), everybody who could submit another job knows it, so that the job of that
  name is one of that pod spec too (`NewSpecOf`, both in `OriginInv`).
  **`ScansFollowProtocol`**: `Spec => FollowsProtocol`, which is about the labels. Most steps map to the step of their
  name or to `Forget`. The one that needs an argument is `DeleteJob` in a pass over a
  cached job that is gone, which takes the next job of the same name with it. While nobody
  edits and nothing fails, `CalmInv` says why nothing is lost then: no job has failed or
  lost its pod, a workload of which the cache or a pass still knows an ended job has that
  job, ended, or all its reports (`NothingToLose`), and a pass reaches the deletion only
  with the reports stored.
* `ScanJobProofs`. **`PoliciesStay`**: `Spec => []JobHasPolicies`, with
  `SecretOfWorker`: a worker that has created the secret is alone with it.
  Of `CISKubeBench`: **`CISResultsStay`** (`NoResultLost`). `ReportsKept`: while nobody
  interferes a cached report exists, so that what `hasReport` saw may be relied upon; `DeletesKnown`: a pass about to delete a complete job knows its report to exist
  or its pod to be missing; `PassesKnown`: a pass, and a key that leads to one, is about the
  job that has the name; `OutKnown` and `OthersCounted` type the pass and the jobs of others.
  Both implement `ScanProtocol`. **`AuditsFollowProtocol`**: `Spec => FollowsProtocol`. Undisturbed
  (`CalmInv`), every label that a job, a pass or a report carries is the wanted one, so that
  the two reads of the job builder agree and `reconcileConfig` finds nothing to delete; and a
  pass gets to the deletion only with the report stored. Steps are grouped by what they
  leave alone (`JobEffect`, `ReportEffect`, `WorkEffect` and the like), since most of
  the proof says that a step of one controller does not disturb the others.
  **`CISFollowsProtocol`**: the same of the benchmark, where `ReportsKept` and `DeletesKnown` do
  most of it; what they leave open is a job that lost its pod, which is a fault (`NoFailure`).
* `ReportProofs`. **`OneOwnerEach`**: `Spec => []OneOwner`, **`JobsInScope`**:
  `Spec => []ScopeRespected`, and **`ScannedIsFound`**: `Spec => []ScanThenGet` under
  `NoCollision`, for any hierarchies, names and install modes. None is inductive, as jobs
  and reports only keep names and labels. `IInv` says what these came from: a job's
  metadata is that of an object the operator reconciled (`JobsOfReconciled`), which it
  watches or of which the CLI stored a report (`EventsOfKnown`), and a stored
  report has the name and the labels of its object, which is its own report owner, under a
  name of its own (`ReportsOfOwners`). Two report owners in one chain are then the same
  object, which is a case distinction over the kinds. `ScanThenGet` adds
  `ScannedHasReport`: what `scan` stored is there until somebody deletes it, since a later
  write under its name is of the same object.
  Of `ReportTTL`: **`TTLNeverForgets`** (`[]ExpiryScheduled`), with `CacheFollows`: without a
  pending event the cache shows the stored report, so the delay that the controller
  computes is the right one.
* `ComplianceProofs`. **`DetailsFound`**: `Spec => []FailuresHaveDetails`. Status and details
  are computed by two passes over the findings, with default results and a limit on the
  entries, which is any integer. The lemmas (`FailuresAgree`, `SameFindings`, `MadeAgree`) show that what is made from one set of findings
  agrees, the invariant `MInv` that whatever is stored or about to be written was made
  from one set (`WorkMade`, `ReportMade`, `DetailMade`).
* `PluginProofs`. **`HashSuffices`**: `Spec => []HashIdentifiesResults`. Users may return
  to earlier policies, so the invariant cannot speak of the current ones:
  `ResultsOfHash` says that a report is determined by its own hash, `JobsLabelled` that a
  job carries the hash of what it mounts unless it is torn.
  **`OneCheckEach`**: `Spec => []OneCheckPerPolicy`, with `SummaryOfChecks` and the
  cardinalities of the checks of one policy and of all of them, for scripts of any severity
  that the code accepts.
  Of `AquaScan`: **`AquaScansUnknown`**
  (`ScansOnlyUnknown`). `AquaInv` follows a container through its pod: a pod runs with the
  environment of a job (`AquaJob`), what a container looks up is the configured registry or
  the one that claims its image (`AquaLookup`); `AquaOutput` types its output, `AquaBuild` the job that is being built.
  Of `TrivyScan`: **`TrivyOwnCredentials`** (`[]OwnCredentials`). `CredentialsHeld` says the
  same of the three places credentials pass on their way, the map of the job builder, the
  secret of the job and the environment of the container, as each is copied from the one
  before, at a time when the pull secrets may have changed.
* `CLIScanProofs`. **`CredentialsStay`**, **`OwnResultsOnly`** and **`Exclusive`**:
  `Spec => []JobHasSecret`, `Spec => []OwnResults`, and the refinement `Spec => ExclusiveAccess`
  under the mapping `Holder` (whose job exists), `Verdict`, `Meddled`. The invariant relates the
  two goroutines (`Progress`), jobs and targets (`OfTarget`), secrets and the scan
  between their creation and the owner reference (`Secrets`), and the news
  of the end of a job on its way through cache, handler and channel (`Results`).
* `InstallationProofs`. **`InstallSucceeds`**: `Spec => InstallComplete` and
  **`UninstallSucceeds`**: `Spec => UninstallRemovesAll`, for any initial cluster and any
  number of operators next to one CLI. `IInv` says for each command what it has done before its current step
  (`InstallDone`, `UninstallDone`). What makes it inductive is the namespace: install may
  have found one that was already going away, so its configuration need only be there *if*
  the namespace is active, until the creation of the secret, which is refused in a
  terminating namespace, shows that it is; and uninstall relies on nothing in the namespace
  before its last step has seen that gone, because an operator that starts may create its
  configuration again. A CRD need only stay if it was not terminating when install updated
  it (`left`), and nobody but uninstall makes one terminating. That one user at a time installs or uninstalls is an assumption
  (`ConstantsAssumption`): an uninstall next to an install removes what that has made.

**Only model-checked.** The liveness properties: `Converges`, `Benchmarked`, `Returns`,
`ExpiredAreDeleted`, `EveryActivationReports`, `EveryPodReported`, `RetriesSucceed` and
`Scanned`. They depend on fairness, which is out of this prover's reach. Every other
property that a run checks is a theorem.

## 6. Not modelled

* Generated clients and API types.
* HTML templates, tables and sorting; the formatting of reports.
* Resource requests, security contexts and other details of pod specs; kube-hunter,
  whose single cluster-wide job runs as any other job of `CLIScan`.
* The Rego engine and the parsers of the scanners, beyond success and failure.
* The revision of a Deployment that is being rolled out: `ReportOwner` takes the
  current ReplicaSet as given.
* In `VulnerabilityScan`, scan jobs in the namespace of the workload and workloads that
  are re-created under their name.

What would come next: a composition of `VulnerabilityScan` with the rollout of a
Deployment.
