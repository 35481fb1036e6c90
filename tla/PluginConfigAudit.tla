-------------------------- MODULE PluginConfigAudit --------------------------
(***************************************************************************)
(* Configuration audits by scan jobs of a plugin (Polaris, Conftest):      *)
(* reconcileResource starts a job, reconcileJobs turns it into a report    *)
(* (pkg/operator/controller/configauditreport.go), and reconcileConfig     *)
(* deletes the reports whose plugin-config-hash is not the current one     *)
(* (plugins_config.go).  One kind of resource, namespaced or not.          *)
(*                                                                         *)
(* A variable X holds what the API server stores and cX what the manager's *)
(* informer cache shows.  A hash is the version it is computed from.       *)
(***************************************************************************)
EXTENDS Naturals, FiniteSets

CONSTANTS
  Resources, Specs, Configs,
  InitConfigs,       \* configs to start with
  Applicable,        \* configs with policies for this kind (Plugin.IsApplicable)
  Conftest,          \* the configs of Conftest; the others are of Polaris
  Refused,           \* specs and configs with an output that the plugin cannot parse
  ConcurrentScanJobsLimit, BatchDeleteLimit,
  Gone, NoJob, NoReport, Idle,
  MaxEdits,          \* bound on changes of resources and of the plugin config
  MaxFaults          \* bound on failed jobs, lost pods, API errors and restarts

\* Labels of a report or job: resource-spec-hash and plugin-config-hash; used is
\* the config that the job really evaluates.
Labels == [spec : Specs, config : Configs, used : Configs]
Job == [l : Labels, cond : {"none", "complete", "failed"}]
Task == [pc : {"config", "report", "job", "limit", "build", "label", "secret", "create", "owner"},
         key : Resources, l : Labels]
JobTask == [pc : {"owner", "report", "logs", "write", "statuses", "delete"},
            key : Resources, l : Labels, cond : {"complete", "failed"}]
ConfigTask == [config : Configs, pc : {"list", "delete"}, todo : SUBSET Resources, more : BOOLEAN]

ASSUME ConstantsAssumption ==
  /\ Applicable \subseteq Configs /\ InitConfigs \subseteq Configs
  /\ Conftest \subseteq Configs
  /\ Refused \subseteq Specs \X Configs
  /\ ConcurrentScanJobsLimit \in Nat /\ BatchDeleteLimit \in Nat \ {0}
  /\ Gone \notin Specs /\ NoJob \notin Job /\ NoReport \notin Labels
  /\ Idle \notin Task /\ Idle \notin JobTask /\ Idle \notin ConfigTask
  /\ MaxEdits \in Nat /\ MaxFaults \in Nat

VARIABLES
  spec, cSpec,                    \* the spec of every resource, or Gone
  config, cConfig,                \* the ConfigMap of the plugin
  job, cJob, jobLag,              \* the scan job of every resource
  secret,                         \* "none", "orphan", "owned" or "garbage"
  report, cReport, reportLag,
  queue, delayed, work,           \* reconcileResource
  jobQueue, jobWork,              \* reconcileJobs
  configQueued, configWork,       \* reconcileConfig
  edits, faults

sourceVars == <<spec, cSpec, config, cConfig>>
jobVars == <<job, cJob, jobLag, secret>>
reportVars == <<report, cReport, reportLag>>
workerVars == <<queue, delayed, work>>
collectorVars == <<jobQueue, jobWork>>
configVars == <<configQueued, configWork>>
boundVars == <<edits, faults>>
vars == <<spec, cSpec, config, cConfig, job, cJob, jobLag, secret, report, cReport, reportLag,
          queue, delayed, work, jobQueue, jobWork, configQueued, configWork, edits, faults>>

Init ==
  /\ spec \in [Resources -> Specs] /\ cSpec = spec
  /\ config \in InitConfigs /\ cConfig = config
  /\ job = [r \in Resources |-> NoJob] /\ cJob = job /\ jobLag = {}
  /\ secret = [r \in Resources |-> "none"]
  /\ report = [r \in Resources |-> NoReport] /\ cReport = report /\ reportLag = {}
  /\ queue = Resources /\ delayed = {} /\ work = Idle
  /\ jobQueue = {} /\ jobWork = Idle
  /\ configQueued = TRUE /\ configWork = Idle
  /\ edits = 0 /\ faults = 0

\* Conftest: the job comes with a secret that holds the policies.
CopiesPolicies == config \in Conftest

Fault == faults < MaxFaults /\ faults' = faults + 1 /\ UNCHANGED edits
Edit == edits < MaxEdits /\ edits' = edits + 1 /\ UNCHANGED faults

-----------------------------------------------------------------------------
(* The cluster                                                              *)

EditResource(r) ==
  /\ Edit
  /\ spec[r] # Gone
  /\ \E s \in (Specs \cup {Gone}) \ {spec[r]} : spec' = [spec EXCEPT ![r] = s]
  /\ UNCHANGED <<cSpec, config, cConfig, jobVars, reportVars, workerVars, collectorVars, configVars>>

\* A user changes the ConfigMap; the plugin stays.
EditConfig ==
  /\ Edit
  /\ \E c \in Configs \ {config} : (c \in Conftest <=> CopiesPolicies) /\ config' = c
  /\ UNCHANGED <<spec, cSpec, cConfig, jobVars, reportVars, workerVars, collectorVars, configVars>>

JobHasAnyCondition(j) == j # NoJob /\ j.cond # "none"
SetJob(r, j) == job' = [job EXCEPT ![r] = j] /\ jobLag' = jobLag \cup {r} /\ UNCHANGED cJob
DropJob(r) ==
  /\ SetJob(r, NoJob)
  /\ secret' = [secret EXCEPT ![r] = IF @ = "owned" THEN "garbage" ELSE @]
SetReport(r, l) ==
  report' = [report EXCEPT ![r] = l] /\ reportLag' = reportLag \cup {r} /\ UNCHANGED cReport

\* Without a copy of the policies the pod mounts the ConfigMap when it starts.
FinishJob(r) ==
  /\ job[r] # NoJob /\ job[r].cond = "none"
  /\ \/ /\ SetJob(r, [job[r] EXCEPT !.cond = "complete",
                                   !.l.used = IF CopiesPolicies THEN @ ELSE config])
        /\ UNCHANGED boundVars
     \/ SetJob(r, [job[r] EXCEPT !.cond = "failed"]) /\ Fault
  /\ UNCHANGED <<sourceVars, secret, reportVars, workerVars, collectorVars, configVars>>

\* The garbage collector: the report of a deleted resource, the secret of a
\* deleted job.
Collect(r) ==
  /\ \/ spec[r] = Gone /\ report[r] # NoReport /\ SetReport(r, NoReport) /\ UNCHANGED secret
     \/ secret[r] = "garbage" /\ secret' = [secret EXCEPT ![r] = "none"] /\ UNCHANGED reportVars
  /\ UNCHANGED <<sourceVars, job, cJob, jobLag, workerVars, collectorVars, configVars, boundVars>>

-----------------------------------------------------------------------------
(* SetupWithManager: watches and predicates                                 *)

SyncResource(r) ==
  /\ cSpec[r] # spec[r]
  /\ cSpec' = [cSpec EXCEPT ![r] = spec[r]]
  /\ queue' = queue \cup {r}
  /\ UNCHANGED <<spec, config, cConfig, jobVars, reportVars, delayed, work, collectorVars,
                 configVars, boundVars>>

SyncConfig ==
  /\ cConfig # config
  /\ cConfig' = config
  /\ configQueued' = TRUE
  /\ UNCHANGED <<spec, cSpec, config, jobVars, reportVars, workerVars, collectorVars, configWork,
                 boundVars>>

SyncReport(r) ==
  /\ r \in reportLag
  /\ cReport' = [cReport EXCEPT ![r] = report[r]]
  /\ reportLag' = reportLag \ {r}
  /\ queue' = queue \cup {r}
  /\ UNCHANGED <<sourceVars, jobVars, report, delayed, work, collectorVars, configVars, boundVars>>

SyncJob(r) ==
  /\ r \in jobLag
  /\ cJob' = [cJob EXCEPT ![r] = job[r]]
  /\ jobLag' = jobLag \ {r}
  /\ jobQueue' = IF JobHasAnyCondition(job[r]) \/ JobHasAnyCondition(cJob[r])
                 THEN jobQueue \cup {r} ELSE jobQueue
  /\ UNCHANGED <<sourceVars, job, secret, reportVars, workerVars, jobWork, configVars, boundVars>>

\* The periodic resync of the informers.
Resync(r) ==
  /\ cSpec[r] # Gone
  /\ r \notin queue
  /\ queue' = queue \cup {r}
  /\ UNCHANGED <<sourceVars, jobVars, reportVars, delayed, work, collectorVars, configVars, boundVars>>

FireDelayed(r) ==
  /\ r \in delayed
  /\ delayed' = delayed \ {r}
  /\ queue' = queue \cup {r}
  /\ UNCHANGED <<sourceVars, jobVars, reportVars, work, collectorVars, configVars, boundVars>>

Restart ==
  /\ Fault
  /\ cSpec' = spec /\ cConfig' = config /\ cJob' = job /\ cReport' = report
  /\ jobLag' = {} /\ reportLag' = {}
  /\ queue' = {r \in Resources : spec[r] # Gone} /\ delayed' = {} /\ work' = Idle
  /\ jobQueue' = {r \in Resources : JobHasAnyCondition(job[r])} /\ jobWork' = Idle
  /\ configQueued' = TRUE /\ configWork' = Idle
  /\ UNCHANGED <<spec, config, job, secret, report>>

-----------------------------------------------------------------------------
(* reconcileResource                                                        *)

At(pc) ==
  /\ work # Idle /\ work.pc = pc
  /\ UNCHANGED <<sourceVars, reportVars, collectorVars, configVars, boundVars>>
GoTo(pc) == work' = [work EXCEPT !.pc = pc] /\ UNCHANGED <<queue, delayed>>
Done == work' = Idle /\ UNCHANGED <<queue, delayed>>
Requeue == work' = Idle /\ delayed' = delayed \cup {work.key} /\ UNCHANGED queue

ReconcileResource(r) ==
  /\ work = Idle
  /\ r \in queue
  /\ queue' = queue \ {r}
  /\ work' = IF cSpec[r] = Gone THEN Idle
             ELSE [pc |-> "config", key |-> r,
                   l |-> [spec |-> cSpec[r], config |-> cConfig, used |-> cConfig]]
  /\ UNCHANGED <<sourceVars, jobVars, reportVars, delayed, collectorVars, configVars, boundVars>>

\* IsApplicable and ConfigHash; a plugin that is not applicable pushes back.
CheckApplicable ==
  /\ At("config")
  /\ IF cConfig \notin Applicable THEN Requeue
     ELSE work' = [work EXCEPT !.pc = "report", !.l.config = cConfig] /\ UNCHANGED <<queue, delayed>>
  /\ UNCHANGED jobVars

\* Mutant: the hash of the config is not compared.
HasReportOfAnyConfig(r, l) == cReport[r] # NoReport /\ cReport[r].spec = l.spec

HasReport(r, l) ==
  cReport[r] # NoReport /\ cReport[r].spec = l.spec /\ cReport[r].config = l.config

CheckReport ==
  /\ At("report")
  /\ IF HasReport(work.key, work.l) THEN Done ELSE GoTo("job")
  /\ UNCHANGED jobVars

\* Only the hash of the resource is compared.
HasActiveScanJob(r, l) == cJob[r] # NoJob /\ cJob[r].l.spec = l.spec

CheckJob ==
  /\ At("job")
  /\ IF HasActiveScanJob(work.key, work.l) THEN Done ELSE GoTo("limit")
  /\ UNCHANGED jobVars

CheckLimit ==
  /\ At("limit")
  /\ IF Cardinality({r \in Resources : cJob[r] # NoJob}) >= ConcurrentScanJobsLimit
     THEN Requeue ELSE GoTo("build")
  /\ UNCHANGED jobVars

\* GetScanJobSpec takes the policies from the cached config, or mounts it.
GetScanJobSpec ==
  /\ At("build")
  /\ work' = [work EXCEPT !.pc = "label", !.l.used = cConfig]
  /\ UNCHANGED <<jobVars, queue, delayed>>

\* ScanJobBuilder.Get: ConfigHash reads the config again for the label.
BuildJob ==
  /\ At("label")
  /\ work' = [work EXCEPT !.pc = IF CopiesPolicies THEN "secret" ELSE "create", !.l.config = cConfig]
  /\ UNCHANGED <<jobVars, queue, delayed>>

\* Mutant: a secret of this name is used.
ReuseSecret ==
  /\ At("secret")
  /\ GoTo("create")
  /\ secret' = [secret EXCEPT ![work.key] = IF @ = "none" THEN "orphan" ELSE @]
  /\ UNCHANGED <<job, cJob, jobLag>>

CreateSecret ==
  /\ At("secret")
  /\ IF secret[work.key] # "none" THEN Done /\ UNCHANGED secret
     ELSE GoTo("create") /\ secret' = [secret EXCEPT ![work.key] = "orphan"]
  /\ UNCHANGED <<job, cJob, jobLag>>

CreateJob ==
  /\ At("create")
  /\ IF job[work.key] # NoJob THEN Done /\ UNCHANGED <<job, cJob, jobLag>>
     ELSE /\ SetJob(work.key, [l |-> work.l, cond |-> "none"])
          /\ IF CopiesPolicies THEN GoTo("owner") ELSE Done
  /\ UNCHANGED secret

\* The job may be gone by then; its secret is then left to the collector.
SetOwnerReference ==
  /\ At("owner")
  /\ Done
  /\ secret' = [secret EXCEPT ![work.key] = IF job[work.key] = NoJob THEN "garbage" ELSE "owned"]
  /\ UNCHANGED <<job, cJob, jobLag>>

WorkerError ==
  /\ work # Idle
  /\ Fault
  /\ Requeue
  /\ UNCHANGED <<sourceVars, jobVars, reportVars, collectorVars, configVars>>

-----------------------------------------------------------------------------
(* reconcileJobs                                                            *)

JobAt(pc) ==
  /\ jobWork # Idle /\ jobWork.pc = pc
  /\ UNCHANGED <<sourceVars, workerVars, configVars>>
JobGoTo(pc) == jobWork' = [jobWork EXCEPT !.pc = pc] /\ UNCHANGED jobQueue
JobDone == jobWork' = Idle /\ UNCHANGED jobQueue
JobRetry == jobWork' = Idle /\ jobQueue' = jobQueue \cup {jobWork.key}

ReconcileJobs(r) ==
  /\ jobWork = Idle
  /\ r \in jobQueue
  /\ jobQueue' = jobQueue \ {r}
  /\ jobWork' = IF ~JobHasAnyCondition(cJob[r]) THEN Idle
                ELSE [pc |-> IF cJob[r].cond = "complete" THEN "owner" ELSE "statuses",
                      key |-> r, l |-> cJob[r].l, cond |-> cJob[r].cond]
  /\ UNCHANGED <<sourceVars, jobVars, reportVars, workerVars, configVars, boundVars>>

GetOwner ==
  /\ JobAt("owner")
  /\ JobGoTo(IF cSpec[jobWork.key] = Gone THEN "delete" ELSE "report")
  /\ UNCHANGED <<jobVars, reportVars, boundVars>>

CheckJobReport ==
  /\ JobAt("report")
  /\ JobGoTo(IF HasReport(jobWork.key, jobWork.l) THEN "delete" ELSE "logs")
  /\ UNCHANGED <<jobVars, reportVars, boundVars>>

\* ParseConfigAuditReportData: Polaris refuses what is no JSON document with the
\* expected content, each time that it is read; Conftest drops the error and
\* makes an empty report of it.  The output of a job that runs is not there yet.
Parsable(j) ==
  /\ j.cond # "none"
  /\ CopiesPolicies \/ (j.cond = "complete" /\ <<j.l.spec, j.l.used>> \notin Refused)

\* The logs of the job that has this name now, under the labels of the cached
\* one.
ReadLogs ==
  /\ JobAt("logs")
  /\ LET live == job[jobWork.key]
     IN \/ live = NoJob /\ JobDone /\ UNCHANGED boundVars
        \/ live # NoJob /\ ~Parsable(live) /\ JobRetry /\ UNCHANGED boundVars
        \/ /\ live # NoJob /\ Parsable(live)
           /\ jobWork' = [jobWork EXCEPT !.pc = "write", !.l.used = live.l.used]
           /\ UNCHANGED <<jobQueue, boundVars>>
        \/ live # NoJob /\ JobGoTo("delete") /\ Fault      \* the pod is gone
  /\ UNCHANGED <<jobVars, reportVars>>

\* readWriter.WriteReport: creates, or updates what the cache shows.
WriteReport ==
  /\ JobAt("write")
  /\ LET r == jobWork.key
     IN IF (IF cReport[r] = NoReport THEN report[r] = NoReport ELSE r \notin reportLag)
        THEN SetReport(r, jobWork.l) /\ JobGoTo("delete")
        ELSE UNCHANGED reportVars /\ JobRetry
  /\ UNCHANGED <<jobVars, boundVars>>

GetStatuses ==
  /\ JobAt("statuses")
  /\ IF job[jobWork.key] = NoJob THEN JobDone ELSE JobGoTo("delete")
  /\ UNCHANGED <<jobVars, reportVars, boundVars>>

\* processFailedScanJob passes NotFound on as an error, deleteJob does not.
DeleteJob ==
  /\ JobAt("delete")
  /\ IF job[jobWork.key] # NoJob THEN DropJob(jobWork.key) /\ JobDone
     ELSE /\ UNCHANGED jobVars
          /\ IF jobWork.cond = "failed" THEN JobRetry ELSE JobDone
  /\ UNCHANGED <<reportVars, boundVars>>

JobError ==
  /\ jobWork # Idle
  /\ Fault
  /\ JobRetry
  /\ UNCHANGED <<sourceVars, jobVars, reportVars, workerVars, configVars>>

-----------------------------------------------------------------------------
(* PluginsConfigReconciler.reconcileConfig                                  *)

ReconcileConfig ==
  /\ configWork = Idle
  /\ configQueued
  /\ configQueued' = FALSE
  /\ configWork' = [config |-> cConfig, pc |-> "list", todo |-> {}, more |-> FALSE]
  /\ UNCHANGED <<sourceVars, jobVars, reportVars, workerVars, collectorVars, boundVars>>

\* Mutant: the selector of the reports is inverted.
UpToDate(c) == {r \in Resources : cReport[r] # NoReport /\ cReport[r].config = c}

Outdated(c) == {r \in Resources : cReport[r] # NoReport /\ cReport[r].config # c}

\* Lists one report more than the batch, and deletes a batch of them.
ListReports ==
  /\ configWork # Idle /\ configWork.pc = "list"
  /\ LET outdated == Outdated(configWork.config)
         more == Cardinality(outdated) > BatchDeleteLimit
     IN \E batch \in SUBSET outdated :
          /\ Cardinality(batch) = IF more THEN BatchDeleteLimit ELSE Cardinality(outdated)
          /\ configWork' = [configWork EXCEPT !.pc = "delete", !.todo = batch, !.more = more]
  /\ UNCHANGED <<sourceVars, jobVars, reportVars, workerVars, collectorVars, configQueued, boundVars>>

DeleteReport(r) ==
  /\ configWork # Idle /\ r \in configWork.todo
  /\ IF report[r] = NoReport THEN UNCHANGED reportVars ELSE SetReport(r, NoReport)
  /\ configWork' = [configWork EXCEPT !.todo = @ \ {r}]
  /\ UNCHANGED <<sourceVars, jobVars, workerVars, collectorVars, configQueued, boundVars>>

FinishConfig ==
  /\ configWork # Idle /\ configWork.pc = "delete" /\ configWork.todo = {}
  /\ configWork' = Idle
  /\ configQueued' = (configQueued \/ configWork.more)
  /\ UNCHANGED <<sourceVars, jobVars, reportVars, workerVars, collectorVars, boundVars>>

ConfigError ==
  /\ configWork # Idle
  /\ Fault
  /\ configWork' = Idle /\ configQueued' = TRUE
  /\ UNCHANGED <<sourceVars, jobVars, reportVars, workerVars, collectorVars>>

-----------------------------------------------------------------------------
Cluster == \E r \in Resources : EditResource(r) \/ FinishJob(r) \/ Collect(r)
Sync ==
  \/ \E r \in Resources : SyncResource(r) \/ SyncReport(r) \/ SyncJob(r) \/ FireDelayed(r)
  \/ SyncConfig
Worker ==
  \/ \E r \in Resources : ReconcileResource(r)
  \/ CheckApplicable \/ CheckReport \/ CheckJob \/ CheckLimit \/ GetScanJobSpec \/ BuildJob
  \/ CreateSecret \/ CreateJob \/ SetOwnerReference
JobWorker ==
  \/ \E r \in Resources : ReconcileJobs(r)
  \/ GetOwner \/ CheckJobReport \/ ReadLogs \/ WriteReport \/ GetStatuses \/ DeleteJob
ConfigWorker ==
  ReconcileConfig \/ ListReports \/ (\E r \in Resources : DeleteReport(r)) \/ FinishConfig

Next ==
  \/ Cluster \/ EditConfig \/ Sync \/ Restart
  \/ Worker \/ WorkerError \/ JobWorker \/ JobError \/ ConfigWorker \/ ConfigError
  \/ \E r \in Resources : Resync(r)

Spec == Init /\ [][Next]_vars

\* Informers deliver and resync, the three workers run, jobs end.  (With several
\* resources the worker would also have to take every key in turn.)  Each
\* subscript is what every step of its action changes.
ResyncSpec ==
  /\ Spec
  /\ WF_workerVars(Worker) /\ WF_collectorVars(JobWorker) /\ WF_configVars(ConfigWorker)
  /\ WF_cConfig(SyncConfig)
  /\ \A r \in Resources :
       /\ WF_cSpec(SyncResource(r)) /\ WF_reportLag(SyncReport(r)) /\ WF_jobLag(SyncJob(r))
       /\ WF_delayed(FireDelayed(r)) /\ WF_queue(Resync(r)) /\ WF_job(FinishJob(r))
       /\ WF_<<report, secret>>(Collect(r))

\* Every variable has its type.
TypeOK ==
  /\ spec \in [Resources -> Specs \cup {Gone}] /\ cSpec \in [Resources -> Specs \cup {Gone}]
  /\ config \in Configs /\ cConfig \in Configs
  /\ job \in [Resources -> Job \cup {NoJob}] /\ cJob \in [Resources -> Job \cup {NoJob}]
  /\ secret \in [Resources -> {"none", "orphan", "owned", "garbage"}]
  /\ report \in [Resources -> Labels \cup {NoReport}]
  /\ cReport \in [Resources -> Labels \cup {NoReport}]
  /\ UNION {jobLag, reportLag, queue, delayed, jobQueue} \subseteq Resources
  /\ work \in Task \cup {Idle} /\ jobWork \in JobTask \cup {Idle}
  /\ configQueued \in BOOLEAN /\ configWork \in ConfigTask \cup {Idle}
  /\ edits \in 0..MaxEdits /\ faults \in 0..MaxFaults

Current(r) == report[r] # NoReport /\ report[r].spec = spec[r] /\ report[r].config = config

\* The job of r is complete and its output is refused.
Unparsable(r) == job[r] # NoJob /\ job[r].cond = "complete" /\ ~Parsable(job[r])

\* With the periodic resync, every resource ends up with a report labelled with
\* its spec and with the config of the plugin, however the changes of both are
\* interleaved with running jobs, with the deletion of outdated reports and with
\* secrets that wait for the garbage collector, and although a job for another
\* config counts as active.  The exceptions are a resource whose secret was left
\* without a job by an error or a stop (AlreadyExists ends each of its
\* reconciliations), and a complete job whose output is refused: it is never
\* deleted, also when the config changes, and keeps its place under the limit.
Converges ==
  <>[](config \in Applicable =>
         \A r \in Resources :
           spec[r] # Gone => \/ Current(r)
                             \/ job[r] = NoJob /\ secret[r] = "orphan"
                             \/ Unparsable(r)
                             \/ Cardinality({q \in Resources : Unparsable(q)})
                                  >= ConcurrentScanJobsLimit)

\* The policies of a job stay as long as it exists: submitting a job never relies
\* on a secret that goes with the previous job of the same name.
JobHasPolicies ==
  CopiesPolicies => \A r \in Resources : job[r] # NoJob => secret[r] \in {"orphan", "owned"}

-----------------------------------------------------------------------------
(* The scan job of a resource as a scan of ScanProtocol.  The label of a     *)
(* scan or report is the pair of the two hashes.                            *)

HashesOf(l) == <<l.spec, l.config>>

Scan ==
  [r \in Resources |-> IF job[r] = NoJob THEN {} ELSE {<<HashesOf(job[r].l), job[r].cond>>}]

\* What the API server, the cache and the pass over a job know of ended scans.
Ended ==
  [r \in Resources |->
     {<<HashesOf(j.l), j.cond>> : j \in {i \in {job[r], cJob[r]} : JobHasAnyCondition(i)}} \cup
     {<<HashesOf(t.l), t.cond>> : t \in {i \in {jobWork} : i # Idle /\ i.key = r}}]

Wanted == [r \in Resources |-> <<spec[r], config>>]

Reports ==
  [r \in Resources |->
     [p \in {"report"} |-> IF report[r] = NoReport THEN NoReport ELSE HashesOf(report[r])]]

Protocol == INSTANCE ScanProtocol WITH
  Targets <- Resources, Labels <- Specs \X Configs,
  Parts <- {"report"}, PartsOf <- [l \in Specs \X Configs |-> {"report"}],
  wanted <- Wanted, scan <- Scan, ended <- Ended, reports <- Reports,
  edited <- edits > 0, failed <- faults > 0

\* Every report carries the two hashes of an audit of its resource that
\* completed, and no job is deleted by a pass over an earlier one of the same
\* name, nor a report by reconcileConfig, unless the report is stored, something
\* was edited or something failed.
FollowsProtocol == Protocol!Spec
=============================================================================
