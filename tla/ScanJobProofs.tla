---------------------------- MODULE ScanJobProofs ----------------------------
(***************************************************************************)
(* Proofs about controllers that work through scan jobs: configuration     *)
(* audits by plugins (PluginConfigAudit, which this module extends) and    *)
(* the CIS benchmark (the instance CIS of CISKubeBench, whose theorems     *)
(* assume what it assumes of its constants).  The models are independent,  *)
(* also where they use the same name for a variable.                       *)
(*                                                                         *)
(* Audits, for any number of resources, specs, configs, edits and faults:  *)
(* types, that a scan job has the secret with its policies as long as it   *)
(* exists, and that the audits implement ScanProtocol.                     *)
(***************************************************************************)
EXTENDS PluginConfigAudit, TLAPS

\* A worker that has created the secret is alone with it: there is no job when
\* it is about to create one, and the secret has no owner yet.
SecretOfWorker ==
  CopiesPolicies /\ work # Idle =>
    /\ work.pc = "create" => secret[work.key] = "orphan" /\ job[work.key] = NoJob
    /\ work.pc = "owner" => secret[work.key] = "orphan"

IInv == TypeOK /\ JobHasPolicies /\ SecretOfWorker

-----------------------------------------------------------------------------
(* Types, in groups of variables                                            *)

SourceType ==
  /\ spec \in [Resources -> Specs \cup {Gone}] /\ cSpec \in [Resources -> Specs \cup {Gone}]
  /\ config \in Configs /\ cConfig \in Configs
JobType ==
  /\ job \in [Resources -> Job \cup {NoJob}] /\ cJob \in [Resources -> Job \cup {NoJob}]
  /\ jobLag \subseteq Resources
SecretType == secret \in [Resources -> {"none", "orphan", "owned", "garbage"}]
ReportType ==
  /\ report \in [Resources -> Labels \cup {NoReport}]
  /\ cReport \in [Resources -> Labels \cup {NoReport}]
  /\ reportLag \subseteq Resources
WorkerType == queue \subseteq Resources /\ delayed \subseteq Resources /\ work \in Task \cup {Idle}
CollectorType == jobQueue \subseteq Resources /\ jobWork \in JobTask \cup {Idle}
ConfigType == configQueued \in BOOLEAN /\ configWork \in ConfigTask \cup {Idle}
BoundType == edits \in 0..MaxEdits /\ faults \in 0..MaxFaults

\* Together they are the type invariant.
LEMMA TypeParts ==
  TypeOK <=> /\ SourceType /\ JobType /\ SecretType /\ ReportType /\ WorkerType
             /\ CollectorType /\ ConfigType /\ BoundType
BY DEF TypeOK, SourceType, JobType, SecretType, ReportType, WorkerType, CollectorType, ConfigType,
       BoundType

\* Labels of records.
LEMMA LabelsOf ==
  /\ \A j \in Job : j.l \in Labels /\ j.cond \in {"none", "complete", "failed"}
  /\ \A l \in Labels : \A c \in Configs :
       [l EXCEPT !.used = c] \in Labels /\ [l EXCEPT !.config = c] \in Labels
BY DEF Job, Labels

\* Resources and configs keep their types.
LEMMA SourceStep ==
  ASSUME SourceType, [Next]_vars
  PROVE  SourceType'
<1> USE ConstantsAssumption
<1>1. ASSUME NEW r \in Resources, EditResource(r) PROVE SourceType'
      BY <1>1 DEF EditResource, Edit, jobVars, reportVars, workerVars, collectorVars,
          configVars, SourceType
<1>2. ASSUME NEW r \in Resources, SyncResource(r) PROVE SourceType'
      BY <1>2 DEF SyncResource, jobVars, reportVars, collectorVars, configVars, boundVars,
          SourceType
<1>3. CASE EditConfig
      BY <1>3 DEF EditConfig, Edit, jobVars, reportVars, workerVars, collectorVars,
          configVars, SourceType
<1>4. CASE SyncConfig
      BY <1>4 DEF SyncConfig, jobVars, reportVars, workerVars, collectorVars, boundVars,
          SourceType
<1>5. CASE Restart
      BY <1>5 DEF Restart, Fault, SourceType
<1>6. CASE UNCHANGED <<spec, cSpec, config, cConfig>>
      BY <1>6 DEF SourceType
<1>7. ASSUME NEW r \in Resources,
             FinishJob(r) \/ Collect(r) \/ SyncReport(r) \/ SyncJob(r) \/ FireDelayed(r) \/ Resync(r)
      PROVE  UNCHANGED <<spec, cSpec, config, cConfig>>
      BY <1>7 DEF FinishJob, Fault, SetJob, sourceVars, reportVars, workerVars,
          collectorVars, configVars, boundVars, Collect, SetReport, SyncReport, jobVars,
          SyncJob, FireDelayed, Resync
<1>8. ASSUME NEW r \in Resources,
             ReconcileResource(r) \/ ReconcileJobs(r) \/ DeleteReport(r)
      PROVE  UNCHANGED <<spec, cSpec, config, cConfig>>
      BY <1>8 DEF ReconcileResource, sourceVars, jobVars, reportVars, collectorVars,
          configVars, boundVars, ReconcileJobs, workerVars, DeleteReport, SetReport
<1>9. CheckApplicable \/ CheckReport \/ CheckJob \/ CheckLimit \/ GetScanJobSpec \/ BuildJob
      => UNCHANGED <<spec, cSpec, config, cConfig>>
      BY DEF CheckApplicable, At, Requeue, jobVars, sourceVars, reportVars, collectorVars,
          configVars, boundVars, CheckReport, GoTo, Done, CheckJob, CheckLimit,
          GetScanJobSpec, BuildJob
<1>10. CreateSecret \/ CreateJob \/ SetOwnerReference \/ WorkerError \/ GetOwner \/ CheckJobReport
      => UNCHANGED <<spec, cSpec, config, cConfig>>
      BY DEF CreateSecret, At, GoTo, Done, sourceVars, reportVars, collectorVars,
          configVars, boundVars, CreateJob, SetJob, SetOwnerReference, WorkerError, Fault,
          Requeue, jobVars, GetOwner, JobAt, JobGoTo, workerVars, CheckJobReport
<1>11. ReadLogs \/ WriteReport \/ GetStatuses \/ DeleteJob \/ JobError \/ ReconcileConfig
      => UNCHANGED <<spec, cSpec, config, cConfig>>
      BY DEF ReadLogs, Fault, JobAt, JobGoTo, JobDone, JobRetry, jobVars, reportVars,
          boundVars, sourceVars, workerVars, configVars, WriteReport, SetReport,
          GetStatuses, DeleteJob, DropJob, SetJob, JobError, ReconcileConfig,
          collectorVars
<1>12. ListReports \/ FinishConfig \/ ConfigError
      => UNCHANGED <<spec, cSpec, config, cConfig>>
      BY DEF ListReports, sourceVars, jobVars, reportVars, workerVars, collectorVars,
          boundVars, FinishConfig, ConfigError, Fault
<1>13. UNCHANGED vars => UNCHANGED <<spec, cSpec, config, cConfig>>
      BY DEF vars
<1> QED BY <1>1, <1>2, <1>3, <1>4, <1>5, <1>6, <1>7, <1>8, <1>9, <1>10, <1>11, <1>12, <1>13 DEF
    Next, Cluster, Sync, Worker, JobWorker, ConfigWorker

\* A job that ends stays a job.
LEMMA FinishedJob ==
  ASSUME SourceType, JobType, NEW r \in Resources, FinishJob(r)
  PROVE  \E j \in Job : SetJob(r, j)
<1>1. job[r] \in Job /\ config \in Configs
      BY DEF FinishJob, JobType, SourceType
<1>2. job[r].l \in Labels /\ \A c \in Configs : [job[r].l EXCEPT !.used = c] \in Labels
      BY <1>1, LabelsOf
<1>3. PICK j : SetJob(r, j) /\ \/ j = [job[r] EXCEPT !.cond = "failed"]
                               \/ j = [job[r] EXCEPT !.cond = "complete",
                                                     !.l.used = IF CopiesPolicies THEN @ ELSE config]
      BY DEF FinishJob
<1> DEFINE u == IF CopiesPolicies THEN job[r].l.used ELSE config
<1>4. CASE j = [job[r] EXCEPT !.cond = "failed"]
      BY <1>1, <1>3, <1>4 DEF Job
<1>5. CASE j = [job[r] EXCEPT !.cond = "complete", !.l = [job[r].l EXCEPT !.used = u]]
  <2>1. u \in Configs
        BY <1>1, <1>2 DEF Labels
  <2>2. [job[r].l EXCEPT !.used = u] \in Labels
        BY <1>2, <2>1
  <2> HIDE DEF u
  <2>3. j \in Job
        BY <1>1, <1>5, <2>2 DEF Job
  <2> QED BY <1>3, <2>3
<1> QED BY <1>3, <1>4, <1>5

\* So do jobs.
LEMMA JobStep ==
  ASSUME SourceType, JobType, WorkerType, CollectorType, [Next]_vars
  PROVE  JobType'
<1> USE ConstantsAssumption
<1>1. ASSUME NEW r \in Resources, FinishJob(r) PROVE JobType'
      BY <1>1, FinishedJob DEF SetJob, JobType
<1>2. ASSUME NEW r \in Resources, SyncJob(r) PROVE JobType'
      BY <1>2 DEF SyncJob, sourceVars, reportVars, workerVars, configVars, boundVars,
          JobType
<1>3. CASE Restart
      BY <1>3 DEF Restart, Fault, JobType
<1>4. CASE CreateJob
  <2>1. work.key \in Resources /\ work.l \in Labels
        BY <1>4 DEF CreateJob, At, WorkerType, Task
  <2>2. [l |-> work.l, cond |-> "none"] \in Job
        BY <2>1 DEF Job
  <2> QED BY <1>4, <2>1, <2>2 DEF CreateJob, SetJob, JobType
<1>5. CASE DeleteJob
  <2>1. jobWork.key \in Resources
        BY <1>5 DEF DeleteJob, JobAt, CollectorType, JobTask
  <2> QED BY <1>5, <2>1 DEF DeleteJob, DropJob, SetJob, JobType, jobVars
<1>6. CASE UNCHANGED <<job, cJob, jobLag>>
      BY <1>6 DEF JobType
<1>7. ASSUME NEW r \in Resources,
             EditResource(r) \/ Collect(r) \/ SyncResource(r) \/ SyncReport(r) \/ FireDelayed(r)
             \/ Resync(r)
      PROVE  UNCHANGED <<job, cJob, jobLag>>
      BY <1>7 DEF EditResource, Edit, jobVars, reportVars, workerVars, collectorVars,
          configVars, Collect, SetReport, sourceVars, boundVars, SyncResource, SyncReport,
          FireDelayed, Resync
<1>8. ASSUME NEW r \in Resources,
             ReconcileResource(r) \/ ReconcileJobs(r) \/ DeleteReport(r)
      PROVE  UNCHANGED <<job, cJob, jobLag>>
      BY <1>8 DEF ReconcileResource, sourceVars, jobVars, reportVars, collectorVars,
          configVars, boundVars, ReconcileJobs, workerVars, DeleteReport, SetReport
<1>9. EditConfig \/ SyncConfig \/ CheckApplicable \/ CheckReport \/ CheckJob \/ CheckLimit
      => UNCHANGED <<job, cJob, jobLag>>
      BY DEF EditConfig, Edit, jobVars, reportVars, workerVars, collectorVars, configVars,
          SyncConfig, boundVars, CheckApplicable, At, Requeue, sourceVars, CheckReport,
          GoTo, Done, CheckJob, CheckLimit
<1>10. GetScanJobSpec \/ BuildJob \/ CreateSecret \/ SetOwnerReference \/ WorkerError \/ GetOwner
      => UNCHANGED <<job, cJob, jobLag>>
      BY DEF GetScanJobSpec, At, jobVars, sourceVars, reportVars, collectorVars,
          configVars, boundVars, BuildJob, CreateSecret, GoTo, Done, SetOwnerReference,
          WorkerError, Fault, Requeue, GetOwner, JobAt, JobGoTo, workerVars
<1>11. CheckJobReport \/ ReadLogs \/ WriteReport \/ GetStatuses \/ JobError \/ ReconcileConfig
      => UNCHANGED <<job, cJob, jobLag>>
      BY DEF CheckJobReport, JobAt, JobGoTo, jobVars, reportVars, boundVars, sourceVars,
          workerVars, configVars, ReadLogs, Fault, JobDone, JobRetry, WriteReport,
          SetReport, GetStatuses, JobError, ReconcileConfig, collectorVars
<1>12. ListReports \/ FinishConfig \/ ConfigError
      => UNCHANGED <<job, cJob, jobLag>>
      BY DEF ListReports, sourceVars, jobVars, reportVars, workerVars, collectorVars,
          boundVars, FinishConfig, ConfigError, Fault
<1>13. UNCHANGED vars => UNCHANGED <<job, cJob, jobLag>>
      BY DEF vars
<1> QED BY <1>1, <1>2, <1>3, <1>4, <1>5, <1>6, <1>7, <1>8, <1>9, <1>10, <1>11, <1>12, <1>13 DEF
    Next, Cluster, Sync, Worker, JobWorker, ConfigWorker

\* So do secrets.
LEMMA SecretStep ==
  ASSUME SecretType, WorkerType, CollectorType, [Next]_vars
  PROVE  SecretType'
<1> USE ConstantsAssumption
<1>1. ASSUME NEW r \in Resources, Collect(r) PROVE SecretType'
      BY <1>1 DEF Collect, SetReport, sourceVars, reportVars, workerVars, collectorVars,
          configVars, boundVars, SecretType
<1>2. CASE CreateSecret
  <2>1. work.key \in Resources
        BY <1>2 DEF CreateSecret, At, WorkerType, Task
  <2> QED BY <1>2, <2>1 DEF CreateSecret, At, GoTo, Done, sourceVars, reportVars, collectorVars,
             configVars, boundVars, SecretType
<1>3. CASE SetOwnerReference
  <2>1. work.key \in Resources
        BY <1>3 DEF SetOwnerReference, At, WorkerType, Task
  <2> QED BY <1>3, <2>1 DEF SetOwnerReference, At, Done, sourceVars, reportVars, collectorVars,
             configVars, boundVars, SecretType
<1>4. CASE DeleteJob
  <2>1. jobWork.key \in Resources
        BY <1>4 DEF DeleteJob, JobAt, CollectorType, JobTask
  <2> QED BY <1>4, <2>1 DEF DeleteJob, DropJob, JobAt, JobDone, JobRetry, jobVars, reportVars,
             boundVars, SetJob, sourceVars, workerVars, configVars, SecretType
<1>5. CASE UNCHANGED <<secret>>
      BY <1>5 DEF SecretType
<1>6. ASSUME NEW r \in Resources,
             EditResource(r) \/ FinishJob(r) \/ SyncResource(r) \/ SyncReport(r) \/ SyncJob(r)
             \/ FireDelayed(r)
      PROVE  UNCHANGED <<secret>>
      BY <1>6 DEF EditResource, Edit, jobVars, reportVars, workerVars, collectorVars,
          configVars, FinishJob, Fault, SetJob, sourceVars, boundVars, SyncResource,
          SyncReport, SyncJob, FireDelayed
<1>7. ASSUME NEW r \in Resources,
             Resync(r) \/ ReconcileResource(r) \/ ReconcileJobs(r) \/ DeleteReport(r)
      PROVE  UNCHANGED <<secret>>
      BY <1>7 DEF Resync, sourceVars, jobVars, reportVars, collectorVars, configVars,
          boundVars, ReconcileResource, ReconcileJobs, workerVars, DeleteReport, SetReport
<1>8. EditConfig \/ SyncConfig \/ Restart \/ CheckApplicable \/ CheckReport \/ CheckJob
      => UNCHANGED <<secret>>
      BY DEF EditConfig, Edit, jobVars, reportVars, workerVars, collectorVars, configVars,
          SyncConfig, boundVars, Restart, Fault, CheckApplicable, At, Requeue, sourceVars,
          CheckReport, GoTo, Done, CheckJob
<1>9. CheckLimit \/ GetScanJobSpec \/ BuildJob \/ CreateJob \/ WorkerError \/ GetOwner
      => UNCHANGED <<secret>>
      BY DEF CheckLimit, At, GoTo, Requeue, jobVars, sourceVars, reportVars,
          collectorVars, configVars, boundVars, GetScanJobSpec, BuildJob, CreateJob,
          SetJob, Done, WorkerError, Fault, GetOwner, JobAt, JobGoTo, workerVars
<1>10. CheckJobReport \/ ReadLogs \/ WriteReport \/ GetStatuses \/ JobError \/ ReconcileConfig
      => UNCHANGED <<secret>>
      BY DEF CheckJobReport, JobAt, JobGoTo, jobVars, reportVars, boundVars, sourceVars,
          workerVars, configVars, ReadLogs, Fault, JobDone, JobRetry, WriteReport,
          SetReport, GetStatuses, JobError, ReconcileConfig, collectorVars
<1>11. ListReports \/ FinishConfig \/ ConfigError
      => UNCHANGED <<secret>>
      BY DEF ListReports, sourceVars, jobVars, reportVars, workerVars, collectorVars,
          boundVars, FinishConfig, ConfigError, Fault
<1>12. UNCHANGED vars => UNCHANGED <<secret>>
      BY DEF vars
<1> QED BY <1>1, <1>2, <1>3, <1>4, <1>5, <1>6, <1>7, <1>8, <1>9, <1>10, <1>11, <1>12 DEF Next,
    Cluster, Sync, Worker, JobWorker, ConfigWorker

\* So do reports.
LEMMA ReportStep ==
  ASSUME ReportType, CollectorType, [Next]_vars
  PROVE  ReportType'
<1> USE ConstantsAssumption
<1>1. ASSUME NEW r \in Resources, Collect(r) PROVE ReportType'
      BY <1>1 DEF Collect, SetReport, sourceVars, reportVars, workerVars, collectorVars,
          configVars, boundVars, ReportType
<1>2. ASSUME NEW r \in Resources, SyncReport(r) PROVE ReportType'
      BY <1>2 DEF SyncReport, sourceVars, jobVars, collectorVars, configVars, boundVars,
          ReportType
<1>3. ASSUME NEW r \in Resources, DeleteReport(r) PROVE ReportType'
      BY <1>3 DEF DeleteReport, SetReport, sourceVars, jobVars, reportVars, workerVars,
          collectorVars, boundVars, ReportType
<1>4. CASE Restart
      BY <1>4 DEF Restart, Fault, ReportType
<1>5. CASE WriteReport
  <2>1. jobWork.key \in Resources /\ jobWork.l \in Labels
        BY <1>5 DEF WriteReport, JobAt, CollectorType, JobTask
  <2> QED BY <1>5, <2>1 DEF WriteReport, SetReport, ReportType, reportVars
<1>6. CASE UNCHANGED <<report, cReport, reportLag>>
      BY <1>6 DEF ReportType
<1>7. ASSUME NEW r \in Resources,
             EditResource(r) \/ FinishJob(r) \/ SyncResource(r) \/ SyncJob(r) \/ FireDelayed(r)
             \/ Resync(r)
      PROVE  UNCHANGED <<report, cReport, reportLag>>
      BY <1>7 DEF EditResource, Edit, jobVars, reportVars, workerVars, collectorVars,
          configVars, FinishJob, Fault, SetJob, sourceVars, boundVars, SyncResource,
          SyncJob, FireDelayed, Resync
<1>8. ASSUME NEW r \in Resources,
             ReconcileResource(r) \/ ReconcileJobs(r)
      PROVE  UNCHANGED <<report, cReport, reportLag>>
      BY <1>8 DEF ReconcileResource, sourceVars, jobVars, reportVars, collectorVars,
          configVars, boundVars, ReconcileJobs, workerVars
<1>9. EditConfig \/ SyncConfig \/ CheckApplicable \/ CheckReport \/ CheckJob \/ CheckLimit
      => UNCHANGED <<report, cReport, reportLag>>
      BY DEF EditConfig, Edit, jobVars, reportVars, workerVars, collectorVars, configVars,
          SyncConfig, boundVars, CheckApplicable, At, Requeue, sourceVars, CheckReport,
          GoTo, Done, CheckJob, CheckLimit
<1>10. GetScanJobSpec \/ BuildJob \/ CreateSecret \/ CreateJob \/ SetOwnerReference \/ WorkerError
      => UNCHANGED <<report, cReport, reportLag>>
      BY DEF GetScanJobSpec, At, jobVars, sourceVars, reportVars, collectorVars,
          configVars, boundVars, BuildJob, CreateSecret, GoTo, Done, CreateJob, SetJob,
          SetOwnerReference, WorkerError, Fault, Requeue
<1>11. GetOwner \/ CheckJobReport \/ ReadLogs \/ GetStatuses \/ DeleteJob \/ JobError
      => UNCHANGED <<report, cReport, reportLag>>
      BY DEF GetOwner, JobAt, JobGoTo, jobVars, reportVars, boundVars, sourceVars,
          workerVars, configVars, CheckJobReport, ReadLogs, Fault, JobDone, JobRetry,
          GetStatuses, DeleteJob, DropJob, SetJob, JobError
<1>12. ReconcileConfig \/ ListReports \/ FinishConfig \/ ConfigError
      => UNCHANGED <<report, cReport, reportLag>>
      BY DEF ReconcileConfig, sourceVars, jobVars, reportVars, workerVars, collectorVars,
          boundVars, ListReports, FinishConfig, ConfigError, Fault
<1>13. UNCHANGED vars => UNCHANGED <<report, cReport, reportLag>>
      BY DEF vars
<1> QED BY <1>1, <1>2, <1>3, <1>4, <1>5, <1>6, <1>7, <1>8, <1>9, <1>10, <1>11, <1>12, <1>13 DEF
    Next, Cluster, Sync, Worker, JobWorker, ConfigWorker

\* So does the worker of the resources.
LEMMA WorkerStep ==
  ASSUME SourceType, WorkerType, [Next]_vars
  PROVE  WorkerType'
<1> USE ConstantsAssumption
<1>1. ASSUME NEW r \in Resources, SyncResource(r) PROVE WorkerType'
      BY <1>1 DEF SyncResource, jobVars, reportVars, collectorVars, configVars, boundVars,
          WorkerType, Task
<1>2. ASSUME NEW r \in Resources, SyncReport(r) PROVE WorkerType'
      BY <1>2 DEF SyncReport, sourceVars, jobVars, collectorVars, configVars, boundVars,
          WorkerType, Task
<1>3. ASSUME NEW r \in Resources, FireDelayed(r) PROVE WorkerType'
      BY <1>3 DEF FireDelayed, sourceVars, jobVars, reportVars, collectorVars, configVars,
          boundVars, WorkerType, Task
<1>4. ASSUME NEW r \in Resources, Resync(r) PROVE WorkerType'
      BY <1>4 DEF Resync, sourceVars, jobVars, reportVars, collectorVars, configVars,
          boundVars, WorkerType, Task
<1>5. ASSUME NEW r \in Resources, ReconcileResource(r) PROVE WorkerType'
  <2>1. cSpec[r] # Gone => [spec |-> cSpec[r], config |-> cConfig, used |-> cConfig] \in Labels
        BY DEF SourceType, Labels
  <2> QED BY <1>5, <2>1 DEF ReconcileResource, WorkerType, Task
<1>6. CASE Restart
      BY <1>6 DEF Restart, Fault, WorkerType, Task
<1>7. CASE CheckApplicable
  <2>1. work \in Task /\ cConfig \in Configs
        BY <1>7 DEF CheckApplicable, At, WorkerType, SourceType
  <2>2. work.key \in Resources /\ work.l \in Labels
        BY <2>1 DEF Task
  <2>3. [work.l EXCEPT !.config = cConfig] \in Labels
        BY <2>1, <2>2, LabelsOf
  <2> QED BY <1>7, <2>1, <2>2, <2>3 DEF CheckApplicable, At, Requeue, jobVars, sourceVars, reportVars,
             collectorVars, configVars, boundVars, WorkerType, Task
<1>8. CASE CheckReport
      BY <1>8 DEF CheckReport, At, GoTo, Done, jobVars, sourceVars, reportVars,
          collectorVars, configVars, boundVars, WorkerType, Task
<1>9. CASE CheckJob
      BY <1>9 DEF CheckJob, At, GoTo, Done, jobVars, sourceVars, reportVars,
          collectorVars, configVars, boundVars, WorkerType, Task
<1>10. CASE CheckLimit
      BY <1>10 DEF CheckLimit, At, GoTo, Requeue, jobVars, sourceVars, reportVars,
          collectorVars, configVars, boundVars, WorkerType, Task
<1>11. CASE GetScanJobSpec
  <2>1. work \in Task /\ cConfig \in Configs
        BY <1>11 DEF GetScanJobSpec, At, WorkerType, SourceType
  <2>2. work.key \in Resources /\ work.l \in Labels
        BY <2>1 DEF Task
  <2>3. [work.l EXCEPT !.used = cConfig] \in Labels
        BY <2>1, <2>2, LabelsOf
  <2> QED BY <1>11, <2>1, <2>2, <2>3 DEF GetScanJobSpec, At, jobVars, sourceVars, reportVars,
             collectorVars, configVars, boundVars, WorkerType, Task
<1>12. CASE BuildJob
  <2>1. work \in Task /\ cConfig \in Configs
        BY <1>12 DEF BuildJob, At, WorkerType, SourceType
  <2>2. work.key \in Resources /\ work.l \in Labels
        BY <2>1 DEF Task
  <2>3. [work.l EXCEPT !.config = cConfig] \in Labels
        BY <2>1, <2>2, LabelsOf
  <2> QED BY <1>12, <2>1, <2>2, <2>3 DEF BuildJob, At, jobVars, sourceVars, reportVars, collectorVars,
             configVars, boundVars, WorkerType, Task
<1>13. CASE CreateSecret
      BY <1>13 DEF CreateSecret, At, GoTo, Done, sourceVars, reportVars, collectorVars,
          configVars, boundVars, WorkerType, Task
<1>14. CASE CreateJob
      BY <1>14 DEF CreateJob, SetJob, At, GoTo, Done, sourceVars, reportVars,
          collectorVars, configVars, boundVars, WorkerType, Task
<1>15. CASE SetOwnerReference
      BY <1>15 DEF SetOwnerReference, At, Done, sourceVars, reportVars, collectorVars,
          configVars, boundVars, WorkerType, Task
<1>16. CASE WorkerError
      BY <1>16 DEF WorkerError, Fault, Requeue, sourceVars, jobVars, reportVars,
          collectorVars, configVars, WorkerType, Task
<1>17. CASE UNCHANGED <<queue, delayed, work>>
      BY <1>17 DEF WorkerType
<1>18. ASSUME NEW r \in Resources,
             EditResource(r) \/ FinishJob(r) \/ Collect(r) \/ SyncJob(r) \/ ReconcileJobs(r)
             \/ DeleteReport(r)
      PROVE  UNCHANGED <<queue, delayed, work>>
      BY <1>18 DEF EditResource, Edit, jobVars, reportVars, workerVars, collectorVars,
          configVars, FinishJob, Fault, SetJob, sourceVars, boundVars, Collect, SetReport,
          SyncJob, ReconcileJobs, DeleteReport
<1>19. EditConfig \/ SyncConfig \/ GetOwner \/ CheckJobReport \/ ReadLogs \/ WriteReport
      => UNCHANGED <<queue, delayed, work>>
      BY DEF EditConfig, Edit, jobVars, reportVars, workerVars, collectorVars, configVars,
          SyncConfig, boundVars, GetOwner, JobAt, JobGoTo, sourceVars, CheckJobReport,
          ReadLogs, Fault, JobDone, JobRetry, WriteReport, SetReport
<1>20. GetStatuses \/ DeleteJob \/ JobError \/ ReconcileConfig \/ ListReports \/ FinishConfig
      => UNCHANGED <<queue, delayed, work>>
      BY DEF GetStatuses, JobAt, JobGoTo, JobDone, jobVars, reportVars, boundVars,
          sourceVars, workerVars, configVars, DeleteJob, DropJob, JobRetry, SetJob,
          JobError, Fault, ReconcileConfig, collectorVars, ListReports, FinishConfig
<1>21. ConfigError
      => UNCHANGED <<queue, delayed, work>>
      BY DEF ConfigError, Fault, sourceVars, jobVars, reportVars, workerVars,
          collectorVars
<1>22. UNCHANGED vars => UNCHANGED <<queue, delayed, work>>
      BY DEF vars
<1> QED BY <1>1, <1>2, <1>3, <1>4, <1>5, <1>6, <1>7, <1>8, <1>9, <1>10, <1>11, <1>12, <1>13,
    <1>14, <1>15, <1>16, <1>17, <1>18, <1>19, <1>20, <1>21, <1>22 DEF Next, Cluster, Sync,
    Worker, JobWorker, ConfigWorker

\* So does that of the jobs.
LEMMA CollectorStep ==
  ASSUME JobType, CollectorType, [Next]_vars
  PROVE  CollectorType'
<1> USE ConstantsAssumption
<1>1. ASSUME NEW r \in Resources, SyncJob(r) PROVE CollectorType'
      BY <1>1 DEF SyncJob, sourceVars, reportVars, workerVars, configVars, boundVars,
          CollectorType, JobTask
<1>2. ASSUME NEW r \in Resources, ReconcileJobs(r) PROVE CollectorType'
  <2>1. JobHasAnyCondition(cJob[r]) => cJob[r].l \in Labels /\ cJob[r].cond \in {"complete", "failed"}
        BY LabelsOf DEF JobType, JobHasAnyCondition
  <2> QED BY <1>2, <2>1 DEF ReconcileJobs, CollectorType, JobTask
<1>3. CASE Restart
      BY <1>3 DEF Restart, Fault, CollectorType, JobTask
<1>4. CASE GetOwner
      BY <1>4 DEF GetOwner, JobAt, JobGoTo, jobVars, reportVars, boundVars, sourceVars,
          workerVars, configVars, CollectorType, JobTask
<1>5. CASE CheckJobReport
      BY <1>5 DEF CheckJobReport, JobAt, JobGoTo, jobVars, reportVars, boundVars,
          sourceVars, workerVars, configVars, CollectorType, JobTask
<1>6. CASE ReadLogs
  <2>1. jobWork \in JobTask /\ jobWork.key \in Resources /\ jobWork.l \in Labels
        BY <1>6 DEF ReadLogs, JobAt, CollectorType, JobTask
  <2>2. job[jobWork.key] # NoJob => [jobWork.l EXCEPT !.used = job[jobWork.key].l.used] \in Labels
        BY <2>1, LabelsOf DEF JobType, Labels
  <2> QED BY <1>6, <2>1, <2>2 DEF ReadLogs, JobDone, JobRetry, JobGoTo, CollectorType, JobTask
<1>7. CASE WriteReport
      BY <1>7 DEF WriteReport, SetReport, JobAt, JobGoTo, JobRetry, jobVars, reportVars,
          boundVars, sourceVars, workerVars, configVars, CollectorType, JobTask
<1>8. CASE GetStatuses
      BY <1>8 DEF GetStatuses, JobAt, JobGoTo, JobDone, jobVars, reportVars, boundVars,
          sourceVars, workerVars, configVars, CollectorType, JobTask
<1>9. CASE DeleteJob
      BY <1>9 DEF DeleteJob, DropJob, JobAt, JobDone, JobRetry, jobVars, reportVars,
          boundVars, SetJob, sourceVars, workerVars, configVars, CollectorType, JobTask
<1>10. CASE JobError
      BY <1>10 DEF JobError, Fault, JobRetry, sourceVars, jobVars, reportVars, workerVars,
          configVars, CollectorType, JobTask
<1>11. CASE UNCHANGED <<jobQueue, jobWork>>
      BY <1>11 DEF CollectorType
<1>12. ASSUME NEW r \in Resources,
             EditResource(r) \/ FinishJob(r) \/ Collect(r) \/ SyncResource(r) \/ SyncReport(r)
             \/ FireDelayed(r)
      PROVE  UNCHANGED <<jobQueue, jobWork>>
      BY <1>12 DEF EditResource, Edit, jobVars, reportVars, workerVars, collectorVars,
          configVars, FinishJob, Fault, SetJob, sourceVars, boundVars, Collect, SetReport,
          SyncResource, SyncReport, FireDelayed
<1>13. ASSUME NEW r \in Resources,
             Resync(r) \/ ReconcileResource(r) \/ DeleteReport(r)
      PROVE  UNCHANGED <<jobQueue, jobWork>>
      BY <1>13 DEF Resync, sourceVars, jobVars, reportVars, collectorVars, configVars,
          boundVars, ReconcileResource, DeleteReport, SetReport, workerVars
<1>14. EditConfig \/ SyncConfig \/ CheckApplicable \/ CheckReport \/ CheckJob \/ CheckLimit
      => UNCHANGED <<jobQueue, jobWork>>
      BY DEF EditConfig, Edit, jobVars, reportVars, workerVars, collectorVars, configVars,
          SyncConfig, boundVars, CheckApplicable, At, Requeue, sourceVars, CheckReport,
          GoTo, Done, CheckJob, CheckLimit
<1>15. GetScanJobSpec \/ BuildJob \/ CreateSecret \/ CreateJob \/ SetOwnerReference \/ WorkerError
      => UNCHANGED <<jobQueue, jobWork>>
      BY DEF GetScanJobSpec, At, jobVars, sourceVars, reportVars, collectorVars,
          configVars, boundVars, BuildJob, CreateSecret, GoTo, Done, CreateJob, SetJob,
          SetOwnerReference, WorkerError, Fault, Requeue
<1>16. ReconcileConfig \/ ListReports \/ FinishConfig \/ ConfigError
      => UNCHANGED <<jobQueue, jobWork>>
      BY DEF ReconcileConfig, sourceVars, jobVars, reportVars, workerVars, collectorVars,
          boundVars, ListReports, FinishConfig, ConfigError, Fault
<1>17. UNCHANGED vars => UNCHANGED <<jobQueue, jobWork>>
      BY DEF vars
<1> QED BY <1>1, <1>2, <1>3, <1>4, <1>5, <1>6, <1>7, <1>8, <1>9, <1>10, <1>11, <1>12, <1>13,
    <1>14, <1>15, <1>16, <1>17 DEF Next, Cluster, Sync, Worker, JobWorker, ConfigWorker

\* So does that of the config.
LEMMA ConfigStep ==
  ASSUME SourceType, ConfigType, [Next]_vars
  PROVE  ConfigType'
<1> USE ConstantsAssumption
<1>1. ASSUME NEW r \in Resources, DeleteReport(r) PROVE ConfigType'
      BY <1>1 DEF DeleteReport, SetReport, sourceVars, jobVars, reportVars, workerVars,
          collectorVars, boundVars, SourceType, ConfigType, ConfigTask
<1>2. CASE SyncConfig
      BY <1>2 DEF SyncConfig, jobVars, reportVars, workerVars, collectorVars, boundVars,
          SourceType, ConfigType, ConfigTask
<1>3. CASE Restart
      BY <1>3 DEF Restart, Fault, SourceType, ConfigType, ConfigTask
<1>4. CASE ReconcileConfig
      BY <1>4 DEF ReconcileConfig, sourceVars, jobVars, reportVars, workerVars,
          collectorVars, boundVars, SourceType, ConfigType, ConfigTask
<1>5. CASE ListReports
  <2> DEFINE m == Cardinality(Outdated(configWork.config)) > BatchDeleteLimit
  <2>1. PICK b \in SUBSET Outdated(configWork.config) :
          configWork' = [configWork EXCEPT !.pc = "delete", !.todo = b, !.more = m]
        BY <1>5 DEF ListReports
  <2>3. m \in BOOLEAN
        OBVIOUS
  <2> HIDE DEF m
  <2>2. b \subseteq Resources
        BY DEF Outdated
  <2> QED BY <1>5, <2>1, <2>2, <2>3 DEF ListReports, ConfigType, ConfigTask
<1>6. CASE FinishConfig
      BY <1>6 DEF FinishConfig, sourceVars, jobVars, reportVars, workerVars,
          collectorVars, boundVars, SourceType, ConfigType, ConfigTask
<1>7. CASE ConfigError
      BY <1>7 DEF ConfigError, Fault, sourceVars, jobVars, reportVars, workerVars,
          collectorVars, SourceType, ConfigType, ConfigTask
<1>8. CASE UNCHANGED <<configQueued, configWork>>
      BY <1>8 DEF ConfigType
<1>9. ASSUME NEW r \in Resources,
             EditResource(r) \/ FinishJob(r) \/ Collect(r) \/ SyncResource(r) \/ SyncReport(r)
             \/ SyncJob(r)
      PROVE  UNCHANGED <<configQueued, configWork>>
      BY <1>9 DEF EditResource, Edit, jobVars, reportVars, workerVars, collectorVars,
          configVars, FinishJob, Fault, SetJob, sourceVars, boundVars, Collect, SetReport,
          SyncResource, SyncReport, SyncJob
<1>10. ASSUME NEW r \in Resources,
             FireDelayed(r) \/ Resync(r) \/ ReconcileResource(r) \/ ReconcileJobs(r)
      PROVE  UNCHANGED <<configQueued, configWork>>
      BY <1>10 DEF FireDelayed, sourceVars, jobVars, reportVars, collectorVars,
          configVars, boundVars, Resync, ReconcileResource, ReconcileJobs, workerVars
<1>11. EditConfig \/ CheckApplicable \/ CheckReport \/ CheckJob \/ CheckLimit \/ GetScanJobSpec
      => UNCHANGED <<configQueued, configWork>>
      BY DEF EditConfig, Edit, jobVars, reportVars, workerVars, collectorVars, configVars,
          CheckApplicable, At, Requeue, sourceVars, boundVars, CheckReport, GoTo, Done,
          CheckJob, CheckLimit, GetScanJobSpec
<1>12. BuildJob \/ CreateSecret \/ CreateJob \/ SetOwnerReference \/ WorkerError \/ GetOwner
      => UNCHANGED <<configQueued, configWork>>
      BY DEF BuildJob, At, jobVars, sourceVars, reportVars, collectorVars, configVars,
          boundVars, CreateSecret, GoTo, Done, CreateJob, SetJob, SetOwnerReference,
          WorkerError, Fault, Requeue, GetOwner, JobAt, JobGoTo, workerVars
<1>13. CheckJobReport \/ ReadLogs \/ WriteReport \/ GetStatuses \/ DeleteJob \/ JobError
      => UNCHANGED <<configQueued, configWork>>
      BY DEF CheckJobReport, JobAt, JobGoTo, jobVars, reportVars, boundVars, sourceVars,
          workerVars, configVars, ReadLogs, Fault, JobDone, JobRetry, WriteReport,
          SetReport, GetStatuses, DeleteJob, DropJob, SetJob, JobError
<1>14. UNCHANGED vars => UNCHANGED <<configQueued, configWork>>
      BY DEF vars
<1> QED BY <1>1, <1>2, <1>3, <1>4, <1>5, <1>6, <1>7, <1>8, <1>9, <1>10, <1>11, <1>12, <1>13,
    <1>14 DEF Next, Cluster, Sync, Worker, JobWorker, ConfigWorker

\* Edits and faults are bounded.
LEMMA BoundStep ==
  ASSUME BoundType, [Next]_vars
  PROVE  BoundType'
<1> USE ConstantsAssumption
<1>1. ASSUME NEW r \in Resources, EditResource(r) PROVE BoundType'
      BY <1>1 DEF EditResource, Edit, jobVars, reportVars, workerVars, collectorVars,
          configVars, BoundType
<1>2. ASSUME NEW r \in Resources, FinishJob(r) PROVE BoundType'
      BY <1>2 DEF FinishJob, Fault, SetJob, sourceVars, reportVars, workerVars,
          collectorVars, configVars, boundVars, BoundType
<1>3. CASE EditConfig
      BY <1>3 DEF EditConfig, Edit, jobVars, reportVars, workerVars, collectorVars,
          configVars, BoundType
<1>4. CASE Restart
      BY <1>4 DEF Restart, Fault, BoundType
<1>5. CASE WorkerError
      BY <1>5 DEF WorkerError, Fault, Requeue, sourceVars, jobVars, reportVars,
          collectorVars, configVars, BoundType
<1>6. CASE ReadLogs
      BY <1>6 DEF ReadLogs, Fault, JobAt, JobGoTo, JobDone, JobRetry, jobVars, reportVars,
          boundVars, sourceVars, workerVars, configVars, BoundType
<1>7. CASE JobError
      BY <1>7 DEF JobError, Fault, JobRetry, sourceVars, jobVars, reportVars, workerVars,
          configVars, BoundType
<1>8. CASE ConfigError
      BY <1>8 DEF ConfigError, Fault, sourceVars, jobVars, reportVars, workerVars,
          collectorVars, BoundType
<1>9. CASE UNCHANGED <<edits, faults>>
      BY <1>9 DEF BoundType
<1>10. ASSUME NEW r \in Resources,
             Collect(r) \/ SyncResource(r) \/ SyncReport(r) \/ SyncJob(r) \/ FireDelayed(r) \/ Resync(r)
      PROVE  UNCHANGED <<edits, faults>>
      BY <1>10 DEF Collect, SetReport, sourceVars, reportVars, workerVars, collectorVars,
          configVars, boundVars, SyncResource, jobVars, SyncReport, SyncJob, FireDelayed,
          Resync
<1>11. ASSUME NEW r \in Resources,
             ReconcileResource(r) \/ ReconcileJobs(r) \/ DeleteReport(r)
      PROVE  UNCHANGED <<edits, faults>>
      BY <1>11 DEF ReconcileResource, sourceVars, jobVars, reportVars, collectorVars,
          configVars, boundVars, ReconcileJobs, workerVars, DeleteReport, SetReport
<1>12. SyncConfig \/ CheckApplicable \/ CheckReport \/ CheckJob \/ CheckLimit \/ GetScanJobSpec
      => UNCHANGED <<edits, faults>>
      BY DEF SyncConfig, jobVars, reportVars, workerVars, collectorVars, boundVars,
          CheckApplicable, At, Requeue, sourceVars, configVars, CheckReport, GoTo, Done,
          CheckJob, CheckLimit, GetScanJobSpec
<1>13. BuildJob \/ CreateSecret \/ CreateJob \/ SetOwnerReference \/ GetOwner \/ CheckJobReport
      => UNCHANGED <<edits, faults>>
      BY DEF BuildJob, At, jobVars, sourceVars, reportVars, collectorVars, configVars,
          boundVars, CreateSecret, GoTo, Done, CreateJob, SetJob, SetOwnerReference,
          GetOwner, JobAt, JobGoTo, workerVars, CheckJobReport
<1>14. WriteReport \/ GetStatuses \/ DeleteJob \/ ReconcileConfig \/ ListReports \/ FinishConfig
      => UNCHANGED <<edits, faults>>
      BY DEF WriteReport, SetReport, JobAt, JobGoTo, JobRetry, jobVars, reportVars,
          boundVars, sourceVars, workerVars, configVars, GetStatuses, JobDone, DeleteJob,
          DropJob, SetJob, ReconcileConfig, collectorVars, ListReports, FinishConfig
<1>15. UNCHANGED vars => UNCHANGED <<edits, faults>>
      BY DEF vars
<1> QED BY <1>1, <1>2, <1>3, <1>4, <1>5, <1>6, <1>7, <1>8, <1>9, <1>10, <1>11, <1>12, <1>13,
    <1>14, <1>15 DEF Next, Cluster, Sync, Worker, JobWorker, ConfigWorker

\* Every action keeps the types.
LEMMA TypeStep == TypeOK /\ [Next]_vars => TypeOK'
<1> SUFFICES ASSUME TypeOK, [Next]_vars PROVE TypeOK'
    OBVIOUS
<1>1. /\ SourceType /\ JobType /\ SecretType /\ ReportType /\ WorkerType
      /\ CollectorType /\ ConfigType /\ BoundType
      BY TypeParts
<1>2. /\ SourceType' /\ JobType' /\ SecretType' /\ ReportType' /\ WorkerType'
      /\ CollectorType' /\ ConfigType' /\ BoundType'
      BY <1>1, SourceStep, JobStep, SecretStep, ReportStep, WorkerStep, CollectorStep, ConfigStep,
         BoundStep
<1> QED BY <1>2 DEF TypeOK, SourceType, JobType, SecretType, ReportType, WorkerType, CollectorType,
                    ConfigType, BoundType

-----------------------------------------------------------------------------
(* The secret of a job                                                      *)

\* The plugin stays the same: only the config of the one in use is edited.
LEMMA PluginStays ==
  ASSUME [Next]_vars
  PROVE  CopiesPolicies' <=> CopiesPolicies
<1>1. CASE EditConfig
      BY <1>1 DEF EditConfig, CopiesPolicies
<1>2. CASE UNCHANGED config
      BY <1>2 DEF CopiesPolicies
<1>3. ASSUME NEW r \in Resources, EditResource(r) \/ SyncResource(r) PROVE UNCHANGED config
      BY <1>3 DEF EditResource, SyncResource, jobVars, reportVars, collectorVars, configVars, boundVars
<1>4. SyncConfig \/ Restart => UNCHANGED config
      BY DEF SyncConfig, Restart
<1>5. ASSUME NEW r \in Resources,
             FinishJob(r) \/ Collect(r) \/ SyncReport(r) \/ SyncJob(r) \/ FireDelayed(r) \/ Resync(r)
      PROVE  UNCHANGED config
      BY <1>5 DEF FinishJob, Fault, SetJob, sourceVars, reportVars, workerVars,
          collectorVars, configVars, boundVars, Collect, SetReport, SyncReport, jobVars,
          SyncJob, FireDelayed, Resync
<1>6. ASSUME NEW r \in Resources,
             ReconcileResource(r) \/ ReconcileJobs(r) \/ DeleteReport(r)
      PROVE  UNCHANGED config
      BY <1>6 DEF ReconcileResource, sourceVars, jobVars, reportVars, collectorVars,
          configVars, boundVars, ReconcileJobs, workerVars, DeleteReport, SetReport
<1>7. CheckApplicable \/ CheckReport \/ CheckJob \/ CheckLimit \/ GetScanJobSpec \/ BuildJob
      => UNCHANGED config
      BY DEF CheckApplicable, At, Requeue, jobVars, sourceVars, reportVars, collectorVars,
          configVars, boundVars, CheckReport, GoTo, Done, CheckJob, CheckLimit,
          GetScanJobSpec, BuildJob
<1>8. CreateSecret \/ CreateJob \/ SetOwnerReference \/ WorkerError \/ GetOwner \/ CheckJobReport
      => UNCHANGED config
      BY DEF CreateSecret, At, GoTo, Done, sourceVars, reportVars, collectorVars,
          configVars, boundVars, CreateJob, SetJob, SetOwnerReference, WorkerError, Fault,
          Requeue, jobVars, GetOwner, JobAt, JobGoTo, workerVars, CheckJobReport
<1>9. ReadLogs \/ WriteReport \/ GetStatuses \/ DeleteJob \/ JobError \/ ReconcileConfig
      => UNCHANGED config
      BY DEF ReadLogs, Fault, JobAt, JobGoTo, JobDone, JobRetry, jobVars, reportVars,
          boundVars, sourceVars, workerVars, configVars, WriteReport, SetReport,
          GetStatuses, DeleteJob, DropJob, SetJob, JobError, ReconcileConfig,
          collectorVars
<1>10. ListReports \/ FinishConfig \/ ConfigError
      => UNCHANGED config
      BY DEF ListReports, sourceVars, jobVars, reportVars, workerVars, collectorVars,
          boundVars, FinishConfig, ConfigError, Fault
<1>11. UNCHANGED vars => UNCHANGED config
      BY DEF vars
<1> QED BY <1>1, <1>2, <1>3, <1>4, <1>5, <1>6, <1>7, <1>8, <1>9, <1>10, <1>11 DEF Next, Cluster, Sync,
    Worker, JobWorker, ConfigWorker

\* No job is created with a secret that is not the worker's own.
LEMMA SecretsStep ==
  ASSUME TypeOK, JobHasPolicies, SecretOfWorker, [Next]_vars
  PROVE  (JobHasPolicies /\ SecretOfWorker)'
<1>0. CopiesPolicies' <=> CopiesPolicies
      BY PluginStays
<1> USE <1>0, ConstantsAssumption DEF TypeOK, JobHasPolicies, SecretOfWorker, Task, JobTask
<1>1. ASSUME NEW r \in Resources, FinishJob(r) PROVE (JobHasPolicies /\ SecretOfWorker)'
  <2>1. PICK j \in Job : SetJob(r, j)
        BY <1>1, TypeParts, FinishedJob
  <2>2. job[r] # NoJob /\ \A q \in Resources : job'[q] = NoJob <=> job[q] = NoJob
        BY <1>1, <2>1 DEF FinishJob, SetJob
  <2> QED BY <1>1, <2>2 DEF FinishJob, workerVars
<1>2. ASSUME NEW r \in Resources, Collect(r) PROVE (JobHasPolicies /\ SecretOfWorker)'
      BY <1>2 DEF Collect, SetReport, sourceVars, reportVars, workerVars, collectorVars,
          configVars, boundVars
<1>3. ASSUME NEW r \in Resources, ReconcileResource(r) PROVE (JobHasPolicies /\ SecretOfWorker)'
      BY <1>3 DEF ReconcileResource, sourceVars, jobVars, reportVars, collectorVars,
          configVars, boundVars
<1>4. CASE Restart
      BY <1>4 DEF Restart, Fault
<1>5. CASE CheckApplicable
      BY <1>5 DEF CheckApplicable, At, Requeue, jobVars, sourceVars, reportVars,
          collectorVars, configVars, boundVars
<1>6. CASE CheckReport
      BY <1>6 DEF CheckReport, At, GoTo, Done, jobVars, sourceVars, reportVars,
          collectorVars, configVars, boundVars
<1>7. CASE CheckJob
      BY <1>7 DEF CheckJob, At, GoTo, Done, jobVars, sourceVars, reportVars,
          collectorVars, configVars, boundVars
<1>8. CASE CheckLimit
      BY <1>8 DEF CheckLimit, At, GoTo, Requeue, jobVars, sourceVars, reportVars,
          collectorVars, configVars, boundVars
<1>9. CASE GetScanJobSpec
      BY <1>9 DEF GetScanJobSpec, At, jobVars, sourceVars, reportVars, collectorVars,
          configVars, boundVars
<1>10. CASE BuildJob
      BY <1>10 DEF BuildJob, At, jobVars, sourceVars, reportVars, collectorVars,
          configVars, boundVars
<1>11. CASE CreateSecret
      BY <1>11 DEF CreateSecret, At, GoTo, Done, sourceVars, reportVars, collectorVars,
          configVars, boundVars
<1>12. CASE CreateJob
      BY <1>12 DEF CreateJob, SetJob, At, GoTo, Done, sourceVars, reportVars,
          collectorVars, configVars, boundVars
<1>13. CASE SetOwnerReference
      BY <1>13 DEF SetOwnerReference, At, Done, sourceVars, reportVars, collectorVars,
          configVars, boundVars
<1>14. CASE WorkerError
      BY <1>14 DEF WorkerError, Fault, Requeue, sourceVars, jobVars, reportVars,
          collectorVars, configVars
<1>15. CASE DeleteJob
      BY <1>15 DEF DeleteJob, DropJob, JobAt, JobDone, JobRetry, jobVars, reportVars,
          boundVars, SetJob, sourceVars, workerVars, configVars
<1>16. CASE UNCHANGED <<job, secret, work>>
      BY <1>16 DEF JobHasPolicies, SecretOfWorker
<1>17. ASSUME NEW r \in Resources,
             EditResource(r) \/ SyncResource(r) \/ SyncReport(r) \/ SyncJob(r) \/ FireDelayed(r)
             \/ Resync(r)
      PROVE  UNCHANGED <<job, secret, work>>
      BY <1>17 DEF EditResource, Edit, jobVars, reportVars, workerVars, collectorVars,
          configVars, SyncResource, boundVars, SyncReport, sourceVars, SyncJob,
          FireDelayed, Resync
<1>18. ASSUME NEW r \in Resources,
             ReconcileJobs(r) \/ DeleteReport(r)
      PROVE  UNCHANGED <<job, secret, work>>
      BY <1>18 DEF ReconcileJobs, sourceVars, jobVars, reportVars, workerVars, configVars,
          boundVars, DeleteReport, SetReport, collectorVars
<1>19. EditConfig \/ SyncConfig \/ GetOwner \/ CheckJobReport \/ ReadLogs \/ WriteReport
      => UNCHANGED <<job, secret, work>>
      BY DEF EditConfig, Edit, jobVars, reportVars, workerVars, collectorVars, configVars,
          SyncConfig, boundVars, GetOwner, JobAt, JobGoTo, sourceVars, CheckJobReport,
          ReadLogs, Fault, JobDone, JobRetry, WriteReport, SetReport
<1>20. GetStatuses \/ JobError \/ ReconcileConfig \/ ListReports \/ FinishConfig \/ ConfigError
      => UNCHANGED <<job, secret, work>>
      BY DEF GetStatuses, JobAt, JobGoTo, JobDone, jobVars, reportVars, boundVars,
          sourceVars, workerVars, configVars, JobError, Fault, JobRetry, ReconcileConfig,
          collectorVars, ListReports, FinishConfig, ConfigError
<1>21. UNCHANGED vars => UNCHANGED <<job, secret, work>>
      BY DEF vars
<1> QED BY <1>1, <1>2, <1>3, <1>4, <1>5, <1>6, <1>7, <1>8, <1>9, <1>10, <1>11, <1>12, <1>13,
    <1>14, <1>15, <1>16, <1>17, <1>18, <1>19, <1>20, <1>21 DEF Next, Cluster, Sync, Worker,
    JobWorker, ConfigWorker

\* The initial states satisfy the invariant.
LEMMA InitIInv == Init => IInv
<1> SUFFICES ASSUME Init PROVE IInv
    OBVIOUS
<1>1. TypeOK
      BY ConstantsAssumption DEF Init, TypeOK
<1>2. JobHasPolicies /\ SecretOfWorker
      BY DEF Init, JobHasPolicies, SecretOfWorker
<1> QED BY <1>1, <1>2 DEF IInv

\* Every step keeps the invariant.
LEMMA Inductive == Spec => []IInv
<1>1. IInv /\ [Next]_vars => IInv'
      BY TypeStep, SecretsStep DEF IInv
<1> QED BY InitIInv, <1>1, PTL DEF Spec

-----------------------------------------------------------------------------
\* The state of the three controllers and of what they read and write keeps its
\* type (configauditreport.go, plugins_config.go).
THEOREM TypeCorrect == Spec => []TypeOK
<1>1. IInv => TypeOK
      BY DEF IInv
<1> QED BY Inductive, <1>1, PTL

\* submitScanJob never leaves a job without the secret that holds its policies,
\* for any number of resources, edits, errors and restarts: a secret that exists
\* already ends the submission, and only the deletion of the job releases it.
THEOREM PoliciesStay == Spec => []JobHasPolicies
<1>1. IInv => JobHasPolicies
      BY DEF IInv
<1> QED BY Inductive, <1>1, PTL

-----------------------------------------------------------------------------
(* PluginConfigAudit implements ScanProtocol.  The proof rests on what one  *)
(* step can do to each piece of state, and on two facts about the audits:   *)
(* without edits all labels are the wanted ones and reconcileConfig has     *)
(* nothing to delete, and without faults, too, a pass deletes a job only    *)
(* when the report is stored, whichever job of that name it is.             *)

Matches(r, l) == l.spec = spec[r] /\ l.config = config

\* Without edits nothing that the controllers hold or read about r is outdated.
QuietOf(r) ==
  /\ cSpec[r] = spec[r] /\ spec[r] \in Specs
  /\ job[r] # NoJob => Matches(r, job[r].l)
  /\ cJob[r] # NoJob => Matches(r, cJob[r].l)
  /\ report[r] # NoReport => Matches(r, report[r])
  /\ cReport[r] # NoReport => report[r] # NoReport /\ Matches(r, cReport[r])
  /\ work # Idle /\ work.key = r => Matches(r, work.l)
  /\ jobWork # Idle /\ jobWork.key = r => Matches(r, jobWork.l)

QuietConfig ==
  /\ cConfig = config
  /\ configWork # Idle => configWork.config = config /\ configWork.todo = {}

\* Without faults, too, no job fails and none is deleted before its report.
CalmOf(r) ==
  /\ job[r] # NoJob => job[r].cond # "failed"
  /\ cJob[r] # NoJob => cJob[r].cond # "failed"
  /\ jobWork # Idle /\ jobWork.key = r =>
       /\ jobWork.cond = "complete"
       /\ jobWork.pc = "delete" => report[r] # NoReport

\* A pass over a failed job stores nothing.
PassKinds ==
  jobWork # Idle =>
    /\ jobWork.cond = "failed" => jobWork.pc \in {"statuses", "delete"}
    /\ jobWork.pc = "statuses" => jobWork.cond = "failed"

CalmInv ==
  /\ TypeOK /\ PassKinds
  /\ edits = 0 => QuietConfig /\ \A r \in Resources : QuietOf(r)
  /\ edits = 0 /\ faults = 0 => \A r \in Resources : CalmOf(r)

-----------------------------------------------------------------------------
(* What one step can do.                                                    *)

\* The counters only grow.
LEMMA Counters ==
  ASSUME TypeOK, [Next]_vars
  PROVE  /\ edits' = edits \/ edits' = edits + 1
         /\ faults' = faults \/ faults' = faults + 1
         /\ edits \in Nat /\ faults \in Nat
<1>1. edits \in Nat /\ faults \in Nat
      BY DEF TypeOK
<1> QED BY <1>1 DEF Next, vars, Cluster, Sync, Worker, JobWorker, ConfigWorker, Edit, Fault, At,
        boundVars, EditResource, EditConfig, FinishJob, Collect, SyncResource, SyncConfig, SyncReport,
        SyncJob, Resync, FireDelayed, Restart, ReconcileResource, CheckApplicable, CheckReport,
        CheckJob, CheckLimit, GetScanJobSpec, BuildJob, CreateSecret, CreateJob, SetOwnerReference,
        WorkerError, ReconcileJobs, GetOwner, CheckJobReport, ReadLogs, WriteReport, GetStatuses,
        DeleteJob, JobError, ReconcileConfig, ListReports, DeleteReport, FinishConfig, ConfigError

\* Resources and configs change only by an edit, and caches only catch up.
LEMMA SourceEffect ==
  ASSUME TypeOK, [Next]_vars, edits' = edits
  PROVE  /\ UNCHANGED <<spec, config>>
         /\ cConfig' \in {cConfig, config}
         /\ \A r \in Resources : cSpec'[r] \in {cSpec[r], spec[r]}
<1>1. edits' # edits + 1
      BY DEF TypeOK
<1>2. /\ UNCHANGED <<spec, config>>
      /\ cConfig' \in {cConfig, config}
      /\ \/ cSpec' \in {cSpec, spec}
         \/ \E r \in Resources : cSpec' = [cSpec EXCEPT ![r] = spec[r]]
      BY <1>1
      DEF Next, vars, Cluster, Sync, Worker, JobWorker, ConfigWorker, Edit, At, JobAt,
        sourceVars, EditResource, EditConfig, FinishJob, Collect, SyncResource, SyncConfig, SyncReport,
        SyncJob, Resync, FireDelayed, Restart, ReconcileResource, CheckApplicable, CheckReport,
        CheckJob, CheckLimit, GetScanJobSpec, BuildJob, CreateSecret, CreateJob, SetOwnerReference,
        WorkerError, ReconcileJobs, GetOwner, CheckJobReport, ReadLogs, WriteReport, GetStatuses,
        DeleteJob, JobError, ReconcileConfig, ListReports, DeleteReport, FinishConfig, ConfigError
<1> QED BY <1>2 DEF TypeOK

\* A job that ends keeps its hashes, and fails only by a fault.
LEMMA EndEffect ==
  ASSUME TypeOK, NEW r \in Resources, FinishJob(r)
  PROVE  \E j \in Job :
           /\ SetJob(r, j)
           /\ j.l.spec = job[r].l.spec /\ j.l.config = job[r].l.config
           /\ j.cond = "complete" \/ (j.cond = "failed" /\ Fault)
<1>1. job[r] \in Job /\ config \in Configs
      BY DEF FinishJob, TypeOK
<1>2. job[r].l \in Labels /\ \A c \in Configs : [job[r].l EXCEPT !.used = c] \in Labels
      BY <1>1, LabelsOf
<1> DEFINE u == IF CopiesPolicies THEN job[r].l.used ELSE config
           f == [job[r] EXCEPT !.cond = "failed"]
           c == [job[r] EXCEPT !.cond = "complete", !.l = [job[r].l EXCEPT !.used = u]]
<1>3. SetJob(r, c) \/ (SetJob(r, f) /\ Fault)
      BY DEF FinishJob
<1>4. f \in Job /\ f.l = job[r].l /\ f.cond = "failed"
      BY <1>1 DEF Job
<1>5. u \in Configs
      BY <1>1, <1>2 DEF Labels
<1> HIDE DEF u
<1>6. /\ [job[r].l EXCEPT !.used = u] \in Labels
      /\ [job[r].l EXCEPT !.used = u].spec = job[r].l.spec
      /\ [job[r].l EXCEPT !.used = u].config = job[r].l.config
      BY <1>2, <1>5 DEF Labels
<1>7. c \in Job /\ c.l = [job[r].l EXCEPT !.used = u] /\ c.cond = "complete"
      BY <1>1, <1>6 DEF Job
<1> HIDE DEF f, c
<1> QED BY <1>3, <1>4, <1>6, <1>7

\* A job is created with the labels of the worker, ends, or is deleted; the cache
\* catches up with it.
LEMMA JobEffect ==
  ASSUME TypeOK, [Next]_vars, NEW r \in Resources
  PROVE  /\ \/ job'[r] \in {job[r], NoJob}
            \/ /\ job[r] # NoJob /\ job'[r] \in Job
               /\ job'[r].l.spec = job[r].l.spec /\ job'[r].l.config = job[r].l.config
               /\ job'[r].cond = "complete" \/ (job'[r].cond = "failed" /\ Fault)
            \/ /\ work # Idle /\ work.key = r
               /\ job'[r] = [l |-> work.l, cond |-> "none"]
         /\ cJob'[r] \in {cJob[r], job[r]}
<1>1. CASE UNCHANGED <<job, cJob>>
      BY <1>1
<1>2. CASE \E q \in Resources : FinishJob(q)
  <2>1. PICK q \in Resources : FinishJob(q)
        BY <1>2
  <2>2. PICK j \in Job :
           /\ SetJob(q, j)
           /\ j.l.spec = job[q].l.spec /\ j.l.config = job[q].l.config
           /\ j.cond = "complete" \/ (j.cond = "failed" /\ Fault)
        BY <2>1, EndEffect
  <2>3. job[q] # NoJob /\ UNCHANGED cJob
        BY <2>1, <2>2 DEF FinishJob, SetJob
  <2>4. job'[r] = IF r = q THEN j ELSE job[r]
        BY <2>2 DEF SetJob, TypeOK
  <2> QED BY <2>2, <2>3, <2>4
<1>3. CASE \E q \in Resources : SyncJob(q)
      BY <1>3 DEF SyncJob, TypeOK
<1>4. CASE Restart
      BY <1>4 DEF Restart
<1>5. CASE CreateJob
      BY <1>5 DEF CreateJob, SetJob, At, TypeOK
<1>6. CASE DeleteJob
      BY <1>6 DEF DeleteJob, DropJob, SetJob, JobAt, jobVars, TypeOK
<1> QED BY <1>1, <1>2, <1>3, <1>4, <1>5, <1>6
        DEF Next, vars, Cluster, Sync, Worker, JobWorker, ConfigWorker,
        jobVars, EditResource, EditConfig, Collect, SyncResource, SyncConfig, SyncReport,
        Resync, FireDelayed, ReconcileResource, CheckApplicable, CheckReport,
        CheckJob, CheckLimit, GetScanJobSpec, BuildJob, CreateSecret, SetOwnerReference,
        WorkerError, ReconcileJobs, GetOwner, CheckJobReport, ReadLogs, WriteReport, GetStatuses,
        JobError, ReconcileConfig, ListReports, DeleteReport, FinishConfig, ConfigError

\* A report is stored with the labels of the pass, collected with its resource, or
\* deleted by reconcileConfig; the cache catches up with it.
LEMMA ReportEffect ==
  ASSUME TypeOK, [Next]_vars, NEW r \in Resources
  PROVE  /\ \/ report'[r] = report[r]
            \/ /\ report'[r] = NoReport
               /\ spec[r] = Gone \/ (configWork # Idle /\ r \in configWork.todo)
            \/ /\ jobWork # Idle /\ jobWork.key = r /\ jobWork.pc = "write"
               /\ report'[r] = jobWork.l /\ jobWork.l \in Labels
         /\ cReport'[r] = cReport[r] \/ (cReport'[r] = report[r] /\ report'[r] = report[r])
<1>1. CASE UNCHANGED <<report, cReport>>
      BY <1>1
<1>2. CASE \E q \in Resources : Collect(q)
      BY <1>2 DEF Collect, SetReport, reportVars, TypeOK
<1>3. CASE \E q \in Resources : SyncReport(q)
      BY <1>3 DEF SyncReport, TypeOK
<1>4. CASE Restart
      BY <1>4 DEF Restart
<1>5. CASE WriteReport
  <2>1. jobWork.key \in Resources /\ jobWork.l \in Labels
        BY <1>5 DEF WriteReport, JobAt, TypeOK, JobTask
  <2> QED BY <1>5, <2>1 DEF WriteReport, SetReport, JobAt, reportVars, TypeOK
<1>6. CASE \E q \in Resources : DeleteReport(q)
      BY <1>6 DEF DeleteReport, SetReport, reportVars, TypeOK
<1> QED BY <1>1, <1>2, <1>3, <1>4, <1>5, <1>6
        DEF Next, vars, Cluster, Sync, Worker, JobWorker, ConfigWorker, At,
        reportVars, EditResource, EditConfig, FinishJob, SyncResource, SyncConfig,
        SyncJob, Resync, FireDelayed, ReconcileResource, CheckApplicable, CheckReport,
        CheckJob, CheckLimit, GetScanJobSpec, BuildJob, CreateSecret, CreateJob, SetOwnerReference,
        WorkerError, ReconcileJobs, GetOwner, CheckJobReport, ReadLogs, GetStatuses,
        DeleteJob, JobError, ReconcileConfig, ListReports, FinishConfig, ConfigError

\* The worker takes its labels from the caches.
LEMMA WorkEffect ==
  ASSUME TypeOK, [Next]_vars
  PROVE  \/ work' = Idle
         \/ UNCHANGED work
         \/ /\ work # Idle /\ work'.key = work.key
            /\ work'.l.spec = work.l.spec /\ work'.l.config \in {work.l.config, cConfig}
         \/ /\ work'.key \in Resources
            /\ work'.l.spec = cSpec[work'.key] /\ work'.l.config = cConfig
<1>1. work # Idle => work \in Task
      BY DEF TypeOK
<1>2. CASE \E r \in Resources : ReconcileResource(r)
      BY <1>2 DEF ReconcileResource
<1>3. CASE CheckReport \/ CheckJob \/ CheckLimit \/ CreateSecret \/ CreateJob
  <2>1. work' = Idle \/ \E p \in {"job", "limit", "build", "create", "owner"} : work' = [work EXCEPT !.pc = p]
        BY <1>3 DEF CheckReport, CheckJob, CheckLimit, CreateSecret, CreateJob, GoTo, Done, Requeue
  <2>2. work # Idle
        BY <1>3 DEF CheckReport, CheckJob, CheckLimit, CreateSecret, CreateJob, At
  <2> QED BY <1>1, <2>1, <2>2 DEF Task
<1>4. CASE CheckApplicable \/ BuildJob
  <2>1. \/ work' = Idle
        \/ \E p \in {"report", "secret", "create"} :
             work' = [work EXCEPT !.pc = p, !.l = [work.l EXCEPT !.config = cConfig]]
        BY <1>4 DEF CheckApplicable, BuildJob, Requeue
  <2>2. work # Idle
        BY <1>4 DEF CheckApplicable, BuildJob, At
  <2>3. work \in Task /\ work.l \in Labels
        BY <1>1, <2>2 DEF Task
  <2>4. [work.l EXCEPT !.config = cConfig].spec = work.l.spec
        /\ [work.l EXCEPT !.config = cConfig].config = cConfig
        BY <2>3 DEF Labels
  <2>5. work' = Idle \/ (work'.key = work.key /\ work'.l = [work.l EXCEPT !.config = cConfig])
        BY <2>1, <2>3 DEF Task
  <2> QED BY <2>2, <2>4, <2>5
<1>5. CASE GetScanJobSpec
  <2>1. work' = [work EXCEPT !.pc = "label", !.l = [work.l EXCEPT !.used = cConfig]]
        BY <1>5 DEF GetScanJobSpec
  <2>2. work # Idle
        BY <1>5 DEF GetScanJobSpec, At
  <2>3. work \in Task /\ work.l \in Labels
        BY <1>1, <2>2 DEF Task
  <2>4. [work.l EXCEPT !.used = cConfig].spec = work.l.spec
        /\ [work.l EXCEPT !.used = cConfig].config = work.l.config
        BY <2>3 DEF Labels
  <2>5. work'.key = work.key /\ work'.l = [work.l EXCEPT !.used = cConfig]
        BY <2>1, <2>3 DEF Task
  <2> QED BY <2>2, <2>4, <2>5
<1>6. CASE SetOwnerReference \/ WorkerError \/ Restart
      BY <1>6 DEF SetOwnerReference, WorkerError, Restart, Done, Requeue
<1> QED BY <1>2, <1>3, <1>4, <1>5, <1>6
        DEF Next, vars, Cluster, Sync, Worker, JobWorker, ConfigWorker, JobAt,
        workerVars, EditResource, EditConfig, FinishJob, Collect, SyncResource, SyncConfig, SyncReport,
        SyncJob, Resync, FireDelayed, ReconcileJobs, GetOwner, CheckJobReport, ReadLogs, WriteReport,
        GetStatuses, DeleteJob, JobError, ReconcileConfig, ListReports, DeleteReport, FinishConfig,
        ConfigError

\* A pass that moves on, with the labels of a job.
LEMMA PassMoved ==
  ASSUME jobWork \in JobTask, NEW p \in {"owner", "report", "logs", "write", "statuses", "delete"},
         NEW l \in Labels, jobWork' = [jobWork EXCEPT !.pc = p, !.l = l]
  PROVE  /\ jobWork' # Idle /\ jobWork'.pc = p
         /\ jobWork'.key = jobWork.key /\ jobWork'.cond = jobWork.cond /\ jobWork'.l = l
<1>1. jobWork' \in JobTask /\ jobWork'.pc = p /\ jobWork'.l = l
      /\ jobWork'.key = jobWork.key /\ jobWork'.cond = jobWork.cond
      BY DEF JobTask
<1> QED BY <1>1, ConstantsAssumption

\* What a pass keeps when it moves on, and what it has seen when it goes on to
\* delete the job.
MovesOn ==
  /\ jobWork # Idle /\ jobWork' # Idle
  /\ jobWork'.key = jobWork.key /\ jobWork'.cond = jobWork.cond
  /\ jobWork'.l.spec = jobWork.l.spec /\ jobWork'.l.config = jobWork.l.config
  /\ jobWork.pc \in {"statuses", "delete"} => jobWork'.pc = "delete"
  /\ jobWork'.pc # "statuses"
  /\ jobWork'.pc = "delete" =>
       \/ jobWork.pc = "statuses" \/ Fault
       \/ cSpec[jobWork.key] = Gone
       \/ cReport[jobWork.key] # NoReport /\ UNCHANGED report
       \/ report'[jobWork.key] # NoReport

\* A pass starts over a cached job, moves on, or ends.
LEMMA PassEffect ==
  ASSUME TypeOK, [Next]_vars
  PROVE  \/ jobWork' = Idle
         \/ UNCHANGED jobWork
         \/ MovesOn
         \/ \E r \in Resources :
              /\ JobHasAnyCondition(cJob[r]) /\ jobWork = Idle
              /\ jobWork'.key = r /\ jobWork'.l = cJob[r].l /\ jobWork'.cond = cJob[r].cond
              /\ jobWork'.pc = IF cJob[r].cond = "complete" THEN "owner" ELSE "statuses"
<1> USE ConstantsAssumption
<1>1. jobWork # Idle => jobWork \in JobTask /\ jobWork.key \in Resources /\ jobWork.l \in Labels
      BY DEF TypeOK, JobTask
<1>2. CASE \E r \in Resources : ReconcileJobs(r)
      BY <1>2 DEF ReconcileJobs
<1>3. ASSUME NEW p \in {"owner", "report", "logs", "write", "statuses", "delete"},
             jobWork # Idle, jobWork' = [jobWork EXCEPT !.pc = p]
      PROVE  /\ jobWork' # Idle /\ jobWork'.pc = p
             /\ jobWork'.key = jobWork.key /\ jobWork'.cond = jobWork.cond /\ jobWork'.l = jobWork.l
  <2>1. jobWork' = [jobWork EXCEPT !.pc = p, !.l = jobWork.l]
        BY <1>1, <1>3 DEF JobTask
  <2> QED BY <1>1, <1>3, <2>1, PassMoved
<1>4. CASE GetOwner
  <2>1. jobWork # Idle /\ jobWork.pc = "owner"
        BY <1>4 DEF GetOwner, JobAt
  <2>2. PICK p \in {"delete", "report"} :
          jobWork' = [jobWork EXCEPT !.pc = p] /\ (p = "delete" => cSpec[jobWork.key] = Gone)
        BY <1>4 DEF GetOwner, JobGoTo
  <2> QED BY <1>3, <2>1, <2>2 DEF MovesOn
<1>5. CASE CheckJobReport
  <2>1. jobWork # Idle /\ jobWork.pc = "report" /\ UNCHANGED report
        BY <1>5 DEF CheckJobReport, JobAt, reportVars
  <2>2. PICK p \in {"delete", "logs"} :
          jobWork' = [jobWork EXCEPT !.pc = p] /\ (p = "delete" => cReport[jobWork.key] # NoReport)
        BY <1>5 DEF CheckJobReport, JobGoTo, HasReport
  <2> QED BY <1>3, <2>1, <2>2 DEF MovesOn
<1>6. CASE GetStatuses
  <2>1. jobWork # Idle /\ jobWork.pc = "statuses"
        BY <1>6 DEF GetStatuses, JobAt
  <2> QED BY <1>3, <1>6, <2>1 DEF GetStatuses, JobGoTo, JobDone, MovesOn
<1>7. CASE ReadLogs
  <2>1. jobWork # Idle /\ jobWork.pc = "logs"
        BY <1>7 DEF ReadLogs, JobAt
  <2>2. CASE jobWork' = [jobWork EXCEPT !.pc = "delete"] /\ Fault
        BY <1>3, <2>1, <2>2 DEF MovesOn
  <2>3. CASE /\ job[jobWork.key] # NoJob
             /\ jobWork' = [jobWork EXCEPT !.pc = "write",
                               !.l = [jobWork.l EXCEPT !.used = job[jobWork.key].l.used]]
    <3> DEFINE l == [jobWork.l EXCEPT !.used = job[jobWork.key].l.used]
    <3>1. jobWork.l \in Labels /\ job[jobWork.key].l.used \in Configs
          BY <1>1, <2>1, <2>3, LabelsOf DEF TypeOK, Labels
    <3>2. l \in Labels /\ l.spec = jobWork.l.spec /\ l.config = jobWork.l.config
          BY <3>1 DEF Labels
    <3>3. jobWork' = [jobWork EXCEPT !.pc = "write", !.l = l]
          BY <2>3
    <3> HIDE DEF l
    <3> QED BY <1>1, <2>1, <3>2, <3>3, PassMoved DEF MovesOn
  <2> QED BY <1>7, <2>2, <2>3 DEF ReadLogs, JobDone, JobRetry, JobGoTo
<1>8. CASE WriteReport
  <2>1. jobWork # Idle /\ jobWork.pc = "write"
        BY <1>8 DEF WriteReport, JobAt
  <2>2. CASE SetReport(jobWork.key, jobWork.l) /\ jobWork' = [jobWork EXCEPT !.pc = "delete"]
    <3>1. report'[jobWork.key] # NoReport
          BY <1>1, <2>1, <2>2 DEF SetReport, TypeOK
    <3> QED BY <1>3, <2>1, <2>2, <3>1 DEF MovesOn
  <2> QED BY <1>8, <2>2 DEF WriteReport, JobGoTo, JobRetry
<1>9. CASE DeleteJob \/ JobError \/ Restart
      BY <1>9 DEF DeleteJob, JobError, Restart, JobDone, JobRetry
<1> QED BY <1>2, <1>4, <1>5, <1>6, <1>7, <1>8, <1>9
        DEF Next, vars, Cluster, Sync, Worker, JobWorker, ConfigWorker, At,
        collectorVars, EditResource, EditConfig, FinishJob, Collect, SyncResource, SyncConfig,
        SyncReport, SyncJob, Resync, FireDelayed, ReconcileResource, CheckApplicable, CheckReport,
        CheckJob, CheckLimit, GetScanJobSpec, BuildJob, CreateSecret, CreateJob, SetOwnerReference,
        WorkerError, ReconcileConfig, ListReports, DeleteReport, FinishConfig, ConfigError

\* reconcileConfig takes the cached config and deletes reports that the cache
\* shows with another one.
LEMMA ConfigEffect ==
  ASSUME TypeOK, [Next]_vars
  PROVE  \/ configWork' = Idle
         \/ UNCHANGED configWork
         \/ configWork'.config = cConfig /\ configWork'.todo = {}
         \/ /\ configWork # Idle /\ configWork'.config = configWork.config
            /\ \/ configWork'.todo \subseteq configWork.todo
               \/ configWork'.todo \subseteq Outdated(configWork.config)
<1>1. configWork # Idle => configWork \in ConfigTask
      BY DEF TypeOK
<1>2. CASE ReconcileConfig
      BY <1>2 DEF ReconcileConfig
<1>3. CASE ListReports
  <2> DEFINE m == Cardinality(Outdated(configWork.config)) > BatchDeleteLimit
  <2>1. PICK b \in SUBSET Outdated(configWork.config) :
          configWork' = [configWork EXCEPT !.pc = "delete", !.todo = b, !.more = m]
        BY <1>3 DEF ListReports
  <2> HIDE DEF m
  <2>2. configWork'.config = configWork.config /\ configWork'.todo = b
        BY <1>1, <1>3, <2>1 DEF ListReports, ConfigTask
  <2> QED BY <1>3, <2>2 DEF ListReports
<1>4. CASE \E r \in Resources : DeleteReport(r)
      BY <1>1, <1>4 DEF DeleteReport, ConfigTask
<1>5. CASE FinishConfig \/ ConfigError \/ Restart
      BY <1>5 DEF FinishConfig, ConfigError, Restart
<1> QED BY <1>2, <1>3, <1>4, <1>5
        DEF Next, vars, Cluster, Sync, Worker, JobWorker, ConfigWorker, At, JobAt,
        configVars, EditResource, EditConfig, FinishJob, Collect, SyncResource, SyncConfig, SyncReport,
        SyncJob, Resync, FireDelayed, ReconcileResource, CheckApplicable, CheckReport,
        CheckJob, CheckLimit, GetScanJobSpec, BuildJob, CreateSecret, CreateJob, SetOwnerReference,
        WorkerError, ReconcileJobs, GetOwner, CheckJobReport, ReadLogs, WriteReport, GetStatuses,
        DeleteJob, JobError

-----------------------------------------------------------------------------
(* The invariant.                                                           *)

\* Without edits everything stays up to date.
LEMMA QuietStep ==
  ASSUME CalmInv, [Next]_vars, edits' = 0
  PROVE  (QuietConfig /\ \A r \in Resources : QuietOf(r))'
<1>1. TypeOK
      BY DEF CalmInv
<1>2. edits = 0 /\ edits' = edits
      BY <1>1, Counters
<1>3. QuietConfig /\ \A r \in Resources : QuietOf(r)
      BY <1>2 DEF CalmInv
<1>4. /\ UNCHANGED <<spec, config>> /\ cConfig' = config
      /\ \A r \in Resources : cSpec'[r] = spec[r]
      BY <1>1, <1>2, <1>3, SourceEffect DEF QuietConfig, QuietOf
<1>5. QuietConfig'
  <2>1. Outdated(config) = {}
        BY <1>3 DEF QuietOf, Matches, Outdated
  <2> QED BY <1>1, <1>3, <1>4, <2>1, ConfigEffect DEF QuietConfig
<1>6. ASSUME NEW r \in Resources PROVE QuietOf(r)'
  <2>1. QuietOf(r)
        BY <1>3
  <2>2. /\ job'[r] # NoJob => Matches(r, job'[r].l)
        /\ cJob'[r] # NoJob => Matches(r, cJob'[r].l)
        BY <1>1, <2>1, JobEffect DEF QuietOf, Matches
  <2>3. /\ report'[r] # NoReport => Matches(r, report'[r])
        /\ report[r] # NoReport => report'[r] # NoReport
        /\ cReport'[r] # NoReport => report'[r] # NoReport /\ Matches(r, cReport'[r])
    <3>1. spec[r] # Gone /\ ~(configWork # Idle /\ r \in configWork.todo)
          BY <1>3, <2>1, ConstantsAssumption DEF QuietOf, QuietConfig
    <3>2. \A l \in Labels : l # NoReport
          BY ConstantsAssumption
    <3> QED BY <1>1, <2>1, <3>1, <3>2, ReportEffect DEF QuietOf, Matches
  <2>4. work' # Idle /\ work'.key = r => Matches(r, work'.l)
        BY <1>1, <1>3, <2>1, WorkEffect DEF QuietOf, QuietConfig, Matches
  <2>5. jobWork' # Idle /\ jobWork'.key = r => Matches(r, jobWork'.l)
        BY <1>1, <2>1, PassEffect DEF QuietOf, Matches, MovesOn, JobHasAnyCondition
  <2> QED BY <1>4, <2>1, <2>2, <2>3, <2>4, <2>5 DEF QuietOf, Matches
<1> QED BY <1>5, <1>6

\* Nor does anything fail without a fault.
LEMMA CalmStep ==
  ASSUME CalmInv, [Next]_vars
  PROVE  CalmInv'
<1>1. TypeOK /\ TypeOK' /\ PassKinds
      BY TypeStep DEF CalmInv
<1>2. PassKinds'
  <2>1. \A r \in Resources : JobHasAnyCondition(cJob[r]) => cJob[r].cond \in {"complete", "failed"}
        BY <1>1 DEF TypeOK, Job, JobHasAnyCondition
  <2> QED BY <1>1, <2>1, PassEffect DEF PassKinds, MovesOn
<1>3. edits' = 0 => (QuietConfig /\ \A r \in Resources : QuietOf(r))'
      BY QuietStep
<1>4. ASSUME edits' = 0, faults' = 0, NEW r \in Resources PROVE CalmOf(r)'
  <2>1. edits = 0 /\ faults = 0 /\ ~Fault
        BY <1>1, <1>4, Counters DEF Fault
  <2>2. CalmOf(r) /\ QuietOf(r) /\ QuietConfig
        BY <2>1 DEF CalmInv
  <2>3. /\ job'[r] # NoJob => job'[r].cond # "failed"
        /\ cJob'[r] # NoJob => cJob'[r].cond # "failed"
        BY <1>1, <2>1, <2>2, JobEffect DEF CalmOf
  <2>4. report[r] # NoReport => report'[r] # NoReport
    <3>1. spec[r] # Gone /\ ~(configWork # Idle /\ r \in configWork.todo)
          BY <2>2, ConstantsAssumption DEF QuietOf, QuietConfig
    <3>2. \A l \in Labels : l # NoReport
          BY ConstantsAssumption
    <3> QED BY <1>1, <3>1, <3>2, ReportEffect
  <2>5. jobWork' # Idle /\ jobWork'.key = r =>
          jobWork'.cond = "complete" /\ (jobWork'.pc = "delete" => report'[r] # NoReport)
    <3> SUFFICES ASSUME jobWork' # Idle, jobWork'.key = r
                 PROVE  jobWork'.cond = "complete" /\ (jobWork'.pc = "delete" => report'[r] # NoReport)
        OBVIOUS
    <3>1. CASE UNCHANGED jobWork
          BY <2>2, <2>4, <3>1 DEF CalmOf
    <3>2. CASE MovesOn
      <4>1. jobWork.cond = "complete" /\ jobWork.pc # "statuses"
            BY <1>1, <2>2, <3>2 DEF CalmOf, MovesOn, PassKinds
      <4>2. cSpec[r] # Gone /\ (cReport[r] # NoReport => report[r] # NoReport)
            BY <2>2, ConstantsAssumption DEF QuietOf
      <4> QED BY <2>1, <3>2, <4>1, <4>2 DEF MovesOn
    <3>3. CASE /\ JobHasAnyCondition(cJob[r])
               /\ jobWork'.cond = cJob[r].cond
               /\ jobWork'.pc = IF cJob[r].cond = "complete" THEN "owner" ELSE "statuses"
      <4>1. cJob[r].cond = "complete"
            BY <1>1, <2>2, <3>3 DEF CalmOf, JobHasAnyCondition, TypeOK, Job
      <4> QED BY <3>3, <4>1
    <3> QED BY <1>1, <3>1, <3>2, <3>3, PassEffect
  <2> QED BY <2>3, <2>5 DEF CalmOf
<1> QED BY <1>1, <1>2, <1>3, <1>4 DEF CalmInv

-----------------------------------------------------------------------------
(* The refinement, action by action.                                        *)

\* Somebody can still act on the end e of an audit of r.
Known(r, e) ==
  \/ JobHasAnyCondition(job[r]) /\ e = <<HashesOf(job[r].l), job[r].cond>>
  \/ JobHasAnyCondition(cJob[r]) /\ e = <<HashesOf(cJob[r].l), cJob[r].cond>>
  \/ jobWork # Idle /\ jobWork.key = r /\ e = <<HashesOf(jobWork.l), jobWork.cond>>

\* What the mapping makes of jobs, caches and passes.
LEMMA Mapped ==
  /\ \A r \in Resources : \A e : e \in Ended[r] <=> Known(r, e)
  /\ \A r \in Resources : \A e : e \in Ended'[r] <=> Known(r, e)'
<1>1. \A r \in Resources : \A e : e \in Ended[r] <=> Known(r, e)
      BY Zenon DEF Ended, Known
<1>2. \A r \in Resources : \A e : e \in Ended'[r] <=> Known(r, e)'
      BY Zenon DEF Ended, Known
<1> QED BY <1>1, <1>2

\* The scan of a resource is that of its job.
LEMMA ScanOf ==
  ASSUME NEW r \in Resources
  PROVE  /\ job[r] = NoJob => Scan[r] = {}
         /\ job[r] # NoJob => Scan[r] = {<<HashesOf(job[r].l), job[r].cond>>}
         /\ job'[r] = NoJob => Scan'[r] = {}
         /\ job'[r] # NoJob => Scan'[r] = {<<HashesOf(job'[r].l), job'[r].cond>>}
         /\ job'[r] = job[r] => Scan'[r] = Scan[r]
BY DEF Scan, HashesOf

\* A change of the scan of one resource.
LEMMA ScanSet ==
  ASSUME NEW r \in Resources, NEW s, Scan'[r] = s,
         \A q \in Resources : q # r => job'[q] = job[q]
  PROVE  Scan' = [Scan EXCEPT ![r] = s]
<1>1. Scan = [q \in Resources |-> Scan[q]] /\ Scan' = [q \in Resources |-> Scan'[q]]
      BY DEF Scan
<1>2. \A q \in Resources : q # r => Scan'[q] = Scan[q]
      BY ScanOf
<1> QED BY <1>1, <1>2

\* The protocol knows the hashes of a report.
LEMMA ReportOf ==
  \A r \in Resources, p \in {"report"} :
    Reports[r][p] = IF report[r] = NoReport THEN NoReport ELSE HashesOf(report[r])
BY DEF Reports

\* A change of the report of one resource.
LEMMA ReportSet ==
  ASSUME NEW r \in Resources, NEW l, report' = [report EXCEPT ![r] = l],
         report \in [Resources -> Labels \cup {NoReport}]
  PROVE  LET h == IF l = NoReport THEN NoReport ELSE HashesOf(l)
         IN  Reports' = [Reports EXCEPT ![r] = [Reports[r] EXCEPT !["report"] = h]]
BY DEF Reports, HashesOf

\* Hashes that a label carries.
LEMMA Hashes ==
  /\ \A l \in Labels : HashesOf(l) \in Specs \X Configs
  /\ \A l, m : l.spec = m.spec /\ l.config = m.config => HashesOf(l) = HashesOf(m)
BY DEF HashesOf, Labels

\* A step that leaves jobs and reports alone: nobody knows more after it.
LEMMA Forgets ==
  ASSUME TypeOK, [Next]_vars, UNCHANGED <<spec, config, job, report, edits>>
  PROVE  Protocol!Next
<1>1. Scan' = Scan /\ Wanted' = Wanted /\ Reports' = Reports
      BY DEF Scan, Wanted, Reports
<1>2. \A r \in Resources : \A e : Known(r, e)' => Known(r, e)
  <2>1. \A r \in Resources : cJob'[r] \in {cJob[r], job[r]}
        BY JobEffect
  <2>2. \/ jobWork' = Idle
        \/ UNCHANGED jobWork
        \/ /\ jobWork # Idle
           /\ jobWork'.key = jobWork.key /\ jobWork'.cond = jobWork.cond
           /\ HashesOf(jobWork'.l) = HashesOf(jobWork.l)
        \/ \E r \in Resources :
             /\ JobHasAnyCondition(cJob[r])
             /\ jobWork'.key = r /\ HashesOf(jobWork'.l) = HashesOf(cJob[r].l)
             /\ jobWork'.cond = cJob[r].cond
        BY PassEffect DEF MovesOn, HashesOf
  <2> QED BY <2>1, <2>2 DEF Known, JobHasAnyCondition, HashesOf
<1>3. \A r \in Resources : Ended'[r] \subseteq Ended[r]
      BY <1>2, Mapped
<1>4. faults > 0 => faults' > 0
      BY Counters
<1> QED BY <1>1, <1>3, <1>4 DEF Protocol!Next, Protocol!Forget, Protocol!Forgetting

\* A step that leaves jobs, their cache and passes alone.
LEMMA KnownFrame ==
  ASSUME UNCHANGED <<job, cJob, jobWork>>
  PROVE  Scan' = Scan /\ Ended' = Ended
BY DEF Scan, Ended, HashesOf, JobHasAnyCondition

\* Edits leave jobs and reports to the controllers.
LEMMA ProtocolEdit ==
  ASSUME TypeOK, EditConfig \/ \E r \in Resources : EditResource(r), faults > 0 => faults' > 0
  PROVE  Protocol!Next
<1>1. UNCHANGED <<job, cJob, report, jobWork>> /\ edits' > 0
      BY DEF EditConfig, EditResource, Edit, jobVars, reportVars, collectorVars, TypeOK
<1>2. Scan' = Scan /\ Ended' = Ended /\ Reports' = Reports
      BY <1>1, KnownFrame DEF Reports
<1> QED BY <1>1, <1>2 DEF Protocol!Next, Protocol!Edit, Protocol!Forgetting

\* The end of a job is the end of the scan of its resource.
LEMMA ProtocolEnd ==
  ASSUME TypeOK, NEW r \in Resources, FinishJob(r), faults > 0 => faults' > 0
  PROVE  Protocol!Next
<1>1. PICK j \in Job :
        /\ SetJob(r, j)
        /\ j.l.spec = job[r].l.spec /\ j.l.config = job[r].l.config
        /\ j.cond = "complete" \/ (j.cond = "failed" /\ Fault)
      BY EndEffect
<1> DEFINE h == HashesOf(job[r].l)  cond == j.cond
<1>2. /\ job[r] # NoJob /\ job[r].cond = "none"
      /\ UNCHANGED <<spec, config, cJob, report, jobWork, edits>>
      BY <1>1 DEF FinishJob, SetJob, sourceVars, reportVars, collectorVars, boundVars, Fault
<1>3. j # NoJob /\ cond \in {"complete", "failed"} /\ (cond = "complete" \/ faults' > 0)
      BY <1>1, ConstantsAssumption DEF Fault, TypeOK
<1>4. h \in Specs \X Configs /\ HashesOf(j.l) = h
      BY <1>1, <1>2, Hashes, LabelsOf DEF TypeOK
<1>5. job'[r] = j /\ \A q \in Resources : q # r => job'[q] = job[q]
      BY <1>1 DEF SetJob, TypeOK
<1>6. Scan[r] = {<<h, "none">>}
      BY <1>2, ScanOf
<1>7. Scan' = [Scan EXCEPT ![r] = {<<h, cond>>}]
  <2>1. Scan'[r] = {<<h, cond>>}
        BY <1>3, <1>4, <1>5, ScanOf
  <2> QED BY <1>5, <2>1, ScanSet
<1>8. \A e : Known(r, e)' <=> Known(r, e) \/ e = <<h, cond>>
      BY <1>2, <1>3, <1>4, <1>5 DEF Known, JobHasAnyCondition, HashesOf
<1>9. \A q \in Resources : q # r => \A e : Known(q, e)' <=> Known(q, e)
      BY <1>2, <1>5 DEF Known, JobHasAnyCondition, HashesOf
<1>10. \A q \in Resources : Ended'[q] = IF q = r THEN Ended[r] \cup {<<h, cond>>} ELSE Ended[q]
      BY <1>8, <1>9, Mapped
<1>11. Ended' = [Ended EXCEPT ![r] = Ended[r] \cup {<<h, cond>>}]
      BY <1>10 DEF Ended
<1>12. Wanted' = Wanted /\ Reports' = Reports
      BY <1>2 DEF Wanted, Reports
<1>13. Protocol!End(r, h, cond)
      BY <1>2, <1>3, <1>6, <1>7, <1>11, <1>12 DEF Protocol!End
<1> QED BY <1>3, <1>4, <1>13 DEF Protocol!Next

\* A report disappears with its resource, or by reconcileConfig after an edit.
LEMMA ProtocolRemove ==
  ASSUME CalmInv, NEW r \in Resources, Collect(r) \/ DeleteReport(r),
         report[r] # NoReport, SetReport(r, NoReport), faults > 0 => faults' > 0
  PROVE  Protocol!Next
<1>1. TypeOK
      BY DEF CalmInv
<1>2. UNCHANGED <<spec, config, job, cJob, jobWork, edits>>
      BY DEF Collect, DeleteReport, sourceVars, jobVars, collectorVars, boundVars
<1>3. edits > 0 \/ spec[r] = Gone
  <2>1. CASE DeleteReport(r)
        BY <1>1, <2>1 DEF DeleteReport, CalmInv, QuietConfig, TypeOK
  <2>2. CASE Collect(r)
        BY <1>1, <2>2 DEF Collect, SetReport, reportVars, TypeOK
  <2> QED BY <2>1, <2>2
<1>4. edits > 0 \/ Wanted[r] \notin Specs \X Configs
      BY <1>3, ConstantsAssumption DEF Wanted
<1>5. Scan' = Scan /\ Ended' = Ended /\ Wanted' = Wanted
      BY <1>2, KnownFrame DEF Wanted
<1>6. Reports' = [Reports EXCEPT ![r] = [Reports[r] EXCEPT !["report"] = NoReport]]
      BY <1>1, ReportSet DEF SetReport, TypeOK
<1>7. Protocol!Remove(r, "report")
      BY <1>2, <1>4, <1>5, <1>6 DEF Protocol!Remove
<1> QED BY <1>7 DEF Protocol!Next

\* A worker submits a job only where there is none.
LEMMA ProtocolSubmit ==
  ASSUME CalmInv, CreateJob, job[work.key] = NoJob, faults > 0 => faults' > 0
  PROVE  Protocol!Next
<1> DEFINE r == work.key  h == HashesOf(work.l)  j == [l |-> work.l, cond |-> "none"]
<1>1. TypeOK
      BY DEF CalmInv
<1>2. work # Idle /\ r \in Resources /\ work.l \in Labels /\ j \in Job
      BY <1>1 DEF CreateJob, At, TypeOK, Task, Job
<1>3. UNCHANGED <<spec, config, cJob, report, jobWork, edits>>
      BY DEF CreateJob, SetJob, At, sourceVars, reportVars, collectorVars, boundVars
<1>4. job'[r] = j /\ \A q \in Resources : q # r => job'[q] = job[q]
      BY <1>1, <1>2 DEF CreateJob, SetJob, TypeOK
<1>5. j # NoJob /\ j.l = work.l /\ j.cond = "none"
      BY <1>2, ConstantsAssumption
<1>6. h \in Specs \X Configs
      BY <1>2, Hashes
<1>7. edits > 0 \/ h = Wanted[r]
  <2>1. edits = 0 => Matches(r, work.l)
        BY <1>2 DEF CalmInv, QuietOf
  <2> QED BY <1>1, <1>2, <2>1 DEF Matches, Wanted, HashesOf, TypeOK
<1>8. Scan[r] = {} /\ Scan' = [Scan EXCEPT ![r] = {<<h, "none">>}]
  <2>1. Scan'[r] = {<<h, "none">>}
        BY <1>2, <1>4, <1>5, ScanOf
  <2> QED BY <1>2, <1>4, <2>1, ScanOf, ScanSet
<1>9. Ended' = Ended
  <2>1. \A q \in Resources : \A e : Known(q, e)' <=> Known(q, e)
        BY <1>3, <1>4, <1>5 DEF Known, JobHasAnyCondition, HashesOf
  <2>2. \A q \in Resources : Ended'[q] = Ended[q]
        BY <2>1, Mapped
  <2> QED BY <2>2 DEF Ended
<1>10. Wanted' = Wanted /\ Reports' = Reports
      BY <1>3 DEF Wanted, Reports
<1>11. Protocol!Submit(r, h)
      BY <1>3, <1>7, <1>8, <1>9, <1>10 DEF Protocol!Submit
<1> QED BY <1>2, <1>6, <1>11 DEF Protocol!Next

\* A pass stores a report under the hashes of the job that completed.
LEMMA ProtocolStore ==
  ASSUME CalmInv, [Next]_vars, WriteReport, SetReport(jobWork.key, jobWork.l), JobGoTo("delete"),
         faults > 0 => faults' > 0
  PROVE  Protocol!Next
<1> DEFINE r == jobWork.key  h == HashesOf(jobWork.l)
<1>1. TypeOK
      BY DEF CalmInv
<1>2. /\ jobWork # Idle /\ jobWork \in JobTask /\ jobWork.pc = "write"
      /\ r \in Resources /\ jobWork.l \in Labels /\ jobWork.cond \in {"complete", "failed"}
      BY <1>1 DEF WriteReport, JobAt, TypeOK, JobTask
<1>3. UNCHANGED <<spec, config, job, cJob, edits>>
      BY DEF WriteReport, JobAt, sourceVars, jobVars, boundVars
<1>4. jobWork' # Idle /\ jobWork'.key = r /\ jobWork'.cond = jobWork.cond /\ jobWork'.l = jobWork.l
  <2>1. jobWork' = [jobWork EXCEPT !.pc = "delete", !.l = jobWork.l]
        BY <1>2 DEF JobGoTo, JobTask
  <2> QED BY <1>2, <2>1, PassMoved
<1>5. Scan' = Scan /\ Wanted' = Wanted
      BY <1>3 DEF Scan, Wanted
<1>6. Ended' = Ended
  <2>1. \A q \in Resources : \A e : Known(q, e)' <=> Known(q, e)
        BY <1>2, <1>3, <1>4 DEF Known, JobHasAnyCondition, HashesOf
  <2>2. \A q \in Resources : Ended'[q] = Ended[q]
        BY <2>1, Mapped
  <2> QED BY <2>2 DEF Ended
<1>7. <<h, "complete">> \in Ended[r]
  <2>1. jobWork.cond = "complete"
        BY <1>2 DEF CalmInv, PassKinds
  <2>2. Known(r, <<h, "complete">>)
        BY <1>2, <2>1 DEF Known
  <2> QED BY <1>2, <2>2, Mapped
<1>8. Reports' = [Reports EXCEPT ![r] = [Reports[r] EXCEPT !["report"] = h]]
  <2>1. jobWork.l # NoReport
        BY <1>2, ConstantsAssumption
  <2> QED BY <1>1, <1>2, <2>1, ReportSet DEF SetReport, TypeOK
<1>9. h \in Specs \X Configs
      BY <1>2, Hashes
<1>10. Protocol!Store(r, "report", h)
      BY <1>3, <1>5, <1>6, <1>7, <1>8, <1>9 DEF Protocol!Store
<1> QED BY <1>2, <1>9, <1>10 DEF Protocol!Next

\* A pass discards whichever job has the name.
LEMMA ProtocolDiscard ==
  ASSUME CalmInv, DeleteJob, job[jobWork.key] # NoJob, faults > 0 => faults' > 0
  PROVE  Protocol!Next
<1> DEFINE r == jobWork.key
<1>1. TypeOK
      BY DEF CalmInv
<1>2. jobWork # Idle /\ r \in Resources /\ jobWork.pc = "delete"
      BY <1>1 DEF DeleteJob, JobAt, TypeOK, JobTask
<1>3. UNCHANGED <<spec, config, cJob, report, edits>> /\ jobWork' = Idle
      BY DEF DeleteJob, DropJob, SetJob, JobDone, JobAt, sourceVars, reportVars, boundVars
<1>4. job'[r] = NoJob /\ \A q \in Resources : q # r => job'[q] = job[q]
      BY <1>1, <1>2 DEF DeleteJob, DropJob, SetJob, TypeOK
<1>5. Scan[r] # {} /\ Scan' = [Scan EXCEPT ![r] = {}]
  <2>1. Scan'[r] = {}
        BY <1>2, <1>4, ScanOf
  <2> QED BY <1>2, <1>4, <2>1, ScanOf, ScanSet
<1>6. Ended[r] # {}
  <2>1. Known(r, <<HashesOf(jobWork.l), jobWork.cond>>)
        BY <1>2 DEF Known
  <2> QED BY <1>2, <2>1, Mapped
<1>7. \A q \in Resources : Ended'[q] \subseteq Ended[q]
  <2>1. \A q \in Resources : \A e : Known(q, e)' => Known(q, e)
        BY <1>3, <1>4 DEF Known, JobHasAnyCondition, HashesOf
  <2> QED BY <2>1, Mapped
<1>8. Protocol!Stored(r) \/ edits > 0 \/ faults > 0
  <2> SUFFICES ASSUME ~(edits > 0), ~(faults > 0) PROVE Protocol!Stored(r)
      OBVIOUS
  <2>1. edits = 0 /\ faults = 0
        BY <1>1 DEF TypeOK
  <2>2. report[r] # NoReport /\ Matches(r, report[r])
        BY <1>2, <2>1 DEF CalmInv, CalmOf, QuietOf
  <2>3. Reports[r]["report"] = Wanted[r]
        BY <1>2, <2>2, ReportOf DEF Matches, Wanted, HashesOf
  <2> QED BY <2>3 DEF Protocol!Stored
<1>9. Wanted' = Wanted /\ Reports' = Reports
      BY <1>3 DEF Wanted, Reports
<1>10. Protocol!Discard(r)
      BY <1>3, <1>5, <1>6, <1>7, <1>8, <1>9 DEF Protocol!Discard, Protocol!Forgetting
<1> QED BY <1>2, <1>10 DEF Protocol!Next

\* Initially nothing is scanned and nothing reported.
LEMMA ProtocolInit == ASSUME Init PROVE CalmInv /\ Protocol!Init
<1>1. TypeOK
      BY InitIInv DEF IInv
<1>2. CalmInv
      BY <1>1 DEF Init, CalmInv, PassKinds, QuietConfig, QuietOf, CalmOf
<1>3. Scan = [r \in Resources |-> {}] /\ Reports = [r \in Resources |-> [p \in {"report"} |-> NoReport]]
      BY DEF Init, Scan, Reports
<1>4. Ended = [r \in Resources |-> {}]
  <2>1. \A r \in Resources : Ended[r] = {}
        BY Mapped DEF Init, Known, JobHasAnyCondition
  <2> QED BY <2>1 DEF Ended
<1> QED BY <1>2, <1>3, <1>4 DEF Init, Protocol!Init

\* Every step of the three controllers and of what they run in is one of the protocol.
LEMMA ProtocolStep == ASSUME CalmInv, [Next]_vars PROVE Protocol!Next
<1>1. TypeOK
      BY DEF CalmInv
<1>2. faults > 0 => faults' > 0
      BY <1>1, Counters
<1>3. CASE UNCHANGED <<spec, config, job, report, edits>>
      BY <1>1, <1>3, Forgets
<1>4. CASE EditConfig \/ \E r \in Resources : EditResource(r)
      BY <1>1, <1>2, <1>4, ProtocolEdit
<1>5. CASE \E r \in Resources : FinishJob(r)
      BY <1>1, <1>2, <1>5, ProtocolEnd
<1>6. CASE \E r \in Resources : Collect(r) \/ DeleteReport(r)
      BY <1>2, <1>3, <1>6, ProtocolRemove
      DEF Collect, DeleteReport, sourceVars, jobVars, reportVars, boundVars
<1>7. CASE CreateJob
      BY <1>2, <1>3, <1>7, ProtocolSubmit DEF CreateJob, At, sourceVars, reportVars, boundVars
<1>8. CASE WriteReport
      BY <1>2, <1>3, <1>8, ProtocolStore DEF WriteReport, JobAt, sourceVars, jobVars, reportVars, boundVars
<1>9. CASE DeleteJob
      BY <1>2, <1>3, <1>9, ProtocolDiscard DEF DeleteJob, JobAt, sourceVars, jobVars, reportVars, boundVars
<1>10. \/ UNCHANGED <<spec, config, job, report, edits>>
       \/ EditConfig \/ CreateJob \/ WriteReport \/ DeleteJob
       \/ \E r \in Resources : EditResource(r) \/ FinishJob(r) \/ Collect(r) \/ DeleteReport(r)
      BY DEF Next, vars, Cluster, Sync, Worker, JobWorker, ConfigWorker, At, JobAt, Fault,
        sourceVars, jobVars, reportVars, boundVars, SyncResource, SyncConfig, SyncReport,
        SyncJob, Resync, FireDelayed, Restart, ReconcileResource, CheckApplicable, CheckReport,
        CheckJob, CheckLimit, GetScanJobSpec, BuildJob, CreateSecret, SetOwnerReference,
        WorkerError, ReconcileJobs, GetOwner, CheckJobReport, ReadLogs, GetStatuses,
        JobError, ReconcileConfig, ListReports, FinishConfig, ConfigError
<1> QED BY <1>3, <1>4, <1>5, <1>6, <1>7, <1>8, <1>9, <1>10

\* Configuration audits by plugins follow the protocol of scans, for any number of
\* resources, specs, configs, edits and faults: a report carries the two hashes of
\* a job that completed, and as long as nothing is edited and nothing fails no job
\* is deleted without the wanted report and no report is deleted.
THEOREM AuditsFollowProtocol == Spec => FollowsProtocol
<1>1. Init => CalmInv /\ Protocol!Init
      BY ProtocolInit
<1>2. CalmInv /\ [Next]_vars => CalmInv'
      BY CalmStep
<1>3. CalmInv /\ [Next]_vars =>
        [Protocol!Next]_<<Wanted, Scan, Ended, Reports, edits > 0, faults > 0>>
      BY ProtocolStep
<1> QED BY <1>1, <1>2, <1>3, PTL DEF Spec, FollowsProtocol, Protocol!Spec

-----------------------------------------------------------------------------
(***************************************************************************)
(* The CIS benchmark controllers, for any number of nodes, edits and       *)
(* faults and any limit of scan jobs: types, that the results of a         *)
(* benchmark are not lost, and that the benchmarks implement ScanProtocol. *)
(***************************************************************************)
CONSTANT Nodes

VARIABLES node, cNode, otherJobs

CIS == INSTANCE CISKubeBench

\* The pass over a complete job holds a report from GetNode on.
OutKnown ==
  jobWork # Idle /\ jobWork.pc \in {"report", "logs", "write"} => jobWork.out \in CIS!Report

\* Each job of another scanner was an edit.
OthersCounted == otherJobs <= edits

\* As long as nobody interferes, the cached nodes and reports exist and belong
\* together, so that the garbage collector has nothing to do.
ReportsKept ==
  edits = 0 =>
    /\ \A n \in Nodes :
         /\ node[n] = 1 /\ cNode[n] = 1
         /\ report[n] # NoReport => report[n].owner = 1
         /\ cReport[n] # NoReport => report[n] # NoReport /\ cReport[n].owner = 1
    /\ jobWork # Idle /\ jobWork.pc \in {"report", "logs", "write"} => jobWork.out.owner = 1

\* As long as nobody interferes, only the pass over a job deletes it, so that a
\* pass, and a key that leads to one, is about the job that has the name.
PassesKnown ==
  edits = 0 =>
    /\ \A n \in jobQueue : CIS!JobHasAnyCondition(cJob[n]) =>
         CIS!JobHasAnyCondition(job[n]) /\ n \notin jobLag
    /\ jobWork # Idle =>
         /\ CIS!JobHasAnyCondition(job[jobWork.key])
         /\ jobWork.key \notin jobLag /\ jobWork.key \notin jobQueue

\* A pass that is about to delete a complete job knows the report to exist, or
\* the job to have lost its pod.
DeletesKnown ==
  /\ edits = 0 /\ jobWork # Idle /\ jobWork.pc = "delete" /\ jobWork.cond = "complete" =>
       \/ report[jobWork.key] # NoReport
       \/ job[jobWork.key] # NoJob /\ ~job[jobWork.key].pod
  /\ jobWork # Idle /\ jobWork.pc = "statuses" => jobWork.cond = "failed"

CISInv == CIS!TypeOK /\ OutKnown /\ OthersCounted /\ ReportsKept /\ PassesKnown /\ DeletesKnown

-----------------------------------------------------------------------------
(* Types, in groups of variables                                            *)

CISNodeType ==
  /\ node \in [Nodes -> CIS!Uids \cup {CIS!Absent}]
  /\ cNode \in [Nodes -> CIS!Uids \cup {CIS!Absent}]
CISJobType ==
  /\ job \in [Nodes -> CIS!Job \cup {NoJob}] /\ cJob \in [Nodes -> CIS!Job \cup {NoJob}]
  /\ jobLag \subseteq Nodes
CISReportType ==
  /\ report \in [Nodes -> CIS!Report \cup {NoReport}] /\ cReport \in [Nodes -> CIS!Report \cup {NoReport}]
  /\ reportLag \subseteq Nodes
CISWorkerType == queue \subseteq Nodes /\ delayed \subseteq Nodes /\ work \in CIS!NodeTask \cup {Idle}
CISCollectorType == jobQueue \subseteq Nodes /\ jobWork \in CIS!JobTask \cup {Idle}
CISBoundType == edits \in 0..MaxEdits /\ faults \in 0..MaxFaults /\ otherJobs \in 0..MaxEdits

\* Together they are the type invariant.
LEMMA CISTypeParts ==
  CIS!TypeOK <=> CISNodeType /\ CISJobType /\ CISReportType
                 /\ CISWorkerType /\ CISCollectorType /\ CISBoundType
BY DEF CIS!TypeOK, CISNodeType, CISJobType, CISReportType, CISWorkerType, CISCollectorType, CISBoundType

\* What a pass over a job keeps when it moves on.
LEMMA PassMoves ==
  ASSUME NEW p, jobWork \in CIS!JobTask, CIS!JobGoTo(p)
  PROVE  /\ jobWork'.pc = p /\ jobWork'.key = jobWork.key
         /\ jobWork'.cond = jobWork.cond /\ jobWork'.out = jobWork.out
BY DEF CIS!JobGoTo, CIS!JobTask

\* What getting the node does to the pass.
LEMMA NodeGot ==
  ASSUME jobWork \in CIS!JobTask, CIS!GetNode
  PROVE  \/ cNode[jobWork.key] = CIS!Absent /\ CIS!JobGoTo("delete")
         \/ /\ cNode[jobWork.key] # CIS!Absent
            /\ jobWork'.pc = "report" /\ jobWork'.out.owner = cNode[jobWork.key]
<1> DEFINE o == [owner |-> cNode[jobWork.key], scanned |-> CIS!Absent, data |-> "empty"]
<1>1. o.owner = cNode[jobWork.key]
      OBVIOUS
<1>2. \/ cNode[jobWork.key] = CIS!Absent /\ CIS!JobGoTo("delete")
      \/ cNode[jobWork.key] # CIS!Absent /\ jobWork' = [jobWork EXCEPT !.pc = "report", !.out = o]
      BY DEF CIS!GetNode
<1> HIDE DEF o
<1> QED BY <1>1, <1>2 DEF CIS!JobTask

\* What reading the logs makes of the report that a pass holds.
LEMMA LogsRead ==
  ASSUME CISJobType, jobWork \in CIS!JobTask, jobWork.out \in CIS!Report, job[jobWork.key] # NoJob,
         NEW d \in {"results", "empty"}
  PROVE  LET w == CIS!ReportData(job[jobWork.key], d)
         IN /\ w \in CIS!JobTask /\ w.pc = "write" /\ w.key = jobWork.key /\ w.cond = jobWork.cond
            /\ w.out \in CIS!Report /\ w.out.owner = jobWork.out.owner
<1> DEFINE live == job[jobWork.key]
           o == [[jobWork.out EXCEPT !.scanned = live.scanned] EXCEPT !.data = d]
<1>1. live.scanned \in CIS!Uids \cup {CIS!Absent}
      BY DEF CISJobType, CIS!Job, CIS!JobTask
<1>2. o \in CIS!Report /\ o.owner = jobWork.out.owner
      BY <1>1 DEF CIS!Report
<1>3. CIS!ReportData(live, d) = [jobWork EXCEPT !.pc = "write", !.out = o]
      BY DEF CIS!ReportData, CIS!JobTask
<1> HIDE DEF o
<1> QED BY <1>2, <1>3 DEF CIS!JobTask

\* A job that ends is a job with a condition.
LEMMA CISFinishedJob ==
  ASSUME CISNodeType, CISJobType, NEW n \in Nodes, CIS!FinishJob(n)
  PROVE  \E j \in CIS!Job : CIS!SetJob(n, j) /\ j.cond # "none"
<1>1. job[n] \in CIS!Job
      BY DEF CIS!FinishJob, CISJobType
<1>2. [job[n] EXCEPT !.cond = "failed"] \in CIS!Job /\ [job[n] EXCEPT !.cond = "failed"].cond # "none"
      BY <1>1 DEF CIS!Job
<1> DEFINE c == [scanned |-> node[n], cond |-> "complete", pod |-> TRUE]
<1>3. c \in CIS!Job /\ c.cond # "none"
      BY DEF CISNodeType, CIS!Job
<1>4. CIS!SetJob(n, [job[n] EXCEPT !.cond = "failed"]) \/ CIS!SetJob(n, c)
      BY DEF CIS!FinishJob, CIS!NodeOfPod
<1> HIDE DEF c
<1> QED BY <1>2, <1>3, <1>4

\* A job that loses its pod has a condition, and nothing else changes.
LEMMA PodLost ==
  ASSUME CISJobType, NEW n \in Nodes, CIS!LosePod(n)
  PROVE  /\ job[n] \in CIS!Job /\ job[n].cond # "none"
         /\ \E j \in CIS!Job : /\ job' = [job EXCEPT ![n] = j]
                            /\ j.pod = FALSE /\ j.cond = job[n].cond
<1>1. job[n] \in CIS!Job /\ job[n].cond # "none"
      BY DEF CIS!LosePod, CIS!JobHasAnyCondition, CISJobType
<1> DEFINE j == [job[n] EXCEPT !.pod = FALSE]
<1>2. j \in CIS!Job /\ j.pod = FALSE /\ j.cond = job[n].cond
      BY <1>1 DEF CIS!Job
<1>3. job' = [job EXCEPT ![n] = j]
      BY DEF CIS!LosePod
<1> HIDE DEF j
<1> QED BY <1>1, <1>2, <1>3

\* A job that gets its pod has no condition, and nothing else changes.
LEMMA PodCreated ==
  ASSUME CISJobType, NEW n \in Nodes, CIS!CreatePod(n)
  PROVE  /\ job[n] \in CIS!Job /\ job[n].cond = "none"
         /\ \E j \in CIS!Job : job' = [job EXCEPT ![n] = j] /\ j.cond = job[n].cond
<1>1. job[n] \in CIS!Job /\ job[n].cond = "none"
      BY DEF CIS!CreatePod, CISJobType
<1> DEFINE j == [job[n] EXCEPT !.pod = TRUE]
<1>2. j \in CIS!Job /\ j.cond = job[n].cond
      BY <1>1 DEF CIS!Job
<1>3. job' = [job EXCEPT ![n] = j]
      BY DEF CIS!CreatePod
<1> HIDE DEF j
<1> QED BY <1>1, <1>2, <1>3

\* Nodes keep their types: an edit gives a uid that was not used.
LEMMA CISNodeStep ==
  ASSUME CIS!ConstantsAssumption, CISNodeType, CISBoundType, [CIS!Next]_CIS!vars
  PROVE  CISNodeType'
<1> USE DEF CIS!ConstantsAssumption
<1>1. ASSUME NEW n \in Nodes, CIS!EditNode(n) PROVE CISNodeType'
      BY <1>1 DEF CIS!EditNode, CIS!Edit, CIS!jobVars, CIS!reportVars, CIS!workerVars, CIS!collectorVars,
          CISNodeType, CISBoundType, CIS!Uids, CIS!Absent
<1>2. ASSUME NEW n \in Nodes, CIS!SyncNode(n) PROVE CISNodeType'
      BY <1>2 DEF CIS!SyncNode, CIS!jobVars, CIS!reportVars, CIS!collectorVars, CIS!boundVars,
         CISNodeType,
          CISBoundType, CIS!Uids, CIS!Absent
<1>3. CASE CIS!Restart
      BY <1>3 DEF CIS!Restart, CIS!Fault, CISNodeType, CISBoundType, CIS!Uids, CIS!Absent
<1>4. CASE UNCHANGED <<node, cNode>>
      BY <1>4 DEF CISNodeType
<1>5. ASSUME NEW n \in Nodes,
             CIS!CreatePod(n) \/ CIS!FinishJob(n) \/ CIS!LosePod(n) \/ CIS!UserDeletes(n) \/ CIS!CollectReport(n)
             \/ CIS!Heartbeat(n) \/ CIS!SyncReport(n)
      PROVE  UNCHANGED <<node, cNode>>
      BY <1>5 DEF CIS!FinishJob, CIS!Fault, CIS!SetJob, CIS!NodeOfPod, CIS!nodeVars, CIS!reportVars,
         CIS!workerVars,
          CIS!collectorVars, CIS!boundVars, CIS!CreatePod, CIS!LosePod, CIS!UserDeletes, CIS!Edit, CIS!SetReport,
          CIS!CollectReport,
          CIS!jobVars, CIS!Heartbeat, CIS!SyncReport
<1>6. ASSUME NEW n \in Nodes,
             CIS!SyncJob(n) \/ CIS!FireDelayed(n) \/ CIS!ReconcileNodes(n) \/ CIS!ReconcileJobs(n)
      PROVE  UNCHANGED <<node, cNode>>
      BY <1>6 DEF CIS!SyncJob, CIS!nodeVars, CIS!reportVars, CIS!workerVars, CIS!boundVars,
         CIS!FireDelayed,
          CIS!jobVars, CIS!collectorVars, CIS!ReconcileNodes, CIS!ReconcileJobs
<1>7. CIS!StartOtherJob \/ CIS!EndOtherJob \/ CIS!CheckReport \/ CIS!CheckJob \/ CIS!CheckLimit
      \/ CIS!CreateJob
      => UNCHANGED <<node, cNode>>
      BY DEF CIS!StartOtherJob, CIS!Edit, CIS!nodeVars, CIS!reportVars, CIS!workerVars,
         CIS!collectorVars,
          CIS!EndOtherJob, CIS!boundVars, CIS!CheckReport, CIS!At, CIS!GoTo, CIS!Done, CIS!jobVars,
          CIS!CheckJob,
          CIS!CheckLimit, CIS!CreateJob, CIS!SetJob, CIS!NewScanJob
<1>8. CIS!NodeError \/ CIS!GetNode \/ CIS!CheckJobReport \/ CIS!ReadLogs \/ CIS!WriteReport
      \/ CIS!GetStatuses
      => UNCHANGED <<node, cNode>>
      BY DEF CIS!NodeError, CIS!Fault, CIS!At, CIS!jobVars, CIS!nodeVars, CIS!reportVars,
         CIS!collectorVars, CIS!GetNode,
          CIS!JobAt, CIS!JobGoTo, CIS!JobNoWrite, CIS!boundVars, CIS!workerVars, CIS!CheckJobReport,
          CIS!ReadLogs,
          CIS!JobDone, CIS!ReportData, CIS!WriteReport, CIS!SetReport, CIS!JobRetry, CIS!GetStatuses
<1>9. CIS!DeleteJob \/ CIS!JobError
      => UNCHANGED <<node, cNode>>
      BY DEF CIS!DeleteJob, CIS!SetJob, CIS!JobAt, CIS!JobDone, CIS!reportVars, CIS!boundVars,
         CIS!nodeVars,
          CIS!workerVars, CIS!JobError, CIS!Fault, CIS!JobRetry, CIS!JobNoWrite
<1>10. UNCHANGED CIS!vars => UNCHANGED <<node, cNode>>
      BY DEF CIS!vars
<1> QED BY <1>1, <1>2, <1>3, <1>4, <1>5, <1>6, <1>7, <1>8, <1>9, <1>10 DEF CIS!Next, CIS!ClusterNext,
    CIS!SyncNext, CIS!NodeWorker, CIS!JobWorker

\* So do jobs.
LEMMA CISJobStep ==
  ASSUME CIS!ConstantsAssumption, CISNodeType, CISJobType, CISWorkerType, CISCollectorType, [CIS!Next]_CIS!vars
  PROVE  CISJobType'
<1> USE DEF CIS!ConstantsAssumption
<1>1. ASSUME NEW n \in Nodes, CIS!FinishJob(n) PROVE CISJobType'
      BY <1>1, CISFinishedJob DEF CIS!SetJob, CISJobType
<1>2. ASSUME NEW n \in Nodes, CIS!LosePod(n) \/ CIS!CreatePod(n) PROVE CISJobType'
      BY <1>2, PodLost, PodCreated DEF CIS!LosePod, CIS!CreatePod, CISJobType
<1>3. ASSUME NEW n \in Nodes, CIS!UserDeletes(n) PROVE CISJobType'
      BY <1>3 DEF CIS!UserDeletes, CIS!Edit, CIS!SetJob, CIS!SetReport, CIS!nodeVars, CIS!reportVars,
         CIS!workerVars,
          CIS!collectorVars, CISNodeType, CISJobType, CIS!Job
<1>4. ASSUME NEW n \in Nodes, CIS!SyncJob(n) PROVE CISJobType'
      BY <1>4 DEF CIS!SyncJob, CIS!nodeVars, CIS!reportVars, CIS!workerVars, CIS!boundVars, CISNodeType,
         CISJobType,
          CIS!Job
<1>5. CASE CIS!Restart
      BY <1>5 DEF CIS!Restart, CIS!Fault, CISNodeType, CISJobType, CIS!Job
<1>6. CASE CIS!CreateJob
  <2>1. work.key \in Nodes
        BY <1>6 DEF CIS!CreateJob, CIS!At, CISWorkerType, CIS!NodeTask
  <2>2. CIS!NewScanJob \in CIS!Job
        BY DEF CIS!NewScanJob, CIS!Job
  <2> QED BY <1>6, <2>1, <2>2 DEF CIS!CreateJob, CIS!SetJob, CISJobType
<1>7. CASE CIS!DeleteJob
  <2>1. jobWork.key \in Nodes
        BY <1>7 DEF CIS!DeleteJob, CIS!JobAt, CISCollectorType, CIS!JobTask
  <2> QED BY <1>7, <2>1 DEF CIS!DeleteJob, CIS!SetJob, CISJobType
<1>8. CASE UNCHANGED <<job, cJob, jobLag>>
      BY <1>8 DEF CISJobType
<1>9. ASSUME NEW n \in Nodes,
             CIS!EditNode(n) \/ CIS!CollectReport(n) \/ CIS!SyncNode(n) \/ CIS!Heartbeat(n)
             \/ CIS!SyncReport(n) \/ CIS!FireDelayed(n)
      PROVE  UNCHANGED <<job, cJob, jobLag>>
      BY <1>9 DEF CIS!EditNode, CIS!Edit, CIS!jobVars, CIS!reportVars, CIS!workerVars, CIS!collectorVars,
          CIS!CollectReport, CIS!SetReport, CIS!nodeVars, CIS!boundVars, CIS!SyncNode, CIS!Heartbeat,
          CIS!SyncReport,
          CIS!FireDelayed
<1>10. ASSUME NEW n \in Nodes,
             CIS!ReconcileNodes(n) \/ CIS!ReconcileJobs(n)
      PROVE  UNCHANGED <<job, cJob, jobLag>>
      BY <1>10 DEF CIS!ReconcileNodes, CIS!nodeVars, CIS!jobVars, CIS!reportVars, CIS!collectorVars,
          CIS!boundVars, CIS!ReconcileJobs, CIS!workerVars
<1>11. CIS!StartOtherJob \/ CIS!EndOtherJob \/ CIS!CheckReport \/ CIS!CheckJob \/ CIS!CheckLimit
       \/ CIS!NodeError
      => UNCHANGED <<job, cJob, jobLag>>
      BY DEF CIS!StartOtherJob, CIS!Edit, CIS!nodeVars, CIS!reportVars, CIS!workerVars,
         CIS!collectorVars,
          CIS!EndOtherJob, CIS!boundVars, CIS!CheckReport, CIS!At, CIS!GoTo, CIS!Done, CIS!jobVars,
          CIS!CheckJob,
          CIS!CheckLimit, CIS!NodeError, CIS!Fault
<1>12. CIS!GetNode \/ CIS!CheckJobReport \/ CIS!ReadLogs \/ CIS!WriteReport \/ CIS!GetStatuses
       \/ CIS!JobError
      => UNCHANGED <<job, cJob, jobLag>>
      BY DEF CIS!GetNode, CIS!JobAt, CIS!JobGoTo, CIS!JobNoWrite, CIS!boundVars, CIS!nodeVars,
         CIS!workerVars,
          CIS!reportVars, CIS!CheckJobReport, CIS!ReadLogs, CIS!Fault, CIS!JobDone, CIS!ReportData,
          CIS!WriteReport,
          CIS!SetReport, CIS!JobRetry, CIS!GetStatuses, CIS!JobError
<1>13. UNCHANGED CIS!vars => UNCHANGED <<job, cJob, jobLag>>
      BY DEF CIS!vars
<1> QED BY <1>1, <1>2, <1>3, <1>4, <1>5, <1>6, <1>7, <1>8, <1>9, <1>10, <1>11, <1>12, <1>13 DEF
    CIS!Next, CIS!ClusterNext, CIS!SyncNext, CIS!NodeWorker, CIS!JobWorker

\* So do reports.
LEMMA CISReportStep ==
  ASSUME CIS!ConstantsAssumption, CISReportType, CISCollectorType, OutKnown, [CIS!Next]_CIS!vars
  PROVE  CISReportType'
<1> USE DEF CIS!ConstantsAssumption
<1>1. ASSUME NEW n \in Nodes, CIS!UserDeletes(n) PROVE CISReportType'
      BY <1>1 DEF CIS!UserDeletes, CIS!Edit, CIS!SetJob, CIS!SetReport, CIS!nodeVars, CIS!reportVars,
         CIS!workerVars,
          CIS!collectorVars, CISReportType
<1>2. ASSUME NEW n \in Nodes, CIS!CollectReport(n) PROVE CISReportType'
      BY <1>2 DEF CIS!CollectReport, CIS!SetReport, CIS!nodeVars, CIS!jobVars, CIS!workerVars,
         CIS!collectorVars,
          CIS!boundVars, CISReportType
<1>3. ASSUME NEW n \in Nodes, CIS!SyncReport(n) PROVE CISReportType'
      BY <1>3 DEF CIS!SyncReport, CIS!nodeVars, CIS!jobVars, CIS!collectorVars, CIS!boundVars,
         CISReportType
<1>4. CASE CIS!Restart
      BY <1>4 DEF CIS!Restart, CIS!Fault, CISReportType
<1>5. CASE CIS!WriteReport
  <2>1. jobWork.key \in Nodes /\ jobWork.out \in CIS!Report
        BY <1>5 DEF CIS!WriteReport, CIS!JobAt, CISCollectorType, CIS!JobTask, OutKnown
  <2>2. \A r \in CIS!Report : [jobWork.out EXCEPT !.owner = r.owner] \in CIS!Report
        BY <2>1 DEF CIS!Report
  <2> QED BY <1>5, <2>1, <2>2 DEF CIS!WriteReport, CIS!SetReport, CISReportType, CIS!reportVars
<1>6. CASE UNCHANGED <<report, cReport, reportLag>>
      BY <1>6 DEF CISReportType
<1>7. ASSUME NEW n \in Nodes,
             CIS!EditNode(n) \/ CIS!CreatePod(n) \/ CIS!FinishJob(n) \/ CIS!LosePod(n) \/ CIS!SyncNode(n)
             \/ CIS!Heartbeat(n) \/ CIS!SyncJob(n)
      PROVE  UNCHANGED <<report, cReport, reportLag>>
      BY <1>7 DEF CIS!EditNode, CIS!Edit, CIS!jobVars, CIS!reportVars, CIS!workerVars, CIS!collectorVars,
          CIS!FinishJob, CIS!Fault, CIS!SetJob, CIS!NodeOfPod, CIS!nodeVars, CIS!boundVars, CIS!CreatePod, CIS!LosePod,
          CIS!SyncNode,
          CIS!Heartbeat, CIS!SyncJob
<1>8. ASSUME NEW n \in Nodes,
             CIS!FireDelayed(n) \/ CIS!ReconcileNodes(n) \/ CIS!ReconcileJobs(n)
      PROVE  UNCHANGED <<report, cReport, reportLag>>
      BY <1>8 DEF CIS!FireDelayed, CIS!nodeVars, CIS!jobVars, CIS!reportVars, CIS!collectorVars,
         CIS!boundVars,
          CIS!ReconcileNodes, CIS!ReconcileJobs, CIS!workerVars
<1>9. CIS!StartOtherJob \/ CIS!EndOtherJob \/ CIS!CheckReport \/ CIS!CheckJob \/ CIS!CheckLimit
      \/ CIS!CreateJob
      => UNCHANGED <<report, cReport, reportLag>>
      BY DEF CIS!StartOtherJob, CIS!Edit, CIS!nodeVars, CIS!reportVars, CIS!workerVars,
         CIS!collectorVars,
          CIS!EndOtherJob, CIS!boundVars, CIS!CheckReport, CIS!At, CIS!GoTo, CIS!Done, CIS!jobVars,
          CIS!CheckJob,
          CIS!CheckLimit, CIS!CreateJob, CIS!SetJob, CIS!NewScanJob
<1>10. CIS!NodeError \/ CIS!GetNode \/ CIS!CheckJobReport \/ CIS!ReadLogs \/ CIS!GetStatuses
       \/ CIS!DeleteJob
      => UNCHANGED <<report, cReport, reportLag>>
      BY DEF CIS!NodeError, CIS!Fault, CIS!At, CIS!jobVars, CIS!nodeVars, CIS!reportVars,
         CIS!collectorVars, CIS!GetNode,
          CIS!JobAt, CIS!JobGoTo, CIS!JobNoWrite, CIS!boundVars, CIS!workerVars, CIS!CheckJobReport,
          CIS!ReadLogs,
          CIS!JobDone, CIS!ReportData, CIS!GetStatuses, CIS!DeleteJob, CIS!SetJob
<1>11. CIS!JobError
      => UNCHANGED <<report, cReport, reportLag>>
      BY DEF CIS!JobError, CIS!Fault, CIS!JobAt, CIS!JobRetry, CIS!JobNoWrite, CIS!nodeVars,
         CIS!workerVars,
          CIS!reportVars
<1>12. UNCHANGED CIS!vars => UNCHANGED <<report, cReport, reportLag>>
      BY DEF CIS!vars
<1> QED BY <1>1, <1>2, <1>3, <1>4, <1>5, <1>6, <1>7, <1>8, <1>9, <1>10, <1>11, <1>12 DEF CIS!Next,
    CIS!ClusterNext, CIS!SyncNext, CIS!NodeWorker, CIS!JobWorker

\* So does the worker of the nodes.
LEMMA CISWorkerStep ==
  ASSUME CIS!ConstantsAssumption, CISWorkerType, [CIS!Next]_CIS!vars
  PROVE  CISWorkerType'
<1> USE DEF CIS!ConstantsAssumption
<1>1. ASSUME NEW n \in Nodes, CIS!SyncNode(n) PROVE CISWorkerType'
      BY <1>1 DEF CIS!SyncNode, CIS!jobVars, CIS!reportVars, CIS!collectorVars, CIS!boundVars,
         CISWorkerType,
          CIS!NodeTask
<1>2. ASSUME NEW n \in Nodes, CIS!Heartbeat(n) PROVE CISWorkerType'
      BY <1>2 DEF CIS!Heartbeat, CIS!nodeVars, CIS!jobVars, CIS!reportVars, CIS!collectorVars,
         CIS!boundVars,
          CISWorkerType, CIS!NodeTask
<1>3. ASSUME NEW n \in Nodes, CIS!SyncReport(n) PROVE CISWorkerType'
      BY <1>3 DEF CIS!SyncReport, CIS!nodeVars, CIS!jobVars, CIS!collectorVars, CIS!boundVars,
         CISWorkerType,
          CIS!NodeTask
<1>4. ASSUME NEW n \in Nodes, CIS!FireDelayed(n) PROVE CISWorkerType'
      BY <1>4 DEF CIS!FireDelayed, CIS!nodeVars, CIS!jobVars, CIS!reportVars, CIS!collectorVars,
         CIS!boundVars,
          CISWorkerType, CIS!NodeTask
<1>5. ASSUME NEW n \in Nodes, CIS!ReconcileNodes(n) PROVE CISWorkerType'
      BY <1>5 DEF CIS!ReconcileNodes, CIS!nodeVars, CIS!jobVars, CIS!reportVars, CIS!collectorVars,
         CIS!boundVars,
          CISWorkerType, CIS!NodeTask
<1>6. CASE CIS!Restart
      BY <1>6 DEF CIS!Restart, CIS!Fault, CISWorkerType, CIS!NodeTask
<1>7. CASE CIS!CheckReport
      BY <1>7 DEF CIS!CheckReport, CIS!At, CIS!GoTo, CIS!Done, CIS!jobVars, CIS!boundVars, CIS!nodeVars,
         CIS!reportVars,
          CIS!collectorVars, CISWorkerType, CIS!NodeTask
<1>8. CASE CIS!CheckJob
      BY <1>8 DEF CIS!CheckJob, CIS!At, CIS!GoTo, CIS!Done, CIS!jobVars, CIS!boundVars, CIS!nodeVars,
         CIS!reportVars,
          CIS!collectorVars, CISWorkerType, CIS!NodeTask
<1>9. CASE CIS!CheckLimit
      BY <1>9 DEF CIS!CheckLimit, CIS!At, CIS!GoTo, CIS!jobVars, CIS!boundVars, CIS!nodeVars,
         CIS!reportVars,
          CIS!collectorVars, CISWorkerType, CIS!NodeTask
<1>10. CASE CIS!CreateJob
      BY <1>10 DEF CIS!CreateJob, CIS!SetJob, CIS!At, CIS!Done, CIS!NewScanJob, CIS!boundVars,
         CIS!nodeVars,
          CIS!reportVars, CIS!collectorVars, CISWorkerType, CIS!NodeTask
<1>11. CASE CIS!NodeError
      BY <1>11 DEF CIS!NodeError, CIS!Fault, CIS!At, CIS!jobVars, CIS!nodeVars, CIS!reportVars,
         CIS!collectorVars,
          CISWorkerType, CIS!NodeTask
<1>12. CASE UNCHANGED <<queue, delayed, work>>
      BY <1>12 DEF CISWorkerType
<1>13. ASSUME NEW n \in Nodes,
             CIS!EditNode(n) \/ CIS!CreatePod(n) \/ CIS!FinishJob(n) \/ CIS!LosePod(n) \/ CIS!UserDeletes(n)
             \/ CIS!CollectReport(n) \/ CIS!SyncJob(n)
      PROVE  UNCHANGED <<queue, delayed, work>>
      BY <1>13 DEF CIS!EditNode, CIS!Edit, CIS!jobVars, CIS!reportVars, CIS!workerVars,
         CIS!collectorVars,
          CIS!FinishJob, CIS!Fault, CIS!SetJob, CIS!NodeOfPod, CIS!nodeVars, CIS!boundVars, CIS!CreatePod, CIS!LosePod,
          CIS!UserDeletes,
          CIS!SetReport, CIS!CollectReport, CIS!SyncJob
<1>14. ASSUME NEW n \in Nodes,
             CIS!ReconcileJobs(n)
      PROVE  UNCHANGED <<queue, delayed, work>>
      BY <1>14 DEF CIS!ReconcileJobs, CIS!nodeVars, CIS!jobVars, CIS!reportVars, CIS!workerVars,
         CIS!boundVars
<1>15. CIS!StartOtherJob \/ CIS!EndOtherJob \/ CIS!GetNode \/ CIS!CheckJobReport \/ CIS!ReadLogs
       \/ CIS!WriteReport
      => UNCHANGED <<queue, delayed, work>>
      BY DEF CIS!StartOtherJob, CIS!Edit, CIS!nodeVars, CIS!reportVars, CIS!workerVars,
         CIS!collectorVars,
          CIS!EndOtherJob, CIS!boundVars, CIS!GetNode, CIS!JobAt, CIS!JobGoTo, CIS!JobNoWrite,
          CIS!CheckJobReport,
          CIS!ReadLogs, CIS!Fault, CIS!JobDone, CIS!ReportData, CIS!WriteReport, CIS!SetReport,
          CIS!JobRetry
<1>16. CIS!GetStatuses \/ CIS!DeleteJob \/ CIS!JobError
      => UNCHANGED <<queue, delayed, work>>
      BY DEF CIS!GetStatuses, CIS!JobAt, CIS!JobGoTo, CIS!JobDone, CIS!JobNoWrite, CIS!boundVars,
         CIS!nodeVars,
          CIS!workerVars, CIS!reportVars, CIS!DeleteJob, CIS!SetJob, CIS!JobError, CIS!Fault,
          CIS!JobRetry
<1>17. UNCHANGED CIS!vars => UNCHANGED <<queue, delayed, work>>
      BY DEF CIS!vars
<1> QED BY <1>1, <1>2, <1>3, <1>4, <1>5, <1>6, <1>7, <1>8, <1>9, <1>10, <1>11, <1>12, <1>13,
    <1>14, <1>15, <1>16, <1>17 DEF CIS!Next, CIS!ClusterNext, CIS!SyncNext, CIS!NodeWorker, CIS!JobWorker

\* So does that of the jobs.
LEMMA CISCollectorStep ==
  ASSUME CIS!ConstantsAssumption, CISNodeType, CISJobType, CISCollectorType, OutKnown, [CIS!Next]_CIS!vars
  PROVE  CISCollectorType' /\ OutKnown'
<1> USE DEF CIS!ConstantsAssumption
<1>1. ASSUME NEW n \in Nodes, CIS!SyncJob(n) PROVE CISCollectorType' /\ OutKnown'
      BY <1>1 DEF CIS!SyncJob, CIS!nodeVars, CIS!reportVars, CIS!workerVars, CIS!boundVars,
         CISCollectorType,
          CIS!JobTask, OutKnown
<1>2. ASSUME NEW n \in Nodes, CIS!ReconcileJobs(n) PROVE CISCollectorType' /\ OutKnown'
  <2>1. CIS!JobHasAnyCondition(cJob[n]) => cJob[n].cond \in {"complete", "failed"}
        BY DEF CISJobType, CIS!JobHasAnyCondition, CIS!Job
  <2> QED BY <1>2, <2>1 DEF CIS!ReconcileJobs, CISCollectorType, CIS!JobTask, OutKnown
<1>3. CASE CIS!Restart
      BY <1>3 DEF CIS!Restart, CIS!Fault, CISCollectorType, CIS!JobTask, OutKnown
<1>4. CASE CIS!GetNode
  <2>1. cNode[jobWork.key] # CIS!Absent =>
          [owner |-> cNode[jobWork.key], scanned |-> CIS!Absent, data |-> "empty"] \in CIS!Report
        BY <1>4 DEF CIS!GetNode, CIS!JobAt, CISCollectorType, CIS!JobTask, CISNodeType, CIS!Report
  <2> QED BY <1>4, <2>1 DEF CIS!GetNode, CIS!JobAt, CIS!JobGoTo, CISCollectorType, CIS!JobTask, OutKnown
<1>5. CASE CIS!CheckJobReport
      BY <1>5 DEF CIS!CheckJobReport, CIS!JobAt, CIS!JobGoTo, CIS!JobNoWrite, CIS!boundVars,
         CIS!nodeVars,
          CIS!workerVars, CIS!reportVars, CISCollectorType, CIS!JobTask, OutKnown
<1>6. CASE CIS!ReadLogs
  <2>1. jobWork \in CIS!JobTask /\ jobWork.key \in Nodes /\ jobWork.out \in CIS!Report
        BY <1>6 DEF CIS!ReadLogs, CIS!JobAt, CISCollectorType, CIS!JobTask, OutKnown
  <2>2. CASE job[jobWork.key] # NoJob /\ \E d \in {"results", "empty"} :
                jobWork' = CIS!ReportData(job[jobWork.key], d) /\ jobQueue' = jobQueue
        BY <2>1, <2>2, LogsRead DEF CISCollectorType, OutKnown
  <2>3. CASE CIS!JobDone \/ CIS!JobGoTo("delete")
        BY <2>1, <2>3 DEF CIS!JobDone, CIS!JobGoTo, CISCollectorType, OutKnown, CIS!JobTask
  <2> QED BY <1>6, <2>2, <2>3 DEF CIS!ReadLogs
<1>7. CASE CIS!WriteReport
      BY <1>7 DEF CIS!WriteReport, CIS!SetReport, CIS!JobAt, CIS!JobGoTo, CIS!JobRetry, CIS!reportVars,
         CIS!boundVars,
          CIS!nodeVars, CIS!workerVars, CISCollectorType, CIS!JobTask, OutKnown
<1>8. CASE CIS!GetStatuses
      BY <1>8 DEF CIS!GetStatuses, CIS!JobAt, CIS!JobGoTo, CIS!JobDone, CIS!JobNoWrite, CIS!boundVars,
         CIS!nodeVars,
          CIS!workerVars, CIS!reportVars, CISCollectorType, CIS!JobTask, OutKnown
<1>9. CASE CIS!DeleteJob
      BY <1>9 DEF CIS!DeleteJob, CIS!SetJob, CIS!JobAt, CIS!JobDone, CIS!reportVars, CIS!boundVars,
         CIS!nodeVars,
          CIS!workerVars, CISCollectorType, CIS!JobTask, OutKnown
<1>10. CASE CIS!JobError
      BY <1>10 DEF CIS!JobError, CIS!Fault, CIS!JobAt, CIS!JobRetry, CIS!JobNoWrite, CIS!nodeVars,
         CIS!workerVars,
          CIS!reportVars, CISCollectorType, CIS!JobTask, OutKnown
<1>11. CASE UNCHANGED <<jobQueue, jobWork>>
      BY <1>11 DEF CISCollectorType, OutKnown
<1>12. ASSUME NEW n \in Nodes,
             CIS!EditNode(n) \/ CIS!CreatePod(n) \/ CIS!FinishJob(n) \/ CIS!LosePod(n) \/ CIS!UserDeletes(n)
             \/ CIS!CollectReport(n) \/ CIS!SyncNode(n)
      PROVE  UNCHANGED <<jobQueue, jobWork>>
      BY <1>12 DEF CIS!EditNode, CIS!Edit, CIS!jobVars, CIS!reportVars, CIS!workerVars,
         CIS!collectorVars,
          CIS!FinishJob, CIS!Fault, CIS!SetJob, CIS!NodeOfPod, CIS!nodeVars, CIS!boundVars, CIS!CreatePod, CIS!LosePod,
          CIS!UserDeletes,
          CIS!SetReport, CIS!CollectReport, CIS!SyncNode
<1>13. ASSUME NEW n \in Nodes,
             CIS!Heartbeat(n) \/ CIS!SyncReport(n) \/ CIS!FireDelayed(n) \/ CIS!ReconcileNodes(n)
      PROVE  UNCHANGED <<jobQueue, jobWork>>
      BY <1>13 DEF CIS!Heartbeat, CIS!nodeVars, CIS!jobVars, CIS!reportVars, CIS!collectorVars,
         CIS!boundVars,
          CIS!SyncReport, CIS!FireDelayed, CIS!ReconcileNodes
<1>14. CIS!StartOtherJob \/ CIS!EndOtherJob \/ CIS!CheckReport \/ CIS!CheckJob \/ CIS!CheckLimit
       \/ CIS!CreateJob
      => UNCHANGED <<jobQueue, jobWork>>
      BY DEF CIS!StartOtherJob, CIS!Edit, CIS!nodeVars, CIS!reportVars, CIS!workerVars,
         CIS!collectorVars,
          CIS!EndOtherJob, CIS!boundVars, CIS!CheckReport, CIS!At, CIS!GoTo, CIS!Done, CIS!jobVars,
          CIS!CheckJob,
          CIS!CheckLimit, CIS!CreateJob, CIS!SetJob, CIS!NewScanJob
<1>15. CIS!NodeError
      => UNCHANGED <<jobQueue, jobWork>>
      BY DEF CIS!NodeError, CIS!Fault, CIS!At, CIS!jobVars, CIS!nodeVars, CIS!reportVars,
         CIS!collectorVars
<1>16. UNCHANGED CIS!vars => UNCHANGED <<jobQueue, jobWork>>
      BY DEF CIS!vars
<1> QED BY <1>1, <1>2, <1>3, <1>4, <1>5, <1>6, <1>7, <1>8, <1>9, <1>10, <1>11, <1>12, <1>13,
    <1>14, <1>15, <1>16 DEF CIS!Next, CIS!ClusterNext, CIS!SyncNext, CIS!NodeWorker, CIS!JobWorker

\* Edits, faults and the jobs of other scanners are bounded.
LEMMA CISBoundStep ==
  ASSUME CIS!ConstantsAssumption, CISBoundType, OthersCounted, [CIS!Next]_CIS!vars
  PROVE  CISBoundType' /\ OthersCounted'
<1> USE DEF CIS!ConstantsAssumption
<1>1. ASSUME NEW n \in Nodes, CIS!EditNode(n) PROVE CISBoundType' /\ OthersCounted'
      BY <1>1 DEF CIS!EditNode, CIS!Edit, CIS!jobVars, CIS!reportVars, CIS!workerVars, CIS!collectorVars,
          CISBoundType, OthersCounted
<1>2. ASSUME NEW n \in Nodes, CIS!FinishJob(n) PROVE CISBoundType' /\ OthersCounted'
      BY <1>2 DEF CIS!FinishJob, CIS!Fault, CIS!SetJob, CIS!NodeOfPod, CIS!nodeVars, CIS!reportVars,
         CIS!workerVars,
          CIS!collectorVars, CIS!boundVars, CISBoundType, OthersCounted
<1>3. ASSUME NEW n \in Nodes, CIS!LosePod(n) \/ CIS!CreatePod(n) PROVE CISBoundType' /\ OthersCounted'
      BY <1>3 DEF CIS!LosePod, CIS!CreatePod, CIS!boundVars, CIS!Fault, CIS!nodeVars, CIS!reportVars, CIS!workerVars,
         CIS!collectorVars,
          CISBoundType, OthersCounted
<1>4. ASSUME NEW n \in Nodes, CIS!UserDeletes(n) PROVE CISBoundType' /\ OthersCounted'
      BY <1>4 DEF CIS!UserDeletes, CIS!Edit, CIS!SetJob, CIS!SetReport, CIS!nodeVars, CIS!reportVars,
         CIS!workerVars,
          CIS!collectorVars, CISBoundType, OthersCounted
<1>5. CASE CIS!StartOtherJob
      BY <1>5 DEF CIS!StartOtherJob, CIS!Edit, CIS!nodeVars, CIS!reportVars, CIS!workerVars,
         CIS!collectorVars,
          CISBoundType, OthersCounted
<1>6. CASE CIS!EndOtherJob
      BY <1>6 DEF CIS!EndOtherJob, CIS!nodeVars, CIS!reportVars, CIS!workerVars, CIS!collectorVars,
         CIS!boundVars,
          CISBoundType, OthersCounted
<1>7. CASE CIS!Restart
      BY <1>7 DEF CIS!Restart, CIS!Fault, CISBoundType, OthersCounted
<1>8. CASE CIS!NodeError
      BY <1>8 DEF CIS!NodeError, CIS!Fault, CIS!At, CIS!jobVars, CIS!nodeVars, CIS!reportVars,
         CIS!collectorVars,
          CISBoundType, OthersCounted
<1>9. CASE CIS!ReadLogs
      BY <1>9 DEF CIS!ReadLogs, CIS!Fault, CIS!JobAt, CIS!JobGoTo, CIS!JobDone, CIS!JobNoWrite,
         CIS!ReportData,
          CIS!boundVars, CIS!nodeVars, CIS!workerVars, CIS!reportVars, CISBoundType, OthersCounted
<1>10. CASE CIS!JobError
      BY <1>10 DEF CIS!JobError, CIS!Fault, CIS!JobAt, CIS!JobRetry, CIS!JobNoWrite, CIS!nodeVars,
         CIS!workerVars,
          CIS!reportVars, CISBoundType, OthersCounted
<1>11. CASE UNCHANGED <<edits, faults, otherJobs>>
      BY <1>11 DEF CISBoundType, OthersCounted
<1>12. ASSUME NEW n \in Nodes,
             CIS!CollectReport(n) \/ CIS!SyncNode(n) \/ CIS!Heartbeat(n) \/ CIS!SyncReport(n)
             \/ CIS!SyncJob(n) \/ CIS!FireDelayed(n)
      PROVE  UNCHANGED <<edits, faults, otherJobs>>
      BY <1>12 DEF CIS!CollectReport, CIS!SetReport, CIS!nodeVars, CIS!jobVars, CIS!workerVars,
         CIS!collectorVars,
          CIS!boundVars, CIS!SyncNode, CIS!reportVars, CIS!Heartbeat, CIS!SyncReport, CIS!SyncJob,
          CIS!FireDelayed
<1>13. ASSUME NEW n \in Nodes,
             CIS!ReconcileNodes(n) \/ CIS!ReconcileJobs(n)
      PROVE  UNCHANGED <<edits, faults, otherJobs>>
      BY <1>13 DEF CIS!ReconcileNodes, CIS!nodeVars, CIS!jobVars, CIS!reportVars, CIS!collectorVars,
          CIS!boundVars, CIS!ReconcileJobs, CIS!workerVars
<1>14. CIS!CheckReport \/ CIS!CheckJob \/ CIS!CheckLimit \/ CIS!CreateJob \/ CIS!GetNode
       \/ CIS!CheckJobReport
      => UNCHANGED <<edits, faults, otherJobs>>
      BY DEF CIS!CheckReport, CIS!At, CIS!GoTo, CIS!Done, CIS!jobVars, CIS!boundVars, CIS!nodeVars,
         CIS!reportVars,
          CIS!collectorVars, CIS!CheckJob, CIS!CheckLimit, CIS!CreateJob, CIS!SetJob, CIS!NewScanJob,
          CIS!GetNode,
          CIS!JobAt, CIS!JobGoTo, CIS!JobNoWrite, CIS!workerVars, CIS!CheckJobReport
<1>15. CIS!WriteReport \/ CIS!GetStatuses \/ CIS!DeleteJob
      => UNCHANGED <<edits, faults, otherJobs>>
      BY DEF CIS!WriteReport, CIS!SetReport, CIS!JobAt, CIS!JobGoTo, CIS!JobRetry, CIS!reportVars,
         CIS!boundVars,
          CIS!nodeVars, CIS!workerVars, CIS!GetStatuses, CIS!JobDone, CIS!JobNoWrite, CIS!DeleteJob,
          CIS!SetJob
<1>16. UNCHANGED CIS!vars => UNCHANGED <<edits, faults, otherJobs>>
      BY DEF CIS!vars
<1> QED BY <1>1, <1>2, <1>3, <1>4, <1>5, <1>6, <1>7, <1>8, <1>9, <1>10, <1>11, <1>12, <1>13,
    <1>14, <1>15, <1>16 DEF CIS!Next, CIS!ClusterNext, CIS!SyncNext, CIS!NodeWorker, CIS!JobWorker

\* Every action keeps the types.
LEMMA CISTypeStep ==
  ASSUME CIS!ConstantsAssumption, CIS!TypeOK, OutKnown, OthersCounted, [CIS!Next]_CIS!vars
  PROVE  (CIS!TypeOK /\ OutKnown /\ OthersCounted)'
<1>1. CISNodeType /\ CISJobType /\ CISReportType /\ CISWorkerType /\ CISCollectorType /\ CISBoundType
      BY CISTypeParts
<1>2. CISNodeType' /\ CISJobType' /\ CISReportType' /\ CISWorkerType' /\ CISCollectorType' /\ CISBoundType'
      BY <1>1, CISNodeStep, CISJobStep, CISReportStep, CISWorkerStep, CISCollectorStep, CISBoundStep
<1>3. OutKnown' /\ OthersCounted'
      BY <1>1, CISCollectorStep, CISBoundStep
<1> QED BY <1>2, <1>3 DEF CIS!TypeOK, CISNodeType, CISJobType, CISReportType, CISWorkerType,
           CISCollectorType, CISBoundType

-----------------------------------------------------------------------------
(* Results                                                                  *)

\* Without edits no report disappears or changes its owner.
LEMMA KeptStep ==
  ASSUME CIS!ConstantsAssumption, CIS!TypeOK, OutKnown, ReportsKept, [CIS!Next]_CIS!vars
  PROVE  ReportsKept'
<1> USE DEF CIS!ConstantsAssumption
<1>1. ASSUME NEW n \in Nodes, CIS!EditNode(n) PROVE ReportsKept'
      BY <1>1 DEF CIS!EditNode, CIS!Edit, CIS!jobVars, CIS!reportVars, CIS!workerVars, CIS!collectorVars,
          ReportsKept, CIS!TypeOK
<1>2. ASSUME NEW n \in Nodes, CIS!UserDeletes(n) PROVE ReportsKept'
      BY <1>2 DEF CIS!UserDeletes, CIS!Edit, CIS!SetJob, CIS!SetReport, CIS!nodeVars, CIS!reportVars,
         CIS!workerVars,
          CIS!collectorVars, ReportsKept, CIS!TypeOK
<1>3. ASSUME NEW n \in Nodes, CIS!CollectReport(n) PROVE ReportsKept'
      BY <1>3 DEF CIS!CollectReport, CIS!SetReport, CIS!nodeVars, CIS!jobVars, CIS!workerVars,
         CIS!collectorVars,
          CIS!boundVars, ReportsKept, CIS!TypeOK
<1>4. ASSUME NEW n \in Nodes, CIS!SyncNode(n) PROVE ReportsKept'
      BY <1>4 DEF CIS!SyncNode, CIS!jobVars, CIS!reportVars, CIS!collectorVars, CIS!boundVars,
         ReportsKept,
          CIS!TypeOK
<1>5. ASSUME NEW n \in Nodes, CIS!SyncReport(n) PROVE ReportsKept'
      BY <1>5 DEF CIS!SyncReport, CIS!nodeVars, CIS!jobVars, CIS!collectorVars, CIS!boundVars,
         ReportsKept,
          CIS!TypeOK
<1>6. ASSUME NEW n \in Nodes, CIS!ReconcileJobs(n) PROVE ReportsKept'
      BY <1>6 DEF CIS!ReconcileJobs, CIS!nodeVars, CIS!jobVars, CIS!reportVars, CIS!workerVars,
         CIS!boundVars,
          ReportsKept, CIS!TypeOK
<1>7. CASE CIS!StartOtherJob
      BY <1>7 DEF CIS!StartOtherJob, CIS!Edit, CIS!nodeVars, CIS!reportVars, CIS!workerVars,
         CIS!collectorVars,
          ReportsKept, CIS!TypeOK
<1>8. CASE CIS!Restart
      BY <1>8 DEF CIS!Restart, CIS!Fault, ReportsKept, CIS!TypeOK
<1>9. CASE CIS!GetNode
  <2>1. jobWork \in CIS!JobTask /\ jobWork.key \in Nodes
        BY <1>9 DEF CIS!GetNode, CIS!JobAt, CIS!TypeOK, CIS!JobTask
  <2>2. UNCHANGED <<node, cNode, report, cReport, edits>>
        BY <1>9 DEF CIS!GetNode, CIS!JobAt, CIS!JobNoWrite, CIS!nodeVars, CIS!reportVars, CIS!boundVars
  <2> QED BY <1>9, <2>1, <2>2, NodeGot, PassMoves DEF ReportsKept, CIS!Absent
<1>10. CASE CIS!CheckJobReport
  <2>1. jobWork \in CIS!JobTask /\ jobWork.key \in Nodes
        BY <1>10 DEF CIS!CheckJobReport, CIS!JobAt, CIS!TypeOK, CIS!JobTask
  <2> QED BY <1>10, <2>1, PassMoves DEF CIS!CheckJobReport, CIS!JobAt, CIS!JobNoWrite, CIS!boundVars,
             CIS!nodeVars, CIS!workerVars, CIS!reportVars, ReportsKept
<1>11. CASE CIS!ReadLogs
  <2>1. jobWork \in CIS!JobTask /\ jobWork.key \in Nodes /\ jobWork.out \in CIS!Report
        BY <1>11 DEF CIS!ReadLogs, CIS!JobAt, CIS!TypeOK, CIS!JobTask, OutKnown
  <2>2. CASE job[jobWork.key] # NoJob /\ \E d \in {"results", "empty"} :
                jobWork' = CIS!ReportData(job[jobWork.key], d)
        BY <1>11, <2>1, <2>2, LogsRead DEF CIS!ReadLogs, CIS!JobAt, CIS!JobNoWrite, CIS!Fault,
           CIS!boundVars, CIS!nodeVars,
           CIS!reportVars, CIS!TypeOK, CISJobType, ReportsKept
  <2>3. CASE CIS!JobDone
        BY <1>11, <2>3 DEF CIS!ReadLogs, CIS!JobAt, CIS!JobDone, CIS!JobNoWrite, CIS!Fault,
           CIS!boundVars, CIS!nodeVars, CIS!reportVars, ReportsKept
  <2>4. CASE job[jobWork.key] # NoJob /\ ~job[jobWork.key].pod /\ CIS!JobGoTo("delete")
        BY <1>11, <2>1, <2>4, PassMoves DEF CIS!ReadLogs, CIS!JobAt, CIS!JobNoWrite, CIS!Fault,
           CIS!boundVars,
           CIS!nodeVars, CIS!reportVars, ReportsKept
  <2> QED BY <1>11, <2>2, <2>3, <2>4 DEF CIS!ReadLogs
<1>12. CASE CIS!WriteReport
  <2>1. jobWork \in CIS!JobTask /\ jobWork.key \in Nodes /\ jobWork.out \in CIS!Report
        BY <1>12 DEF CIS!WriteReport, CIS!JobAt, CIS!TypeOK, CIS!JobTask, OutKnown
  <2>2. \A r \in CIS!Report : /\ [jobWork.out EXCEPT !.owner = r.owner] \in CIS!Report
                          /\ [jobWork.out EXCEPT !.owner = r.owner].owner = r.owner
        BY <2>1 DEF CIS!Report
  <2>3. CASE UNCHANGED CIS!reportVars /\ CIS!JobRetry
        BY <1>12, <2>1, <2>3 DEF CIS!WriteReport, CIS!JobRetry, CIS!JobAt, CIS!reportVars, CIS!nodeVars,
           CIS!boundVars, ReportsKept
  <2>4. CASE \E r \in CIS!Report :
                /\ CIS!SetReport(jobWork.key, r) /\ CIS!JobGoTo("delete")
                /\ edits = 0 => r.owner = 1
    <3>1. PICK r \in CIS!Report :
            /\ CIS!SetReport(jobWork.key, r) /\ CIS!JobGoTo("delete")
            /\ edits = 0 => r.owner = 1
          BY <2>4
    <3>2. report'[jobWork.key] = r /\ \A n \in Nodes : n # jobWork.key => report'[n] = report[n]
          BY <2>1, <3>1 DEF CIS!SetReport, CIS!TypeOK
    <3>3. jobWork'.pc = "delete" /\ jobWork'.key = jobWork.key
          BY <2>1, <3>1, PassMoves
    <3> QED BY <1>12, <2>1, <3>1, <3>2, <3>3 DEF CIS!WriteReport, CIS!JobAt, CIS!SetReport,
               CIS!nodeVars, CIS!boundVars, ReportsKept, CIS!ConstantsAssumption
  <2>5. cReport[jobWork.key] # NoReport => cReport[jobWork.key] \in CIS!Report
        BY <2>1 DEF CIS!TypeOK
  <2> QED BY <1>12, <2>1, <2>2, <2>3, <2>4, <2>5 DEF CIS!WriteReport, CIS!JobAt, ReportsKept
<1>13. CASE CIS!GetStatuses
  <2>1. jobWork \in CIS!JobTask /\ jobWork.key \in Nodes
        BY <1>13 DEF CIS!GetStatuses, CIS!JobAt, CIS!TypeOK, CIS!JobTask
  <2> QED BY <1>13, <2>1, PassMoves DEF CIS!GetStatuses, CIS!JobAt, CIS!JobDone, CIS!JobNoWrite,
             CIS!boundVars, CIS!nodeVars, CIS!workerVars, CIS!reportVars, ReportsKept
<1>14. CASE CIS!DeleteJob
      BY <1>14 DEF CIS!DeleteJob, CIS!SetJob, CIS!JobAt, CIS!JobDone, CIS!reportVars, CIS!boundVars,
         CIS!nodeVars,
          CIS!workerVars, ReportsKept, CIS!TypeOK
<1>15. CASE CIS!JobError
      BY <1>15 DEF CIS!JobError, CIS!Fault, CIS!JobAt, CIS!JobRetry, CIS!JobNoWrite, CIS!nodeVars,
         CIS!workerVars,
          CIS!reportVars, ReportsKept, CIS!TypeOK
<1>16. CASE UNCHANGED <<edits, node, cNode, report, cReport, jobWork>>
      BY <1>16 DEF ReportsKept
<1>17. ASSUME NEW n \in Nodes,
             CIS!CreatePod(n) \/ CIS!FinishJob(n) \/ CIS!LosePod(n) \/ CIS!Heartbeat(n) \/ CIS!SyncJob(n)
             \/ CIS!FireDelayed(n) \/ CIS!ReconcileNodes(n)
      PROVE  UNCHANGED <<edits, node, cNode, report, cReport, jobWork>>
      BY <1>17 DEF CIS!FinishJob, CIS!Fault, CIS!SetJob, CIS!NodeOfPod, CIS!nodeVars, CIS!reportVars,
         CIS!workerVars,
          CIS!collectorVars, CIS!boundVars, CIS!CreatePod, CIS!LosePod, CIS!Heartbeat, CIS!jobVars, CIS!SyncJob,
          CIS!FireDelayed,
          CIS!ReconcileNodes
<1>18. CIS!EndOtherJob \/ CIS!CheckReport \/ CIS!CheckJob \/ CIS!CheckLimit \/ CIS!CreateJob
       \/ CIS!NodeError
      => UNCHANGED <<edits, node, cNode, report, cReport, jobWork>>
      BY DEF CIS!EndOtherJob, CIS!nodeVars, CIS!reportVars, CIS!workerVars, CIS!collectorVars,
         CIS!boundVars,
          CIS!CheckReport, CIS!At, CIS!GoTo, CIS!Done, CIS!jobVars, CIS!CheckJob, CIS!CheckLimit,
          CIS!CreateJob, CIS!SetJob,
          CIS!NewScanJob, CIS!NodeError, CIS!Fault
<1>19. UNCHANGED CIS!vars => UNCHANGED <<edits, node, cNode, report, cReport, jobWork>>
      BY DEF CIS!vars
<1> QED BY <1>1, <1>2, <1>3, <1>4, <1>5, <1>6, <1>7, <1>8, <1>9, <1>10, <1>11, <1>12, <1>13,
    <1>14, <1>15, <1>16, <1>17, <1>18, <1>19 DEF CIS!Next, CIS!ClusterNext, CIS!SyncNext, CIS!NodeWorker,
    CIS!JobWorker

\* The counters only grow.
LEMMA CISCounters ==
  ASSUME CIS!TypeOK, [CIS!Next]_CIS!vars
  PROVE  /\ edits' = edits \/ edits' = edits + 1
         /\ faults' = faults \/ faults' = faults + 1
         /\ edits \in Nat /\ faults \in Nat
<1>1. edits \in Nat /\ faults \in Nat
      BY DEF CIS!TypeOK
<1> QED BY <1>1 DEF CIS!Next, CIS!vars, CIS!ClusterNext, CIS!SyncNext, CIS!NodeWorker, CIS!JobWorker,
        CIS!Edit, CIS!Fault, CIS!boundVars, CIS!EditNode, CIS!CreatePod, CIS!FinishJob, CIS!LosePod, CIS!UserDeletes,
        CIS!CollectReport, CIS!StartOtherJob, CIS!EndOtherJob, CIS!SyncNode, CIS!Heartbeat,
        CIS!SyncReport, CIS!SyncJob, CIS!FireDelayed, CIS!Restart, CIS!ReconcileNodes, CIS!CheckReport,
        CIS!CheckJob, CIS!CheckLimit, CIS!CreateJob, CIS!NodeError, CIS!ReconcileJobs, CIS!GetNode,
        CIS!CheckJobReport, CIS!ReadLogs, CIS!WriteReport, CIS!GetStatuses, CIS!DeleteJob, CIS!JobError

\* What one step can make of a pass: start one over a cached job, move it on, or end it.
LEMMA CISPass ==
  ASSUME CIS!ConstantsAssumption, CIS!TypeOK, OutKnown, [CIS!Next]_CIS!vars
  PROVE  \/ jobWork' = Idle
         \/ UNCHANGED jobWork
         \/ /\ jobWork # Idle /\ jobWork' # Idle
            /\ jobWork'.key = jobWork.key /\ jobWork'.cond = jobWork.cond
            /\ jobWork.pc \in {"statuses", "delete"} => jobWork'.pc = "delete"
         \/ \E n \in Nodes :
              /\ CIS!JobHasAnyCondition(cJob[n]) /\ jobWork = Idle
              /\ jobWork'.key = n /\ jobWork'.cond = cJob[n].cond
              /\ jobWork'.cond = "failed" => jobWork'.pc = "statuses"
              /\ UNCHANGED <<job, cJob, report, edits>>
<1> DEFINE Moves == /\ jobWork # Idle /\ jobWork' # Idle
                    /\ jobWork'.key = jobWork.key /\ jobWork'.cond = jobWork.cond
                    /\ jobWork.pc \in {"statuses", "delete"} => jobWork'.pc = "delete"
<1>1. jobWork # Idle => jobWork \in CIS!JobTask
      BY DEF CIS!TypeOK
<1>2. \A t \in CIS!JobTask : t # Idle
      BY DEF CIS!ConstantsAssumption
<1>3. ASSUME NEW n \in Nodes, CIS!ReconcileJobs(n)
      PROVE  \/ jobWork' = Idle
             \/ /\ CIS!JobHasAnyCondition(cJob[n]) /\ jobWork = Idle
                /\ jobWork'.key = n /\ jobWork'.cond = cJob[n].cond
                /\ jobWork'.cond = "failed" => jobWork'.pc = "statuses"
                /\ UNCHANGED <<job, cJob, report, edits>>
      BY <1>3 DEF CIS!ReconcileJobs, CIS!jobVars, CIS!reportVars, CIS!boundVars
<1>4. ASSUME NEW p, jobWork # Idle, CIS!JobGoTo(p),
             jobWork.pc \in {"statuses", "delete"} => p = "delete",
             p \in {"node", "report", "logs", "write", "statuses", "delete"}
      PROVE  Moves
  <2>1. jobWork' \in CIS!JobTask /\ jobWork'.key = jobWork.key /\ jobWork'.cond = jobWork.cond
        /\ jobWork'.pc = p
        BY <1>1, <1>4 DEF CIS!JobGoTo, CIS!JobTask
  <2> QED BY <1>2, <1>4, <2>1
<1>5. CASE CIS!GetNode
  <2>1. jobWork # Idle /\ jobWork.pc = "node" /\ jobWork \in CIS!JobTask
        BY <1>1, <1>5 DEF CIS!GetNode, CIS!JobAt
  <2>2. CASE CIS!JobGoTo("delete")
        BY <1>4, <2>1, <2>2
  <2>3. CASE \E o : jobWork' = [jobWork EXCEPT !.pc = "report", !.out = o] /\ o \in CIS!Report
    <3>1. jobWork' \in CIS!JobTask /\ jobWork'.key = jobWork.key /\ jobWork'.cond = jobWork.cond
          BY <2>1, <2>3 DEF CIS!JobTask
    <3> QED BY <1>2, <2>1, <3>1
  <2>4. cNode[jobWork.key] # CIS!Absent =>
          [owner |-> cNode[jobWork.key], scanned |-> CIS!Absent, data |-> "empty"] \in CIS!Report
        BY <2>1 DEF CIS!TypeOK, CIS!JobTask, CIS!Report
  <2> QED BY <1>5, <2>2, <2>3, <2>4 DEF CIS!GetNode
<1>6. CASE CIS!ReadLogs
  <2>1. jobWork # Idle /\ jobWork.pc = "logs" /\ jobWork \in CIS!JobTask /\ jobWork.out \in CIS!Report
        BY <1>1, <1>6 DEF CIS!ReadLogs, CIS!JobAt, OutKnown
  <2>2. CASE CIS!JobGoTo("delete")
        BY <1>4, <2>1, <2>2
  <2>3. CASE job[jobWork.key] # NoJob /\ \E d \in {"results", "empty"} :
                jobWork' = CIS!ReportData(job[jobWork.key], d)
    <3>1. jobWork' \in CIS!JobTask /\ jobWork'.key = jobWork.key /\ jobWork'.cond = jobWork.cond
          BY <2>1, <2>3, LogsRead, CISTypeParts
    <3> QED BY <1>2, <2>1, <3>1
  <2> QED BY <1>6, <2>2, <2>3 DEF CIS!ReadLogs, CIS!JobDone
<1>7. CASE CIS!CheckJobReport
      BY <1>4, <1>7 DEF CIS!CheckJobReport, CIS!JobAt
<1>8. CASE CIS!WriteReport
      BY <1>4, <1>8 DEF CIS!WriteReport, CIS!JobAt, CIS!JobRetry
<1>9. CASE CIS!GetStatuses
      BY <1>4, <1>9 DEF CIS!GetStatuses, CIS!JobAt, CIS!JobDone
<1>10. CASE CIS!DeleteJob \/ CIS!JobError \/ CIS!Restart
      BY <1>10 DEF CIS!DeleteJob, CIS!JobDone, CIS!JobError, CIS!JobRetry, CIS!Restart
<1>11. CASE CIS!ClusterNext \/ CIS!NodeWorker \/ CIS!NodeError \/ UNCHANGED CIS!vars
      BY <1>11 DEF CIS!ClusterNext, CIS!NodeWorker, CIS!NodeError, CIS!vars, CIS!collectorVars, CIS!At,
         CIS!EditNode, CIS!CreatePod, CIS!FinishJob, CIS!LosePod, CIS!UserDeletes,
         CIS!CollectReport, CIS!StartOtherJob, CIS!EndOtherJob,
         CIS!ReconcileNodes, CIS!CheckReport, CIS!CheckJob, CIS!CheckLimit, CIS!CreateJob
<1>12. CASE \E n \in Nodes :
              CIS!SyncNode(n) \/ CIS!Heartbeat(n) \/ CIS!SyncReport(n) \/ CIS!SyncJob(n)
              \/ CIS!FireDelayed(n)
      BY <1>12 DEF CIS!collectorVars, CIS!SyncNode, CIS!Heartbeat, CIS!SyncReport, CIS!SyncJob,
         CIS!FireDelayed
<1> QED BY <1>3, <1>5, <1>6, <1>7, <1>8, <1>9, <1>10, <1>11, <1>12 DEF CIS!Next, CIS!SyncNext,
        CIS!JobWorker

\* Passes and the keys that lead to them keep to the job that has the name.
LEMMA PassesStep ==
  ASSUME CIS!ConstantsAssumption, CIS!TypeOK, OutKnown, PassesKnown, [CIS!Next]_CIS!vars
  PROVE  PassesKnown'
<1> USE DEF CIS!ConstantsAssumption
<1> SUFFICES ASSUME edits' = 0 PROVE PassesKnown'
    BY DEF PassesKnown
<1>1. edits = 0 /\ ~CIS!Edit
      BY CISCounters DEF CIS!Edit
<1>2. jobWork # Idle => jobWork \in CIS!JobTask /\ jobWork.key \in Nodes
      BY DEF CIS!TypeOK, CIS!JobTask
<1>3. CASE UNCHANGED <<job, cJob, jobLag, jobQueue, jobWork>>
      BY <1>1, <1>3 DEF PassesKnown
<1>4. ASSUME NEW n \in Nodes, CIS!FinishJob(n) PROVE PassesKnown'
  <2>1. PICK j \in CIS!Job : CIS!SetJob(n, j) /\ j.cond # "none"
        BY <1>4, CISFinishedJob, CISTypeParts
  <2>2. ~CIS!JobHasAnyCondition(job[n]) /\ UNCHANGED <<jobQueue, jobWork>>
        BY <1>4 DEF CIS!FinishJob, CIS!collectorVars, CIS!JobHasAnyCondition
  <2>3. \A q \in Nodes : q # n => job'[q] = job[q] /\ (q \in jobLag' <=> q \in jobLag)
        BY <2>1 DEF CIS!SetJob, CIS!TypeOK
  <2>4. cJob' = cJob /\ jobQueue \subseteq Nodes
        BY <2>1 DEF CIS!SetJob, CIS!TypeOK
  <2> QED BY <1>1, <1>2, <2>2, <2>3, <2>4 DEF PassesKnown, CIS!JobHasAnyCondition
<1>5. ASSUME NEW n \in Nodes, CIS!LosePod(n) \/ CIS!CreatePod(n) PROVE PassesKnown'
  <2>1. PICK j \in CIS!Job : job' = [job EXCEPT ![n] = j] /\ j.cond = job[n].cond
        BY <1>5, PodLost, PodCreated, CISTypeParts
  <2>2. job[n] # NoJob /\ UNCHANGED <<cJob, jobLag, jobQueue, jobWork>>
        BY <1>5 DEF CIS!LosePod, CIS!CreatePod, CIS!collectorVars, CIS!JobHasAnyCondition
  <2>3. \A q \in Nodes : CIS!JobHasAnyCondition(job[q]) => CIS!JobHasAnyCondition(job'[q])
        BY <2>1, <2>2 DEF CIS!TypeOK, CIS!JobHasAnyCondition
  <2>4. jobQueue \subseteq Nodes
        BY DEF CIS!TypeOK
  <2> QED BY <1>1, <1>2, <2>2, <2>3, <2>4 DEF PassesKnown, CIS!JobHasAnyCondition
<1>6. ASSUME NEW n \in Nodes, CIS!SyncJob(n) PROVE PassesKnown'
  <2>1. /\ cJob'[n] = job[n] /\ \A q \in Nodes : q # n => cJob'[q] = cJob[q]
        /\ n \in jobLag /\ jobLag' = jobLag \ {n}
        /\ jobQueue' \in {jobQueue, jobQueue \cup {n}} /\ UNCHANGED <<job, jobWork>>
        BY <1>6 DEF CIS!SyncJob, CIS!TypeOK
  <2>2. jobWork # Idle => jobWork.key # n
        BY <1>1, <2>1 DEF PassesKnown
  <2>3. jobQueue \subseteq Nodes
        BY DEF CIS!TypeOK
  <2> QED BY <1>1, <1>2, <2>1, <2>2, <2>3 DEF PassesKnown, CIS!JobHasAnyCondition
<1>7. CASE CIS!Restart
      BY <1>7 DEF CIS!Restart, PassesKnown, CIS!JobHasAnyCondition
<1>8. CASE CIS!CreateJob
  <2>1. work.key \in Nodes /\ UNCHANGED <<cJob, jobQueue, jobWork>>
        BY <1>8 DEF CIS!CreateJob, CIS!At, CIS!SetJob, CIS!collectorVars, CIS!TypeOK, CIS!NodeTask
  <2>2. \A q \in Nodes : job[q] # NoJob =>
          job'[q] = job[q] /\ (q \in jobLag' <=> q \in jobLag)
        BY <1>8, <2>1 DEF CIS!CreateJob, CIS!SetJob, CIS!TypeOK
  <2>3. jobQueue \subseteq Nodes
        BY DEF CIS!TypeOK
  <2> QED BY <1>1, <1>2, <2>1, <2>2, <2>3 DEF PassesKnown, CIS!JobHasAnyCondition
<1>9. ASSUME NEW n \in Nodes, CIS!ReconcileJobs(n) PROVE PassesKnown'
  <2>1. /\ n \in jobQueue /\ jobQueue' = jobQueue \ {n} /\ UNCHANGED <<job, cJob, jobLag>>
        /\ jobWork' # Idle => CIS!JobHasAnyCondition(cJob[n]) /\ jobWork'.key = n
        BY <1>9 DEF CIS!ReconcileJobs, CIS!jobVars
  <2> QED BY <1>1, <2>1 DEF PassesKnown, CIS!JobHasAnyCondition
<1>10. CASE CIS!GetNode \/ CIS!CheckJobReport \/ CIS!ReadLogs \/ CIS!WriteReport
            \/ CIS!GetStatuses \/ CIS!JobError
  <2>1. /\ jobWork # Idle /\ UNCHANGED <<job, cJob, jobLag>>
        /\ \/ UNCHANGED jobQueue
           \/ jobWork' = Idle /\ jobQueue' = jobQueue \cup {jobWork.key}
        BY <1>10 DEF CIS!GetNode, CIS!CheckJobReport, CIS!ReadLogs, CIS!WriteReport, CIS!GetStatuses,
           CIS!JobError, CIS!JobAt, CIS!JobGoTo, CIS!JobDone, CIS!JobRetry, CIS!JobNoWrite
  <2>2. jobWork' = Idle \/ jobWork'.key = jobWork.key
        BY <2>1, CISPass
  <2> QED BY <1>1, <2>1, <2>2 DEF PassesKnown, CIS!JobHasAnyCondition
<1>11. CASE CIS!DeleteJob
  <2>1. /\ jobWork # Idle /\ jobWork' = Idle /\ UNCHANGED <<cJob, jobQueue>>
        /\ \A q \in Nodes : q # jobWork.key =>
             job'[q] = job[q] /\ (q \in jobLag' <=> q \in jobLag)
        BY <1>2, <1>11 DEF CIS!DeleteJob, CIS!JobAt, CIS!JobDone, CIS!SetJob, CIS!TypeOK
  <2>2. jobQueue \subseteq Nodes
        BY DEF CIS!TypeOK
  <2> QED BY <1>1, <2>1, <2>2 DEF PassesKnown, CIS!JobHasAnyCondition
<1>12. ASSUME NEW n \in Nodes,
              CIS!CollectReport(n) \/ CIS!SyncNode(n) \/ CIS!Heartbeat(n) \/ CIS!SyncReport(n)
              \/ CIS!FireDelayed(n) \/ CIS!ReconcileNodes(n)
      PROVE  UNCHANGED <<job, cJob, jobLag, jobQueue, jobWork>>
      BY <1>12 DEF CIS!CollectReport, CIS!SyncNode, CIS!Heartbeat, CIS!SyncReport, CIS!FireDelayed,
         CIS!ReconcileNodes, CIS!jobVars, CIS!collectorVars
<1>13. CIS!EndOtherJob \/ CIS!CheckReport \/ CIS!CheckJob \/ CIS!CheckLimit \/ CIS!NodeError
      => UNCHANGED <<job, cJob, jobLag, jobQueue, jobWork>>
      BY DEF CIS!EndOtherJob, CIS!CheckReport, CIS!CheckJob, CIS!CheckLimit, CIS!NodeError, CIS!At,
         CIS!jobVars, CIS!collectorVars
<1>14. UNCHANGED CIS!vars => UNCHANGED <<job, cJob, jobLag, jobQueue, jobWork>>
      BY DEF CIS!vars
<1>15. ~CIS!StartOtherJob /\ \A n \in Nodes : ~CIS!EditNode(n) /\ ~CIS!UserDeletes(n)
      BY <1>1 DEF CIS!StartOtherJob, CIS!EditNode, CIS!UserDeletes
<1> QED BY <1>3, <1>4, <1>5, <1>6, <1>7, <1>8, <1>9, <1>10, <1>11, <1>12, <1>13, <1>14, <1>15
    DEF CIS!Next, CIS!ClusterNext, CIS!SyncNext, CIS!NodeWorker, CIS!JobWorker

\* Hence a pass that deletes a complete job knows what it does.
LEMMA DeletesStep ==
  ASSUME CIS!ConstantsAssumption, CIS!TypeOK, OutKnown, ReportsKept, PassesKnown, DeletesKnown,
         [CIS!Next]_CIS!vars
  PROVE  DeletesKnown'
<1> USE DEF CIS!ConstantsAssumption
<1>1. ASSUME NEW n \in Nodes, CIS!EditNode(n) PROVE DeletesKnown'
      BY <1>1 DEF CIS!EditNode, CIS!Edit, CIS!jobVars, CIS!reportVars, CIS!workerVars, CIS!collectorVars,
          DeletesKnown, CIS!TypeOK
<1>2. ASSUME NEW n \in Nodes, CIS!FinishJob(n) PROVE DeletesKnown'
  <2>1. PICK j \in CIS!Job : CIS!SetJob(n, j) /\ j.cond # "none"
        BY <1>2, CISFinishedJob, CISTypeParts
  <2>2. /\ job[n] # NoJob /\ job[n].cond = "none" /\ UNCHANGED <<report, jobWork>>
        /\ edits' = edits
        BY <1>2 DEF CIS!FinishJob, CIS!reportVars, CIS!collectorVars, CIS!boundVars, CIS!Fault
  <2>3. job'[n] = j /\ \A q \in Nodes : q # n => job'[q] = job[q]
        BY <2>1 DEF CIS!SetJob, CIS!TypeOK
  <2>4. jobWork # Idle => jobWork.key \in Nodes
        BY DEF CIS!TypeOK, CIS!JobTask
  <2>5. edits = 0 /\ jobWork # Idle => jobWork.key # n
        BY <2>2 DEF PassesKnown, CIS!JobHasAnyCondition
  <2> QED BY <2>1, <2>2, <2>3, <2>4, <2>5 DEF DeletesKnown
<1>21. ASSUME NEW n \in Nodes, CIS!CreatePod(n) PROVE DeletesKnown'
  <2>1. PICK j \in CIS!Job : job' = [job EXCEPT ![n] = j]
        BY <1>21, PodCreated, CISTypeParts
  <2>2. job[n].cond = "none" /\ UNCHANGED <<report, jobWork, edits>>
        BY <1>21 DEF CIS!CreatePod, CIS!reportVars, CIS!collectorVars, CIS!boundVars
  <2>3. \A q \in Nodes : q # n => job'[q] = job[q]
        BY <2>1 DEF CIS!TypeOK
  <2>4. jobWork # Idle => jobWork.key \in Nodes
        BY DEF CIS!TypeOK, CIS!JobTask
  <2>5. edits = 0 /\ jobWork # Idle => jobWork.key # n
        BY <2>2 DEF PassesKnown, CIS!JobHasAnyCondition
  <2> QED BY <2>2, <2>3, <2>4, <2>5 DEF DeletesKnown
<1>3. ASSUME NEW n \in Nodes, CIS!LosePod(n) PROVE DeletesKnown'
  <2>1. PICK j \in CIS!Job : job' = [job EXCEPT ![n] = j] /\ j.pod = FALSE /\ j.cond = job[n].cond
        BY <1>3, PodLost, CISTypeParts
  <2>2. job[n] # NoJob /\ job[n].cond # "none"
        BY <1>3, PodLost, CISTypeParts
  <2>3. UNCHANGED <<report, jobWork, edits>>
        BY <1>3 DEF CIS!LosePod, CIS!reportVars, CIS!collectorVars, CIS!Fault
  <2>4. job'[n] = j /\ \A q \in Nodes : q # n => job'[q] = job[q]
        BY <2>1 DEF CIS!TypeOK
  <2>5. j # NoJob
        BY DEF CIS!ConstantsAssumption
  <2> QED BY <2>1, <2>2, <2>3, <2>4, <2>5 DEF DeletesKnown
<1>4. ASSUME NEW n \in Nodes, CIS!UserDeletes(n) PROVE DeletesKnown'
      BY <1>4 DEF CIS!UserDeletes, CIS!Edit, CIS!SetJob, CIS!SetReport, CIS!nodeVars, CIS!reportVars,
         CIS!workerVars,
          CIS!collectorVars, DeletesKnown, CIS!TypeOK
<1>5. ASSUME NEW n \in Nodes, CIS!CollectReport(n) PROVE DeletesKnown'
      BY <1>5 DEF CIS!CollectReport, CIS!SetReport, CIS!nodeVars, CIS!jobVars, CIS!workerVars,
         CIS!collectorVars,
          CIS!boundVars, DeletesKnown, CIS!TypeOK, ReportsKept
<1>6. ASSUME NEW n \in Nodes, CIS!ReconcileJobs(n) PROVE DeletesKnown'
  <2>1. CIS!JobHasAnyCondition(cJob[n]) => cJob[n].cond \in {"complete", "failed"}
        BY DEF CIS!TypeOK, CIS!JobHasAnyCondition, CIS!Job
  <2> QED BY <1>6, <2>1 DEF CIS!ReconcileJobs, CIS!jobVars, CIS!reportVars, CIS!boundVars, DeletesKnown
<1>7. CASE CIS!StartOtherJob
      BY <1>7 DEF CIS!StartOtherJob, CIS!Edit, CIS!nodeVars, CIS!reportVars, CIS!workerVars,
         CIS!collectorVars,
          DeletesKnown, CIS!TypeOK
<1>8. CASE CIS!Restart
      BY <1>8 DEF CIS!Restart, CIS!Fault, DeletesKnown, CIS!TypeOK
<1>9. CASE CIS!CreateJob
  <2>1. work.key \in Nodes
        BY <1>9 DEF CIS!CreateJob, CIS!At, CIS!TypeOK, CIS!NodeTask
  <2>2. UNCHANGED <<report, jobWork, edits>>
        BY <1>9 DEF CIS!CreateJob, CIS!At, CIS!reportVars, CIS!collectorVars, CIS!boundVars
  <2>3. \A q \in Nodes : job[q] # NoJob => job'[q] = job[q]
        BY <1>9, <2>1 DEF CIS!CreateJob, CIS!SetJob, CIS!TypeOK
  <2>4. jobWork # Idle => jobWork.key \in Nodes
        BY DEF CIS!TypeOK, CIS!JobTask
  <2> QED BY <2>2, <2>3, <2>4 DEF DeletesKnown
<1>10. CASE CIS!GetNode
  <2>1. jobWork \in CIS!JobTask /\ jobWork.key \in Nodes
        BY <1>10 DEF CIS!GetNode, CIS!JobAt, CIS!TypeOK, CIS!JobTask
  <2>2. edits = 0 => cNode[jobWork.key] # CIS!Absent
        BY <2>1 DEF ReportsKept, CIS!Absent
  <2>3. UNCHANGED <<job, report, edits>>
        BY <1>10 DEF CIS!GetNode, CIS!JobNoWrite, CIS!reportVars, CIS!boundVars
  <2> QED BY <1>10, <2>1, <2>2, <2>3, NodeGot, PassMoves DEF DeletesKnown
<1>11. CASE CIS!CheckJobReport
  <2>1. jobWork \in CIS!JobTask /\ jobWork.key \in Nodes
        BY <1>11 DEF CIS!CheckJobReport, CIS!JobAt, CIS!TypeOK, CIS!JobTask
  <2> QED BY <1>11, <2>1, PassMoves DEF CIS!CheckJobReport, CIS!JobAt, CIS!JobNoWrite, CIS!boundVars,
             CIS!nodeVars, CIS!workerVars, CIS!reportVars, DeletesKnown, ReportsKept
<1>12. CASE CIS!ReadLogs
  <2>1. jobWork \in CIS!JobTask /\ jobWork.key \in Nodes /\ jobWork.out \in CIS!Report
        BY <1>12 DEF CIS!ReadLogs, CIS!JobAt, CIS!TypeOK, CIS!JobTask, OutKnown
  <2>2. CASE job[jobWork.key] # NoJob /\ \E d \in {"results", "empty"} :
                jobWork' = CIS!ReportData(job[jobWork.key], d)
        BY <1>12, <2>1, <2>2, LogsRead DEF CIS!ReadLogs, CIS!JobAt, CIS!JobNoWrite, CIS!Fault,
           CIS!boundVars, CIS!nodeVars,
           CIS!reportVars, CIS!TypeOK, CISJobType, DeletesKnown
  <2>3. CASE CIS!JobDone
        BY <1>12, <2>3 DEF CIS!ReadLogs, CIS!JobAt, CIS!JobDone, CIS!JobNoWrite, CIS!Fault,
           CIS!boundVars, CIS!nodeVars, CIS!reportVars, DeletesKnown
  <2>4. CASE job[jobWork.key] # NoJob /\ ~job[jobWork.key].pod /\ CIS!JobGoTo("delete")
        BY <1>12, <2>1, <2>4, PassMoves DEF CIS!ReadLogs, CIS!JobAt, CIS!JobNoWrite, CIS!Fault,
           CIS!boundVars,
           CIS!nodeVars, CIS!reportVars, DeletesKnown
  <2> QED BY <1>12, <2>2, <2>3, <2>4 DEF CIS!ReadLogs
<1>13. CASE CIS!WriteReport
  <2>1. jobWork \in CIS!JobTask /\ jobWork.key \in Nodes /\ jobWork.out \in CIS!Report
        BY <1>13 DEF CIS!WriteReport, CIS!JobAt, CIS!TypeOK, CIS!JobTask, OutKnown
  <2>2. \A r \in CIS!Report : /\ [jobWork.out EXCEPT !.owner = r.owner] \in CIS!Report
                          /\ [jobWork.out EXCEPT !.owner = r.owner].owner = r.owner
        BY <2>1 DEF CIS!Report
  <2>3. CASE UNCHANGED CIS!reportVars /\ CIS!JobRetry
        BY <1>13, <2>1, <2>3 DEF CIS!WriteReport, CIS!JobRetry, CIS!JobAt, CIS!reportVars, CIS!nodeVars,
           CIS!boundVars, DeletesKnown
  <2>4. CASE \E r \in CIS!Report :
                /\ CIS!SetReport(jobWork.key, r) /\ CIS!JobGoTo("delete")
                /\ edits = 0 => r.owner = 1
    <3>1. PICK r \in CIS!Report :
            /\ CIS!SetReport(jobWork.key, r) /\ CIS!JobGoTo("delete")
            /\ edits = 0 => r.owner = 1
          BY <2>4
    <3>2. report'[jobWork.key] = r /\ \A n \in Nodes : n # jobWork.key => report'[n] = report[n]
          BY <2>1, <3>1 DEF CIS!SetReport, CIS!TypeOK
    <3>3. jobWork'.pc = "delete" /\ jobWork'.key = jobWork.key
          BY <2>1, <3>1, PassMoves
    <3> QED BY <1>13, <2>1, <3>1, <3>2, <3>3 DEF CIS!WriteReport, CIS!JobAt, CIS!SetReport,
               CIS!nodeVars, CIS!boundVars, DeletesKnown, CIS!ConstantsAssumption
  <2>5. cReport[jobWork.key] # NoReport => cReport[jobWork.key] \in CIS!Report
        BY <2>1 DEF CIS!TypeOK
  <2> QED BY <1>13, <2>1, <2>2, <2>3, <2>4, <2>5 DEF CIS!WriteReport, CIS!JobAt, ReportsKept
<1>14. CASE CIS!GetStatuses
  <2>1. jobWork \in CIS!JobTask /\ jobWork.key \in Nodes
        BY <1>14 DEF CIS!GetStatuses, CIS!JobAt, CIS!TypeOK, CIS!JobTask
  <2> QED BY <1>14, <2>1, PassMoves DEF CIS!GetStatuses, CIS!JobAt, CIS!JobDone, CIS!JobNoWrite,
             CIS!boundVars, CIS!nodeVars, CIS!workerVars, CIS!reportVars, DeletesKnown
<1>15. CASE CIS!DeleteJob
      BY <1>15 DEF CIS!DeleteJob, CIS!SetJob, CIS!JobAt, CIS!JobDone, CIS!reportVars, CIS!boundVars,
         CIS!nodeVars,
          CIS!workerVars, DeletesKnown, CIS!TypeOK
<1>16. CASE CIS!JobError
      BY <1>16 DEF CIS!JobError, CIS!Fault, CIS!JobAt, CIS!JobRetry, CIS!JobNoWrite, CIS!nodeVars,
         CIS!workerVars,
          CIS!reportVars, DeletesKnown, CIS!TypeOK
<1>17. CASE UNCHANGED <<edits, job, report, jobWork>>
      BY <1>17 DEF DeletesKnown
<1>18. ASSUME NEW n \in Nodes,
             CIS!SyncNode(n) \/ CIS!Heartbeat(n) \/ CIS!SyncReport(n) \/ CIS!SyncJob(n)
             \/ CIS!FireDelayed(n) \/ CIS!ReconcileNodes(n)
      PROVE  UNCHANGED <<edits, job, report, jobWork>>
      BY <1>18 DEF CIS!SyncNode, CIS!jobVars, CIS!reportVars, CIS!collectorVars, CIS!boundVars,
         CIS!Heartbeat,
          CIS!nodeVars, CIS!SyncReport, CIS!SyncJob, CIS!workerVars, CIS!FireDelayed, CIS!ReconcileNodes
<1>19. CIS!EndOtherJob \/ CIS!CheckReport \/ CIS!CheckJob \/ CIS!CheckLimit \/ CIS!NodeError
      => UNCHANGED <<edits, job, report, jobWork>>
      BY DEF CIS!EndOtherJob, CIS!nodeVars, CIS!reportVars, CIS!workerVars, CIS!collectorVars,
         CIS!boundVars,
          CIS!CheckReport, CIS!At, CIS!GoTo, CIS!Done, CIS!jobVars, CIS!CheckJob, CIS!CheckLimit,
          CIS!NodeError, CIS!Fault
<1>20. UNCHANGED CIS!vars => UNCHANGED <<edits, job, report, jobWork>>
      BY DEF CIS!vars
<1> QED BY <1>1, <1>2, <1>3, <1>4, <1>5, <1>6, <1>7, <1>8, <1>9, <1>10, <1>11, <1>12, <1>13,
    <1>14, <1>15, <1>16, <1>17, <1>18, <1>19, <1>20, <1>21 DEF CIS!Next, CIS!ClusterNext, CIS!SyncNext,
    CIS!NodeWorker,
    CIS!JobWorker

\* The initial states satisfy the invariant.
LEMMA CISInit == ASSUME CIS!ConstantsAssumption PROVE CIS!Init => CISInv
<1> SUFFICES ASSUME CIS!Init PROVE CISInv
    OBVIOUS
<1>1. CIS!TypeOK
      BY DEF CIS!Init, CIS!TypeOK, CIS!Uids, CIS!ConstantsAssumption
<1>2. OutKnown /\ OthersCounted /\ ReportsKept /\ PassesKnown /\ DeletesKnown
      BY DEF CIS!Init, OutKnown, OthersCounted, ReportsKept, PassesKnown, DeletesKnown
<1> QED BY <1>1, <1>2 DEF CISInv

\* Every step keeps it.
LEMMA CISInductive == ASSUME CIS!ConstantsAssumption PROVE CIS!Spec => []CISInv
<1>1. CISInv /\ [CIS!Next]_CIS!vars => CISInv'
      BY CISTypeStep, KeptStep, PassesStep, DeletesStep DEF CISInv
<1> QED BY CISInit, <1>1, PTL DEF CIS!Spec

-----------------------------------------------------------------------------
\* The state of the two controllers and of what they read and write keeps its
\* type (ciskubebenchreport.go).
THEOREM CISTypeCorrect == ASSUME CIS!ConstantsAssumption PROVE CIS!Spec => []CIS!TypeOK
<1>1. CISInv => CIS!TypeOK
      BY DEF CISInv
<1> QED BY CISInductive, <1>1, PTL

\* The action of NoResultLost.
LeavesReport ==
  \A n \in Nodes :
    /\ job[n] # NoJob /\ job'[n] = NoJob
    /\ jobWork # Idle /\ jobWork.cond = "complete" /\ job[n].pod
    /\ edits' = 0
    => report[n] # NoReport

\* A job that disappears in a pass over a complete job leaves a report.
LEMMA LossStep ==
  ASSUME CIS!ConstantsAssumption, CISInv, [CIS!Next]_CIS!vars
  PROVE  LeavesReport
<1> USE DEF CISInv, CIS!TypeOK, CIS!JobTask, CIS!ConstantsAssumption
<1>1. ASSUME NEW n \in Nodes, CIS!FinishJob(n) PROVE LeavesReport
      BY <1>1, CISFinishedJob, CISTypeParts DEF CIS!SetJob, LeavesReport
<1>2. ASSUME NEW n \in Nodes, CIS!LosePod(n) \/ CIS!CreatePod(n) PROVE LeavesReport
  <2>1. PICK j \in CIS!Job : job' = [job EXCEPT ![n] = j]
        BY <1>2, PodLost, PodCreated, CISTypeParts
  <2> QED BY <2>1 DEF LeavesReport, CIS!ConstantsAssumption
<1>3. ASSUME NEW n \in Nodes, CIS!UserDeletes(n) PROVE LeavesReport
      BY <1>3 DEF CIS!UserDeletes, CIS!Edit, CIS!SetJob, CIS!SetReport, CIS!nodeVars, CIS!reportVars,
         CIS!workerVars,
          CIS!collectorVars, LeavesReport
<1>4. CASE CIS!CreateJob
      BY <1>4 DEF CIS!CreateJob, CIS!SetJob, CIS!At, CIS!Done, CIS!NewScanJob, CIS!boundVars,
         CIS!nodeVars,
          CIS!reportVars, CIS!collectorVars, LeavesReport, CIS!NodeTask
<1>5. CASE CIS!DeleteJob
      BY <1>5 DEF CIS!DeleteJob, CIS!SetJob, CIS!JobAt, CIS!JobDone, CIS!reportVars, CIS!boundVars,
         CIS!nodeVars,
          CIS!workerVars, LeavesReport, DeletesKnown
<1>6. CASE UNCHANGED <<job>>
      BY <1>6 DEF CISInv, LeavesReport
<1>7. ASSUME NEW n \in Nodes,
             CIS!EditNode(n) \/ CIS!CollectReport(n) \/ CIS!SyncNode(n) \/ CIS!Heartbeat(n)
             \/ CIS!SyncReport(n) \/ CIS!SyncJob(n)
      PROVE  UNCHANGED <<job>>
      BY <1>7 DEF CIS!EditNode, CIS!Edit, CIS!jobVars, CIS!reportVars, CIS!workerVars, CIS!collectorVars,
          CIS!CollectReport, CIS!SetReport, CIS!nodeVars, CIS!boundVars, CIS!SyncNode, CIS!Heartbeat,
          CIS!SyncReport,
          CIS!SyncJob
<1>8. ASSUME NEW n \in Nodes,
             CIS!FireDelayed(n) \/ CIS!ReconcileNodes(n) \/ CIS!ReconcileJobs(n)
      PROVE  UNCHANGED <<job>>
      BY <1>8 DEF CIS!FireDelayed, CIS!nodeVars, CIS!jobVars, CIS!reportVars, CIS!collectorVars,
         CIS!boundVars,
          CIS!ReconcileNodes, CIS!ReconcileJobs, CIS!workerVars
<1>9. CIS!StartOtherJob \/ CIS!EndOtherJob \/ CIS!Restart \/ CIS!CheckReport \/ CIS!CheckJob
      \/ CIS!CheckLimit
      => UNCHANGED <<job>>
      BY DEF CIS!StartOtherJob, CIS!Edit, CIS!nodeVars, CIS!reportVars, CIS!workerVars,
         CIS!collectorVars,
          CIS!EndOtherJob, CIS!boundVars, CIS!Restart, CIS!Fault, CIS!CheckReport, CIS!At, CIS!GoTo,
          CIS!Done, CIS!jobVars,
          CIS!CheckJob, CIS!CheckLimit
<1>10. CIS!NodeError \/ CIS!GetNode \/ CIS!CheckJobReport \/ CIS!ReadLogs \/ CIS!WriteReport
       \/ CIS!GetStatuses
      => UNCHANGED <<job>>
      BY DEF CIS!NodeError, CIS!Fault, CIS!At, CIS!jobVars, CIS!nodeVars, CIS!reportVars,
         CIS!collectorVars, CIS!GetNode,
          CIS!JobAt, CIS!JobGoTo, CIS!JobNoWrite, CIS!boundVars, CIS!workerVars, CIS!CheckJobReport,
          CIS!ReadLogs,
          CIS!JobDone, CIS!ReportData, CIS!WriteReport, CIS!SetReport, CIS!JobRetry, CIS!GetStatuses
<1>11. CIS!JobError
      => UNCHANGED <<job>>
      BY DEF CIS!JobError, CIS!Fault, CIS!JobAt, CIS!JobRetry, CIS!JobNoWrite, CIS!nodeVars,
         CIS!workerVars,
          CIS!reportVars
<1>12. UNCHANGED CIS!vars => UNCHANGED <<job>>
      BY DEF CIS!vars
<1> QED BY <1>1, <1>2, <1>3, <1>4, <1>5, <1>6, <1>7, <1>8, <1>9, <1>10, <1>11, <1>12 DEF CIS!Next,
    CIS!ClusterNext, CIS!SyncNext, CIS!NodeWorker, CIS!JobWorker

\* reconcileJobs never deletes a complete job whose results are in no report, for
\* any number of nodes, errors, lost pods and restarts, as long as nodes, jobs and
\* reports are left alone: the cached report that hasReport saw still exists.
THEOREM CISResultsStay == ASSUME CIS!ConstantsAssumption PROVE CIS!Spec => CIS!NoResultLost
<1>1. CISInv /\ [CIS!Next]_CIS!vars =>
        [\A n \in Nodes :
           /\ job[n] # NoJob /\ job'[n] = NoJob
           /\ jobWork # Idle /\ jobWork.cond = "complete" /\ job[n].pod
           /\ edits' = 0
           => report[n] # NoReport]_CIS!vars
      BY LossStep DEF LeavesReport
<1> QED BY CISInductive, <1>1, PTL DEF CIS!Spec, CIS!NoResultLost

-----------------------------------------------------------------------------
(* CISKubeBench implements ScanProtocol.  A pass over a cached job may find *)
(* another job of the same node and delete that one: unless something was   *)
(* edited or has failed, the report is stored then.                         *)

CISCalm == edits = 0 /\ faults = 0

\* Without faults no job fails and no pod is lost.
NoFailure ==
  /\ \A n \in Nodes : job[n] # NoJob => job[n].cond = "none" \/ (job[n].cond = "complete" /\ job[n].pod)
  /\ \A n \in Nodes : cJob[n] # NoJob => cJob[n].cond # "failed"
  /\ jobWork # Idle => jobWork.cond = "complete"

\* A pass over a failed job stores nothing.
CISFailedPass ==
  jobWork # Idle /\ jobWork.cond = "failed" => jobWork.pc \in {"statuses", "delete"}

CISCalmInv == CISInv /\ CISFailedPass /\ (CISCalm => NoFailure)

\* Every step keeps the invariant.
LEMMA CISCalmStep ==
  ASSUME CIS!ConstantsAssumption, CISCalmInv, [CIS!Next]_CIS!vars
  PROVE  CISCalmInv'
<1> USE DEF CIS!ConstantsAssumption
<1>1. CIS!TypeOK /\ OutKnown /\ CISInv
      BY DEF CISCalmInv, CISInv
<1>2. CISInv'
      BY <1>1, CISTypeStep, KeptStep, PassesStep, DeletesStep DEF CISInv
<1>3. CISFailedPass'
      BY <1>1, CISPass DEF CISCalmInv, CISFailedPass
<1>4. ASSUME CISCalm' PROVE NoFailure'
  <2>1. CISCalm /\ edits' = 0 /\ faults' = 0 /\ NoFailure
        BY <1>1, <1>4, CISCounters DEF CISCalm, CISCalmInv
  <2>2. \A n \in Nodes : node[n] = 1
        BY <1>1, <2>1 DEF CISInv, ReportsKept, CISCalm
  <2>3. ~CIS!Fault /\ ~CIS!Edit
        BY <2>1 DEF CIS!Fault, CIS!Edit, CISCalm
  <2>4. \/ UNCHANGED <<job, cJob>>
        \/ \E n \in Nodes : CIS!CreatePod(n) \/ CIS!FinishJob(n) \/ CIS!SyncJob(n)
        \/ CIS!CreateJob \/ CIS!DeleteJob
        BY <2>3 DEF CIS!Next, CIS!vars, CIS!ClusterNext, CIS!SyncNext, CIS!NodeWorker, CIS!JobWorker,
        CIS!EditNode, CIS!LosePod, CIS!UserDeletes, CIS!jobVars, CIS!At, CIS!JobAt, CIS!JobNoWrite,
        CIS!CollectReport, CIS!StartOtherJob, CIS!EndOtherJob, CIS!SyncNode, CIS!Heartbeat,
        CIS!SyncReport, CIS!FireDelayed, CIS!Restart, CIS!ReconcileNodes, CIS!CheckReport,
        CIS!CheckJob, CIS!CheckLimit, CIS!NodeError, CIS!ReconcileJobs, CIS!GetNode,
        CIS!CheckJobReport, CIS!ReadLogs, CIS!WriteReport, CIS!GetStatuses, CIS!JobError
  <2>5. /\ \A n \in Nodes : job'[n] # NoJob =>
             job'[n].cond = "none" \/ (job'[n].cond = "complete" /\ job'[n].pod)
        /\ \A n \in Nodes : cJob'[n] # NoJob => cJob'[n].cond # "failed"
    <3>1. ASSUME NEW n \in Nodes, NEW j, CIS!SetJob(n, j),
                 j # NoJob => j.cond = "none" \/ (j.cond = "complete" /\ j.pod)
          PROVE  /\ \A m \in Nodes : job'[m] # NoJob =>
                      job'[m].cond = "none" \/ (job'[m].cond = "complete" /\ job'[m].pod)
                 /\ cJob' = cJob
          BY <1>1, <2>1, <3>1 DEF CIS!SetJob, NoFailure, CIS!TypeOK
    <3>2. CASE UNCHANGED <<job, cJob>>
          BY <2>1, <3>2 DEF NoFailure
    <3>3. CASE \E n \in Nodes : CIS!FinishJob(n)
      <4>1. PICK n \in Nodes : CIS!FinishJob(n)
            BY <3>3
      <4> DEFINE j == [scanned |-> node[n], cond |-> "complete", pod |-> TRUE]
      <4>2. CIS!SetJob(n, j)
            BY <2>2, <2>3, <4>1 DEF CIS!FinishJob, CIS!NodeOfPod, CIS!Absent
      <4>3. j.pod /\ j.cond = "complete"
            OBVIOUS
      <4> HIDE DEF j
      <4> QED BY <2>1, <3>1, <4>2, <4>3 DEF NoFailure
    <3>4. CASE \E n \in Nodes : CIS!SyncJob(n)
          BY <1>1, <2>1, <3>4 DEF CIS!SyncJob, NoFailure, CIS!TypeOK
    <3>5. CASE CIS!CreateJob
      <4>1. work.key \in Nodes
            BY <1>1, <3>5 DEF CIS!CreateJob, CIS!At, CIS!TypeOK, CIS!NodeTask
      <4>2. CIS!NewScanJob.cond = "none"
            BY DEF CIS!NewScanJob
      <4> QED BY <2>1, <3>1, <3>2, <3>5, <4>1, <4>2 DEF CIS!CreateJob, NoFailure
    <3>6. CASE CIS!DeleteJob
      <4>1. jobWork.key \in Nodes
            BY <1>1, <3>6 DEF CIS!DeleteJob, CIS!JobAt, CIS!TypeOK, CIS!JobTask
      <4> QED BY <2>1, <3>1, <3>2, <3>6, <4>1 DEF CIS!DeleteJob, NoFailure
    <3>7. CASE \E n \in Nodes : CIS!CreatePod(n)
      <4>1. PICK n \in Nodes : CIS!CreatePod(n)
            BY <3>7
      <4>2. PICK j \in CIS!Job : job' = [job EXCEPT ![n] = j] /\ j.cond = "none"
            BY <1>1, <4>1, PodCreated, CISTypeParts
      <4>3. cJob' = cJob
            BY <4>1 DEF CIS!CreatePod
      <4> QED BY <1>1, <2>1, <4>2, <4>3 DEF NoFailure, CIS!TypeOK
    <3> QED BY <2>4, <3>2, <3>3, <3>4, <3>5, <3>6, <3>7
  <2>6. jobWork' # Idle => jobWork'.cond = "complete"
    <3>1. \A n \in Nodes : CIS!JobHasAnyCondition(cJob[n]) => cJob[n].cond = "complete"
          BY <1>1, <2>1 DEF CIS!TypeOK, CIS!Job, CIS!JobHasAnyCondition, NoFailure
    <3> QED BY <1>1, <2>1, <3>1, CISPass DEF NoFailure
  <2> QED BY <2>5, <2>6 DEF NoFailure
<1> QED BY <1>2, <1>3, <1>4 DEF CISCalmInv

-----------------------------------------------------------------------------
(* The refinement, action by action.                                        *)

\* Somebody can still act on the end e of a benchmark of n.
CISKnown(n, e) ==
  \/ CIS!JobHasAnyCondition(job[n]) /\ e = <<CIS!Benchmark, job[n].cond>>
  \/ CIS!JobHasAnyCondition(cJob[n]) /\ e = <<CIS!Benchmark, cJob[n].cond>>
  \/ jobWork # Idle /\ jobWork.key = n /\ e = <<CIS!Benchmark, jobWork.cond>>

\* What the mapping makes of jobs, caches and passes.
LEMMA CISMapped ==
  /\ \A n \in Nodes : \A e : e \in CIS!Ended[n] <=> CISKnown(n, e)
  /\ \A n \in Nodes : \A e : e \in CIS!Ended'[n] <=> CISKnown(n, e)'
<1>1. \A n \in Nodes : \A e : e \in CIS!Ended[n] <=> CISKnown(n, e)
      BY Zenon DEF CIS!Ended, CISKnown
<1>2. \A n \in Nodes : \A e : e \in CIS!Ended'[n] <=> CISKnown(n, e)'
      BY Zenon DEF CIS!Ended, CISKnown
<1> QED BY <1>1, <1>2

\* The scan of a node is that of its job.
LEMMA CISScanOf ==
  ASSUME NEW n \in Nodes
  PROVE  /\ job[n] = NoJob => CIS!Scan[n] = {}
         /\ job[n] # NoJob => CIS!Scan[n] = {<<CIS!Benchmark, job[n].cond>>}
         /\ job'[n] = NoJob => CIS!Scan'[n] = {}
         /\ job'[n] # NoJob => CIS!Scan'[n] = {<<CIS!Benchmark, job'[n].cond>>}
         /\ job'[n] = job[n] => CIS!Scan'[n] = CIS!Scan[n]
BY DEF CIS!Scan

\* A change of the scan of one node.
LEMMA CISScanSet ==
  ASSUME NEW n \in Nodes, NEW s, CIS!Scan'[n] = s,
         \A m \in Nodes : m # n => job'[m] = job[m]
  PROVE  CIS!Scan' = [CIS!Scan EXCEPT ![n] = s]
<1>1. CIS!Scan = [m \in Nodes |-> CIS!Scan[m]] /\ CIS!Scan' = [m \in Nodes |-> CIS!Scan'[m]]
      BY DEF CIS!Scan
<1>2. \A m \in Nodes : m # n => CIS!Scan'[m] = CIS!Scan[m]
      BY CISScanOf
<1> QED BY <1>1, <1>2

\* Whether a node has a report is all that the protocol knows of it.
LEMMA CISReportOf ==
  /\ \A n \in Nodes, p \in {"report"} :
       CIS!Reports[n][p] = IF report[n] = NoReport THEN NoReport ELSE CIS!Benchmark
  /\ \A n \in Nodes, p \in {"report"} :
       CIS!Reports'[n][p] = IF report'[n] = NoReport THEN NoReport ELSE CIS!Benchmark
BY DEF CIS!Reports

\* A change of the report of one node.
LEMMA CISReportSet ==
  ASSUME NEW n \in Nodes, NEW r, report' = [report EXCEPT ![n] = r],
         report \in [Nodes -> CIS!Report \cup {NoReport}]
  PROVE  LET l == IF r = NoReport THEN NoReport ELSE CIS!Benchmark
         IN  CIS!Reports' = [CIS!Reports EXCEPT ![n] = [CIS!Reports[n] EXCEPT !["report"] = l]]
BY DEF CIS!Reports

\* A step after which nobody knows more, and that leaves nodes, jobs and reports alone.
LEMMA CISForgets ==
  ASSUME UNCHANGED <<node, report, edits>>, faults > 0 => faults' > 0, CIS!Scan' = CIS!Scan,
         \A n \in Nodes : \A e : CISKnown(n, e)' => CISKnown(n, e)
  PROVE  CIS!Protocol!Next
<1>1. CIS!Wanted' = CIS!Wanted /\ CIS!Reports' = CIS!Reports
      BY DEF CIS!Wanted, CIS!Reports
<1>2. \A n \in Nodes : CIS!Ended'[n] \subseteq CIS!Ended[n]
      BY CISMapped
<1> QED BY <1>1, <1>2 DEF CIS!Protocol!Next, CIS!Protocol!Forget, CIS!Protocol!Forgetting

\* Nor does a step that leaves caches and passes alone, too.
LEMMA CISKnownFrame ==
  ASSUME UNCHANGED <<job, cJob, jobWork>>
  PROVE  /\ \A n \in Nodes : \A e : CISKnown(n, e)' <=> CISKnown(n, e)
         /\ CIS!Scan' = CIS!Scan /\ CIS!Ended' = CIS!Ended
BY DEF CISKnown, CIS!JobHasAnyCondition, CIS!Scan, CIS!Ended

\* The end of a job is the end of the scan of its node.
LEMMA CISEnds ==
  ASSUME CIS!ConstantsAssumption, CIS!TypeOK, ReportsKept, NEW n \in Nodes, CIS!FinishJob(n),
         faults > 0 => faults' > 0
  PROVE  CIS!Protocol!Next
<1> USE DEF CIS!ConstantsAssumption
<1>1. PICK j \in CIS!Job : CIS!SetJob(n, j) /\ j.cond # "none"
      BY CISFinishedJob, CISTypeParts
<1> DEFINE cond == j.cond
<1>2. cond \in {"complete", "failed"} /\ j # NoJob
      BY <1>1 DEF CIS!Job
<1>3. job'[n] = j /\ \A m \in Nodes : m # n => job'[m] = job[m]
      BY <1>1 DEF CIS!SetJob, CIS!TypeOK
<1>4. /\ job[n] # NoJob /\ job[n].cond = "none"
      /\ UNCHANGED <<node, cJob, report, jobWork, edits>>
      BY <1>1 DEF CIS!FinishJob, CIS!SetJob, CIS!reportVars, CIS!collectorVars, CIS!boundVars,
         CIS!nodeVars, CIS!Fault
<1>5. cond = "complete" \/ faults' > 0 \/ edits > 0
  <2>1. node[n] = CIS!Absent => edits > 0
        BY DEF ReportsKept, CIS!Absent, CIS!TypeOK
  <2>2. CIS!Fault => faults' > 0
        BY DEF CIS!Fault, CIS!TypeOK
  <2>3. CASE CIS!SetJob(n, [scanned |-> node[n], cond |-> "complete", pod |-> TRUE])
        BY <1>3, <2>3 DEF CIS!SetJob, CIS!TypeOK
  <2> QED BY <2>1, <2>2, <2>3 DEF CIS!FinishJob, CIS!NodeOfPod
<1>6. CIS!Scan[n] = {<<CIS!Benchmark, "none">>}
      BY <1>4, CISScanOf
<1>7. CIS!Scan' = [CIS!Scan EXCEPT ![n] = {<<CIS!Benchmark, cond>>}]
  <2>1. CIS!Scan'[n] = {<<CIS!Benchmark, cond>>}
        BY <1>2, <1>3, CISScanOf
  <2> QED BY <1>3, <2>1, CISScanSet
<1>8. \A e : CISKnown(n, e)' <=> CISKnown(n, e) \/ e = <<CIS!Benchmark, cond>>
      BY <1>1, <1>2, <1>3, <1>4 DEF CISKnown, CIS!JobHasAnyCondition
<1>9. \A m \in Nodes : m # n => \A e : CISKnown(m, e)' <=> CISKnown(m, e)
      BY <1>3, <1>4 DEF CISKnown, CIS!JobHasAnyCondition
<1>10. \A m \in Nodes :
         CIS!Ended'[m] = IF m = n THEN CIS!Ended[n] \cup {<<CIS!Benchmark, cond>>} ELSE CIS!Ended[m]
      BY <1>8, <1>9, CISMapped
<1>11. CIS!Ended' = [CIS!Ended EXCEPT ![n] = CIS!Ended[n] \cup {<<CIS!Benchmark, cond>>}]
      BY <1>10 DEF CIS!Ended
<1>12. CIS!Wanted' = CIS!Wanted /\ CIS!Reports' = CIS!Reports
      BY <1>4 DEF CIS!Wanted, CIS!Reports
<1>13. CIS!Protocol!End(n, CIS!Benchmark, cond)
      BY <1>4, <1>5, <1>6, <1>7, <1>11, <1>12 DEF CIS!Protocol!End
<1> QED BY <1>2, <1>13 DEF CIS!Protocol!Next

\* What users and the cluster do: edits, ends of scans, collected reports.
LEMMA CISProtocolCluster ==
  ASSUME CIS!ConstantsAssumption, CIS!TypeOK, ReportsKept, CIS!ClusterNext, faults > 0 => faults' > 0
  PROVE  CIS!Protocol!Next
<1> USE DEF CIS!nodeVars, CIS!jobVars, CIS!reportVars, CIS!collectorVars, CIS!boundVars
<1>1. CIS!Edit => edits' > 0
      BY DEF CIS!Edit, CIS!TypeOK
<1>2. ASSUME UNCHANGED <<job, cJob, report, jobWork>>, CIS!Edit PROVE CIS!Protocol!Next
  <2>1. CIS!Scan' = CIS!Scan /\ CIS!Ended' = CIS!Ended /\ CIS!Reports' = CIS!Reports
        BY <1>2, CISKnownFrame DEF CIS!Reports
  <2> QED BY <1>1, <1>2, <2>1 DEF CIS!Protocol!Next, CIS!Protocol!Edit, CIS!Protocol!Forgetting
<1>3. CASE CIS!StartOtherJob \/ \E n \in Nodes : CIS!EditNode(n)
      BY <1>2, <1>3 DEF CIS!StartOtherJob, CIS!EditNode
<1>4. ASSUME NEW n \in Nodes, CIS!UserDeletes(n) PROVE CIS!Protocol!Next
  <2>1. UNCHANGED <<cJob, jobWork>> /\ edits' > 0
        BY <1>1, <1>4 DEF CIS!UserDeletes, CIS!SetJob
  <2>2. \A m \in Nodes : job'[m] \in {job[m], NoJob} /\ report'[m] \in {report[m], NoReport}
        BY <1>4 DEF CIS!UserDeletes, CIS!SetJob, CIS!SetReport, CIS!TypeOK
  <2>3. \A m \in Nodes : CIS!Scan'[m] \in {CIS!Scan[m], {}}
        BY <2>2, CISScanOf
  <2>4. \A m \in Nodes, p \in {"report"} : CIS!Reports'[m][p] \in {CIS!Reports[m][p], NoReport}
        BY <2>2, CISReportOf
  <2>5. \A m \in Nodes : \A e : CISKnown(m, e)' => CISKnown(m, e)
        BY <2>1, <2>2 DEF CISKnown, CIS!JobHasAnyCondition
  <2>6. \A m \in Nodes : CIS!Ended'[m] \subseteq CIS!Ended[m]
        BY <2>5, CISMapped
  <2> QED BY <2>1, <2>3, <2>4, <2>6 DEF CIS!Protocol!Next, CIS!Protocol!Edit, CIS!Protocol!Forgetting
<1>5. ASSUME NEW n \in Nodes, CIS!CollectReport(n) PROVE CIS!Protocol!Next
  <2>1. UNCHANGED <<node, job, cJob, jobWork, edits>> /\ edits > 0
        BY <1>5 DEF CIS!CollectReport, CIS!SetReport, ReportsKept, CIS!TypeOK
  <2>2. CIS!Scan' = CIS!Scan /\ CIS!Ended' = CIS!Ended /\ CIS!Wanted' = CIS!Wanted
        BY <2>1, CISKnownFrame DEF CIS!Wanted
  <2>3. CIS!Reports' = [CIS!Reports EXCEPT ![n] = [CIS!Reports[n] EXCEPT !["report"] = NoReport]]
        BY <1>5, CISReportSet DEF CIS!CollectReport, CIS!SetReport, CIS!TypeOK
  <2>4. CIS!Protocol!Remove(n, "report")
        BY <2>1, <2>2, <2>3 DEF CIS!Protocol!Remove
  <2> QED BY <2>4 DEF CIS!Protocol!Next
<1>6. ASSUME NEW n \in Nodes, CIS!LosePod(n) PROVE CIS!Protocol!Next
  <2>1. PICK j \in CIS!Job : job' = [job EXCEPT ![n] = j] /\ j.cond = job[n].cond
        BY <1>6, PodLost, CISTypeParts
  <2>2. job[n] # NoJob /\ job[n].cond # "none" /\ j # NoJob
        BY <1>6, PodLost, CISTypeParts DEF CIS!ConstantsAssumption
  <2>3. UNCHANGED <<node, cJob, report, jobWork, edits>>
        BY <1>6 DEF CIS!LosePod, CIS!Fault
  <2>4. job'[n] = j /\ \A m \in Nodes : m # n => job'[m] = job[m]
        BY <2>1 DEF CIS!TypeOK
  <2>5. \A m \in Nodes : \A e : CISKnown(m, e)' => CISKnown(m, e)
        BY <2>1, <2>2, <2>3, <2>4 DEF CISKnown, CIS!JobHasAnyCondition
  <2>6. CIS!Scan' = CIS!Scan
    <3>1. \A m \in Nodes : CIS!Scan'[m] = CIS!Scan[m]
          BY <2>1, <2>2, <2>4, CISScanOf
    <3> QED BY <3>1 DEF CIS!Scan
  <2> QED BY <2>3, <2>5, <2>6, CISForgets
<1>7. CASE CIS!EndOtherJob
      BY <1>7, CISKnownFrame, CISForgets DEF CIS!EndOtherJob
<1>8. ASSUME NEW n \in Nodes, CIS!CreatePod(n) PROVE CIS!Protocol!Next
  <2>1. PICK j \in CIS!Job : job' = [job EXCEPT ![n] = j] /\ j.cond = job[n].cond
        BY <1>8, PodCreated, CISTypeParts
  <2>2. job[n] # NoJob /\ j # NoJob /\ UNCHANGED <<node, cJob, report, jobWork, edits>>
        BY <1>8 DEF CIS!CreatePod, CIS!ConstantsAssumption
  <2>3. job'[n] = j /\ \A m \in Nodes : m # n => job'[m] = job[m]
        BY <2>1 DEF CIS!TypeOK
  <2>4. \A m \in Nodes : \A e : CISKnown(m, e)' => CISKnown(m, e)
        BY <2>1, <2>2, <2>3 DEF CISKnown, CIS!JobHasAnyCondition
  <2>5. CIS!Scan' = CIS!Scan
    <3>1. \A m \in Nodes : m # n => CIS!Scan'[m] = CIS!Scan[m]
          BY <2>3, CISScanOf
    <3>2. job'[n] # NoJob /\ job'[n].cond = job[n].cond
          BY <2>1, <2>2, <2>3
    <3>3. CIS!Scan'[n] = CIS!Scan[n]
          BY <2>2, <3>2, CISScanOf
    <3> QED BY <3>1, <3>3 DEF CIS!Scan
  <2> QED BY <2>2, <2>4, <2>5, CISForgets
<1> QED BY <1>3, <1>4, <1>5, <1>6, <1>7, <1>8, CISEnds DEF CIS!ClusterNext

\* What the informers do: caches and passes forget.
LEMMA CISProtocolInformer ==
  ASSUME CIS!TypeOK, CIS!SyncNext, faults > 0 => faults' > 0
  PROVE  CIS!Protocol!Next
<1>1. UNCHANGED <<node, job, report, edits>> /\ (UNCHANGED jobWork \/ jobWork' = Idle)
      BY DEF CIS!SyncNext, CIS!SyncNode, CIS!Heartbeat, CIS!SyncReport, CIS!SyncJob, CIS!FireDelayed,
         CIS!Restart, CIS!Fault, CIS!nodeVars, CIS!jobVars, CIS!reportVars, CIS!collectorVars,
         CIS!boundVars
<1>2. \A n \in Nodes : cJob'[n] = cJob[n] \/ cJob'[n] = job[n]
  <2>1. \/ cJob' = cJob \/ cJob' = job
        \/ \E m \in Nodes : cJob' = [cJob EXCEPT ![m] = job[m]]
        BY DEF CIS!SyncNext, CIS!SyncNode, CIS!Heartbeat, CIS!SyncReport, CIS!SyncJob, CIS!FireDelayed,
           CIS!Restart, CIS!jobVars
  <2> QED BY <2>1 DEF CIS!TypeOK
<1>3. \A n \in Nodes : \A e : CISKnown(n, e)' => CISKnown(n, e)
      BY <1>1, <1>2 DEF CISKnown, CIS!JobHasAnyCondition
<1>4. CIS!Scan' = CIS!Scan
      BY <1>1 DEF CIS!Scan
<1> QED BY <1>1, <1>3, <1>4, CISForgets

\* What reconcileNodes does: a job is created only where there is none.
LEMMA CISProtocolNodes ==
  ASSUME CIS!ConstantsAssumption, CIS!TypeOK, ReportsKept, CIS!NodeWorker \/ CIS!NodeError,
         faults > 0 => faults' > 0
  PROVE  CIS!Protocol!Next
<1>1. UNCHANGED <<node, cJob, report, jobWork, edits>>
      BY DEF CIS!NodeWorker, CIS!NodeError, CIS!ReconcileNodes, CIS!CheckReport, CIS!CheckJob,
         CIS!CheckLimit, CIS!CreateJob, CIS!At, CIS!Fault, CIS!SetJob, CIS!nodeVars, CIS!jobVars,
         CIS!reportVars, CIS!collectorVars, CIS!boundVars
<1>2. CASE UNCHANGED job
      BY <1>1, <1>2, CISKnownFrame, CISForgets
<1>3. CASE CIS!CreateJob /\ job[work.key] = NoJob
  <2> DEFINE n == work.key
  <2>1. n \in Nodes
        BY <1>3 DEF CIS!CreateJob, CIS!At, CIS!TypeOK, CIS!NodeTask
  <2>2. job'[n] = CIS!NewScanJob /\ \A m \in Nodes : m # n => job'[m] = job[m]
        BY <1>3, <2>1 DEF CIS!CreateJob, CIS!SetJob, CIS!TypeOK
  <2>3. CIS!NewScanJob # NoJob /\ CIS!NewScanJob.cond = "none"
    <3>1. CIS!NewScanJob \in CIS!Job
          BY DEF CIS!NewScanJob, CIS!Job
    <3> QED BY <3>1 DEF CIS!NewScanJob, CIS!ConstantsAssumption
  <2>4. edits > 0 \/ CIS!Wanted[n] = CIS!Benchmark
        BY <2>1 DEF ReportsKept, CIS!Wanted, CIS!Absent, CIS!TypeOK
  <2>5. CIS!Scan' = [CIS!Scan EXCEPT ![n] = {<<CIS!Benchmark, "none">>}]
    <3>1. CIS!Scan'[n] = {<<CIS!Benchmark, "none">>}
          BY <2>1, <2>2, <2>3, CISScanOf
    <3> QED BY <2>1, <2>2, <3>1, CISScanSet
  <2>6. CIS!Ended' = CIS!Ended
    <3>1. \A m \in Nodes : \A e : CISKnown(m, e)' <=> CISKnown(m, e)
          BY <1>1, <1>3, <2>2, <2>3 DEF CISKnown, CIS!JobHasAnyCondition
    <3>2. \A m \in Nodes : CIS!Ended'[m] = CIS!Ended[m]
          BY <3>1, CISMapped
    <3> QED BY <3>2 DEF CIS!Ended
  <2>7. CIS!Scan[n] = {}
        BY <1>3, <2>1, CISScanOf
  <2>8. CIS!Wanted' = CIS!Wanted /\ CIS!Reports' = CIS!Reports
        BY <1>1 DEF CIS!Wanted, CIS!Reports
  <2>9. CIS!Protocol!Submit(n, CIS!Benchmark)
        BY <1>1, <2>4, <2>5, <2>6, <2>7, <2>8 DEF CIS!Protocol!Submit
  <2> QED BY <2>1, <2>9 DEF CIS!Protocol!Next
<1> QED BY <1>2, <1>3 DEF CIS!NodeWorker, CIS!NodeError, CIS!ReconcileNodes, CIS!CheckReport,
        CIS!CheckJob, CIS!CheckLimit, CIS!CreateJob, CIS!jobVars

\* What reconcileJobs does: it acts on the ends that it got to know, stores
\* reports and discards jobs.
LEMMA CISProtocolJobs ==
  ASSUME CIS!ConstantsAssumption, CISCalmInv, CIS!JobWorker \/ CIS!JobError, faults > 0 => faults' > 0
  PROVE  CIS!Protocol!Next
<1> USE DEF CIS!ConstantsAssumption
<1>1. CIS!TypeOK /\ OutKnown
      BY DEF CISCalmInv, CISInv
<1>2. UNCHANGED <<node, cJob, edits>>
      BY DEF CIS!JobWorker, CIS!JobError, CIS!ReconcileJobs, CIS!GetNode, CIS!CheckJobReport,
         CIS!ReadLogs, CIS!WriteReport, CIS!GetStatuses, CIS!DeleteJob, CIS!JobAt, CIS!JobNoWrite,
         CIS!SetJob, CIS!Fault, CIS!nodeVars, CIS!jobVars, CIS!boundVars
<1>3. \A n \in Nodes : \A e :
        job' = job => (CISKnown(n, e)' => CISKnown(n, e))
  <2>1. \/ jobWork' = Idle
        \/ UNCHANGED jobWork
        \/ jobWork # Idle /\ jobWork'.key = jobWork.key /\ jobWork'.cond = jobWork.cond
        \/ \E n \in Nodes :
             /\ CIS!JobHasAnyCondition(cJob[n])
             /\ jobWork'.key = n /\ jobWork'.cond = cJob[n].cond
        BY <1>1, CISPass DEF CIS!Next
  <2> QED BY <1>2, <2>1 DEF CISKnown, CIS!JobHasAnyCondition
<1>4. CASE UNCHANGED <<job, report>>
  <2>1. CIS!Scan' = CIS!Scan
        BY <1>4 DEF CIS!Scan
  <2> QED BY <1>2, <1>3, <1>4, <2>1, CISForgets
<1>5. CASE CIS!WriteReport
  <2> DEFINE n == jobWork.key
  <2>1. jobWork \in CIS!JobTask /\ n \in Nodes /\ jobWork # Idle /\ jobWork.out \in CIS!Report
        BY <1>1, <1>5 DEF CIS!WriteReport, CIS!JobAt, CIS!TypeOK, CIS!JobTask, OutKnown
  <2>2. job' = job
        BY <1>5 DEF CIS!WriteReport
  <2>3. CASE \E r \in CIS!Report : CIS!SetReport(n, r) /\ CIS!JobGoTo("delete")
    <3>1. PICK r \in CIS!Report : CIS!SetReport(n, r) /\ CIS!JobGoTo("delete")
          BY <2>3
    <3>2. jobWork' # Idle /\ jobWork'.key = n /\ jobWork'.cond = jobWork.cond
      <4>1. jobWork' \in CIS!JobTask /\ jobWork'.key = n /\ jobWork'.cond = jobWork.cond
            BY <2>1, <3>1 DEF CIS!JobGoTo, CIS!JobTask
      <4> QED BY <4>1
    <3>3. CIS!Scan' = CIS!Scan
          BY <2>2 DEF CIS!Scan
    <3>4. CIS!Ended' = CIS!Ended
      <4>1. \A m \in Nodes : \A e : CISKnown(m, e)' <=> CISKnown(m, e)
            BY <1>2, <2>1, <2>2, <3>2 DEF CISKnown, CIS!JobHasAnyCondition
      <4>2. \A m \in Nodes : CIS!Ended'[m] = CIS!Ended[m]
            BY <4>1, CISMapped
      <4> QED BY <4>2 DEF CIS!Ended
    <3>5. <<CIS!Benchmark, "complete">> \in CIS!Ended[n]
      <4>1. jobWork.cond = "complete"
            BY <1>5, <2>1 DEF CIS!WriteReport, CIS!JobAt, CISCalmInv, CISFailedPass, CIS!JobTask
      <4>2. CISKnown(n, <<CIS!Benchmark, "complete">>)
            BY <2>1, <4>1 DEF CISKnown
      <4> QED BY <2>1, <4>2, CISMapped
    <3>6. CIS!Reports' = [CIS!Reports EXCEPT ![n] = [CIS!Reports[n] EXCEPT !["report"] = CIS!Benchmark]]
      <4>1. r # NoReport
            BY DEF CIS!ConstantsAssumption
      <4>2. report' = [report EXCEPT ![n] = r] /\ report \in [Nodes -> CIS!Report \cup {NoReport}]
            BY <1>1, <3>1 DEF CIS!SetReport, CIS!TypeOK
      <4> QED BY <2>1, <4>1, <4>2, CISReportSet
    <3>7. CIS!Wanted' = CIS!Wanted
          BY <1>2 DEF CIS!Wanted
    <3>8. CIS!Protocol!Store(n, "report", CIS!Benchmark)
          BY <1>2, <3>3, <3>4, <3>5, <3>6, <3>7 DEF CIS!Protocol!Store
    <3> QED BY <2>1, <3>8 DEF CIS!Protocol!Next
  <2>4. cReport[n] # NoReport => [jobWork.out EXCEPT !.owner = cReport[n].owner] \in CIS!Report
        BY <1>1, <2>1 DEF CIS!TypeOK, CIS!Report
  <2> QED BY <1>4, <1>5, <2>1, <2>2, <2>3, <2>4 DEF CIS!WriteReport, CIS!reportVars
<1>6. CASE CIS!DeleteJob /\ job[jobWork.key] # NoJob
  <2> DEFINE n == jobWork.key
  <2>1. n \in Nodes /\ jobWork # Idle /\ jobWork.pc = "delete"
        BY <1>1, <1>6 DEF CIS!DeleteJob, CIS!JobAt, CIS!TypeOK, CIS!JobTask
  <2>2. jobWork' = Idle /\ UNCHANGED report
        BY <1>6 DEF CIS!DeleteJob, CIS!JobDone, CIS!reportVars
  <2>3. job'[n] = NoJob /\ \A m \in Nodes : m # n => job'[m] = job[m]
        BY <1>1, <1>6, <2>1 DEF CIS!DeleteJob, CIS!SetJob, CIS!TypeOK
  <2>4. \A m \in Nodes : \A e : CISKnown(m, e)' => CISKnown(m, e)
        BY <1>2, <2>2, <2>3 DEF CISKnown, CIS!JobHasAnyCondition
  <2>5. CIS!Scan[n] # {}
        BY <1>6, <2>1, CISScanOf
  <2>6. CIS!Ended[n] # {}
    <3>1. CISKnown(n, <<CIS!Benchmark, jobWork.cond>>)
          BY <2>1 DEF CISKnown
    <3> QED BY <2>1, <3>1, CISMapped
  <2>7. CIS!Protocol!Stored(n) \/ edits > 0 \/ faults > 0
    <3> SUFFICES ASSUME ~(edits > 0), ~(faults > 0) PROVE CIS!Protocol!Stored(n)
        OBVIOUS
    <3>1. CISCalm
          BY <1>1 DEF CISCalm, CIS!TypeOK
    <3>2. report[n] # NoReport
          BY <1>6, <2>1, <3>1 DEF CISCalmInv, CISInv, NoFailure, PassesKnown, DeletesKnown, CISCalm,
             CIS!JobHasAnyCondition
    <3>3. CIS!Reports[n]["report"] = CIS!Benchmark
          BY <2>1, <3>2, CISReportOf
    <3>4. CIS!Wanted[n] \in {CIS!Benchmark} => CIS!Wanted[n] = CIS!Benchmark
          OBVIOUS
    <3> QED BY <3>3, <3>4 DEF CIS!Protocol!Stored
  <2>8. CIS!Scan' = [CIS!Scan EXCEPT ![n] = {}]
    <3>1. CIS!Scan'[n] = {}
          BY <2>1, <2>3, CISScanOf
    <3> QED BY <2>1, <2>3, <3>1, CISScanSet
  <2>9. \A m \in Nodes : CIS!Ended'[m] \subseteq CIS!Ended[m]
        BY <2>4, CISMapped
  <2>10. CIS!Wanted' = CIS!Wanted /\ CIS!Reports' = CIS!Reports
        BY <1>2, <2>2 DEF CIS!Wanted, CIS!Reports
  <2>11. CIS!Protocol!Discard(n)
        BY <1>2, <2>5, <2>6, <2>7, <2>8, <2>9, <2>10 DEF CIS!Protocol!Discard, CIS!Protocol!Forgetting
  <2> QED BY <2>1, <2>11 DEF CIS!Protocol!Next
<1>7. \/ UNCHANGED <<job, report>>
      \/ CIS!WriteReport
      \/ CIS!DeleteJob /\ job[jobWork.key] # NoJob
      BY DEF CIS!JobWorker, CIS!JobError, CIS!ReconcileJobs, CIS!GetNode, CIS!CheckJobReport,
         CIS!ReadLogs, CIS!GetStatuses, CIS!DeleteJob, CIS!JobAt, CIS!JobNoWrite,
         CIS!jobVars, CIS!reportVars
<1> QED BY <1>4, <1>5, <1>6, <1>7

\* Initially nothing is scanned and nothing reported.
LEMMA CISProtocolInit ==
  ASSUME CIS!ConstantsAssumption, CIS!Init
  PROVE  CISCalmInv /\ CIS!Protocol!Init
<1>1. CISCalmInv
      BY CISInit DEF CIS!Init, CISCalmInv, CISFailedPass, NoFailure
<1>2. CIS!Scan = [n \in Nodes |-> {}]
      BY DEF CIS!Init, CIS!Scan
<1>3. CIS!Ended = [n \in Nodes |-> {}]
  <2>1. \A n \in Nodes : CIS!Ended[n] = {}
        BY CISMapped DEF CIS!Init, CISKnown, CIS!JobHasAnyCondition
  <2> QED BY <2>1 DEF CIS!Ended
<1>4. CIS!Reports = [n \in Nodes |-> [p \in {"report"} |-> NoReport]]
      BY DEF CIS!Init, CIS!Reports
<1> QED BY <1>1, <1>2, <1>3, <1>4 DEF CIS!Init, CIS!Protocol!Init

\* Every step of the two controllers and of what they run in is one of the protocol.
LEMMA CISProtocolStep ==
  ASSUME CIS!ConstantsAssumption, CISCalmInv, [CIS!Next]_CIS!vars
  PROVE  CIS!Protocol!Next
<1>1. CIS!TypeOK /\ ReportsKept
      BY DEF CISCalmInv, CISInv
<1>2. faults > 0 => faults' > 0
      BY <1>1, CISCounters
<1>3. CASE UNCHANGED CIS!vars
      BY <1>2, <1>3, CISKnownFrame, CISForgets DEF CIS!vars
<1> QED BY <1>1, <1>2, <1>3, CISProtocolCluster, CISProtocolInformer, CISProtocolNodes,
        CISProtocolJobs DEF CIS!Next

\* The CIS benchmark controllers follow the protocol of scans: a node gets a
\* report only from a job that completed, has one job at a time, and as long as
\* nothing is edited and nothing fails no job is deleted without its report, not
\* even by a pass over an earlier job of the same node.
THEOREM CISFollowsProtocol == ASSUME CIS!ConstantsAssumption PROVE CIS!Spec => CIS!FollowsProtocol
<1>1. CIS!Init => CISCalmInv /\ CIS!Protocol!Init
      BY CISProtocolInit
<1>2. CISCalmInv /\ [CIS!Next]_CIS!vars => CISCalmInv'
      BY CISCalmStep
<1>3. CISCalmInv /\ [CIS!Next]_CIS!vars =>
        [CIS!Protocol!Next]_<<CIS!Wanted, CIS!Scan, CIS!Ended, CIS!Reports, edits > 0, faults > 0>>
      BY CISProtocolStep
<1> QED BY <1>1, <1>2, <1>3, PTL DEF CIS!Spec, CIS!FollowsProtocol, CIS!Protocol!Spec
==============================================================================
