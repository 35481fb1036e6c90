----------------------- MODULE VulnerabilityScanProofs -----------------------
(***************************************************************************)
(* Proofs about VulnerabilityScan for every value of its constants: the    *)
(* type invariant, JobHasSecret, NoResultLost, SettledIsStable, and that   *)
(* the scanner implements ScanProtocol.                                    *)
(***************************************************************************)
EXTENDS VulnerabilityScan, TLAPS

\* Only the reconciliation that created the secret goes on to create the job.
SecretFresh ==
  \A k \in Kinds :
    At(k, "create") /\ work[k].key \in Private => secret[work[k].key] = "orphan"

SecretInv == TypeOK /\ JobHasSecret /\ SecretFresh

\* Nobody has edited a workload or deleted a report yet.
Quiet == edits = 0

\* Every report of the workload is stored.
Stored(w) == \A c \in ContainersOf[spec[w]] : rep[w][c] = spec[w]

\* Nothing anywhere belongs to another version than the only one.
OneVersion ==
  /\ cSpec = spec
  /\ \A w \in Workloads :
       /\ job[w] # NoJob => job[w].hash = spec[w]
       /\ cJob[w] # NoJob => cJob[w].hash = spec[w]
       /\ \A c \in Containers :
            /\ rep[w][c] # NoReport => rep[w][c] = spec[w]
            /\ cRep[w][c] # NoReport => rep[w][c] = spec[w]
  /\ \A k \in Kinds : work[k] # Idle => work[k].hash = spec[work[k].key]
  /\ jobWork # Idle => jobWork.hash = spec[jobWork.key]

\* What the scan job controller did so far in this pass.
PassInv ==
  jobWork # Idle =>
    /\ jobWork.pc = "write" =>
         \A c \in ContainersOf[jobWork.hash] \ jobWork.todo :
           rep[jobWork.key][c] = jobWork.hash
    /\ jobWork.pc = "delete" => Stored(jobWork.key)

ResultInv == TypeOK /\ (Quiet => OneVersion /\ PassInv)

-----------------------------------------------------------------------------
USE ConstantsAssumption, SentinelsAssumption

\* The fields of a scan job.
LEMMA JobFields ==
  ASSUME NEW j \in Job
  PROVE  j.hash \in Specs /\ j.cond \in {"none", "complete", "failed"}
BY DEF Job

\* A record with the right fields is a job.
LEMMA JobMake ==
  ASSUME NEW h \in Specs, NEW c \in {"none", "complete", "failed"}
  PROVE  [hash |-> h, cond |-> c] \in Job
BY DEF Job

\* The fields of a task of reconcileWorkload.
LEMMA TaskFields ==
  ASSUME NEW t \in Task
  PROVE  /\ t.pc \in {"reports", "job", "limit", "secret", "create", "owner"}
         /\ t.key \in Workloads
         /\ t.hash \in Specs
BY DEF Task

\* A record with the right fields is a task.
LEMMA TaskMake ==
  ASSUME NEW l \in {"reports", "job", "limit", "secret", "create", "owner"},
         NEW w \in Workloads, NEW h \in Specs
  PROVE  [pc |-> l, key |-> w, hash |-> h] \in Task
BY DEF Task

\* The fields of a task of reconcileJobs.
LEMMA JobTaskFields ==
  ASSUME NEW t \in JobTask
  PROVE  /\ t.pc \in {"owner", "reports", "logs", "write", "statuses", "delete", "drop"}
         /\ t.key \in Workloads
         /\ t.hash \in Specs
         /\ t.cond \in {"complete", "failed"}
         /\ t.todo \in SUBSET Containers
         /\ t.from \in Specs
BY DEF JobTask

\* A record with the right fields is a task of reconcileJobs.
LEMMA JobTaskMake ==
  ASSUME NEW l \in {"owner", "reports", "logs", "write", "statuses", "delete", "drop"},
         NEW w \in Workloads, NEW h \in Specs, NEW c \in {"complete", "failed"},
         NEW todo \in SUBSET Containers, NEW from \in Specs
  PROVE  [pc |-> l, key |-> w, hash |-> h, cond |-> c, todo |-> todo, from |-> from] \in JobTask
BY DEF JobTask

-----------------------------------------------------------------------------
\* The initial states are well-typed.
LEMMA TypeInit == Init => TypeOK
BY DEF Init, TypeOK

\* Storing a report keeps the types.
LEMMA StoreType ==
  ASSUME TypeOK, NEW w \in Workloads, NEW c \in Containers,
         NEW h \in Specs \cup {NoReport}, NEW o \in Specs \cup {NoReport},
         StoreReport(w, c, h, o)
  PROVE  /\ rep' \in [Workloads -> [Containers -> Specs \cup {NoReport}]]
         /\ origin' \in [Workloads -> [Containers -> Specs \cup {NoReport}]]
         /\ repLag' \subseteq Workloads \X Containers
         /\ cRep' = cRep
BY DEF StoreReport, TypeOK

\* Storing a report changes that report and no other.
LEMMA StoreEffect ==
  ASSUME TypeOK, NEW w \in Workloads, NEW c \in Containers, NEW h, NEW o,
         StoreReport(w, c, h, o)
  PROVE  \A v \in Workloads, d \in Containers :
           rep'[v][d] = IF v = w /\ d = c THEN h ELSE rep[v][d]
<1>1. rep[w] \in [Containers -> Specs \cup {NoReport}]
  BY DEF TypeOK
<1>2. PICK f : f = [rep[w] EXCEPT ![c] = h]
  OBVIOUS
<1>3. \A d \in Containers : f[d] = IF d = c THEN h ELSE rep[w][d]
  BY <1>1, <1>2
<1>4. rep' = [rep EXCEPT ![w] = f]
  BY <1>2 DEF StoreReport
<1>5. \A v \in Workloads : rep'[v] = IF v = w THEN f ELSE rep[v]
  BY <1>4 DEF TypeOK
<1> QED
  BY <1>3, <1>5

\* A job that finishes keeps the types.
LEMMA FinishType ==
  ASSUME TypeOK, NEW w \in Workloads, NEW cond \in {"complete", "failed"},
         NEW output \in {"good", "bad", "gone"}, FinishJob(w, cond, output),
         faults' \in 0..MaxFaults
  PROVE  TypeOK'
<1>1. [hash |-> job[w].hash, cond |-> cond] \in Job
  <2>1. job[w] \in Job
    BY DEF FinishJob, TypeOK
  <2>2. job[w].hash \in Specs
    BY <2>1, JobFields
  <2> QED
    BY <2>2, JobMake
<1>2. job' \in [Workloads -> Job \cup {NoJob}]
  BY <1>1 DEF FinishJob, TypeOK
<1> QED
  BY <1>2 DEF FinishJob, TypeOK, specVars, repVars, workerVars, collectorVars

\* What users and Kubernetes do keeps the types.
LEMMA ClusterType == TypeOK /\ ClusterNext => TypeOK'
<1> SUFFICES ASSUME TypeOK, ClusterNext PROVE TypeOK'
  OBVIOUS
<1> USE DEF specVars, jobVars, repVars, workerVars, collectorVars, boundVars
<1>1. ASSUME NEW w \in Workloads, EditWorkload(w) PROVE TypeOK'
  BY <1>1 DEF EditWorkload, Edit, TypeOK
<1>2. ASSUME NEW w \in Workloads, CollectSecret(w) PROVE TypeOK'
  BY <1>2 DEF CollectSecret, TypeOK
<1>3. ASSUME NEW w \in Workloads, CompleteJob(w) PROVE TypeOK'
  <2>1. PICK output \in Outputs : FinishJob(w, "complete", output)
    BY <1>3 DEF CompleteJob
  <2>2. faults' \in 0..MaxFaults
    BY <1>3 DEF CompleteJob, TypeOK
  <2> QED
    BY <2>1, <2>2, FinishType
<1>4. ASSUME NEW w \in Workloads, FailJob(w) PROVE TypeOK'
  <2>1. PICK output \in {"bad", "gone"} : FinishJob(w, "failed", output)
    BY <1>4 DEF FailJob
  <2>2. faults' \in 0..MaxFaults
    BY <1>4 DEF FailJob, Fault, TypeOK
  <2> QED
    BY <2>1, <2>2, FinishType
<1>5. ASSUME NEW w \in Workloads, LosePod(w) PROVE TypeOK'
  BY <1>5 DEF LosePod, Fault, TypeOK
<1>6. ASSUME NEW w \in Workloads, NEW c \in Containers, UserDeletesReport(w, c)
      PROVE  TypeOK'
  BY <1>6, StoreType DEF UserDeletesReport, Edit, TypeOK
<1>7. ASSUME NEW w \in Workloads, NEW c \in Containers, CollectReport(w, c)
      PROVE  TypeOK'
  BY <1>7, StoreType DEF CollectReport, TypeOK
<1>8. ASSUME NEW w \in Workloads, StartPod(w) PROVE TypeOK'
  BY <1>8 DEF StartPod, TypeOK
<1> QED
  BY <1>1, <1>2, <1>3, <1>4, <1>5, <1>6, <1>7, <1>8 DEF ClusterNext

\* Informer events and ended delays keep the types.
LEMMA InformerType ==
  ASSUME TypeOK, NEW w \in Workloads,
         \/ SyncWorkload(w) \/ SyncJob(w) \/ FireDelayed(w) \/ FireJobDelayed(w)
         \/ \E c \in Containers : SyncReport(w, c)
  PROVE  TypeOK'
<1> USE DEF TypeOK, specVars, jobVars, repVars, workerVars, collectorVars, boundVars
<1>1. CASE SyncWorkload(w)
  BY <1>1 DEF SyncWorkload
<1>2. CASE SyncJob(w)
  BY <1>2 DEF SyncJob
<1>3. CASE FireDelayed(w)
  BY <1>3 DEF FireDelayed
<1>4. CASE FireJobDelayed(w)
  BY <1>4 DEF FireJobDelayed
<1>5. ASSUME NEW c \in Containers, SyncReport(w, c) PROVE TypeOK'
  BY <1>5 DEF SyncReport
<1> QED
  BY <1>1, <1>2, <1>3, <1>4, <1>5

\* The resync keeps the types.
LEMMA ResyncType == ASSUME TypeOK, Resync PROVE TypeOK'
BY DEF Resync, TypeOK, specVars, jobVars, repVars, boundVars

\* A restart keeps the types.
LEMMA RestartType == ASSUME TypeOK, Restart PROVE TypeOK'
BY DEF Restart, Fault, TypeOK

\* Every step of the reconciliation of a key keeps the types.
LEMMA WorkerType ==
  ASSUME TypeOK, NEW k \in Kinds, WorkerNext(k) \/ WorkerError(k)
  PROVE  TypeOK'
<1> USE DEF TypeOK, specVars, jobVars, repVars, collectorVars, boundVars
<1> DEFINE WorkOK(f) == /\ f \in [Kinds -> Task \cup {Idle}]
                        /\ \A j \in Kinds : f[j] # Idle => KindOf[f[j].key] = j
<1>1. CASE ReconcileWorkload(k)
  <2>1. PICK w \in queue :
          /\ KindOf[w] = k
          /\ queue' = queue \ {w}
          /\ IF cSpec[w] = NoWorkload \/ w \in Ignored
             THEN UNCHANGED work
             ELSE work' = [work EXCEPT ![k] = [pc |-> "reports", key |-> w,
                                               hash |-> cSpec[w]]]
    BY <1>1 DEF ReconcileWorkload
  <2>2. CASE UNCHANGED work
    BY <1>1, <2>1, <2>2 DEF ReconcileWorkload
  <2>3. CASE cSpec[w] # NoWorkload /\ w \notin Ignored
    <3>1. [pc |-> "reports", key |-> w, hash |-> cSpec[w]] \in Task
      BY <2>3, TaskMake
    <3>2. PICK t \in Task : t.key = w /\ work' = [work EXCEPT ![k] = t]
      BY <2>1, <2>3, <3>1
    <3>3. WorkOK(work')
      BY <2>1, <3>2
    <3> QED
      BY <1>1, <2>1, <3>3 DEF ReconcileWorkload
  <2> QED
    BY <2>1, <2>2, <2>3
<1>2. CASE work[k] # Idle
  <2>1. /\ work[k] \in Task /\ work[k].key \in Workloads /\ work[k].hash \in Specs
        /\ KindOf[work[k].key] = k
    BY <1>2, TaskFields
  <2>2. ASSUME NEW l \in {"job", "limit", "secret", "create", "owner"}, GoTo(k, l)
        PROVE  WorkOK(work') /\ delayed' \subseteq Workloads
    <3>1. [pc |-> l, key |-> work[k].key, hash |-> work[k].hash] \in Task
      BY <2>1, TaskMake
    <3>2. PICK t \in Task : t.key = work[k].key /\ work' = [work EXCEPT ![k] = t]
      BY <2>2, <3>1 DEF GoTo
    <3> QED
      BY <2>1, <2>2, <3>2 DEF GoTo
  <2>3. ASSUME Done(k) \/ Requeue(k)
        PROVE  WorkOK(work') /\ delayed' \subseteq Workloads
    BY <2>1, <2>3 DEF Done, Requeue
  <2>4. CASE CheckReports(k)
    BY <2>2, <2>3, <2>4 DEF CheckReports
  <2>5. CASE CheckScanJob(k)
    BY <2>2, <2>3, <2>5 DEF CheckScanJob
  <2>6. CASE CheckLimit(k)
    BY <2>2, <2>3, <2>6 DEF CheckLimit
  <2>7. CASE CreateSecret(k)
    BY <2>1, <2>2, <2>3, <2>7 DEF CreateSecret
  <2>8. CASE CreateJob(k)
    <3>1. [hash |-> work[k].hash, cond |-> "none"] \in Job
      BY <2>1, JobMake
    <3>2. PICK j \in Job : job' = job \/ job' = [job EXCEPT ![work[k].key] = j]
      BY <2>8, <3>1 DEF CreateJob
    <3>0. job \in [Workloads -> Job \cup {NoJob}]
      OBVIOUS
    <3>3. job' \in [Workloads -> Job \cup {NoJob}]
      BY ONLY <3>0, <3>2
    <3>4. /\ pod' \in [Workloads -> {"running", "good", "bad", "gone"}]
          /\ stale' \subseteq Workloads
      <4>1. \/ pod' = [pod EXCEPT ![work[k].key] = "gone"]
               /\ stale' = stale \cup {work[k].key}
            \/ UNCHANGED <<pod, stale>>
        BY <2>8 DEF CreateJob
      <4> QED
        BY <2>1, <4>1
    <3>5. WorkOK(work') /\ delayed' \subseteq Workloads
      BY <2>2, <2>3, <2>8 DEF CreateJob
    <3> QED
      BY <2>8, <3>3, <3>4, <3>5 DEF CreateJob
  <2>9. CASE SetOwnerReference(k)
    BY <2>1, <2>3, <2>9 DEF SetOwnerReference
  <2>10. CASE WorkerError(k)
    BY <2>3, <2>10 DEF WorkerError, Fault
  <2> QED
    BY <1>1, <2>4, <2>5, <2>6, <2>7, <2>8, <2>9, <2>10 DEF WorkerNext
<1> QED
  BY <1>1, <1>2 DEF WorkerNext, WorkerError, CheckReports, CheckScanJob, CheckLimit,
                    CreateSecret, CreateJob, SetOwnerReference, At

\* Every step of reconcileJobs keeps the types.
LEMMA CollectorType ==
  ASSUME TypeOK, JobNext \/ JobError
  PROVE  TypeOK'
<1> USE DEF TypeOK, specVars, jobVars, repVars, workerVars, boundVars
<1> DEFINE PassOK(t) == /\ t \in JobTask \cup {Idle}
                        /\ t # Idle => t.todo \subseteq ContainersOf[t.hash]
<1>1. CASE ReconcileJobs
  <2>1. PICK w \in jobQueue :
          /\ jobQueue' = jobQueue \ {w}
          /\ IF Finished(cJob[w])
             THEN jobWork' = [pc |-> IF cJob[w].cond = "complete" THEN "owner"
                                                                  ELSE "statuses",
                              key |-> w, hash |-> cJob[w].hash,
                              cond |-> cJob[w].cond, todo |-> {}, from |-> cJob[w].hash]
             ELSE UNCHANGED jobWork
    BY <1>1 DEF ReconcileJobs
  <2>2. CASE UNCHANGED jobWork
    BY <1>1, <2>1, <2>2 DEF ReconcileJobs
  <2>3. CASE Finished(cJob[w])
    <3>1. cJob[w].hash \in Specs /\ cJob[w].cond \in {"complete", "failed"}
      BY <2>3, JobFields DEF Finished
    <3>3. PICK l \in {"owner", "statuses"} :
            jobWork' = [pc |-> l, key |-> w, hash |-> cJob[w].hash,
                        cond |-> cJob[w].cond, todo |-> {}, from |-> cJob[w].hash]
      BY <2>1, <2>3
    <3>4. w \in Workloads /\ {} \in SUBSET Containers
      BY <2>1
    <3>2. jobWork' \in JobTask /\ jobWork'.todo = {}
      BY ONLY <3>1, <3>3, <3>4, JobTaskMake
    <3> QED
      BY <1>1, <2>1, <3>2 DEF ReconcileJobs
  <2> QED
    BY <2>1, <2>2, <2>3
<1>2. CASE jobWork # Idle
  <2>1. /\ jobWork \in JobTask /\ jobWork.key \in Workloads
        /\ jobWork.hash \in Specs /\ jobWork.cond \in {"complete", "failed"}
        /\ jobWork.todo \subseteq ContainersOf[jobWork.hash] /\ jobWork.from \in Specs
    BY <1>2, JobTaskFields
  <2>2. ASSUME NEW l \in {"reports", "logs", "write", "delete", "drop"},
               NEW todo \in SUBSET ContainersOf[jobWork.hash], NEW from \in Specs,
               JobGoOn(l, todo, from)
        PROVE  PassOK(jobWork') /\ jobDelayed' \subseteq Workloads
    <3>1. todo \in SUBSET Containers
      BY <2>1
    <3>2. jobWork' \in JobTask
      BY <2>1, <2>2, <3>1, JobTaskMake DEF JobGoTo, JobGoOn
    <3>3. jobWork'.todo = todo /\ jobWork'.hash = jobWork.hash
      BY <2>2 DEF JobGoTo, JobGoOn
    <3> QED
      BY <2>2, <3>2, <3>3 DEF JobGoTo, JobGoOn
  <2>3. ASSUME JobDone \/ JobRequeue
        PROVE  PassOK(jobWork') /\ jobDelayed' \subseteq Workloads
    BY <2>1, <2>3 DEF JobDone, JobRequeue
  <2>4. CASE GetOwner
    BY <2>1, <2>2, <2>4 DEF GetOwner, JobGoTo
  <2>5. CASE CheckJobReports
    BY <2>1, <2>2, <2>5 DEF CheckJobReports, JobGoTo
  <2>6. CASE ReadLogs
    <3>1. job[jobWork.key] # NoJob => job[jobWork.key].hash \in Specs
      BY <2>1, JobFields
    <3> QED
      BY <2>1, <2>2, <2>3, <2>6, <3>1 DEF ReadLogs, JobGoTo
  <2>7. CASE WriteReports
    <3>1. PassOK(jobWork') /\ jobDelayed' \subseteq Workloads
      BY <2>1, <2>2, <2>3, <2>7 DEF WriteReports, JobGoTo
    <3>2. /\ rep' \in [Workloads -> [Containers -> Specs \cup {NoReport}]]
          /\ origin' \in [Workloads -> [Containers -> Specs \cup {NoReport}]]
          /\ repLag' \subseteq Workloads \X Containers
          /\ cRep' = cRep
      BY <2>1, <2>7, StoreType DEF WriteReports
    <3> QED
      BY <2>7, <3>1, <3>2 DEF WriteReports
  <2>8. CASE GetStatuses
    BY <2>1, <2>2, <2>3, <2>8 DEF GetStatuses, JobGoTo
  <2>9. CASE DeleteJob
    BY <2>1, <2>3, <2>9 DEF DeleteJob, Fault
  <2>10. CASE JobError
    BY <2>3, <2>10 DEF JobError, Fault
  <2> QED
    BY <1>1, <2>4, <2>5, <2>6, <2>7, <2>8, <2>9, <2>10 DEF JobNext
<1> QED
  BY <1>1, <1>2 DEF JobNext, JobError, GetOwner, CheckJobReports, ReadLogs,
                    WriteReports, GetStatuses, DeleteJob, JobAt

\* Every step keeps the types.
LEMMA TypeStep == TypeOK /\ [Next]_vars => TypeOK'
<1> SUFFICES ASSUME TypeOK, [Next]_vars PROVE TypeOK'
  OBVIOUS
<1>1. CASE UNCHANGED vars
  BY <1>1 DEF vars, TypeOK
<1>2. CASE ClusterNext
  BY <1>2, ClusterType
<1>3. CASE OperatorNext
  BY <1>3, InformerType, ResyncType, RestartType, WorkerType, CollectorType
     DEF OperatorNext
<1> QED
  BY <1>1, <1>2, <1>3 DEF Next

\* Type correctness of the scanner, for every instance.
THEOREM TypeCorrect == Spec => []TypeOK
<1>1. Init => TypeOK
  BY TypeInit
<1>2. TypeOK /\ [Next]_vars => TypeOK'
  BY TypeStep
<1> QED
  BY <1>1, <1>2, PTL DEF Spec
-----------------------------------------------------------------------------
\* Steps that create no job, leave the secrets alone and start no worker at
\* "create" keep SecretInv.
LEMMA SecretFrame ==
  ASSUME SecretInv, TypeOK', secret' = secret,
         \A w \in Workloads : job[w] = NoJob => job'[w] = NoJob,
         \A k \in Kinds : work'[k] = work[k] \/ ~At(k, "create")'
  PROVE  SecretInv'
<1>1. JobHasSecret'
  BY DEF SecretInv, JobHasSecret
<1>2. SecretFresh'
  BY DEF SecretInv, SecretFresh, At
<1> QED
  BY <1>1, <1>2 DEF SecretInv

\* Users, jobs and pods leave the secrets alone.
LEMMA SecretCluster ==
  ASSUME SecretInv, TypeOK', NEW w \in Workloads,
         \/ EditWorkload(w) \/ StartPod(w) \/ CompleteJob(w) \/ FailJob(w) \/ LosePod(w)
         \/ \E c \in Containers : UserDeletesReport(w, c) \/ CollectReport(w, c)
  PROVE  SecretInv'
<1>1. secret' = secret /\ work' = work
  BY DEF EditWorkload, Edit, StartPod, CompleteJob, FailJob, FinishJob, LosePod,
         UserDeletesReport, CollectReport, jobVars, workerVars
<1>2. \A v \in Workloads : job[v] = NoJob => job'[v] = NoJob
  BY DEF EditWorkload, Edit, StartPod, CompleteJob, FailJob, FinishJob, LosePod,
         UserDeletesReport, CollectReport, jobVars, SecretInv, TypeOK
<1> QED
  BY <1>1, <1>2, SecretFrame

\* The garbage collector takes only secrets that no job uses.
LEMMA SecretCollected ==
  ASSUME SecretInv, TypeOK', NEW w \in Workloads, CollectSecret(w)
  PROVE  SecretInv'
<1>1. JobHasSecret'
  BY DEF SecretInv, JobHasSecret, CollectSecret, TypeOK
<1>2. SecretFresh'
  <2> SUFFICES ASSUME NEW k \in Kinds, At(k, "create"), work[k].key \in Private
               PROVE  secret'[work[k].key] = "orphan"
    BY DEF SecretFresh, At, CollectSecret, workerVars
  <2>1. secret[work[k].key] = "orphan"
    BY DEF SecretInv, SecretFresh
  <2> QED
    BY <2>1 DEF SecretInv, CollectSecret, TypeOK
<1> QED
  BY <1>1, <1>2 DEF SecretInv

\* Informers and restarts leave the secrets alone.
LEMMA SecretInformer ==
  ASSUME SecretInv, TypeOK',
         \/ \E w \in Workloads :
              \/ SyncWorkload(w) \/ SyncJob(w) \/ FireDelayed(w) \/ FireJobDelayed(w)
              \/ \E c \in Containers : SyncReport(w, c)
         \/ Resync \/ Restart
  PROVE  SecretInv'
<1>1. secret' = secret /\ job' = job
  BY DEF SyncWorkload, SyncJob, FireDelayed, FireJobDelayed, SyncReport, Resync,
         Restart, jobVars
<1>2. work' = work \/ work' = [k \in Kinds |-> Idle]
  BY DEF SyncWorkload, SyncJob, FireDelayed, FireJobDelayed, SyncReport, Resync,
         Restart, workerVars
<1>3. \A k \in Kinds : work'[k] = work[k] \/ ~At(k, "create")'
  BY <1>2 DEF At
<1> QED
  BY <1>1, <1>3, SecretFrame

\* submitScanJob creates a job only after a secret of its own.
LEMMA SecretWorker ==
  ASSUME SecretInv, TypeOK', NEW k \in Kinds, WorkerNext(k) \/ WorkerError(k)
  PROVE  SecretInv'
<1> USE DEF SecretInv
<1>1. CASE ReconcileWorkload(k)
  <2>1. secret' = secret /\ job' = job
    BY <1>1 DEF ReconcileWorkload, jobVars
  <2>2. PICK w \in queue : \/ UNCHANGED work
                           \/ work' = [work EXCEPT ![k] = [pc |-> "reports",
                                         key |-> w, hash |-> cSpec[w]]]
    BY <1>1 DEF ReconcileWorkload
  <2>3. \A j \in Kinds : work'[j] = work[j] \/ ~At(j, "create")'
    BY <2>2 DEF At, TypeOK
  <2> QED
    BY <2>1, <2>3, SecretFrame
<1>2. ASSUME Done(k) \/ Requeue(k)
      PROVE  \A j \in Kinds : work'[j] = work[j] \/ ~At(j, "create")'
  BY <1>2 DEF Done, Requeue, At, TypeOK
<1>3. ASSUME NEW l \in {"job", "limit", "secret", "owner"}, GoTo(k, l)
      PROVE  \A j \in Kinds : work'[j] = work[j] \/ ~At(j, "create")'
  BY <1>3 DEF GoTo, At, TypeOK
<1>4. CASE CheckReports(k) \/ CheckScanJob(k) \/ WorkerError(k)
  <2>1. secret' = secret /\ job' = job
    BY <1>4 DEF CheckReports, CheckScanJob, WorkerError, jobVars
  <2>2. Done(k) \/ Requeue(k) \/ GoTo(k, "job") \/ GoTo(k, "limit")
    BY <1>4 DEF CheckReports, CheckScanJob, WorkerError
  <2> QED
    BY <1>2, <1>3, <2>1, <2>2, SecretFrame
<1>5. CASE CheckLimit(k)
  <2>1. secret' = secret /\ job' = job
    BY <1>5 DEF CheckLimit, jobVars
  <2>2. CASE Requeue(k) \/ GoTo(k, "secret")
    BY <1>2, <1>3, <2>1, <2>2, SecretFrame
  <2>3. CASE work[k].key \notin Private /\ GoTo(k, "create")
    <3>1. JobHasSecret'
      BY <2>1 DEF JobHasSecret
    <3>2. work'[k].key \notin Private /\ \A j \in Kinds \ {k} : work'[j] = work[j]
      BY <2>3 DEF GoTo, TypeOK
    <3>3. SecretFresh'
      BY <2>1, <3>2 DEF SecretFresh, At
    <3> QED
      BY <3>1, <3>3
  <2> QED
    BY <1>5, <2>2, <2>3 DEF CheckLimit
<1>6. CASE CreateSecret(k)
  <2> DEFINE w == work[k].key
  <2>1. CASE secret[w] = "none"
    <3>1. /\ secret' = [secret EXCEPT ![w] = "orphan"] /\ job' = job
          /\ GoTo(k, "create")
      BY <1>6, <2>1 DEF CreateSecret
    <3>2. w \in Workloads /\ KindOf[w] = k
      BY <1>6, TaskFields DEF CreateSecret, At, TypeOK
    <3>3. JobHasSecret'
      BY <3>1, <3>2 DEF JobHasSecret, TypeOK
    <3>4. work'[k].key = w /\ \A j \in Kinds \ {k} : work'[j] = work[j]
      BY <3>1 DEF GoTo, TypeOK
    <3>5. SecretFresh'
      BY <3>1, <3>2, <3>4 DEF SecretFresh, At, TypeOK
    <3> QED
      BY <3>3, <3>5
  <2>2. CASE secret[w] # "none"
    BY <1>2, <1>6, <2>2, SecretFrame DEF CreateSecret
  <2> QED
    BY <2>1, <2>2
<1>7. CASE CreateJob(k)
  <2> DEFINE w == work[k].key
  <2>1. secret' = secret /\ (Done(k) \/ GoTo(k, "owner"))
    BY <1>7 DEF CreateJob
  <2>2. \A j \in Kinds : work'[j] = work[j] \/ ~At(j, "create")'
    BY <1>2, <1>3, <2>1
  <2>3. SecretFresh'
    BY <2>1, <2>2 DEF SecretFresh, At
  <2>4. w \in Private => secret[w] = "orphan"
    BY <1>7 DEF CreateJob, SecretFresh
  <2>5. \A v \in Workloads \ {w} : job'[v] = job[v]
    BY <1>7 DEF CreateJob, TypeOK
  <2>6. JobHasSecret'
    BY <2>1, <2>4, <2>5 DEF JobHasSecret
  <2> QED
    BY <2>3, <2>6
<1>8. CASE SetOwnerReference(k)
  <2> DEFINE w == work[k].key
  <2>1. Done(k) /\ job' = job
    BY <1>8 DEF SetOwnerReference
  <2>2. w \in Workloads /\ KindOf[w] = k
    BY <1>8, TaskFields DEF SetOwnerReference, At, TypeOK
  <2>3. /\ \A v \in Workloads \ {w} : secret'[v] = secret[v]
        /\ w \in Private /\ job[w] # NoJob => secret'[w] = "owned"
    BY <1>8, <2>2 DEF SetOwnerReference, TypeOK
  <2>4. JobHasSecret'
    BY <2>1, <2>3 DEF JobHasSecret
  <2>5. work'[k] = Idle /\ \A j \in Kinds \ {k} : work'[j] = work[j]
    BY <2>1 DEF Done, TypeOK
  <2>6. SecretFresh'
    <3> SUFFICES ASSUME NEW j \in Kinds, At(j, "create")', work'[j].key \in Private
                 PROVE  secret'[work'[j].key] = "orphan"
      BY DEF SecretFresh
    <3>1. j # k /\ work'[j] = work[j] /\ work[j] # Idle
      BY <2>5 DEF At
    <3>2. work[j].key \in Workloads \ {w}
      BY <2>2, <3>1 DEF TypeOK
    <3> QED
      BY <2>3, <3>1, <3>2 DEF SecretFresh, At
  <2> QED
    BY <2>4, <2>6
<1> QED
  BY <1>1, <1>4, <1>5, <1>6, <1>7, <1>8 DEF WorkerNext

\* deleteJob gives up the secret only with its job.
LEMMA SecretCollector ==
  ASSUME SecretInv, TypeOK', JobNext \/ JobError
  PROVE  SecretInv'
<1> USE DEF SecretInv
<1>1. CASE DeleteJob
  <2>1. work' = work
    BY <1>1 DEF DeleteJob, workerVars
  <2>2. jobWork.key \in Workloads
    BY <1>1, JobTaskFields DEF DeleteJob, JobAt, TypeOK
  <2>3. job'[jobWork.key] = NoJob
        /\ \A w \in Workloads \ {jobWork.key} : job'[w] = job[w] /\ secret'[w] = secret[w]
    BY <1>1, <2>2 DEF DeleteJob, TypeOK
  <2>4. secret[jobWork.key] = "orphan" => secret'[jobWork.key] = "orphan"
    BY <1>1 DEF DeleteJob
  <2>5. JobHasSecret'
    BY <2>3 DEF JobHasSecret
  <2>6. SecretFresh'
    BY <2>1, <2>3, <2>4 DEF SecretFresh, At
  <2> QED
    BY <2>5, <2>6
<1>2. CASE \/ ReconcileJobs \/ GetOwner \/ CheckJobReports \/ ReadLogs \/ WriteReports
           \/ GetStatuses \/ JobError
  <2>1. secret' = secret /\ job' = job /\ work' = work
    BY <1>2 DEF ReconcileJobs, GetOwner, CheckJobReports, ReadLogs, WriteReports,
                GetStatuses, JobError, jobVars, workerVars
  <2> QED
    BY <2>1, SecretFrame
<1> QED
  BY <1>1, <1>2 DEF JobNext

\* Every scan job of a private workload has its credentials, for any number of
\* workloads, kinds and faults.
THEOREM CredentialsStay == Spec => []JobHasSecret
<1>1. Init => SecretInv
  <2> SUFFICES ASSUME Init PROVE JobHasSecret /\ SecretFresh
    BY TypeInit DEF SecretInv
  <2> QED
    BY DEF Init, JobHasSecret, SecretFresh, At
<1>2. SecretInv /\ [Next]_vars => SecretInv'
  <2> SUFFICES ASSUME SecretInv, [Next]_vars PROVE SecretInv'
    OBVIOUS
  <2>1. TypeOK'
    BY TypeStep DEF SecretInv
  <2>2. CASE UNCHANGED vars
    BY <2>1, <2>2, SecretFrame DEF vars
  <2>3. CASE ClusterNext
    BY <2>1, <2>3, SecretCluster, SecretCollected DEF ClusterNext
  <2>4. CASE OperatorNext
    BY <2>1, <2>4, SecretInformer, SecretWorker, SecretCollector DEF OperatorNext
  <2> QED
    BY <2>2, <2>3, <2>4 DEF Next
<1>3. SecretInv => JobHasSecret
  BY DEF SecretInv
<1> QED
  BY <1>1, <1>2, <1>3, PTL DEF Spec
-----------------------------------------------------------------------------
\* Initially there are no jobs and no reports.
LEMMA ResultInit == Init => ResultInv
<1> SUFFICES ASSUME Init PROVE OneVersion /\ PassInv
  BY TypeInit DEF ResultInv
<1> QED
  BY DEF Init, OneVersion, PassInv

\* The counters only grow.
LEMMA QuietBefore == ASSUME TypeOK, [Next]_vars, Quiet' PROVE Quiet
<1>1. edits' = edits \/ edits' = edits + 1
  BY DEF Next, vars, ClusterNext, OperatorNext, WorkerNext, JobNext, EditWorkload, Edit,
         CollectSecret, StartPod, CompleteJob, FailJob, FinishJob, LosePod,
         UserDeletesReport, CollectReport, SyncWorkload, SyncJob, SyncReport, FireDelayed, FireJobDelayed,
         Resync, Restart, ReconcileWorkload, CheckReports, CheckScanJob, CheckLimit,
         CreateSecret, CreateJob, SetOwnerReference, WorkerError, ReconcileJobs,
         GetOwner, CheckJobReports, ReadLogs, WriteReports, GetStatuses, DeleteJob,
         JobError, boundVars
<1> QED
  BY <1>1 DEF Quiet, TypeOK

\* Steps of anyone but the scan job controller keep PassInv when they remove
\* no reports.
LEMMA PassFrame ==
  ASSUME TypeOK, PassInv, spec' = spec, jobWork' = jobWork,
         \A w \in Workloads, c \in Containers :
           rep[w][c] = spec[w] /\ spec[w] \in Specs => rep'[w][c] = rep[w][c],
         OneVersion
  PROVE  PassInv'
<1> SUFFICES ASSUME jobWork # Idle PROVE PassInv'
  BY DEF PassInv
<1>1. /\ jobWork.key \in Workloads /\ jobWork.hash \in Specs
      /\ jobWork.hash = spec[jobWork.key]
  BY JobTaskFields DEF TypeOK, OneVersion
<1>2. ContainersOf[jobWork.hash] \subseteq Containers
  BY <1>1
<1>3. Stored(jobWork.key) => Stored(jobWork.key)'
  BY <1>1, <1>2 DEF Stored
<1> QED
  BY <1>1, <1>2, <1>3 DEF PassInv

\* The cluster keeps the version, and loses no stored report.
LEMMA ResultCluster ==
  ASSUME ResultInv, TypeOK', Quiet, Quiet', ClusterNext
  PROVE  OneVersion' /\ PassInv'
<1> USE DEF specVars, jobVars, repVars, workerVars, collectorVars, boundVars
<1>0. TypeOK /\ OneVersion /\ PassInv
  BY DEF ResultInv
<1>1. ASSUME NEW w \in Workloads, EditWorkload(w) PROVE FALSE
  BY <1>1 DEF EditWorkload, Edit, Quiet
<1>2. ASSUME NEW w \in Workloads, NEW c \in Containers, UserDeletesReport(w, c)
      PROVE  FALSE
  BY <1>2 DEF UserDeletesReport, Edit, Quiet
<1>3. ASSUME NEW w \in Workloads, NEW c \in Containers, CollectReport(w, c)
      PROVE  FALSE
  BY <1>0, <1>3 DEF CollectReport, OneVersion, TypeOK
<1>4. ASSUME NEW w \in Workloads, CollectSecret(w)
      PROVE  OneVersion' /\ PassInv'
  BY <1>0, <1>4, PassFrame DEF CollectSecret, OneVersion
<1>5. ASSUME NEW w \in Workloads, NEW cond \in {"complete", "failed"}, NEW output,
             FinishJob(w, cond, output)
      PROVE  OneVersion' /\ PassInv'
  <2>1. /\ \A v \in Workloads \ {w} : job'[v] = job[v]
        /\ job'[w].hash = job[w].hash /\ job[w] # NoJob
        /\ UNCHANGED <<spec, cSpec, cJob, rep, cRep, work, jobWork>>
    BY <1>0, <1>5 DEF FinishJob, TypeOK
  <2>3. OneVersion'
    BY <1>0, <2>1 DEF OneVersion
  <2>4. PassInv'
    BY <1>0, <2>1, PassFrame
  <2> QED
    BY <2>3, <2>4
<1>6. ASSUME NEW w \in Workloads, StartPod(w) \/ LosePod(w)
      PROVE  OneVersion' /\ PassInv'
  <2>1. UNCHANGED <<spec, cSpec, job, cJob, rep, cRep, work, jobWork>>
    BY <1>6 DEF StartPod, LosePod
  <2> QED
    BY <1>0, <2>1, PassFrame DEF OneVersion
<1> QED
  BY <1>1, <1>2, <1>3, <1>4, <1>5, <1>6 DEF ClusterNext, CompleteJob, FailJob

\* The caches show the only version, or nothing.
LEMMA ResultInformer ==
  ASSUME ResultInv, TypeOK', Quiet,
         \/ \E w \in Workloads :
              \/ SyncWorkload(w) \/ SyncJob(w) \/ FireDelayed(w) \/ FireJobDelayed(w)
              \/ \E c \in Containers : SyncReport(w, c)
         \/ Resync \/ Restart
  PROVE  OneVersion' /\ PassInv'
<1>0. TypeOK /\ OneVersion /\ PassInv
  BY DEF ResultInv
<1>1. /\ UNCHANGED <<spec, job, rep>>
      /\ UNCHANGED work \/ work' = [k \in Kinds |-> Idle]
      /\ UNCHANGED jobWork \/ jobWork' = Idle
  BY DEF SyncWorkload, SyncJob, FireDelayed, FireJobDelayed, SyncReport, Resync,
         Restart, specVars, jobVars, repVars, workerVars, collectorVars
<1>2. cSpec' = cSpec \/ cSpec' = spec
  BY <1>0 DEF SyncWorkload, SyncJob, FireDelayed, FireJobDelayed, SyncReport, Resync,
         Restart, specVars, OneVersion
<1>3. \A w \in Workloads : cJob'[w] = cJob[w] \/ cJob'[w] = job[w]
  <2>1. \/ cJob' = cJob \/ cJob' = job
        \/ \E v \in Workloads : cJob' = [cJob EXCEPT ![v] = job[v]]
    BY DEF SyncWorkload, SyncJob, FireDelayed, FireJobDelayed, SyncReport, Resync,
           Restart, jobVars
  <2> QED
    BY <1>0, <2>1 DEF TypeOK
<1>4. \A w \in Workloads, c \in Containers :
        cRep'[w][c] = cRep[w][c] \/ cRep'[w][c] = rep[w][c]
  <2>1. \/ cRep' = cRep \/ cRep' = rep
        \/ \E v \in Workloads, d \in Containers :
             cRep' = [cRep EXCEPT ![v] = [cRep[v] EXCEPT ![d] = rep[v][d]]]
    BY DEF SyncWorkload, SyncJob, FireDelayed, FireJobDelayed, SyncReport, Resync,
           Restart, repVars
  <2>2. ASSUME NEW v \in Workloads, NEW d \in Containers,
               cRep' = [cRep EXCEPT ![v] = [cRep[v] EXCEPT ![d] = rep[v][d]]],
               NEW w \in Workloads, NEW c \in Containers
        PROVE  cRep'[w][c] = cRep[w][c] \/ cRep'[w][c] = rep[w][c]
    <3>1. cRep[v] \in [Containers -> Specs \cup {NoReport}]
      BY <1>0 DEF TypeOK
    <3>2. cRep'[w] = IF w = v THEN [cRep[v] EXCEPT ![d] = rep[v][d]] ELSE cRep[w]
      BY <1>0, <2>2 DEF TypeOK
    <3> QED
      BY <3>1, <3>2
  <2> QED
    BY <2>1, <2>2
<1>6. OneVersion'
  BY <1>0, <1>1, <1>2, <1>3, <1>4 DEF OneVersion
<1>7. PassInv'
  <2>1. CASE jobWork' = Idle
    BY <2>1 DEF PassInv
  <2>2. CASE UNCHANGED jobWork
    BY <1>0, <1>1, <2>2, PassFrame
  <2> QED
    BY <1>1, <2>1, <2>2
<1> QED
  BY <1>6, <1>7

\* Every new scan job is for the only version.
LEMMA ResultWorker ==
  ASSUME ResultInv, TypeOK', Quiet, NEW k \in Kinds, WorkerNext(k) \/ WorkerError(k)
  PROVE  OneVersion' /\ PassInv'
<1>0. TypeOK /\ OneVersion /\ PassInv
  BY DEF ResultInv
<1>1. UNCHANGED <<spec, cSpec, cJob, rep, cRep, jobWork>>
  BY DEF WorkerNext, ReconcileWorkload, CheckReports, CheckScanJob, CheckLimit,
         CreateSecret, CreateJob, SetOwnerReference, WorkerError, specVars, jobVars,
         repVars, collectorVars
<1>2. \A j \in Kinds : work'[j] # Idle => work'[j].hash = spec[work'[j].key]
  <2>1. ASSUME Done(k) \/ Requeue(k)
        PROVE  \A j \in Kinds : work'[j] # Idle => work'[j] = work[j]
    BY <1>0, <2>1 DEF Done, Requeue, TypeOK
  <2>2. ASSUME NEW l, GoTo(k, l), work[k] # Idle
        PROVE  \A j \in Kinds : \/ work'[j] = work[j]
                                \/ /\ work[j] # Idle
                                   /\ work'[j].key = work[j].key
                                   /\ work'[j].hash = work[j].hash
    BY <1>0, <2>2 DEF GoTo, TypeOK
  <2>3. CASE ReconcileWorkload(k)
    <3>1. PICK w \in queue :
            \/ UNCHANGED work
            \/ work' = [work EXCEPT ![k] = [pc |-> "reports", key |-> w,
                                            hash |-> cSpec[w]]]
      BY <2>3 DEF ReconcileWorkload
    <3>2. \A j \in Kinds : \/ work'[j] = work[j]
                           \/ work'[j].key = w /\ work'[j].hash = spec[w]
      BY <1>0, <3>1 DEF OneVersion, TypeOK
    <3> QED
      BY <1>0, <3>2 DEF OneVersion
  <2>4. CASE ~ReconcileWorkload(k)
    <3>1. /\ work[k] # Idle
          /\ \/ Done(k) \/ Requeue(k)
             \/ GoTo(k, "job") \/ GoTo(k, "limit") \/ GoTo(k, "secret")
             \/ GoTo(k, "create") \/ GoTo(k, "owner")
      BY <2>4 DEF WorkerNext, CheckReports, CheckScanJob, CheckLimit, CreateSecret,
                  CreateJob, SetOwnerReference, WorkerError, At
    <3> QED
      BY <1>0, <2>1, <2>2, <3>1 DEF OneVersion
  <2> QED
    BY <2>3, <2>4
<1>3. CASE ~CreateJob(k)
  <2>1. UNCHANGED job
    BY <1>3 DEF WorkerNext, ReconcileWorkload, CheckReports, CheckScanJob, CheckLimit,
         CreateSecret, SetOwnerReference, WorkerError, jobVars
  <2> QED
    BY <1>0, <1>1, <1>2, <2>1, PassFrame DEF OneVersion
<1>4. CASE CreateJob(k)
  <2> DEFINE w == work[k].key
  <2>1. CASE UNCHANGED job
    BY <1>0, <1>1, <1>2, <2>1, PassFrame DEF OneVersion
  <2>2. CASE job[w] = NoJob
    <3>1. w \in Workloads /\ work[k].hash = spec[w]
      BY <1>0, <1>4, TaskFields DEF CreateJob, At, OneVersion, TypeOK
    <3>2. /\ \A v \in Workloads \ {w} : job'[v] = job[v]
          /\ job'[w].hash = spec[w]
      BY <1>0, <1>4, <2>2, <3>1 DEF CreateJob, TypeOK
    <3>4. OneVersion'
      BY <1>0, <1>1, <1>2, <3>2 DEF OneVersion
    <3>5. PassInv'
      BY <1>0, <1>1, <2>2, <3>2, PassFrame
    <3> QED
      BY <3>4, <3>5
  <2> QED
    BY <1>4, <2>1, <2>2 DEF CreateJob
<1> QED
  BY <1>3, <1>4

\* Every pass of reconcileJobs is done with a job only with all reports stored.
LEMMA ResultCollector ==
  ASSUME ResultInv, TypeOK', Quiet, JobNext \/ JobError
  PROVE  OneVersion' /\ PassInv'
<1>0. TypeOK /\ OneVersion /\ PassInv
  BY DEF ResultInv
<1>1. UNCHANGED <<spec, cSpec, cJob, cRep, work>>
  BY DEF JobNext, JobError, ReconcileJobs, GetOwner, CheckJobReports, ReadLogs,
         WriteReports, GetStatuses, DeleteJob, StoreReport, specVars, jobVars, repVars,
         workerVars
<1>2. ASSUME UNCHANGED <<job, rep>>,
             jobWork' # Idle => jobWork'.hash = spec[jobWork'.key]
      PROVE  OneVersion'
  BY <1>0, <1>1, <1>2 DEF OneVersion
<1>3. CASE ReconcileJobs
  <2>1. UNCHANGED <<job, rep>>
    BY <1>3 DEF ReconcileJobs, jobVars, repVars
  <2>2. PICK w \in jobQueue :
          IF Finished(cJob[w])
          THEN jobWork' = [pc |-> IF cJob[w].cond = "complete" THEN "owner"
                                                               ELSE "statuses",
                           key |-> w, hash |-> cJob[w].hash,
                           cond |-> cJob[w].cond, todo |-> {}, from |-> cJob[w].hash]
          ELSE UNCHANGED jobWork
    BY <1>3 DEF ReconcileJobs
  <2>3. CASE UNCHANGED jobWork
    <3>1. jobWork' = Idle
      BY <1>3, <2>3 DEF ReconcileJobs
    <3> QED
      BY <1>2, <2>1, <3>1 DEF PassInv
  <2>4. CASE Finished(cJob[w])
    <3>0. cJob[w].cond \in {"complete", "failed"}
      BY <1>0, <2>4, JobFields DEF Finished, TypeOK
    <3>1. /\ jobWork'.key = w /\ jobWork'.hash = cJob[w].hash
          /\ jobWork'.cond = cJob[w].cond
          /\ jobWork'.pc = IF cJob[w].cond = "complete" THEN "owner" ELSE "statuses"
      BY <2>2, <2>4
    <3>2. cJob[w].hash = spec[w]
      BY <1>0, <2>4 DEF OneVersion, Finished, TypeOK
    <3> QED
      BY <1>2, <2>1, <3>0, <3>1, <3>2 DEF PassInv
  <2> QED
    BY <2>2, <2>3, <2>4
<1>4. CASE jobWork # Idle
  <2> DEFINE w == jobWork.key  h == jobWork.hash
  <2>1. /\ jobWork \in JobTask /\ w \in Workloads /\ h \in Specs /\ h = spec[w]
        /\ ContainersOf[h] \subseteq Containers
    BY <1>0, <1>4, JobTaskFields DEF TypeOK, OneVersion
  <2>2. ASSUME NEW l, NEW todo, NEW from, JobGoOn(l, todo, from)
        PROVE  /\ jobWork'.pc = l /\ jobWork'.key = w /\ jobWork'.hash = h
               /\ jobWork'.cond = jobWork.cond /\ jobWork'.todo = todo
    BY <2>2 DEF JobGoOn
  <2>3. ASSUME JobDone \/ JobRequeue PROVE jobWork' = Idle
    BY <2>3 DEF JobDone, JobRequeue
  <2>4. ASSUME UNCHANGED <<job, rep>>, JobDone \/ JobRequeue
        PROVE  OneVersion' /\ PassInv'
    BY <1>2, <2>3, <2>4 DEF PassInv
  <2>5. CASE GetOwner
    <3>1. UNCHANGED <<job, rep>>
      BY <1>0, <2>5 DEF GetOwner, JobAt, PassInv, jobVars, repVars
    <3>2. JobGoTo("reports", {})
      BY <1>0, <2>1, <2>5 DEF GetOwner, OneVersion
    <3> QED
      BY <1>2, <2>1, <2>2, <3>1, <3>2 DEF PassInv, JobGoTo
  <2>6. CASE CheckJobReports
    <3>1. UNCHANGED <<job, rep>>
      BY <1>0, <2>6 DEF CheckJobReports, JobAt, PassInv, jobVars, repVars
    <3>2. CASE HasReports(w, h) /\ JobGoTo("delete", {})
      <4>1. \A c \in ContainersOf[spec[w]] : cRep[w][c] = spec[w]
        BY <2>1, <3>2 DEF HasReports
      <4>2. \A c \in ContainersOf[spec[w]] : rep[w][c] = spec[w]
        BY <1>0, <2>1, <4>1 DEF OneVersion
      <4> QED
        BY <1>2, <2>1, <2>2, <3>1, <3>2, <4>2, <1>1 DEF PassInv, JobGoTo, Stored
    <3>3. CASE JobGoTo("logs", {})
      BY <1>2, <2>1, <2>2, <3>1, <3>3 DEF PassInv, JobGoTo
    <3> QED
      BY <2>6, <3>2, <3>3 DEF CheckJobReports
  <2>7. CASE ReadLogs
    <3>1. UNCHANGED <<job, rep>>
      BY <1>0, <2>7 DEF ReadLogs, JobAt, PassInv, jobVars, repVars
    <3>2. CASE JobDone \/ JobRequeue
      BY <2>4, <3>1, <3>2
    <3>3. CASE JobGoTo("drop", {})
      BY <1>2, <2>1, <2>2, <3>1, <3>3 DEF PassInv, JobGoTo
    <3>4. CASE JobGoOn("write", ContainersOf[h], job[w].hash)
      BY <1>2, <2>1, <2>2, <3>1, <3>4 DEF PassInv, JobGoTo
    <3> QED
      BY <2>7, <3>2, <3>3, <3>4 DEF ReadLogs
  <2>8. CASE WriteReports
    <3>1. UNCHANGED job /\ jobWork.pc = "write"
      BY <1>0, <2>8 DEF WriteReports, JobAt, PassInv, jobVars
    <3>2. CASE jobWork.todo = {} /\ JobGoTo("delete", {}) /\ UNCHANGED repVars
      <4>1. Stored(w)
        BY <1>0, <1>4, <2>1, <3>1, <3>2 DEF Stored, PassInv
      <4> QED
        BY <1>1, <1>2, <2>1, <2>2, <3>1, <3>2, <4>1 DEF PassInv, JobGoTo, Stored, repVars
    <3>3. CASE JobRequeue /\ UNCHANGED repVars
      BY <2>4, <3>1, <3>3 DEF repVars
    <3>4. ASSUME NEW c \in jobWork.todo, StoreReport(w, c, h, jobWork.from),
                 JobGoTo("write", jobWork.todo \ {c})
          PROVE  OneVersion' /\ PassInv'
      <4>1. c \in Containers
        BY <1>0, <1>4, <2>1, <3>4 DEF TypeOK
      <4>2. \A v \in Workloads, d \in Containers :
              rep'[v][d] = IF v = w /\ d = c THEN h ELSE rep[v][d]
        BY <1>0, <2>1, <3>4, <4>1, StoreEffect
      <4>6. OneVersion'
        <5>1. \A v \in Workloads, d \in Containers :
                rep'[v][d] = rep[v][d] \/ (v = w /\ rep'[v][d] = spec[v])
          BY <2>1, <4>2
        <5>2. \A v \in Workloads, d \in Containers :
                /\ rep'[v][d] # NoReport => rep'[v][d] = spec'[v]
                /\ cRep'[v][d] # NoReport => rep'[v][d] = spec'[v]
          BY <1>0, <1>1, <5>1 DEF OneVersion
        <5>3. jobWork'.hash = spec'[jobWork'.key]
          BY <1>1, <2>1, <2>2, <3>4 DEF JobGoTo
        <5> QED
          BY <1>0, <1>1, <3>1, <5>2, <5>3 DEF OneVersion
      <4>7. \A d \in ContainersOf[h] \ (jobWork.todo \ {c}) : rep'[w][d] = h
        BY <1>0, <1>4, <2>1, <3>1, <4>2 DEF PassInv
      <4>8. PassInv'
        BY <2>2, <3>1, <3>4, <4>7 DEF PassInv, JobGoTo
      <4> QED
        BY <4>6, <4>8
    <3> QED
      BY <2>8, <3>2, <3>3, <3>4 DEF WriteReports
  <2>9. CASE GetStatuses
    <3>1. UNCHANGED <<job, rep>>
      BY <2>9 DEF GetStatuses, jobVars, repVars
    <3>2. CASE JobDone
      BY <2>4, <3>1, <3>2
    <3>3. CASE JobGoTo("drop", {})
      BY <1>2, <2>1, <2>2, <3>1, <3>3 DEF PassInv, JobGoTo
    <3> QED
      BY <2>9, <3>2, <3>3 DEF GetStatuses
  <2>10. CASE DeleteJob
    <3>1. /\ \A v \in Workloads \ {w} : job'[v] = job[v]
          /\ job'[w] = NoJob /\ jobWork' = Idle /\ rep' = rep
      BY <1>0, <2>1, <2>3, <2>10 DEF DeleteJob, repVars, TypeOK
    <3> QED
      BY <1>0, <1>1, <3>1 DEF OneVersion, PassInv
  <2>11. CASE JobError
    BY <2>4, <2>11 DEF JobError, jobVars, repVars
  <2> QED
    BY <1>3, <2>5, <2>6, <2>7, <2>8, <2>9, <2>10, <2>11 DEF JobNext
<1> QED
  BY <1>3, <1>4 DEF JobNext, JobError, GetOwner, CheckJobReports, ReadLogs,
                    WriteReports, GetStatuses, DeleteJob, JobAt

\* ResultInv is inductive.
LEMMA ResultStep == ResultInv /\ [Next]_vars => ResultInv'
<1> SUFFICES ASSUME ResultInv, [Next]_vars PROVE ResultInv'
  OBVIOUS
<1>1. TypeOK /\ TypeOK'
  BY TypeStep DEF ResultInv
<1> SUFFICES ASSUME Quiet' PROVE OneVersion' /\ PassInv'
  BY <1>1 DEF ResultInv
<1>2. Quiet
  BY <1>1, QuietBefore
<1>3. CASE UNCHANGED vars
  <2>1. OneVersion /\ PassInv
    BY <1>2 DEF ResultInv
  <2> QED
    BY <1>1, <1>3, <2>1 DEF vars, OneVersion, PassInv, Stored
<1>4. CASE ClusterNext
  BY <1>1, <1>2, <1>4, ResultCluster
<1>5. CASE OperatorNext
  BY <1>1, <1>2, <1>5, ResultInformer, ResultWorker, ResultCollector DEF OperatorNext
<1> QED
  BY <1>3, <1>4, <1>5 DEF Next

\* Only deleteJob removes a job, and only the one the pass is about.
LEMMA OnlyDeleteJob ==
  ASSUME TypeOK, [Next]_vars, NEW w \in Workloads, job[w] # NoJob, job'[w] = NoJob
  PROVE  DeleteJob /\ jobWork.key = w
<1>1. ASSUME NEW v \in Workloads, NEW cond \in {"complete", "failed"}, NEW output,
             FinishJob(v, cond, output)
      PROVE  FALSE
  <2>1. [hash |-> job[v].hash, cond |-> cond] # NoJob
    <3>1. job[v].hash \in Specs
      BY <1>1, JobFields DEF FinishJob, TypeOK
    <3> QED
      BY <3>1, JobMake
  <2> QED
    BY <1>1, <2>1 DEF FinishJob, TypeOK
<1>2. ASSUME NEW k \in Kinds, CreateJob(k) PROVE FALSE
  <2>1. \A v \in Workloads \ {work[k].key} : job'[v] = job[v]
    BY <1>2 DEF CreateJob, TypeOK
  <2>2. job[work[k].key] # NoJob => job' = job
    BY <1>2 DEF CreateJob
  <2> QED
    BY <2>1, <2>2
<1>3. CASE DeleteJob
  BY <1>3 DEF DeleteJob, TypeOK
<1>4. job' # job
  OBVIOUS
<1> QED
  BY <1>1, <1>2, <1>3, <1>4
     DEF Next, vars, ClusterNext, OperatorNext, WorkerNext, JobNext, EditWorkload, Edit,
         CollectSecret, StartPod, CompleteJob, FailJob, LosePod, UserDeletesReport,
         CollectReport,
         SyncWorkload, SyncJob, SyncReport, FireDelayed, FireJobDelayed, Resync,
         Restart, ReconcileWorkload, CheckReports, CheckScanJob, CheckLimit,
         CreateSecret, SetOwnerReference, WorkerError, ReconcileJobs, GetOwner,
         CheckJobReports, ReadLogs, WriteReports, GetStatuses, JobError, jobVars

\* The results of a complete scan job are stored before the job is deleted, for
\* any number of workloads, containers and faults.
THEOREM ResultsStay == Spec => NoResultLost
<1> DEFINE Kept == \A w \in Workloads :
       /\ edits = 0
       /\ job[w] # NoJob /\ job'[w] = NoJob
       /\ jobWork.pc = "delete"
       => \A c \in ContainersOf[spec[w]] : rep[w][c] = spec[w]
<1>1. ResultInv /\ [Next]_vars => [Kept]_vars
  <2> SUFFICES ASSUME ResultInv, [Next]_vars, NEW w \in Workloads, Quiet,
                      job[w] # NoJob, job'[w] = NoJob, jobWork.pc = "delete"
               PROVE  \A c \in ContainersOf[spec[w]] : rep[w][c] = spec[w]
    BY DEF Quiet
  <2>1. DeleteJob /\ jobWork.key = w
    BY OnlyDeleteJob DEF ResultInv
  <2> QED
    BY <2>1 DEF DeleteJob, JobAt, ResultInv, PassInv, Stored
<1>2. ResultInv /\ [Next]_vars => ResultInv'
  BY ResultStep
<1>3. Init => ResultInv
  BY ResultInit
<1> QED
  BY <1>1, <1>2, <1>3, PTL DEF Spec, NoResultLost

-----------------------------------------------------------------------------
(* Settled workloads                                                        *)

\* A reconciliation that has not decided anything yet, of what is there now.
Undecided(t) == t.pc = "reports" /\ t.key \notin Ignored /\ t.hash = spec[t.key]

\* As long as only queues and undecided reconciliations change, all is settled.
LEMMA SettledFrame ==
  ASSUME Settled, UNCHANGED <<spec, cSpec, job, cJob, stale, rep, cRep, repLag, jobWork>>,
         \A k \in Kinds : work'[k] # Idle => Undecided(work'[k])
  PROVE  Settled' /\ UNCHANGED <<job, rep>>
BY DEF Settled, Wanted, Current, Undecided

\* hasReports agrees: a reconciliation ends here.
LEMMA SettledHasReports ==
  ASSUME TypeOK, Settled, NEW k \in Kinds, work[k] # Idle
  PROVE  HasReports(work[k].key, work[k].hash)
<1>1. work[k].key \in Workloads /\ work[k].hash \in Specs
      BY TaskFields DEF TypeOK
<1>2. work[k].hash = spec[work[k].key] /\ Wanted(work[k].key)
      BY <1>1 DEF Settled, Wanted
<1>3. cRep = rep /\ Current(work[k].key)
      BY <1>1, <1>2 DEF Settled
<1> QED BY <1>2, <1>3 DEF Current, HasReports

\* No worker gets beyond the check of the reports.
LEMMA WorkerStable ==
  ASSUME TypeOK, Settled, NEW k \in Kinds, WorkerNext(k) \/ WorkerError(k)
  PROVE  Settled' /\ UNCHANGED <<job, rep>>
<1> USE DEF specVars, jobVars, repVars, collectorVars, boundVars
<1>1. \A i \in Kinds : work[i] # Idle => Undecided(work[i])
      BY DEF Settled, Undecided
<1>2. ASSUME NEW t, work' = [work EXCEPT ![k] = t], t # Idle => Undecided(t)
      PROVE  \A i \in Kinds : work'[i] # Idle => Undecided(work'[i])
      BY <1>1, <1>2 DEF TypeOK
<1>3. CASE ReconcileWorkload(k)
  <2>1. PICK w \in queue :
          IF cSpec[w] = NoWorkload \/ w \in Ignored THEN UNCHANGED work
          ELSE work' = [work EXCEPT ![k] = [pc |-> "reports", key |-> w, hash |-> cSpec[w]]]
        BY <1>3 DEF ReconcileWorkload
  <2>2. w \notin Ignored => Undecided([pc |-> "reports", key |-> w, hash |-> cSpec[w]])
        BY DEF Settled, Undecided
  <2>3. \A i \in Kinds : work'[i] # Idle => Undecided(work'[i])
        BY <1>1, <1>2, <2>1, <2>2
  <2> QED BY <1>3, <2>3, SettledFrame DEF ReconcileWorkload
<1>4. CASE CheckReports(k)
  <2>1. work' = [work EXCEPT ![k] = Idle]
        BY <1>4, SettledHasReports DEF CheckReports, At, Done
  <2>2. \A i \in Kinds : work'[i] # Idle => Undecided(work'[i])
        BY <1>2, <2>1
  <2> QED BY <1>4, <2>2, SettledFrame DEF CheckReports
<1>5. CASE WorkerError(k)
  <2>1. work' = [work EXCEPT ![k] = Idle]
        BY <1>5 DEF WorkerError, Requeue
  <2>2. \A i \in Kinds : work'[i] # Idle => Undecided(work'[i])
        BY <1>2, <2>1
  <2> QED BY <1>5, <2>2, SettledFrame DEF WorkerError
<1>6. \A label \in {"job", "limit", "secret", "create", "owner"} : ~At(k, label)
      BY DEF Settled, At
<1> QED BY <1>3, <1>4, <1>5, <1>6 DEF WorkerNext, CheckScanJob, CheckLimit, CreateSecret, CreateJob, SetOwnerReference

\* Informers, queues, restarts and the scan job controller find nothing to do.
LEMMA OperatorStable ==
  ASSUME TypeOK, Settled, OperatorNext
  PROVE  Settled' /\ UNCHANGED <<job, rep>>
<1> USE DEF specVars, jobVars, repVars, workerVars, collectorVars, boundVars
<1>1. \A i \in Kinds : work[i] # Idle => Undecided(work[i])
      BY DEF Settled, Undecided
<1>2. ASSUME UNCHANGED <<spec, cSpec, job, cJob, stale, rep, cRep, repLag, jobWork, work>>
      PROVE  Settled' /\ UNCHANGED <<job, rep>>
      BY <1>1, <1>2, SettledFrame
<1>3. ASSUME NEW w \in Workloads, FireDelayed(w) \/ FireJobDelayed(w) PROVE Settled' /\ UNCHANGED <<job, rep>>
      BY <1>2, <1>3 DEF FireDelayed, FireJobDelayed
<1>4. ASSUME NEW w \in Workloads PROVE ~SyncWorkload(w) /\ ~SyncJob(w) /\ \A c \in Containers : ~SyncReport(w, c)
      BY DEF SyncWorkload, SyncJob, SyncReport, Settled
<1>5. CASE Resync
      BY <1>2, <1>5 DEF Resync
<1>6. CASE Restart
  <2>1. /\ UNCHANGED <<spec, cSpec, job, cJob, stale, rep, cRep, repLag, jobWork>>
        /\ work' = [k \in Kinds |-> Idle]
        BY <1>6 DEF Restart, Settled
  <2>2. \A k \in Kinds : work'[k] = Idle
        BY <2>1
  <2> QED BY <2>1, <2>2, SettledFrame
<1>7. CASE ReconcileJobs
  <2>1. \A w \in jobQueue : ~Finished(cJob[w])
        BY DEF Settled, Finished, TypeOK
  <2>2. UNCHANGED jobWork
        BY <1>7, <2>1 DEF ReconcileJobs
  <2> QED BY <1>2, <1>7, <2>2 DEF ReconcileJobs
<1>8. JobNext => ReconcileJobs
      BY DEF Settled, JobNext, JobAt, GetOwner, CheckJobReports, ReadLogs, WriteReports, GetStatuses, DeleteJob
<1>9. ~JobError
      BY DEF JobError, Settled
<1> QED BY <1>3, <1>4, <1>5, <1>6, <1>7, <1>8, <1>9, WorkerStable DEF OperatorNext

\* Once every workload has its reports the operator starts no scan and writes no
\* report, for every number of workloads, kinds, containers, edits and faults.
THEOREM SettledStays == Spec => SettledIsStable
<1>1. TypeOK /\ [Next]_vars => [Settled /\ OperatorNext => Settled' /\ UNCHANGED <<job, rep>>]_vars
      BY OperatorStable
<1> QED BY <1>1, TypeCorrect, PTL DEF Spec, SettledIsStable

-----------------------------------------------------------------------------
(* VulnerabilityScan implements ScanProtocol.  A pass over a cached job may *)
(* find another job of the same name and delete that one: CalmInv says why  *)
(* its reports are stored then, unless something was edited or has failed.  *)

\* Nothing was edited and nothing has failed yet.
Calm == Quiet /\ faults = 0

\* The job of w has ended and can be read, or its reports are stored.
NothingToLose(w) == Finished(job[w]) \/ Stored(w)

CalmOf(w) ==
  /\ Finished(job[w]) => job[w].cond = "complete" /\ pod[w] # "gone"
  /\ Finished(cJob[w]) => cJob[w].cond = "complete" /\ NothingToLose(w)
  /\ jobWork # Idle /\ jobWork.key = w =>
       /\ jobWork.cond = "complete" /\ jobWork.pc # "statuses"
       /\ NothingToLose(w)
       /\ jobWork.pc = "drop" => Stored(w)

\* A pass over a failed job stores nothing.
FailedPass == jobWork # Idle /\ jobWork.cond = "failed" => jobWork.pc \in {"statuses", "drop"}

CalmInv == ResultInv /\ FailedPass /\ (Calm => \A w \in Workloads : CalmOf(w))

\* The counters only grow.
LEMMA Counters ==
  ASSUME TypeOK, [Next]_vars
  PROVE  /\ edits' = edits \/ edits' = edits + 1
         /\ faults' = faults \/ faults' = faults + 1
         /\ edits \in Nat /\ faults \in Nat
<1>1. edits \in Nat /\ faults \in Nat
  BY DEF TypeOK
<1> QED
  BY <1>1
     DEF Next, vars, ClusterNext, OperatorNext, WorkerNext, JobNext, EditWorkload, Edit, Fault,
         CollectSecret, StartPod, CompleteJob, FailJob, FinishJob, LosePod,
         UserDeletesReport, CollectReport, SyncWorkload, SyncJob, SyncReport, FireDelayed,
         FireJobDelayed, Resync, Restart, ReconcileWorkload, CheckReports, CheckScanJob,
         CheckLimit, CreateSecret, CreateJob, SetOwnerReference, WorkerError, ReconcileJobs,
         GetOwner, CheckJobReports, ReadLogs, WriteReports, GetStatuses, DeleteJob,
         JobError, boundVars

\* A state without edits and failures has none before it.
LEMMA CalmBefore == ASSUME TypeOK, [Next]_vars, Calm' PROVE Calm
BY Counters DEF Calm, Quiet

\* Nobody takes a stored report away from a workload with a job or a pass.
LEMMA StoredStays ==
  ASSUME TypeOK, NEW w \in Workloads, spec[w] \in Specs, spec' = spec,
         \A c \in Containers : rep[w][c] = spec[w] => rep'[w][c] = spec[w]
  PROVE  Stored(w) => Stored(w)'
BY DEF Stored

\* A step that keeps the job of w, its pod and its pass, and takes no report away
\* keeps CalmOf.
LEMMA CalmFrame ==
  ASSUME NEW w \in Workloads, CalmOf(w), Stored(w) => Stored(w)',
         UNCHANGED <<job[w], cJob[w], pod[w], jobWork>>
  PROVE  CalmOf(w)'
BY DEF CalmOf, NothingToLose, Finished

\* The cluster ends jobs with something to read.
LEMMA CalmCluster ==
  ASSUME TypeOK, OneVersion, Calm, Calm', ClusterNext, NEW v \in Workloads, CalmOf(v)
  PROVE  CalmOf(v)'
<1> USE DEF specVars, jobVars, repVars, workerVars, collectorVars, boundVars
<1>1. ASSUME NEW w \in Workloads, EditWorkload(w) \/ FailJob(w) \/ LosePod(w) PROVE FALSE
  BY <1>1 DEF EditWorkload, FailJob, LosePod, Edit, Fault, Calm, Quiet
<1>2. ASSUME NEW w \in Workloads, NEW c \in Containers, UserDeletesReport(w, c)
      PROVE  FALSE
  BY <1>2 DEF UserDeletesReport, Edit, Calm, Quiet
<1>3. ASSUME NEW w \in Workloads, NEW c \in Containers, CollectReport(w, c)
      PROVE  FALSE
  BY <1>3 DEF CollectReport, OneVersion, TypeOK
<1>4. ASSUME UNCHANGED <<spec, rep>> PROVE Stored(v) => Stored(v)'
  BY <1>4 DEF Stored
<1>5. ASSUME NEW w \in Workloads, CollectSecret(w) PROVE CalmOf(v)'
  BY <1>4, <1>5, CalmFrame DEF CollectSecret
<1>6. ASSUME NEW w \in Workloads, StartPod(w) PROVE CalmOf(v)'
  <2>1. CASE v # w
    <3>1. pod'[v] = pod[v] /\ UNCHANGED <<spec, job, cJob, rep, jobWork>>
      BY <1>6, <2>1 DEF StartPod, TypeOK
    <3> QED
      BY <1>4, <3>1, CalmFrame
  <2>2. CASE v = w
    <3>1. ~Finished(job[v]) /\ UNCHANGED <<spec, job, cJob, rep, jobWork>>
      BY <1>6, <2>2 DEF StartPod, Finished
    <3> QED
      BY <1>4, <3>1 DEF CalmOf, NothingToLose, Finished
  <2> QED
    BY <2>1, <2>2
<1>7. ASSUME NEW w \in Workloads, CompleteJob(w) PROVE CalmOf(v)'
  <2>1. PICK output \in Outputs : FinishJob(w, "complete", output)
    BY <1>7 DEF CompleteJob
  <2>2. UNCHANGED <<spec, cJob, rep, jobWork>>
    BY <2>1 DEF FinishJob
  <2>3. CASE v # w
    <3>1. pod'[v] = pod[v] /\ job'[v] = job[v]
      BY <2>1, <2>3 DEF FinishJob, TypeOK
    <3> QED
      BY <1>4, <2>2, <3>1, CalmFrame
  <2>4. CASE v = w
    <3>1. job[w].hash \in Specs
      BY <2>1, JobFields DEF FinishJob, TypeOK
    <3>2. [hash |-> job[w].hash, cond |-> "complete"] # NoJob
      BY <3>1, JobMake
    <3>3. job'[v].cond = "complete" /\ job'[v] # NoJob /\ pod'[v] = output
      BY <2>1, <2>4, <3>2 DEF FinishJob, TypeOK
    <3>4. output # "gone"
      OBVIOUS
    <3> QED
      BY <1>4, <2>2, <3>3, <3>4 DEF CalmOf, NothingToLose, Finished
  <2> QED
    BY <2>3, <2>4
<1> QED
  BY <1>1, <1>2, <1>3, <1>5, <1>6, <1>7 DEF ClusterNext

\* The caches show the jobs as they are, or as they were.
LEMMA CalmInformer ==
  ASSUME TypeOK, Calm, Calm',
         \/ \E w \in Workloads :
              \/ SyncWorkload(w) \/ SyncJob(w) \/ FireDelayed(w) \/ FireJobDelayed(w)
              \/ \E c \in Containers : SyncReport(w, c)
         \/ Resync \/ Restart,
         NEW v \in Workloads, CalmOf(v)
  PROVE  CalmOf(v)'
<1>0. ~Restart
  BY DEF Restart, Fault, Calm
<1>1. UNCHANGED <<spec, job, pod, rep, jobWork>>
  BY <1>0 DEF SyncWorkload, SyncJob, FireDelayed, FireJobDelayed, SyncReport, Resync,
              specVars, jobVars, repVars, workerVars, collectorVars
<1>2. cJob'[v] = cJob[v] \/ cJob'[v] = job[v]
  <2>1. \/ cJob' = cJob
        \/ \E w \in Workloads : cJob' = [cJob EXCEPT ![w] = job[w]]
    BY <1>0 DEF SyncWorkload, SyncJob, FireDelayed, FireJobDelayed, SyncReport, Resync, jobVars
  <2> QED
    BY <2>1 DEF TypeOK
<1>3. Stored(v) => Stored(v)'
  BY <1>1 DEF Stored
<1> QED
  BY <1>1, <1>2, <1>3 DEF CalmOf, NothingToLose, Finished

\* A new job takes the place of none.
LEMMA CalmWorker ==
  ASSUME TypeOK, NEW k \in Kinds, WorkerNext(k) \/ WorkerError(k), NEW v \in Workloads, CalmOf(v)
  PROVE  CalmOf(v)'
<1>1. UNCHANGED <<spec, cJob, rep, jobWork>>
  BY DEF WorkerNext, ReconcileWorkload, CheckReports, CheckScanJob, CheckLimit,
         CreateSecret, CreateJob, SetOwnerReference, WorkerError, specVars, jobVars,
         repVars, collectorVars
<1>2. Stored(v) => Stored(v)'
  BY <1>1 DEF Stored
<1>3. CASE UNCHANGED <<job[v], pod[v]>>
  BY <1>1, <1>2, <1>3, CalmFrame
<1>4. CASE CreateJob(k) /\ job[work[k].key] = NoJob
  <2>1. (job'[v] = job[v] /\ pod'[v] = pod[v]) \/ v = work[k].key
    BY <1>4 DEF CreateJob, TypeOK
  <2>2. CASE v = work[k].key
    <3>1. ~Finished(job[v])
      BY <1>4, <2>2 DEF Finished
    <3>2. job'[v] = [hash |-> work[k].hash, cond |-> "none"]
      BY <1>4, <2>2 DEF CreateJob, TypeOK
    <3> QED
      BY <1>1, <1>2, <3>1, <3>2 DEF CalmOf, NothingToLose, Finished
  <2> QED
    BY <1>3, <2>1, <2>2
<1> QED
  BY <1>3, <1>4
     DEF WorkerNext, ReconcileWorkload, CheckReports, CheckScanJob, CheckLimit,
         CreateSecret, CreateJob, SetOwnerReference, WorkerError, jobVars


\* A pass deletes the job of its name only with the reports stored.
LEMMA CalmCollector ==
  ASSUME TypeOK, OneVersion, PassInv, Calm, Calm', JobNext \/ JobError,
         \A w \in Workloads : CalmOf(w), NEW v \in Workloads
  PROVE  CalmOf(v)'
<1>1. UNCHANGED <<spec, cJob>>
  BY DEF JobNext, JobError, ReconcileJobs, GetOwner, CheckJobReports, ReadLogs,
         WriteReports, GetStatuses, DeleteJob, specVars, jobVars
<1>2. ~JobError
  BY DEF JobError, Fault, Calm
<1>3. ASSUME UNCHANGED rep PROVE Stored(v) => Stored(v)'
  BY <1>1, <1>3 DEF Stored
<1>4. CASE ReconcileJobs
  <2>1. UNCHANGED <<job, pod, rep>> /\ jobWork = Idle
    BY <1>4 DEF ReconcileJobs, jobVars, repVars
  <2>2. \/ jobWork' = Idle
        \/ \E w \in Workloads :
             /\ Finished(cJob[w])
             /\ jobWork' = [pc |-> IF cJob[w].cond = "complete" THEN "owner"
                                                                ELSE "statuses",
                            key |-> w, hash |-> cJob[w].hash,
                            cond |-> cJob[w].cond, todo |-> {}, from |-> cJob[w].hash]
    BY <1>4 DEF ReconcileJobs, TypeOK
  <2>3. CalmOf(v)
    OBVIOUS
  <2>4. CASE jobWork' # Idle /\ jobWork'.key = v
    <3>1. /\ Finished(cJob[v]) /\ jobWork'.cond = cJob[v].cond
          /\ jobWork'.pc = IF cJob[v].cond = "complete" THEN "owner" ELSE "statuses"
      BY <2>2, <2>4
    <3>2. jobWork'.cond = "complete" /\ jobWork'.pc = "owner" /\ NothingToLose(v)
      BY <2>3, <3>1 DEF CalmOf
    <3> QED
      BY <1>1, <1>3, <2>1, <2>3, <2>4, <3>2 DEF CalmOf, NothingToLose, Finished
  <2>5. CASE ~(jobWork' # Idle /\ jobWork'.key = v)
    BY <1>1, <1>3, <2>1, <2>3, <2>5 DEF CalmOf, NothingToLose, Finished
  <2> QED
    BY <2>4, <2>5
<1>5. CASE jobWork # Idle
  <2> DEFINE w == jobWork.key  h == jobWork.hash
  <2>1. /\ w \in Workloads /\ h \in Specs /\ h = spec[w]
        /\ ContainersOf[h] \subseteq Containers
    BY <1>5, JobTaskFields DEF TypeOK, OneVersion
  <2>2. CalmOf(w) /\ CalmOf(v)
    BY <2>1
  <2>3. ASSUME NEW l, NEW todo, NEW from, JobGoOn(l, todo, from), UNCHANGED <<job, pod>>,
               Stored(v) => Stored(v)', l # "statuses", l = "drop" => Stored(w)
        PROVE  CalmOf(v)'
    <3>1. jobWork'.pc = l /\ jobWork'.key = w /\ jobWork'.cond = jobWork.cond
      BY <2>3 DEF JobGoOn
    <3> QED
      BY <1>1, <1>5, <2>2, <2>3, <3>1 DEF CalmOf, NothingToLose, Finished
  <2>4. ASSUME JobDone \/ JobRequeue, UNCHANGED <<job, pod>>, Stored(v) => Stored(v)'
        PROVE  CalmOf(v)'
    BY <1>1, <2>2, <2>4 DEF JobDone, JobRequeue, CalmOf, NothingToLose, Finished
  <2>5. CASE GetOwner
    <3>1. JobGoTo("reports", {}) /\ UNCHANGED <<job, pod, rep>>
      BY <2>1, <2>5 DEF GetOwner, OneVersion, jobVars, repVars
    <3> QED
      BY <1>3, <2>3, <3>1 DEF JobGoTo
  <2>6. CASE CheckJobReports
    <3>1. /\ JobGoTo("delete", {}) \/ JobGoTo("logs", {})
          /\ UNCHANGED <<job, pod, rep>>
      BY <2>6 DEF CheckJobReports, jobVars, repVars
    <3> QED
      BY <1>3, <2>3, <3>1 DEF JobGoTo
  <2>7. CASE ReadLogs
    <3>1. UNCHANGED <<job, pod, rep>>
      BY <2>7 DEF ReadLogs, jobVars, repVars
    <3>2. CASE JobDone \/ JobRequeue
      BY <1>3, <2>4, <3>1, <3>2
    <3>3. CASE JobGoOn("write", ContainersOf[h], job[w].hash)
      BY <1>3, <2>3, <3>1, <3>3 DEF JobGoTo
    <3>4. CASE pod[w] = "gone" /\ JobGoTo("drop", {})
      <4>1. Stored(w)
        BY <1>5, <2>2, <3>4 DEF CalmOf, NothingToLose
      <4> QED
        BY <1>3, <2>3, <3>1, <3>4, <4>1 DEF JobGoTo
    <3> QED
      BY <2>7, <3>2, <3>3, <3>4 DEF ReadLogs
  <2>8. CASE WriteReports
    <3>1. UNCHANGED <<job, pod>>
      BY <2>8 DEF WriteReports, jobVars
    <3>2. CASE JobGoTo("delete", {}) /\ UNCHANGED repVars
      BY <1>3, <2>3, <3>1, <3>2 DEF repVars, JobGoTo
    <3>3. CASE JobRequeue /\ UNCHANGED repVars
      BY <1>3, <2>4, <3>1, <3>3 DEF repVars
    <3>4. ASSUME NEW c \in jobWork.todo, StoreReport(w, c, h, jobWork.from),
                 JobGoTo("write", jobWork.todo \ {c})
          PROVE  CalmOf(v)'
      <4>1. c \in Containers
        BY <1>5, <2>1, <3>4 DEF TypeOK
      <4>2. \A u \in Workloads, d \in Containers :
              rep'[u][d] = IF u = w /\ d = c THEN h ELSE rep[u][d]
        BY <2>1, <3>4, <4>1, StoreEffect
      <4>3. \A d \in Containers : rep[v][d] = spec[v] => rep'[v][d] = spec[v]
        BY <2>1, <4>2
      <4>4. Stored(v) => Stored(v)' \/ spec[v] \notin Specs
        BY <1>1, <4>3, StoredStays
      <4>5. CASE spec[v] \in Specs
        BY <2>3, <3>1, <3>4, <4>4, <4>5 DEF JobGoTo
      <4>6. CASE spec[v] \notin Specs
        <5>1. w # v
          BY <2>1, <4>6
        <5>2. job[v] # NoJob => job[v].hash \in Specs
          BY JobFields DEF TypeOK
        <5>3. cJob[v] # NoJob => cJob[v].hash \in Specs
          BY JobFields DEF TypeOK
        <5>4. job[v] = NoJob /\ cJob[v] = NoJob
          BY <4>6, <5>2, <5>3 DEF OneVersion
        <5>5. jobWork'.key = w /\ job'[v] = job[v] /\ cJob'[v] = cJob[v]
          BY <1>1, <3>1, <3>4 DEF JobGoTo, JobGoOn
        <5> QED
          BY <5>1, <5>4, <5>5 DEF CalmOf, Finished
      <4> QED
        BY <4>5, <4>6
    <3> QED
      BY <2>8, <3>2, <3>3, <3>4 DEF WriteReports
  <2>9. CASE GetStatuses
    BY <1>5, <2>2, <2>9 DEF GetStatuses, JobAt, CalmOf
  <2>10. CASE DeleteJob
    <3>1. /\ job' = [job EXCEPT ![w] = NoJob] /\ pod' = [pod EXCEPT ![w] = "gone"]
          /\ jobWork' = Idle /\ rep' = rep
      BY <2>10 DEF DeleteJob, JobDone, JobRequeue, repVars
    <3>2. Stored(w)
      BY <1>5, <2>2, <2>10 DEF DeleteJob, JobAt, CalmOf, PassInv
    <3>3. CASE v = w
      <4>1. job'[v] = NoJob
        BY <3>1, <3>3 DEF TypeOK
      <4> QED
        BY <1>1, <1>3, <2>2, <3>1, <3>2, <3>3, <4>1 DEF CalmOf, NothingToLose, Finished
    <3>4. CASE v # w
      <4>1. job'[v] = job[v] /\ pod'[v] = pod[v]
        BY <3>1, <3>4 DEF TypeOK
      <4> QED
        BY <1>1, <1>3, <2>2, <3>1, <4>1 DEF CalmOf, NothingToLose, Finished
    <3> QED
      BY <3>3, <3>4
  <2> QED
    BY <1>2, <1>4, <2>5, <2>6, <2>7, <2>8, <2>9, <2>10 DEF JobNext
<1> QED
  BY <1>2, <1>4, <1>5 DEF JobNext, GetOwner, CheckJobReports, ReadLogs,
                          WriteReports, GetStatuses, DeleteJob, JobAt

\* The handlers of complete and of failed jobs have no step in common.
LEMMA FailedPassStep == ASSUME TypeOK, FailedPass, [Next]_vars PROVE FailedPass'
<1>1. CASE UNCHANGED jobWork
  BY <1>1 DEF FailedPass
<1>2. CASE jobWork' = Idle
  BY <1>2 DEF FailedPass
<1>3. CASE ReconcileJobs
  BY <1>3 DEF ReconcileJobs, FailedPass
<1>4. ASSUME NEW l, NEW todo, NEW from, JobGoOn(l, todo, from), jobWork # Idle,
             jobWork.pc \in {"statuses", "drop"} => l = "drop"
      PROVE  FailedPass'
  BY <1>4 DEF JobGoOn, FailedPass
<1>5. CASE GetOwner \/ CheckJobReports \/ GetStatuses
  BY <1>2, <1>4, <1>5 DEF GetOwner, CheckJobReports, GetStatuses, JobAt, JobDone, JobGoTo
<1>6. CASE ReadLogs
  BY <1>2, <1>4, <1>6 DEF ReadLogs, JobAt, JobDone, JobRequeue, JobGoTo
<1>7. CASE WriteReports
  BY <1>2, <1>4, <1>7 DEF WriteReports, JobAt, JobRequeue, JobGoTo
<1> QED
  BY <1>1, <1>2, <1>3, <1>5, <1>6, <1>7
     DEF Next, vars, ClusterNext, OperatorNext, WorkerNext, JobNext, EditWorkload, Edit,
         CollectSecret, StartPod, CompleteJob, FailJob, FinishJob, LosePod,
         UserDeletesReport, CollectReport, SyncWorkload, SyncJob, SyncReport, FireDelayed,
         FireJobDelayed, Resync, Restart, ReconcileWorkload, CheckReports, CheckScanJob,
         CheckLimit, CreateSecret, CreateJob, SetOwnerReference, WorkerError, DeleteJob,
         JobError, JobDone, JobRequeue, collectorVars

\* CalmInv is inductive.
LEMMA CalmStep == CalmInv /\ [Next]_vars => CalmInv'
<1> SUFFICES ASSUME CalmInv, [Next]_vars PROVE CalmInv'
  OBVIOUS
<1>1. ResultInv /\ ResultInv' /\ TypeOK /\ FailedPass'
  BY ResultStep, FailedPassStep DEF CalmInv, ResultInv
<1> SUFFICES ASSUME Calm', NEW v \in Workloads PROVE CalmOf(v)'
  BY <1>1 DEF CalmInv
<1>2. Calm
  BY <1>1, CalmBefore
<1>3. OneVersion /\ PassInv /\ \A w \in Workloads : CalmOf(w)
  BY <1>1, <1>2 DEF CalmInv, ResultInv, Calm
<1>4. CASE UNCHANGED vars
  <2>1. Stored(v) => Stored(v)'
    BY <1>4 DEF vars, Stored
  <2> QED
    BY <1>3, <1>4, <2>1, CalmFrame DEF vars
<1>5. CASE ClusterNext
  BY <1>1, <1>2, <1>3, <1>5, CalmCluster
<1>6. CASE OperatorNext
  BY <1>1, <1>2, <1>3, <1>6, CalmInformer, CalmWorker, CalmCollector DEF OperatorNext
<1> QED
  BY <1>4, <1>5, <1>6 DEF Next
-----------------------------------------------------------------------------
(* The refinement, action by action.                                        *)

\* Somebody can still act on the end e of a scan of w.
Known(w, e) ==
  \/ Finished(job[w]) /\ e = <<job[w].hash, job[w].cond>>
  \/ Finished(cJob[w]) /\ e = <<cJob[w].hash, cJob[w].cond>>
  \/ jobWork # Idle /\ jobWork.key = w /\ e = <<jobWork.hash, jobWork.cond>>

\* What the mapping makes of jobs, caches and passes.
LEMMA Mapped ==
  /\ \A w \in Workloads : \A e : e \in Ended[w] <=> Known(w, e)
  /\ \A w \in Workloads : \A e : e \in Ended'[w] <=> Known(w, e)'
<1>1. \A w \in Workloads : \A e : e \in Ended[w] <=> Known(w, e)
  BY Zenon DEF Ended, Known
<1>2. \A w \in Workloads : \A e : e \in Ended'[w] <=> Known(w, e)'
  BY Zenon DEF Ended, Known
<1> QED
  BY <1>1, <1>2

\* The scan of a workload is that of its job.
LEMMA ScanOf ==
  ASSUME NEW w \in Workloads
  PROVE  /\ job[w] = NoJob => Scan[w] = {}
         /\ job[w] # NoJob => Scan[w] = {<<job[w].hash, job[w].cond>>}
         /\ job'[w] = NoJob => Scan'[w] = {}
         /\ job'[w] # NoJob => Scan'[w] = {<<job'[w].hash, job'[w].cond>>}
         /\ job'[w] = job[w] => Scan'[w] = Scan[w]
BY DEF Scan

\* A change of the scan of one workload.
LEMMA ScanSet ==
  ASSUME NEW w \in Workloads, NEW s, Scan'[w] = s,
         \A v \in Workloads : v # w => job'[v] = job[v]
  PROVE  Scan' = [Scan EXCEPT ![w] = s]
<1>1. Scan = [v \in Workloads |-> Scan[v]]
  BY DEF Scan
<1>2. Scan' = [v \in Workloads |-> Scan'[v]]
  BY DEF Scan
<1>3. \A v \in Workloads : v # w => Scan'[v] = Scan[v]
  BY ScanOf
<1> QED
  BY <1>1, <1>2, <1>3

\* A step after which nobody knows more, and that leaves jobs and reports alone.
LEMMA Forgets ==
  ASSUME UNCHANGED <<spec, job, rep, edits>>, faults > 0 => faults' > 0,
         \A w \in Workloads : \A e : Known(w, e)' => Known(w, e)
  PROVE  Protocol!Next
<1>1. Scan' = Scan
  BY DEF Scan
<1>2. \A w \in Workloads : Ended'[w] \subseteq Ended[w]
  BY Mapped
<1> QED
  BY <1>1, <1>2 DEF Protocol!Next, Protocol!Forget, Protocol!Forgetting

\* Nor does a step that leaves caches and passes alone, too.
LEMMA KnownFrame ==
  ASSUME UNCHANGED <<job, cJob, jobWork>>
  PROVE  /\ \A w \in Workloads : \A e : Known(w, e)' <=> Known(w, e)
         /\ Scan' = Scan /\ Ended' = Ended
BY DEF Known, Finished, Scan, Ended

\* What users and the cluster do: edits, ends of scans, collected reports.
LEMMA ProtocolCluster ==
  ASSUME TypeOK, TypeOK', ClusterNext, faults > 0 => faults' > 0
  PROVE  Protocol!Next
<1> USE DEF specVars, jobVars, repVars, workerVars, collectorVars, boundVars
<1>1. ASSUME NEW w \in Workloads, EditWorkload(w) PROVE Protocol!Next
  <2>1. UNCHANGED <<job, cJob, rep, jobWork>> /\ edits' > 0
    BY <1>1 DEF EditWorkload, Edit, TypeOK
  <2>2. Scan' = Scan /\ Ended' = Ended
    BY <2>1, KnownFrame
  <2> QED
    BY <2>1, <2>2 DEF Protocol!Next, Protocol!Edit, Protocol!Forgetting
<1>2. ASSUME NEW w \in Workloads, NEW c \in Containers, UserDeletesReport(w, c)
      PROVE  Protocol!Next
  <2>1. UNCHANGED <<job, cJob, jobWork>> /\ edits' > 0
    BY <1>2 DEF UserDeletesReport, Edit, TypeOK
  <2>2. Scan' = Scan /\ Ended' = Ended
    BY <2>1, KnownFrame
  <2>3. \A v \in Workloads, d \in Containers : rep'[v][d] \in {rep[v][d], NoReport}
    BY <1>2, StoreEffect DEF UserDeletesReport
  <2> QED
    BY <2>1, <2>2, <2>3 DEF Protocol!Next, Protocol!Edit, Protocol!Forgetting
<1>3. ASSUME NEW w \in Workloads, NEW c \in Containers, CollectReport(w, c)
      PROVE  Protocol!Next
  <2>1. UNCHANGED <<spec, job, cJob, jobWork, edits>> /\ spec[w] \notin Specs
    BY <1>3 DEF CollectReport
  <2>2. Scan' = Scan /\ Ended' = Ended
    BY <2>1, KnownFrame
  <2>3. Protocol!Remove(w, c)
    BY <1>3, <2>1, <2>2 DEF CollectReport, StoreReport, Protocol!Remove
  <2> QED
    BY <2>3 DEF Protocol!Next
<1>4. ASSUME NEW w \in Workloads, CollectSecret(w) \/ StartPod(w) \/ LosePod(w)
      PROVE  Protocol!Next
  <2>1. UNCHANGED <<spec, job, cJob, rep, jobWork, edits>>
    BY <1>4 DEF CollectSecret, StartPod, LosePod
  <2> QED
    BY <2>1, KnownFrame, Forgets
<1>5. ASSUME NEW w \in Workloads, NEW cond \in {"complete", "failed"}, NEW output,
             FinishJob(w, cond, output), cond = "complete" \/ faults' > 0
      PROVE  Protocol!Next
  <2> DEFINE l == job[w].hash
  <2>1. job[w] \in Job /\ l \in Specs /\ job[w].cond = "none"
    BY <1>5, JobFields DEF FinishJob, TypeOK
  <2>2. /\ job' = [job EXCEPT ![w] = [hash |-> l, cond |-> cond]]
        /\ UNCHANGED <<spec, cJob, rep, jobWork, edits>>
    BY <1>5 DEF FinishJob
  <2>3. job'[w] = [hash |-> l, cond |-> cond] /\ \A v \in Workloads : v # w => job'[v] = job[v]
    BY <2>2 DEF TypeOK
  <2>4. [hash |-> l, cond |-> cond] # NoJob
    BY <2>1, JobMake
  <2>5. Scan[w] = {<<l, "none">>}
    BY <1>5, <2>1, ScanOf DEF FinishJob
  <2>6. Scan' = [Scan EXCEPT ![w] = {<<l, cond>>}]
    <3>1. job'[w].hash = l /\ job'[w].cond = cond /\ job'[w] # NoJob
      BY <2>3, <2>4
    <3>2. Scan'[w] = {<<l, cond>>}
      BY <3>1, ScanOf
    <3> QED
      BY <2>3, <3>2, ScanSet
  <2>7. \A e : Known(w, e)' <=> Known(w, e) \/ e = <<l, cond>>
    BY <2>1, <2>2, <2>3, <2>4 DEF Known, Finished
  <2>8. \A v \in Workloads : v # w => \A e : Known(v, e)' <=> Known(v, e)
    BY <2>2, <2>3 DEF Known, Finished
  <2>9. \A v \in Workloads : Ended'[v] = IF v = w THEN Ended[w] \cup {<<l, cond>>} ELSE Ended[v]
    BY <2>7, <2>8, Mapped
  <2>10. Ended' = [Ended EXCEPT ![w] = Ended[w] \cup {<<l, cond>>}]
    BY <2>9 DEF Ended
  <2>11. Protocol!End(w, l, cond)
    BY <1>5, <2>2, <2>5, <2>6, <2>10 DEF Protocol!End
  <2> QED
    BY <2>1, <2>11 DEF Protocol!Next
<1>6. ASSUME NEW w \in Workloads, CompleteJob(w) PROVE Protocol!Next
  BY <1>5, <1>6 DEF CompleteJob
<1>7. ASSUME NEW w \in Workloads, FailJob(w) PROVE Protocol!Next
  <2>1. faults' > 0
    BY <1>7 DEF FailJob, Fault, TypeOK
  <2> QED
    BY <1>5, <1>7, <2>1 DEF FailJob
<1> QED
  BY <1>1, <1>2, <1>3, <1>4, <1>6, <1>7 DEF ClusterNext

\* What the informers do: caches and passes forget.
LEMMA ProtocolInformer ==
  ASSUME TypeOK, faults > 0 => faults' > 0,
         \/ \E w \in Workloads :
              \/ SyncWorkload(w) \/ SyncJob(w) \/ FireDelayed(w) \/ FireJobDelayed(w)
              \/ \E c \in Containers : SyncReport(w, c)
         \/ Resync \/ Restart
  PROVE  Protocol!Next
<1>1. /\ UNCHANGED <<spec, job, rep, edits>>
      /\ UNCHANGED jobWork \/ jobWork' = Idle
  BY DEF SyncWorkload, SyncJob, FireDelayed, FireJobDelayed, SyncReport, Resync,
         Restart, specVars, jobVars, repVars, workerVars, collectorVars, boundVars
<1>2. \A w \in Workloads : cJob'[w] = cJob[w] \/ cJob'[w] = job[w]
  <2>1. \/ cJob' = cJob \/ cJob' = job
        \/ \E v \in Workloads : cJob' = [cJob EXCEPT ![v] = job[v]]
    BY DEF SyncWorkload, SyncJob, FireDelayed, FireJobDelayed, SyncReport, Resync,
           Restart, jobVars
  <2> QED
    BY <2>1 DEF TypeOK
<1>3. \A w \in Workloads : \A e : Known(w, e)' => Known(w, e)
  BY <1>1, <1>2 DEF Known, Finished
<1> QED
  BY <1>1, <1>3, Forgets

\* What the workload controllers do: a job is created only where there is none.
LEMMA ProtocolWorker ==
  ASSUME ResultInv, NEW k \in Kinds, WorkerNext(k) \/ WorkerError(k), faults > 0 => faults' > 0
  PROVE  Protocol!Next
<1>0. TypeOK
  BY DEF ResultInv
<1>1. UNCHANGED <<spec, cJob, rep, jobWork, edits>>
  BY DEF WorkerNext, ReconcileWorkload, CheckReports, CheckScanJob, CheckLimit,
         CreateSecret, CreateJob, SetOwnerReference, WorkerError, specVars, jobVars,
         repVars, collectorVars, boundVars
<1>2. CASE UNCHANGED job
  BY <1>1, <1>2, KnownFrame, Forgets
<1>3. CASE CreateJob(k) /\ job[work[k].key] = NoJob
  <2> DEFINE w == work[k].key  l == work[k].hash
  <2>1. w \in Workloads /\ l \in Specs
    BY <1>0, <1>3, TaskFields DEF CreateJob, At, TypeOK
  <2>2. edits > 0 \/ l = spec[w]
    BY <1>0, <1>3 DEF CreateJob, At, ResultInv, Quiet, OneVersion, TypeOK
  <2>3. /\ job'[w] = [hash |-> l, cond |-> "none"]
        /\ \A v \in Workloads : v # w => job'[v] = job[v]
    BY <1>0, <1>3, <2>1 DEF CreateJob, TypeOK
  <2>4. [hash |-> l, cond |-> "none"] # NoJob
    BY <2>1, JobMake
  <2>5. job'[w].hash = l /\ job'[w].cond = "none" /\ job'[w] # NoJob
    BY <2>3, <2>4
  <2>6. Scan' = [Scan EXCEPT ![w] = {<<l, "none">>}]
    <3>1. Scan'[w] = {<<l, "none">>}
      BY <2>1, <2>5, ScanOf
    <3> QED
      BY <2>1, <2>3, <3>1, ScanSet
  <2>7. Ended' = Ended
    <3>1. \A v \in Workloads : \A e : Known(v, e)' <=> Known(v, e)
      BY <1>1, <1>3, <2>3, <2>5 DEF Known, Finished
    <3>2. \A v \in Workloads : Ended'[v] = Ended[v]
      BY <3>1, Mapped
    <3> QED
      BY <3>2 DEF Ended
  <2>8. Scan[w] = {}
    BY <1>3, <2>1, ScanOf
  <2>9. Protocol!Submit(w, l)
    BY <1>1, <2>2, <2>6, <2>7, <2>8 DEF Protocol!Submit
  <2> QED
    BY <2>1, <2>9 DEF Protocol!Next
<1> QED
  BY <1>2, <1>3
     DEF WorkerNext, ReconcileWorkload, CheckReports, CheckScanJob, CheckLimit,
         CreateSecret, CreateJob, SetOwnerReference, WorkerError, jobVars

\* What the scan job controller does: it acts on the ends that it got to know,
\* stores results under the hash of the job and discards jobs.
LEMMA ProtocolCollector ==
  ASSUME CalmInv, JobNext \/ JobError, faults > 0 => faults' > 0
  PROVE  Protocol!Next
<1>0. TypeOK
  BY DEF CalmInv, ResultInv
<1>1. UNCHANGED <<spec, cJob, edits>>
  BY DEF JobNext, JobError, ReconcileJobs, GetOwner, CheckJobReports, ReadLogs,
         WriteReports, GetStatuses, DeleteJob, specVars, jobVars, boundVars
<1>2. ASSUME UNCHANGED <<job, rep>>,
             \/ jobWork' = Idle
             \/ /\ jobWork # Idle
                /\ jobWork'.key = jobWork.key /\ jobWork'.hash = jobWork.hash
                /\ jobWork'.cond = jobWork.cond
      PROVE  Protocol!Next
  <2>1. \A w \in Workloads : \A e : Known(w, e)' => Known(w, e)
    BY <1>1, <1>2 DEF Known, Finished
  <2> QED
    BY <1>1, <1>2, <2>1, Forgets
<1>3. CASE ReconcileJobs
  <2>1. UNCHANGED <<job, rep>> /\ jobWork = Idle
    BY <1>3 DEF ReconcileJobs, jobVars, repVars
  <2>2. \/ jobWork' = Idle
        \/ \E w \in Workloads :
             /\ Finished(cJob[w])
             /\ jobWork'.key = w /\ jobWork'.hash = cJob[w].hash
             /\ jobWork'.cond = cJob[w].cond
    BY <1>0, <1>3 DEF ReconcileJobs, TypeOK
  <2>3. \A w \in Workloads : \A e : Known(w, e)' => Known(w, e)
    BY <1>1, <2>1, <2>2 DEF Known, Finished
  <2> QED
    BY <1>1, <2>1, <2>3, Forgets
<1>4. CASE GetOwner \/ CheckJobReports \/ ReadLogs \/ GetStatuses \/ JobError
  <2>1. UNCHANGED <<job, rep>>
    BY <1>4 DEF GetOwner, CheckJobReports, ReadLogs, GetStatuses, JobError, jobVars, repVars
  <2>2. \/ jobWork' = Idle
        \/ /\ jobWork # Idle
           /\ jobWork'.key = jobWork.key /\ jobWork'.hash = jobWork.hash
           /\ jobWork'.cond = jobWork.cond
    BY <1>4 DEF GetOwner, CheckJobReports, ReadLogs, GetStatuses, JobError, JobAt,
                JobGoTo, JobGoOn, JobDone, JobRequeue
  <2> QED
    BY <1>2, <2>1, <2>2
<1>5. CASE WriteReports
  <2> DEFINE w == jobWork.key  h == jobWork.hash
  <2>1. /\ w \in Workloads /\ h \in Specs /\ jobWork # Idle
        /\ UNCHANGED job
    BY <1>0, <1>5, JobTaskFields DEF WriteReports, JobAt, TypeOK, jobVars
  <2>2. CASE (JobGoTo("delete", {}) \/ JobRequeue) /\ UNCHANGED repVars
    <3>1. \/ jobWork' = Idle
          \/ /\ jobWork'.key = jobWork.key /\ jobWork'.hash = jobWork.hash
             /\ jobWork'.cond = jobWork.cond
      BY <2>2 DEF JobGoTo, JobGoOn, JobRequeue
    <3> QED
      BY <1>2, <2>1, <2>2, <3>1 DEF repVars
  <2>3. ASSUME NEW c \in jobWork.todo, StoreReport(w, c, h, jobWork.from),
               JobGoTo("write", jobWork.todo \ {c}), jobWork.cond = "complete"
        PROVE  Protocol!Next
    <3>1. c \in ContainersOf[h] /\ c \in Containers
      BY <1>0, <2>1, <2>3 DEF TypeOK
    <3>2. /\ jobWork' # Idle
          /\ jobWork'.key = w /\ jobWork'.hash = h /\ jobWork'.cond = jobWork.cond
      <4>1. /\ jobWork \in JobTask /\ jobWork.todo \ {c} \in SUBSET Containers
            /\ jobWork.from \in Specs /\ jobWork.cond \in {"complete", "failed"}
        BY <1>0, <2>1, JobTaskFields DEF TypeOK
      <4>2. jobWork' \in JobTask
        BY <2>1, <2>3, <4>1, JobTaskMake DEF JobGoTo, JobGoOn
      <4> QED
        BY <2>3, <4>2, SentinelsAssumption DEF JobGoTo, JobGoOn
    <3>3. Scan' = Scan
      BY <2>1 DEF Scan
    <3>4. Ended' = Ended
      <4>1. \A v \in Workloads : \A e : Known(v, e)' <=> Known(v, e)
        BY <1>1, <2>1, <3>2 DEF Known, Finished
      <4>2. \A v \in Workloads : Ended'[v] = Ended[v]
        BY <4>1, Mapped
      <4> QED
        BY <4>2 DEF Ended
    <3>5. <<h, "complete">> \in Ended[w]
      <4>1. Known(w, <<h, "complete">>)
        BY <2>1, <2>3 DEF Known
      <4> QED
        BY <2>1, <4>1, Mapped
    <3>6. Protocol!Store(w, c, h)
      BY <1>1, <2>3, <3>1, <3>3, <3>4, <3>5 DEF Protocol!Store, StoreReport
    <3> QED
      BY <2>1, <3>1, <3>6 DEF Protocol!Next
  <2>4. jobWork.cond = "complete"
    BY <1>0, <1>5, <2>1, JobTaskFields DEF WriteReports, JobAt, CalmInv, FailedPass, TypeOK
  <2> QED
    BY <1>5, <2>2, <2>3, <2>4 DEF WriteReports
<1>6. CASE DeleteJob
  <2> DEFINE w == jobWork.key
  <2>1. w \in Workloads /\ jobWork # Idle
    BY <1>0, <1>6, JobTaskFields DEF DeleteJob, JobAt, TypeOK
  <2>2. job' = [job EXCEPT ![w] = NoJob] /\ jobWork' = Idle /\ rep' = rep
    BY <1>6 DEF DeleteJob, JobDone, JobRequeue, repVars
  <2>3. job'[w] = NoJob /\ \A v \in Workloads : v # w => job'[v] = job[v]
    BY <1>0, <2>1, <2>2 DEF TypeOK
  <2>4. \A v \in Workloads : \A e : Known(v, e)' => Known(v, e)
    BY <1>1, <2>2, <2>3 DEF Known, Finished
  <2>5. CASE job[w] = NoJob
    <3>1. job' = job
      BY <1>0, <2>1, <2>2, <2>5 DEF TypeOK
    <3> QED
      BY <1>1, <2>2, <2>4, <3>1, Forgets
  <2>6. CASE job[w] # NoJob
    <3>1. Scan[w] # {}
      BY <2>1, <2>6, ScanOf
    <3>2. Ended[w] # {}
      <4>1. Known(w, <<jobWork.hash, jobWork.cond>>)
        BY <2>1 DEF Known
      <4> QED
        BY <2>1, <4>1, Mapped
    <3>3. Protocol!Stored(w) \/ edits > 0 \/ faults > 0
      <4> SUFFICES ASSUME ~(edits > 0), ~(faults > 0) PROVE Stored(w)
        BY DEF Stored, Protocol!Stored
      <4>1. Calm
        BY <1>0 DEF Calm, Quiet, TypeOK
      <4> QED
        BY <1>6, <2>1, <4>1 DEF CalmInv, CalmOf, ResultInv, Calm, PassInv, DeleteJob, JobAt
    <3>4. Scan' = [Scan EXCEPT ![w] = {}]
      <4>1. Scan'[w] = {}
        BY <2>1, <2>3, ScanOf
      <4> QED
        BY <2>1, <2>3, <4>1, ScanSet
    <3>5. \A v \in Workloads : Ended'[v] \subseteq Ended[v]
      BY <2>4, Mapped
    <3>6. Protocol!Discard(w)
      BY <1>1, <2>2, <3>1, <3>2, <3>3, <3>4, <3>5 DEF Protocol!Discard, Protocol!Forgetting
    <3> QED
      BY <2>1, <3>6 DEF Protocol!Next
  <2> QED
    BY <2>5, <2>6
<1> QED
  BY <1>3, <1>4, <1>5, <1>6 DEF JobNext

\* Initially nothing is scanned and nothing reported.
LEMMA ProtocolInit == Init => CalmInv /\ Protocol!Init
<1> SUFFICES ASSUME Init PROVE CalmInv /\ Protocol!Init
  OBVIOUS
<1>1. CalmInv
  BY ResultInit DEF Init, CalmInv, FailedPass, CalmOf, Finished
<1>2. Scan = [w \in Workloads |-> {}]
  BY DEF Init, Scan
<1>3. Ended = [w \in Workloads |-> {}]
  <2>1. \A w \in Workloads : Ended[w] = {}
    BY Mapped DEF Init, Known, Finished
  <2> QED
    BY <2>1 DEF Ended
<1> QED
  BY <1>1, <1>2, <1>3 DEF Init, Protocol!Init

\* Every step of the vulnerability scanner is a step of the protocol.
LEMMA ProtocolStep == ASSUME CalmInv, [Next]_vars PROVE Protocol!Next
<1>1. TypeOK /\ TypeOK' /\ ResultInv
  BY TypeStep DEF CalmInv, ResultInv
<1>2. faults > 0 => faults' > 0
  BY <1>1, Counters
<1>3. CASE UNCHANGED vars
  BY <1>2, <1>3, KnownFrame, Forgets DEF vars
<1>4. CASE ClusterNext
  BY <1>1, <1>2, <1>4, ProtocolCluster
<1>5. CASE OperatorNext
  BY <1>1, <1>2, <1>5, ProtocolInformer, ProtocolWorker, ProtocolCollector DEF OperatorNext
<1> QED
  BY <1>3, <1>4, <1>5 DEF Next

\* The vulnerability scanner follows the protocol of scans, for any number of
\* workloads, containers, edits and faults, and for any lag of its caches.
THEOREM ScansFollowProtocol == Spec => FollowsProtocol
<1>1. Init => CalmInv /\ Protocol!Init
  BY ProtocolInit
<1>2. CalmInv /\ [Next]_vars => CalmInv'
  BY CalmStep
<1>3. CalmInv /\ [Next]_vars =>
        [Protocol!Next]_<<spec, Scan, Ended, rep, edits > 0, faults > 0>>
  BY ProtocolStep
<1> QED
  BY <1>1, <1>2, <1>3, PTL DEF Spec, FollowsProtocol, Protocol!Spec

-----------------------------------------------------------------------------
(* LabelledAsScanned.  All that anyone holds or reads are pod specs that the *)
(* workload has or had.  Once a job for a new pod spec was seen, everybody   *)
(* who could submit another one knows that spec.                            *)

HadSpec(w, s) == s \in past[w] \cup {spec[w]}

WorkerOn(w) == work[KindOf[w]] # Idle /\ work[KindOf[w]].key = w
PassOver(w) == jobWork # Idle /\ jobWork.key = w

VersionsOf(w) ==
  /\ HadSpec(w, cSpec[w])
  /\ job[w] # NoJob => HadSpec(w, job[w].hash)
  /\ cJob[w] # NoJob => HadSpec(w, cJob[w].hash)
  /\ WorkerOn(w) => HadSpec(w, work[KindOf[w]].hash)
  /\ PassOver(w) => HadSpec(w, jobWork.hash)
  /\ \A c \in Containers : rep[w][c] # NoReport => HadSpec(w, rep[w][c])

\* There is, or was, a job for the current pod spec.
Reached(w) ==
  \/ job[w] # NoJob /\ job[w].hash = spec[w]
  \/ cJob[w] # NoJob /\ cJob[w].hash = spec[w]
  \/ PassOver(w) /\ jobWork.hash = spec[w]

NewSpecOf(w) ==
  spec[w] \in Specs \ past[w] =>
    /\ WorkerOn(w) /\ work[KindOf[w]].hash = spec[w] => cSpec[w] = spec[w]
    /\ Reached(w) =>
         /\ cSpec[w] = spec[w]
         /\ job[w] # NoJob => job[w].hash = spec[w]
         /\ WorkerOn(w) => work[KindOf[w]].hash = spec[w]
    /\ PassOver(w) /\ jobWork.pc = "write" /\ jobWork.hash = spec[w] => jobWork.from = spec[w]
    /\ \A c \in Containers : rep[w][c] = spec[w] => origin[w][c] = spec[w]

OriginInv == TypeOK /\ \A w \in Workloads : VersionsOf(w) /\ NewSpecOf(w)

\* Steps that only forget, or pass on what was known before.
LEMMA OriginFrame ==
  ASSUME TypeOK, NEW v \in Workloads, VersionsOf(v), NewSpecOf(v),
         spec'[v] = spec[v], cSpec'[v] = cSpec[v], past'[v] = past[v],
         \/ job'[v] = NoJob
         \/ job[v] # NoJob /\ job'[v].hash = job[v].hash,
         cJob'[v] \in {cJob[v], job[v]},
         WorkerOn(v)' => WorkerOn(v) /\ work'[KindOf[v]].hash = work[KindOf[v]].hash,
         PassOver(v)' => \/ /\ PassOver(v) /\ jobWork'.hash = jobWork.hash
                            /\ jobWork'.pc = "write" =>
                                 jobWork.pc = "write" /\ jobWork'.from = jobWork.from
                         \/ /\ cJob[v] # NoJob /\ jobWork'.hash = cJob[v].hash
                            /\ jobWork'.pc # "write",
         \A c \in Containers : \/ rep'[v][c] = NoReport
                               \/ rep'[v][c] = rep[v][c] /\ origin'[v][c] = origin[v][c]
  PROVE  VersionsOf(v)' /\ NewSpecOf(v)'
<1>1. VersionsOf(v)'
  BY DEF VersionsOf, HadSpec
<1>2. Reached(v)' => Reached(v)
  BY DEF Reached
<1>3. NewSpecOf(v)'
  BY <1>2, SentinelsAssumption DEF NewSpecOf
<1> QED
  BY <1>1, <1>3

\* Storing a report changes the origin of that report and of no other.
LEMMA StoreOrigin ==
  ASSUME TypeOK, NEW w \in Workloads, NEW c \in Containers, NEW h, NEW o,
         StoreReport(w, c, h, o)
  PROVE  \A v \in Workloads, d \in Containers :
           origin'[v][d] = IF v = w /\ d = c THEN o ELSE origin[v][d]
<1>1. origin[w] \in [Containers -> Specs \cup {NoReport}]
  BY DEF TypeOK
<1>2. PICK f : f = [origin[w] EXCEPT ![c] = o]
  OBVIOUS
<1>3. \A d \in Containers : f[d] = IF d = c THEN o ELSE origin[w][d]
  BY <1>1, <1>2
<1>4. origin' = [origin EXCEPT ![w] = f]
  BY <1>2 DEF StoreReport
<1>5. \A v \in Workloads : origin'[v] = IF v = w THEN f ELSE origin[v]
  BY <1>4 DEF TypeOK
<1> QED
  BY <1>3, <1>5

\* A pod spec that the workload never had is one that nobody holds.
LEMMA OriginEdit ==
  ASSUME TypeOK, NEW w \in Workloads, EditWorkload(w),
         NEW v \in Workloads, VersionsOf(v), NewSpecOf(v)
  PROVE  VersionsOf(v)' /\ NewSpecOf(v)'
<1>1. /\ UNCHANGED <<cSpec, job, cJob, work, jobWork, rep, origin>>
      /\ past'[v] \cup {spec'[v]} = past[v] \cup {spec[v], spec'[v]}
      /\ v # w => spec'[v] = spec[v] /\ past'[v] = past[v]
      /\ v = w => past'[v] = past[v] \cup {spec[v]}
  BY DEF EditWorkload, TypeOK, jobVars, repVars, workerVars, collectorVars
<1>2. VersionsOf(v)'
  BY <1>1 DEF VersionsOf, HadSpec, WorkerOn, PassOver
<1>3. CASE v # w
  BY <1>1, <1>2, <1>3 DEF NewSpecOf, Reached, WorkerOn, PassOver
<1>4. CASE v = w /\ spec'[v] \in Specs \ past'[v]
  <2>1. ~HadSpec(v, spec'[v])
    BY <1>1, <1>4 DEF HadSpec
  <2>2. spec'[v] # NoReport
    BY <1>4, SentinelsAssumption
  <2>3. /\ ~Reached(v)'
        /\ WorkerOn(v)' => work'[KindOf[v]].hash # spec'[v]
        /\ PassOver(v)' => jobWork'.hash # spec'[v]
        /\ \A c \in Containers : rep'[v][c] # spec'[v]
    BY <1>1, <2>1, <2>2 DEF VersionsOf, Reached, WorkerOn, PassOver
  <2> QED
    BY <1>2, <2>3 DEF NewSpecOf
<1> QED
  BY <1>2, <1>3, <1>4 DEF NewSpecOf

\* The other steps of the cluster forget.
LEMMA OriginCluster ==
  ASSUME TypeOK, ClusterNext, NEW v \in Workloads, VersionsOf(v), NewSpecOf(v)
  PROVE  VersionsOf(v)' /\ NewSpecOf(v)'
<1> USE DEF specVars, jobVars, repVars, workerVars, collectorVars, boundVars
<1>1. CASE \E w \in Workloads : EditWorkload(w)
  BY <1>1, OriginEdit
<1>2. ASSUME NEW w \in Workloads,
             CollectSecret(w) \/ StartPod(w) \/ CompleteJob(w) \/ FailJob(w) \/ LosePod(w)
      PROVE  VersionsOf(v)' /\ NewSpecOf(v)'
  <2>1. UNCHANGED <<spec, cSpec, past, cJob, work, jobWork, rep, origin>>
    BY <1>2 DEF CollectSecret, StartPod, CompleteJob, FailJob, LosePod, FinishJob
  <2>2. job'[v] = NoJob \/ (job[v] # NoJob /\ job'[v].hash = job[v].hash)
    <3>1. CASE CollectSecret(w) \/ StartPod(w) \/ LosePod(w)
      BY <3>1 DEF CollectSecret, StartPod, LosePod
    <3>2. CASE CompleteJob(w) \/ FailJob(w)
      <4>1. /\ job[w] # NoJob
            /\ \E c : job' = [job EXCEPT ![w] = [hash |-> job[w].hash, cond |-> c]]
        BY <3>2 DEF CompleteJob, FailJob, FinishJob
      <4>2. job'[w].hash = job[w].hash /\ (v # w => job'[v] = job[v])
        BY <4>1 DEF TypeOK
      <4> QED
        BY <4>1, <4>2
    <3> QED
      BY <1>2, <3>1, <3>2
  <2> QED
    BY <2>1, <2>2, OriginFrame DEF WorkerOn, PassOver
<1>3. ASSUME NEW w \in Workloads, NEW c \in Containers,
             UserDeletesReport(w, c) \/ CollectReport(w, c)
      PROVE  VersionsOf(v)' /\ NewSpecOf(v)'
  <2>1. /\ UNCHANGED <<spec, cSpec, past, job, cJob, work, jobWork>>
        /\ StoreReport(w, c, NoReport, NoReport)
    BY <1>3 DEF UserDeletesReport, CollectReport
  <2>2. \A d \in Containers : \/ rep'[v][d] = NoReport
                              \/ rep'[v][d] = rep[v][d] /\ origin'[v][d] = origin[v][d]
    BY <2>1, StoreEffect, StoreOrigin
  <2> QED
    BY <2>1, <2>2, OriginFrame DEF WorkerOn, PassOver
<1> QED
  BY <1>1, <1>2, <1>3 DEF ClusterNext

\* Only the event of the workload itself tells anything new.
LEMMA OriginInformer ==
  ASSUME TypeOK, NEW v \in Workloads, VersionsOf(v), NewSpecOf(v),
         \/ \E w \in Workloads :
              \/ SyncWorkload(w) \/ SyncJob(w) \/ FireDelayed(w) \/ FireJobDelayed(w)
              \/ \E c \in Containers : SyncReport(w, c)
         \/ Resync \/ Restart
  PROVE  VersionsOf(v)' /\ NewSpecOf(v)'
<1> USE DEF specVars, jobVars, repVars, workerVars, collectorVars, boundVars
<1> DEFINE Passed == /\ UNCHANGED <<spec, past, job, rep, origin>>
                     /\ cSpec'[v] \in {cSpec[v], spec[v]}
                     /\ cJob'[v] \in {cJob[v], job[v]}
                     /\ work'[KindOf[v]] \in {work[KindOf[v]], Idle}
                     /\ jobWork' \in {jobWork, Idle}
<1>1. Passed
  <2>1. KindOf[v] \in Kinds
    BY ConstantsAssumption
  <2>2. ASSUME NEW w \in Workloads, SyncWorkload(w) PROVE Passed
    BY <2>2 DEF SyncWorkload, TypeOK
  <2>3. ASSUME NEW w \in Workloads, SyncJob(w) PROVE Passed
    BY <2>3 DEF SyncJob, TypeOK
  <2>4. ASSUME NEW w \in Workloads, FireDelayed(w) \/ FireJobDelayed(w) PROVE Passed
    BY <2>4 DEF FireDelayed, FireJobDelayed
  <2>5. ASSUME NEW w \in Workloads, NEW c \in Containers, SyncReport(w, c) PROVE Passed
    BY <2>5 DEF SyncReport
  <2>6. CASE Resync
    BY <2>6 DEF Resync
  <2>7. CASE Restart
    BY <2>1, <2>7 DEF Restart
  <2> QED
    BY <2>2, <2>3, <2>4, <2>5, <2>6, <2>7
<1>2. WorkerOn(v)' => WorkerOn(v) /\ work'[KindOf[v]].hash = work[KindOf[v]].hash
  BY <1>1 DEF WorkerOn
<1>3. PassOver(v)' => PassOver(v) /\ jobWork' = jobWork
  BY <1>1 DEF PassOver
<1>4. CASE cSpec'[v] = cSpec[v]
  BY <1>1, <1>2, <1>3, <1>4, OriginFrame
<1>5. CASE cSpec'[v] = spec[v]
  <2>1. VersionsOf(v)'
    BY <1>1, <1>2, <1>3, <1>5 DEF VersionsOf, HadSpec
  <2>2. Reached(v)' => Reached(v)
    BY <1>1, <1>3 DEF Reached
  <2> QED
    BY <1>1, <1>2, <1>3, <1>5, <2>1, <2>2 DEF NewSpecOf
<1> QED
  BY <1>1, <1>4, <1>5

\* A worker starts with what the cache shows, and submits with what it started.
LEMMA OriginWorker ==
  ASSUME TypeOK, NEW k \in Kinds, WorkerNext(k) \/ WorkerError(k),
         NEW v \in Workloads, VersionsOf(v), NewSpecOf(v)
  PROVE  VersionsOf(v)' /\ NewSpecOf(v)'
<1> USE DEF specVars, jobVars, repVars, collectorVars, boundVars
<1>1. UNCHANGED <<spec, cSpec, past, cJob, jobWork, rep, origin>>
  BY DEF WorkerNext, WorkerError, ReconcileWorkload, CheckReports, CheckScanJob, CheckLimit,
         CreateSecret, CreateJob, SetOwnerReference
<1>2. PassOver(v)' <=> PassOver(v)
  BY <1>1 DEF PassOver
<1>3. CASE ReconcileWorkload(k)
  <2>1. /\ job' = job
        /\ WorkerOn(v)' => \/ WorkerOn(v) /\ work'[KindOf[v]].hash = work[KindOf[v]].hash
                           \/ work'[KindOf[v]].hash = cSpec[v]
    <3>1. job' = job
      BY <1>3 DEF ReconcileWorkload
    <3>2. PICK w \in queue :
            \/ work' = work
            \/ work' = [work EXCEPT ![k] = [pc |-> "reports", key |-> w, hash |-> cSpec[w]]]
      BY <1>3 DEF ReconcileWorkload
    <3>3. CASE work' = work
      BY <3>1, <3>3 DEF WorkerOn
    <3>4. CASE work' # work /\ KindOf[v] = k
      <4>1. work'[k] = [pc |-> "reports", key |-> w, hash |-> cSpec[w]]
        BY <3>2, <3>4 DEF TypeOK
      <4> QED
        BY <3>1, <3>4, <4>1 DEF WorkerOn
    <3>5. CASE work' # work /\ KindOf[v] # k
      <4>1. work'[KindOf[v]] = work[KindOf[v]]
        BY <3>2, <3>5, ConstantsAssumption DEF TypeOK
      <4> QED
        BY <3>1, <4>1 DEF WorkerOn
    <3> QED
      BY <3>3, <3>4, <3>5
  <2>2. VersionsOf(v)'
    BY <1>1, <1>2, <2>1 DEF VersionsOf, HadSpec
  <2>3. Reached(v)' => Reached(v)
    BY <1>1, <1>2, <2>1 DEF Reached
  <2> QED
    BY <1>1, <1>2, <2>1, <2>2, <2>3 DEF NewSpecOf
<1>4. ASSUME ~ReconcileWorkload(k)
      PROVE  WorkerOn(v)' => WorkerOn(v) /\ work'[KindOf[v]].hash = work[KindOf[v]].hash
  <2>1. work[k] # Idle
    BY <1>4 DEF WorkerNext, WorkerError, CheckReports, CheckScanJob, CheckLimit, CreateSecret, CreateJob,
        SetOwnerReference, At
  <2>2. \/ work' = [work EXCEPT ![k] = Idle]
        \/ \E l : work' = [work EXCEPT ![k] = [pc |-> l, key |-> work[k].key, hash |-> work[k].hash]]
    BY <1>4 DEF WorkerNext, WorkerError, CheckReports, CheckScanJob, CheckLimit, CreateSecret, CreateJob,
        SetOwnerReference, Done, Requeue, GoTo
  <2> QED
    BY <2>1, <2>2, ConstantsAssumption DEF WorkerOn, TypeOK
<1>5. CASE CreateJob(k) /\ job[work[k].key] = NoJob /\ v = work[k].key
  <2>1. /\ WorkerOn(v) /\ k = KindOf[v]
        /\ job'[v] # NoJob => job'[v].hash = work[k].hash
    BY <1>5 DEF CreateJob, At, WorkerOn, TypeOK
  <2>2. WorkerOn(v)' => WorkerOn(v) /\ work'[k].hash = work[k].hash
    BY <1>5, <2>1, <1>4 DEF CreateJob, ReconcileWorkload, At
  <2>3. VersionsOf(v)'
    BY <1>1, <1>2, <2>1, <2>2 DEF VersionsOf, HadSpec
  <2>4. Reached(v)' => Reached(v) \/ work[k].hash = spec[v]
    BY <1>1, <1>2, <2>1 DEF Reached
  <2> QED
    BY <1>1, <1>2, <2>1, <2>2, <2>3, <2>4 DEF NewSpecOf
<1>6. CASE job'[v] = job[v] /\ ~ReconcileWorkload(k)
  BY <1>1, <1>2, <1>4, <1>6, OriginFrame
<1>7. job'[v] = job[v] \/ (CreateJob(k) /\ job[work[k].key] = NoJob /\ v = work[k].key)
  BY DEF WorkerNext, WorkerError, ReconcileWorkload, CheckReports, CheckScanJob, CheckLimit,
         CreateSecret, CreateJob, SetOwnerReference, TypeOK
<1> QED
  BY <1>3, <1>5, <1>6, <1>7

\* The output of the job of the name goes under the label of the pass.
LEMMA OriginCollector ==
  ASSUME TypeOK, JobNext \/ JobError, NEW v \in Workloads, VersionsOf(v), NewSpecOf(v)
  PROVE  VersionsOf(v)' /\ NewSpecOf(v)'
<1> USE DEF specVars, jobVars, repVars, workerVars, boundVars
<1>1. UNCHANGED <<spec, cSpec, past, cJob, work>>
  BY DEF JobNext, JobError, ReconcileJobs, GetOwner, CheckJobReports, ReadLogs, WriteReports,
         GetStatuses, DeleteJob
<1>2. WorkerOn(v)' <=> WorkerOn(v)
  BY <1>1 DEF WorkerOn
<1>3. CASE ReconcileJobs
  <2>1. UNCHANGED <<job, rep, origin>>
    BY <1>3 DEF ReconcileJobs
  <2>2. PassOver(v)' => \/ PassOver(v) /\ jobWork' = jobWork
                        \/ /\ cJob[v] # NoJob /\ jobWork'.hash = cJob[v].hash
                           /\ jobWork'.pc # "write"
    BY <1>3 DEF ReconcileJobs, PassOver, Finished, TypeOK
  <2> QED
    BY <1>1, <1>2, <2>1, <2>2, OriginFrame
<1>4. CASE GetOwner \/ CheckJobReports \/ GetStatuses \/ JobError
  <2>1. UNCHANGED <<job, rep, origin>>
    BY <1>4 DEF GetOwner, CheckJobReports, GetStatuses, JobError
  <2>2. PassOver(v)' => /\ PassOver(v) /\ jobWork'.hash = jobWork.hash
                        /\ jobWork'.pc # "write"
    BY <1>4 DEF GetOwner, CheckJobReports, GetStatuses, JobError, JobAt, JobGoTo, JobGoOn,
                JobDone, JobRequeue, PassOver
  <2> QED
    BY <1>1, <1>2, <2>1, <2>2, OriginFrame
<1>5. CASE ReadLogs
  <2>1. UNCHANGED <<job, rep, origin>>
    BY <1>5 DEF ReadLogs
  <2>2. PassOver(v)' =>
          /\ PassOver(v) /\ jobWork'.hash = jobWork.hash
          /\ jobWork'.pc = "write" => job[v] # NoJob /\ jobWork'.from = job[v].hash
    BY <1>5 DEF ReadLogs, JobAt, JobGoTo, JobGoOn, JobDone, JobRequeue, PassOver
  <2>3. VersionsOf(v)'
    BY <1>1, <1>2, <2>1, <2>2 DEF VersionsOf, HadSpec
  <2>4. Reached(v)' => Reached(v)
    BY <1>1, <2>1, <2>2 DEF Reached
  <2>5. PassOver(v)' /\ jobWork'.hash = spec[v] => Reached(v)
    BY <2>2 DEF Reached
  <2> QED
    BY <1>1, <1>2, <2>1, <2>2, <2>3, <2>4, <2>5 DEF NewSpecOf
<1>6. CASE WriteReports
  <2>1. UNCHANGED job /\ jobWork # Idle /\ jobWork.pc = "write"
    BY <1>6 DEF WriteReports, JobAt
  <2>2. PassOver(v)' => /\ PassOver(v) /\ jobWork'.hash = jobWork.hash
                        /\ jobWork'.from = jobWork.from
    <3>1. \/ jobWork' = Idle
          \/ \E l, t : jobWork' = [pc |-> l, key |-> jobWork.key, hash |-> jobWork.hash,
                                  cond |-> jobWork.cond, todo |-> t, from |-> jobWork.from]
      BY <1>6 DEF WriteReports, JobGoTo, JobGoOn, JobRequeue
    <3> QED
      BY <2>1, <3>1 DEF PassOver
  <2>3. CASE UNCHANGED repVars
    BY <1>1, <1>2, <2>1, <2>2, <2>3, OriginFrame
  <2>4. ASSUME NEW c \in jobWork.todo, StoreReport(jobWork.key, c, jobWork.hash, jobWork.from)
        PROVE  VersionsOf(v)' /\ NewSpecOf(v)'
    <3>1. c \in Containers /\ jobWork.key \in Workloads
      BY <2>1, <2>4, JobTaskFields DEF TypeOK
    <3>2. \A d \in Containers :
            \/ rep'[v][d] = rep[v][d] /\ origin'[v][d] = origin[v][d]
            \/ PassOver(v) /\ rep'[v][d] = jobWork.hash /\ origin'[v][d] = jobWork.from
      BY <2>1, <2>4, <3>1, StoreEffect, StoreOrigin DEF PassOver
    <3>3. VersionsOf(v)'
      BY <1>1, <1>2, <2>1, <2>2, <3>2 DEF VersionsOf, HadSpec
    <3>4. Reached(v)' => Reached(v)
      BY <1>1, <2>1, <2>2 DEF Reached
    <3> QED
      BY <1>1, <1>2, <2>1, <2>2, <3>2, <3>3, <3>4 DEF NewSpecOf
  <2> QED
    BY <1>6, <2>3, <2>4 DEF WriteReports
<1>7. CASE DeleteJob
  <2>1. /\ job'[v] = NoJob \/ job'[v] = job[v]
        /\ UNCHANGED <<rep, origin>> /\ jobWork' = Idle
    BY <1>7 DEF DeleteJob, JobDone, JobRequeue, TypeOK
  <2> QED
    BY <1>1, <1>2, <2>1, OriginFrame DEF PassOver
<1> QED
  BY <1>3, <1>4, <1>5, <1>6, <1>7 DEF JobNext

\* A report that counts as one of the current pod spec is one of that spec, for
\* any number of workloads, containers, edits and faults and any lag of the caches,
\* unless the workload has returned to an earlier pod spec (getPodByJob).
THEOREM ReportsOfTheirLabel == Spec => []LabelledAsScanned
<1>1. Init => OriginInv
  BY TypeInit DEF Init, OriginInv, VersionsOf, NewSpecOf, HadSpec, WorkerOn, PassOver, Reached
<1>2. OriginInv /\ [Next]_vars => OriginInv'
  <2> SUFFICES ASSUME OriginInv, [Next]_vars PROVE OriginInv'
    OBVIOUS
  <2>1. TypeOK /\ TypeOK'
    BY TypeStep DEF OriginInv
  <2>2. ASSUME NEW v \in Workloads PROVE VersionsOf(v)' /\ NewSpecOf(v)'
    <3>1. VersionsOf(v) /\ NewSpecOf(v)
      BY DEF OriginInv
    <3>2. CASE UNCHANGED vars
      BY <2>1, <3>1, <3>2, OriginFrame DEF vars, WorkerOn, PassOver
    <3> QED
      BY <2>1, <3>1, <3>2, OriginCluster, OriginInformer, OriginWorker, OriginCollector
         DEF Next, OperatorNext
  <2> QED
    BY <2>1, <2>2 DEF OriginInv
<1>3. OriginInv => LabelledAsScanned
  BY DEF OriginInv, NewSpecOf, LabelledAsScanned
<1> QED
  BY <1>1, <1>2, <1>3, PTL DEF Spec
=============================================================================
