-------------------------- MODULE VulnerabilityScan --------------------------
(***************************************************************************)
(* The vulnerability scanner of the Starboard operator                     *)
(* (pkg/vulnerabilityreport): per workload kind one controller that checks *)
(* whether the workload has its reports and submits a scan job if not      *)
(* (reconcileWorkload), and one controller that turns finished scan jobs   *)
(* into reports and deletes them (reconcileJobs).                          *)
(*                                                                         *)
(* A variable X holds what the API server stores and cX what the manager's *)
(* informer cache shows.  The pod of a job and its logs are read from the  *)
(* API server.  The hash of a pod spec is the spec itself.                 *)
(***************************************************************************)
EXTENDS Naturals, FiniteSets

CONSTANTS
  Workloads,     \* names of the workloads that pass the watch predicates
  Kinds,         \* workload kinds, each with its own controller
  KindOf,        \* [Workloads -> Kinds]
  Ignored,       \* Pods of built-in workloads, Jobs of CronJobs, old ReplicaSets
  Private,       \* workloads whose scan job needs a registry credentials secret
  Specs,         \* pod specs
  InitSpecs,     \* those of the workloads when the operator starts
  Containers,    \* container names
  ContainersOf,  \* [Specs -> SUBSET Containers]
  ConcurrentScanJobsLimit,
  Outputs,       \* what scan jobs print: "good" (the plugin parses it) or "bad"
  NoWorkload, NoJob, NoReport, Idle,
  MaxEdits,      \* bound on what users do to workloads and reports
  MaxFaults      \* bound on failed scans, lost pods, API errors and restarts

ASSUME ConstantsAssumption ==
  /\ KindOf \in [Workloads -> Kinds]
  /\ Ignored \subseteq Workloads
  /\ Private \subseteq Workloads
  /\ InitSpecs \subseteq Specs \cup {NoWorkload}
  /\ ContainersOf \in [Specs -> SUBSET Containers]
  /\ ConcurrentScanJobsLimit \in Nat
  /\ Outputs \subseteq {"good", "bad"}
  /\ MaxEdits \in Nat
  /\ MaxFaults \in Nat

\* One job per workload: GetScanJobName derives from the workload's reference.
Job == [hash : Specs, cond : {"none", "complete", "failed"}]

\* What a worker holds between the calls of one reconciliation.
Task == [pc : {"reports", "job", "limit", "secret", "create", "owner"},
         key : Workloads, hash : Specs]
JobTask == [pc : {"owner", "reports", "logs", "write", "statuses", "delete", "drop"},
            key : Workloads, hash : Specs, cond : {"complete", "failed"},
            todo : SUBSET Containers,
            from : Specs]    \* what the job scanned whose logs were read

ASSUME SentinelsAssumption ==
  /\ NoWorkload \notin Specs
  /\ NoJob \notin Job
  /\ NoReport \notin Specs
  /\ Idle \notin Task /\ Idle \notin JobTask

VARIABLES
  spec, cSpec,       \* the pod spec of every workload
  past,              \* history: the pod specs that a workload had before
  job, cJob,         \* the scan job of every workload
  stale,             \* jobs of which the cache has yet to see an event
  pod,               \* the pod of the job: "gone" (not there yet or no more),
                     \* "running", or ended with "good" or "bad" output
  secret,            \* the credentials secret: "none", "orphan" (no owner
                     \* reference yet), "owned" by the job, "garbage" (owner gone)
  rep, cRep,         \* rep[w][c]: the pod-spec-hash label of the report
  origin,            \* history: the pod spec that was scanned for the report
  repLag,            \* <<w, c>> with a version that the cache has not seen
  queue, delayed, work,             \* workload controllers
  jobQueue, jobDelayed, jobWork,    \* the scan job controller
  edits, faults      \* counters of the bounds

specVars == <<spec, cSpec, past>>
jobVars == <<job, cJob, stale, pod, secret>>
repVars == <<rep, cRep, origin, repLag>>
workerVars == <<queue, delayed, work>>
collectorVars == <<jobQueue, jobDelayed, jobWork>>
boundVars == <<edits, faults>>
vars == <<spec, cSpec, past, job, cJob, stale, pod, secret, rep, cRep, origin,
          repLag, queue, delayed, work, jobQueue, jobDelayed, jobWork, edits, faults>>

\* The operator starts on a cluster without jobs and without reports.
Init ==
  /\ spec \in [Workloads -> InitSpecs]
  /\ job = [w \in Workloads |-> NoJob]
  /\ pod = [w \in Workloads |-> "gone"]
  /\ secret = [w \in Workloads |-> "none"]
  /\ rep = [w \in Workloads |-> [c \in Containers |-> NoReport]]
  /\ origin = rep /\ past = [w \in Workloads |-> {}]
  /\ cSpec = spec /\ cJob = job /\ cRep = rep /\ stale = {} /\ repLag = {}
  /\ queue = {w \in Workloads : spec[w] # NoWorkload}
  /\ delayed = {}
  /\ work = [k \in Kinds |-> Idle]
  /\ jobQueue = {} /\ jobDelayed = {} /\ jobWork = Idle
  /\ edits = 0 /\ faults = 0

-----------------------------------------------------------------------------
(* The cluster: users, the job controller and the garbage collector.        *)

Fault ==
  /\ faults < MaxFaults
  /\ faults' = faults + 1

Edit ==
  /\ edits < MaxEdits
  /\ edits' = edits + 1

\* The pod spec of a workload is changed, or the workload is deleted; a deleted
\* one does not come back.
EditWorkload(w) ==
  /\ Edit
  /\ spec[w] # NoWorkload
  /\ \E s \in (Specs \cup {NoWorkload}) \ {spec[w]} : spec' = [spec EXCEPT ![w] = s]
  /\ past' = [past EXCEPT ![w] = past[w] \cup {spec[w]}]
  /\ UNCHANGED <<cSpec, jobVars, repVars, workerVars, collectorVars, faults>>

\* A new version of a report, or its removal, reaches the API server; the
\* cache has yet to see it.
StoreReport(w, c, hash, from) ==
  /\ rep' = [rep EXCEPT ![w] = [rep[w] EXCEPT ![c] = hash]]
  /\ origin' = [origin EXCEPT ![w] = [origin[w] EXCEPT ![c] = from]]
  /\ repLag' = repLag \cup {<<w, c>>}
  /\ UNCHANGED cRep

UserDeletesReport(w, c) ==
  /\ Edit
  /\ rep[w][c] # NoReport
  /\ StoreReport(w, c, NoReport, NoReport)
  /\ UNCHANGED <<specVars, jobVars, workerVars, collectorVars, faults>>

\* The garbage collector removes the reports of a deleted workload, and the
\* secret of a deleted job.
CollectReport(w, c) ==
  /\ spec[w] = NoWorkload
  /\ rep[w][c] # NoReport
  /\ StoreReport(w, c, NoReport, NoReport)
  /\ UNCHANGED <<specVars, jobVars, workerVars, collectorVars, boundVars>>

CollectSecret(w) ==
  /\ secret[w] = "garbage"
  /\ secret' = [secret EXCEPT ![w] = "none"]
  /\ UNCHANGED <<specVars, job, cJob, stale, pod, repVars, workerVars,
                 collectorVars, boundVars>>

\* The job controller creates the pod some time after the job.
StartPod(w) ==
  /\ job[w] # NoJob
  /\ job[w].cond = "none"
  /\ pod[w] = "gone"
  /\ pod' = [pod EXCEPT ![w] = "running"]
  /\ UNCHANGED <<specVars, job, cJob, stale, secret, repVars, workerVars,
                 collectorVars, boundVars>>

\* The job of w gets its condition and its pod ends.
FinishJob(w, cond, output) ==
  /\ job[w] # NoJob
  /\ job[w].cond = "none"
  /\ job' = [job EXCEPT ![w] = [hash |-> job[w].hash, cond |-> cond]]
  /\ pod' = [pod EXCEPT ![w] = output]
  /\ stale' = stale \cup {w}
  /\ UNCHANGED <<specVars, cJob, secret, repVars, workerVars, collectorVars,
                 edits>>

CompleteJob(w) ==
  /\ pod[w] = "running"
  /\ \E output \in Outputs : FinishJob(w, "complete", output)
  /\ UNCHANGED faults

\* BackoffLimit is 0: a failed container fails the whole job.  So does the
\* deadline, with which the pod is deleted.
FailJob(w) ==
  /\ \E output \in {"bad", "gone"} : FinishJob(w, "failed", output)
  /\ Fault

\* The pod of a finished job is deleted.
LosePod(w) ==
  /\ Fault
  /\ job[w] # NoJob
  /\ job[w].cond # "none"
  /\ pod[w] # "gone"
  /\ pod' = [pod EXCEPT ![w] = "gone"]
  /\ UNCHANGED <<specVars, job, cJob, stale, secret, repVars, workerVars,
                 collectorVars, edits>>

-----------------------------------------------------------------------------
(* Informers and work queues.                                               *)

\* SetupWithManager, For(kind): the delete event of an object that was being
\* terminated is filtered out.
SyncWorkload(w) ==
  /\ cSpec[w] # spec[w]
  /\ cSpec' = [cSpec EXCEPT ![w] = spec[w]]
  /\ \/ queue' = queue \cup {w}
     \/ spec[w] = NoWorkload /\ UNCHANGED queue
  /\ UNCHANGED <<spec, past, jobVars, repVars, delayed, work, collectorVars,
                 boundVars>>

\* SetupWithManager, Owns(VulnerabilityReport): the owner is enqueued.
SyncReport(w, c) ==
  /\ <<w, c>> \in repLag
  /\ cRep' = [cRep EXCEPT ![w] = [cRep[w] EXCEPT ![c] = rep[w][c]]]
  /\ repLag' = repLag \ {<<w, c>>}
  /\ queue' = queue \cup {w}
  /\ UNCHANGED <<specVars, jobVars, rep, origin, delayed, work, collectorVars,
                 boundVars>>

Finished(j) == j # NoJob /\ j.cond # "none"

\* JobHasAnyCondition: only events of finished jobs enqueue the key.
SyncJob(w) ==
  /\ w \in stale
  /\ cJob' = [cJob EXCEPT ![w] = job[w]]
  /\ stale' = stale \ {w}
  /\ jobQueue' = IF Finished(job[w]) \/ Finished(cJob[w]) THEN jobQueue \cup {w}
                                                         ELSE jobQueue
  /\ UNCHANGED <<specVars, job, pod, secret, repVars, workerVars, jobDelayed,
                 jobWork, boundVars>>

\* The periodic resync of the informers repeats an event for every object.
Resync ==
  /\ queue' = queue \cup {w \in Workloads : cSpec[w] # NoWorkload}
  /\ jobQueue' = jobQueue \cup {w \in Workloads : Finished(cJob[w])}
  /\ UNCHANGED <<specVars, jobVars, repVars, delayed, work, jobDelayed, jobWork,
                 boundVars>>

\* The delay of a RequeueAfter, or of the rate limiter after an error, is over.
FireDelayed(w) ==
  /\ w \in delayed
  /\ delayed' = delayed \ {w}
  /\ queue' = queue \cup {w}
  /\ UNCHANGED <<specVars, jobVars, repVars, work, collectorVars, boundVars>>

FireJobDelayed(w) ==
  /\ w \in jobDelayed
  /\ jobDelayed' = jobDelayed \ {w}
  /\ jobQueue' = jobQueue \cup {w}
  /\ UNCHANGED <<specVars, jobVars, repVars, workerVars, jobWork, boundVars>>

\* The operator restarts: queues and workers are lost, the caches list afresh
\* and every listed object is an event.
Restart ==
  /\ Fault
  /\ cSpec' = spec /\ cJob' = job /\ cRep' = rep /\ stale' = {} /\ repLag' = {}
  /\ queue' = {w \in Workloads : \/ spec[w] # NoWorkload
                                 \/ \E c \in Containers : rep[w][c] # NoReport}
  /\ delayed' = {}
  /\ work' = [k \in Kinds |-> Idle]
  /\ jobQueue' = {w \in Workloads : Finished(job[w])}
  /\ jobDelayed' = {} /\ jobWork' = Idle
  /\ UNCHANGED <<spec, past, job, pod, secret, rep, origin, edits>>

-----------------------------------------------------------------------------
(* reconcileWorkload and submitScanJob                                      *)

At(k, label) == work[k] # Idle /\ work[k].pc = label

GoTo(k, label) ==
  /\ work' = [work EXCEPT ![k] = [pc |-> label, key |-> work[k].key,
                                  hash |-> work[k].hash]]
  /\ UNCHANGED delayed

\* return ctrl.Result{}, nil
Done(k) ==
  /\ work' = [work EXCEPT ![k] = Idle]
  /\ UNCHANGED delayed

\* return ctrl.Result{RequeueAfter: ...}, nil, or return ctrl.Result{}, err
Requeue(k) ==
  /\ work' = [work EXCEPT ![k] = Idle]
  /\ delayed' = delayed \cup {work[k].key}

\* Get the workload from the cache; ignore it when it is gone or managed.
ReconcileWorkload(k) ==
  /\ work[k] = Idle
  /\ \E w \in queue :
       /\ KindOf[w] = k
       /\ queue' = queue \ {w}
       /\ IF cSpec[w] = NoWorkload \/ w \in Ignored
          THEN UNCHANGED work
          ELSE work' = [work EXCEPT ![k] = [pc |-> "reports", key |-> w,
                                            hash |-> cSpec[w]]]
  /\ UNCHANGED <<specVars, jobVars, repVars, delayed, collectorVars, boundVars>>

\* Mutant: the comparison of the labels is inverted.
HasOutdatedReports(w, hash) ==
  {c \in Containers : cRep[w][c] \notin {hash, NoReport}} = ContainersOf[hash]

\* Mutant: the pod-spec-hash label is not compared.
HasReportsOfAnyHash(w, hash) ==
  {c \in Containers : cRep[w][c] # NoReport} = ContainersOf[hash]

\* The containers with a cached report for this hash are exactly those of the
\* pod spec.
HasReports(w, hash) == {c \in Containers : cRep[w][c] = hash} = ContainersOf[hash]

CheckReports(k) ==
  /\ At(k, "reports")
  /\ IF HasReports(work[k].key, work[k].hash) THEN Done(k) ELSE GoTo(k, "job")
  /\ UNCHANGED <<specVars, jobVars, repVars, queue, collectorVars, boundVars>>

\* hasActiveScanJob: a cached job for the same hash is waited for.
CheckScanJob(k) ==
  LET j == cJob[work[k].key] IN
  /\ At(k, "job")
  /\ IF j # NoJob /\ j.hash = work[k].hash THEN Done(k) ELSE GoTo(k, "limit")
  /\ UNCHANGED <<specVars, jobVars, repVars, queue, collectorVars, boundVars>>

\* LimitChecker.Check counts the cached jobs of all kinds of scans.
LimitExceeded ==
  Cardinality({w \in Workloads : cJob[w] # NoJob}) >= ConcurrentScanJobsLimit

\* A private workload comes with a secret, which is created before the job.
CheckLimit(k) ==
  /\ At(k, "limit")
  /\ IF LimitExceeded
     THEN Requeue(k)
     ELSE GoTo(k, IF work[k].key \in Private THEN "secret" ELSE "create")
  /\ UNCHANGED <<specVars, jobVars, repVars, queue, collectorVars, boundVars>>

\* Mutant: a secret that exists already is used.
ReuseSecret(k) ==
  LET w == work[k].key IN
  /\ At(k, "secret")
  /\ secret' = IF secret[w] = "none" THEN [secret EXCEPT ![w] = "orphan"] ELSE secret
  /\ GoTo(k, "create")
  /\ UNCHANGED <<specVars, job, cJob, stale, pod, repVars, queue, collectorVars,
                 boundVars>>

\* A secret that exists already ends the reconciliation without an error.
CreateSecret(k) ==
  LET w == work[k].key IN
  /\ At(k, "secret")
  /\ IF secret[w] = "none"
     THEN /\ secret' = [secret EXCEPT ![w] = "orphan"]
          /\ GoTo(k, "create")
     ELSE Done(k) /\ UNCHANGED secret
  /\ UNCHANGED <<specVars, job, cJob, stale, pod, repVars, queue, collectorVars,
                 boundVars>>

\* So does a job that exists already, whatever it scans.
CreateJob(k) ==
  LET w == work[k].key IN
  /\ At(k, "create")
  /\ IF job[w] = NoJob
     THEN /\ job' = [job EXCEPT ![w] = [hash |-> work[k].hash, cond |-> "none"]]
          /\ pod' = [pod EXCEPT ![w] = "gone"]
          /\ stale' = stale \cup {w}
          /\ GoTo(k, "owner")
     ELSE Done(k) /\ UNCHANGED <<job, pod, stale>>
  /\ UNCHANGED <<specVars, cJob, secret, repVars, queue, collectorVars,
                 boundVars>>

\* The secret gets a reference to the created job, which may be gone by now.
SetOwnerReference(k) ==
  LET w == work[k].key IN
  /\ At(k, "owner")
  /\ secret' = IF w \notin Private THEN secret
               ELSE [secret EXCEPT ![w] = IF job[w] # NoJob THEN "owned" ELSE "garbage"]
  /\ Done(k)
  /\ UNCHANGED <<specVars, job, cJob, stale, pod, repVars, queue, collectorVars,
                 boundVars>>

\* Any call of a reconciliation is answered with an error, which is returned.
WorkerError(k) ==
  /\ work[k] # Idle
  /\ Fault
  /\ Requeue(k)
  /\ UNCHANGED <<specVars, jobVars, repVars, queue, collectorVars, edits>>

-----------------------------------------------------------------------------
(* reconcileJobs, processCompleteScanJob and processFailedScanJob           *)

JobAt(label) == jobWork # Idle /\ jobWork.pc = label

JobGoOn(label, todo, from) ==
  /\ jobWork' = [pc |-> label, key |-> jobWork.key, hash |-> jobWork.hash,
                 cond |-> jobWork.cond, todo |-> todo, from |-> from]
  /\ UNCHANGED jobDelayed

JobGoTo(label, todo) == JobGoOn(label, todo, jobWork.from)

JobDone == jobWork' = Idle /\ UNCHANGED jobDelayed

JobRequeue ==
  /\ jobWork' = Idle
  /\ jobDelayed' = jobDelayed \cup {jobWork.key}

\* Get the job from the cache; its condition selects the handler.
ReconcileJobs ==
  /\ jobWork = Idle
  /\ \E w \in jobQueue :
       /\ jobQueue' = jobQueue \ {w}
       /\ IF Finished(cJob[w])
          THEN jobWork' = [pc |-> IF cJob[w].cond = "complete" THEN "owner"
                                                               ELSE "statuses",
                           key |-> w, hash |-> cJob[w].hash,
                           cond |-> cJob[w].cond, todo |-> {}, from |-> cJob[w].hash]
          ELSE UNCHANGED jobWork
  /\ UNCHANGED <<specVars, jobVars, repVars, workerVars, jobDelayed, boundVars>>

\* A scan of a workload that is gone is dropped.
GetOwner ==
  /\ JobAt("owner")
  /\ JobGoTo(IF cSpec[jobWork.key] = NoWorkload THEN "drop" ELSE "reports", {})
  /\ UNCHANGED <<specVars, jobVars, repVars, workerVars, jobQueue, boundVars>>

CheckJobReports ==
  /\ JobAt("reports")
  /\ JobGoTo(IF HasReports(jobWork.key, jobWork.hash) THEN "delete" ELSE "logs", {})
  /\ UNCHANGED <<specVars, jobVars, repVars, workerVars, jobQueue, boundVars>>

\* The logs of the pod of the job that has this name now, container by container,
\* of which none can go missing alone.  They are parsed before any is written; a
\* pod without that container, one still starting and a text that the plugin
\* cannot parse are errors.
ReadLogs ==
  LET w == jobWork.key IN
  /\ JobAt("logs")
  /\ \/ job[w] = NoJob /\ JobDone
     \/ job[w] # NoJob /\ pod[w] = "gone" /\ JobGoTo("drop", {})
     \/ /\ job[w] # NoJob
        /\ pod[w] = "good"
        /\ ContainersOf[jobWork.hash] \subseteq ContainersOf[job[w].hash]
        /\ JobGoOn("write", ContainersOf[jobWork.hash], job[w].hash)
     \/ /\ job[w] # NoJob
        /\ pod[w] # "gone"
        /\ \/ pod[w] # "good"
           \/ ~(ContainersOf[jobWork.hash] \subseteq ContainersOf[job[w].hash])
        /\ JobRequeue
  /\ UNCHANGED <<specVars, jobVars, repVars, workerVars, jobQueue, boundVars>>

\* Mutant: the reports get the hash of the current pod spec.
WriteReportsOfCurrentSpec ==
  LET w == jobWork.key IN
  /\ JobAt("write")
  /\ \/ /\ jobWork.todo = {}
        /\ JobGoTo("delete", {})
        /\ UNCHANGED repVars
     \/ \E c \in jobWork.todo :
          IF cSpec[w] # NoWorkload /\ IF cRep[w][c] # NoReport THEN <<w, c>> \notin repLag
                                                            ELSE rep[w][c] = NoReport
          THEN /\ StoreReport(w, c, cSpec[w], jobWork.from)
               /\ JobGoTo("write", jobWork.todo \ {c})
          ELSE JobRequeue /\ UNCHANGED repVars
  /\ UNCHANGED <<specVars, jobVars, workerVars, jobQueue, boundVars>>

\* readWriter.Write: one createOrUpdate per report.  An update is refused when
\* the cached version is not the current one, a create when a report exists;
\* the first error ends the loop.
WriteReports ==
  LET w == jobWork.key IN
  /\ JobAt("write")
  /\ \/ /\ jobWork.todo = {}
        /\ JobGoTo("delete", {})
        /\ UNCHANGED repVars
     \/ \E c \in jobWork.todo :
          IF IF cRep[w][c] # NoReport THEN <<w, c>> \notin repLag
                                      ELSE rep[w][c] = NoReport
          THEN /\ StoreReport(w, c, jobWork.hash, jobWork.from)
               /\ JobGoTo("write", jobWork.todo \ {c})
          ELSE JobRequeue /\ UNCHANGED repVars
  /\ UNCHANGED <<specVars, jobVars, workerVars, jobQueue, boundVars>>

\* The exit codes of a failed job are only logged.
GetStatuses ==
  /\ JobAt("statuses")
  /\ IF job[jobWork.key] = NoJob THEN JobDone ELSE JobGoTo("drop", {})
  /\ UNCHANGED <<specVars, jobVars, repVars, workerVars, jobQueue, boundVars>>

\* deleteJob deletes the job of this name, with its pod and its secret; NotFound
\* is no error.  It is called with the results stored ("delete"), or to drop a
\* job that failed or whose owner or pod is gone ("drop").
DeleteJob ==
  LET w == jobWork.key IN
  /\ JobAt("delete") \/ JobAt("drop")
  /\ job' = [job EXCEPT ![w] = NoJob]
  /\ pod' = [pod EXCEPT ![w] = "gone"]
  /\ secret' = IF job[w] # NoJob /\ secret[w] = "owned"
               THEN [secret EXCEPT ![w] = "garbage"] ELSE secret
  /\ stale' = IF job[w] # NoJob THEN stale \cup {w} ELSE stale
  /\ \/ JobDone /\ UNCHANGED faults
     \/ JobRequeue /\ Fault
  /\ UNCHANGED <<specVars, cJob, repVars, workerVars, jobQueue, edits>>

\* Mutant: an error of a write is only logged.
GiveUpOnError ==
  /\ jobWork # Idle
  /\ Fault
  /\ IF JobAt("write") THEN JobGoTo("delete", {}) ELSE JobRequeue
  /\ UNCHANGED <<specVars, jobVars, repVars, workerVars, jobQueue, edits>>

JobError ==
  /\ jobWork # Idle
  /\ Fault
  /\ JobRequeue
  /\ UNCHANGED <<specVars, jobVars, repVars, workerVars, jobQueue, edits>>

-----------------------------------------------------------------------------
\* What users and the cluster do.
ClusterNext ==
  \E w \in Workloads :
    \/ EditWorkload(w) \/ CollectSecret(w)
    \/ StartPod(w) \/ CompleteJob(w) \/ FailJob(w) \/ LosePod(w)
    \/ \E c \in Containers : UserDeletesReport(w, c) \/ CollectReport(w, c)

\* What the operator's controllers and their informers do.
WorkerNext(k) ==
  \/ ReconcileWorkload(k) \/ CheckReports(k) \/ CheckScanJob(k) \/ CheckLimit(k)
  \/ CreateSecret(k) \/ CreateJob(k) \/ SetOwnerReference(k)
JobNext ==
  \/ ReconcileJobs \/ GetOwner \/ CheckJobReports \/ ReadLogs \/ WriteReports
  \/ GetStatuses \/ DeleteJob
OperatorNext ==
  \/ \E w \in Workloads :
       \/ SyncWorkload(w) \/ SyncJob(w) \/ FireDelayed(w) \/ FireJobDelayed(w)
       \/ \E c \in Containers : SyncReport(w, c)
  \/ \E k \in Kinds : WorkerNext(k) \/ WorkerError(k)
  \/ JobNext \/ JobError \/ Resync \/ Restart

Next == ClusterNext \/ OperatorNext

\* Informers deliver, delays end, workers run, pods start, jobs finish and the
\* secrets of deleted jobs are collected.  The informers resync again and again
\* (every ten hours by default), and not each time in the moment between the
\* deletion of a job and the event of it: the event is not forever overtaken by
\* another pass over the deleted job.  Nothing is assumed of users, of errors or
\* of restarts.  Each subscript is what every step of its action changes.
Fairness ==
  /\ WF_collectorVars(JobNext) /\ WF_<<queue, jobQueue>>(Resync)
  /\ \A k \in Kinds : WF_workerVars(WorkerNext(k))
  /\ \A w \in Workloads :
       /\ WF_cSpec(SyncWorkload(w)) /\ SF_stale(SyncJob(w) /\ jobWork = Idle)
       /\ WF_delayed(FireDelayed(w)) /\ WF_jobDelayed(FireJobDelayed(w))
       /\ WF_pod(StartPod(w)) /\ WF_job(CompleteJob(w)) /\ WF_secret(CollectSecret(w))
       /\ \A c \in Containers : WF_repLag(SyncReport(w, c))

Spec == Init /\ [][Next]_vars
ResyncSpec == Spec /\ Fairness
-----------------------------------------------------------------------------
(* Properties                                                               *)

\* Every variable keeps its type; a worker of a kind holds keys of that kind,
\* and only reports on containers of the scanned pod spec are left to write.
TypeOK ==
  /\ spec \in [Workloads -> Specs \cup {NoWorkload}]
  /\ cSpec \in [Workloads -> Specs \cup {NoWorkload}]
  /\ job \in [Workloads -> Job \cup {NoJob}]
  /\ cJob \in [Workloads -> Job \cup {NoJob}]
  /\ stale \subseteq Workloads
  /\ pod \in [Workloads -> {"running", "good", "bad", "gone"}]
  /\ secret \in [Workloads -> {"none", "orphan", "owned", "garbage"}]
  /\ rep \in [Workloads -> [Containers -> Specs \cup {NoReport}]]
  /\ cRep \in [Workloads -> [Containers -> Specs \cup {NoReport}]]
  /\ origin \in [Workloads -> [Containers -> Specs \cup {NoReport}]]
  /\ past \in [Workloads -> SUBSET Specs]
  /\ repLag \subseteq Workloads \X Containers
  /\ queue \subseteq Workloads
  /\ delayed \subseteq Workloads
  /\ work \in [Kinds -> Task \cup {Idle}]
  /\ \A k \in Kinds : work[k] # Idle => KindOf[work[k].key] = k
  /\ jobQueue \subseteq Workloads
  /\ jobDelayed \subseteq Workloads
  /\ jobWork \in JobTask \cup {Idle}
  /\ jobWork # Idle => jobWork.todo \subseteq ContainersOf[jobWork.hash]
  /\ edits \in 0..MaxEdits
  /\ faults \in 0..MaxFaults

Wanted(w) == spec[w] # NoWorkload /\ w \notin Ignored

\* The stored reports are exactly those for the current pod spec.
Current(w) == {c \in Containers : rep[w][c] = spec[w]} = ContainersOf[spec[w]]

\* The job of w is complete and ParseVulnerabilityReportData refuses its logs.
Unparsable(w) == job[w] # NoJob /\ job[w].cond = "complete" /\ pod[w] = "bad"

\* A scan job of a private workload has its registry credentials as long as it
\* exists: submitScanJob never lets a job use a secret that the garbage
\* collector is about to delete with the previous job of the same name.
JobHasSecret ==
  \A w \in Private : job[w] # NoJob => secret[w] \in {"orphan", "owned"}

\* As long as nobody edits a workload or deletes reports, processCompleteScanJob
\* deletes a job as done only when each of its results is stored, in spite of
\* conflicts, API errors and restarts between two writes, of stale caches, and of
\* passes over a cached job that has been deleted and created again since.
NoResultLost ==
  [][\A w \in Workloads :
       /\ edits = 0
       /\ job[w] # NoJob /\ job'[w] = NoJob
       /\ jobWork.pc = "delete"
       => \A c \in ContainersOf[spec[w]] : rep[w][c] = spec[w]]_vars

\* What hasReports takes for the reports of the current pod spec was scanned with
\* that pod spec, although the logs are those of whichever job has the name, the
\* label is that of the cached job, and caches and workers lag behind the edits of
\* the workload.  The exception is a pod spec that the workload had before: an
\* earlier job for it may meet a later one for the spec in between.
LabelledAsScanned ==
  \A w \in Workloads : spec[w] \in Specs \ past[w] =>
    \A c \in Containers : rep[w][c] = spec[w] => origin[w][c] = spec[w]

\* All caches are up to date, every workload has its reports, and no running
\* reconciliation holds a decision made before that was so.
Settled ==
  /\ cSpec = spec /\ stale = {} /\ repLag = {} /\ cRep = rep /\ cJob = job
  /\ \A w \in Workloads :
       /\ job[w] = NoJob
       /\ Wanted(w) => Current(w)
  /\ \A k \in Kinds : work[k] # Idle =>
       /\ work[k].pc = "reports"
       /\ work[k].key \notin Ignored
       /\ work[k].hash = spec[work[k].key]
  /\ jobWork = Idle

\* Once every workload has its reports the operator starts no scan and writes
\* no report, whatever resyncs, restarts, retries and API errors happen: the
\* reports that hasReports compares are those that processCompleteScanJob wrote.
SettledIsStable ==
  [][Settled /\ OperatorNext => Settled' /\ UNCHANGED <<job, rep>>]_vars

\* When users stop, every workload ends up with exactly the reports for its
\* current pod spec, whatever was edited, deleted or failed before.  The exception
\* is a secret whose job was never created, because of an error or a restart in
\* between: submitScanJob ends at it each time, and it has no owner to go with.
\* The other one is a job that completes with an output the plugin cannot parse:
\* it is read again and again and never deleted, keeps its name and its place
\* under the limit, and when such jobs take all places nobody is scanned.
Converges ==
  <>[](\A w \in Workloads :
         Wanted(w) => \/ Current(w)
                      \/ job[w] = NoJob /\ secret[w] = "orphan"
                      \/ Unparsable(w)
                      \/ Cardinality({v \in Workloads : Unparsable(v)})
                           >= ConcurrentScanJobsLimit)

-----------------------------------------------------------------------------
(* The scan job of a workload as a scan of ScanProtocol.                    *)

Scan == [w \in Workloads |-> IF job[w] = NoJob THEN {} ELSE {<<job[w].hash, job[w].cond>>}]

\* What the API server, the cache and the pass over a job know of ended scans.
Ended ==
  [w \in Workloads |->
     {<<j.hash, j.cond>> : j \in {i \in {job[w], cJob[w]} : Finished(i)}} \cup
     {<<t.hash, t.cond>> : t \in {i \in {jobWork} : i # Idle /\ i.key = w}}]

Protocol == INSTANCE ScanProtocol WITH
  Targets <- Workloads, Labels <- Specs, Parts <- Containers, PartsOf <- ContainersOf,
  wanted <- spec, scan <- Scan, ended <- Ended, reports <- rep,
  edited <- edits > 0, failed <- faults > 0

\* Whatever the caches miss, a report is stored only in a pass over a scan that
\* completed and labelled with the pod spec of that scan (LabelledAsScanned says
\* whose output it holds), and no running or complete scan is
\* deleted by a pass over an earlier job of the same name unless its reports are
\* stored, something was edited or something failed.
FollowsProtocol == Protocol!Spec
==============================================================================
