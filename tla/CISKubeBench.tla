---------------------------- MODULE CISKubeBench ----------------------------
(***************************************************************************)
(* The CIS benchmark controllers of the operator                           *)
(* (pkg/operator/controller/ciskubebenchreport.go).  reconcileNodes starts *)
(* a kube-bench job for every Linux node without a report; reconcileJobs   *)
(* turns finished jobs into reports and deletes them.                      *)
(*                                                                         *)
(* A variable X holds what the API server stores and cX what the manager's *)
(* informer cache shows.  An incarnation of a node is its uid; job and     *)
(* report are named after the node alone.                                  *)
(***************************************************************************)
EXTENDS Naturals, FiniteSets

CONSTANTS
  Nodes,         \* names of the Linux nodes (predicate IsLinuxNode)
  ConcurrentScanJobsLimit,
  NoJob, NoReport, Idle,
  MaxEdits,      \* bound on nodes that join or leave, on jobs that the other
                 \* scanners create, and on jobs and reports that users delete
  MaxFaults      \* bound on failed scans, lost pods, API errors and restarts

Uids == 1..(MaxEdits + 1)
Absent == 0

\* scanned: the incarnation of the node that the pod ran on to its end.
Job == [scanned : Uids \cup {Absent}, cond : {"none", "complete", "failed"}, pod : BOOLEAN]
Report == [owner : Uids, scanned : Uids \cup {Absent}, data : {"results", "empty"}]

\* What a worker holds between the calls of one reconciliation.
NodeTask == [pc : {"report", "job", "limit", "create"}, key : Nodes]
JobTask == [pc : {"node", "report", "logs", "write", "statuses", "delete"},
            key : Nodes, cond : {"complete", "failed"},
            out : Report \cup {NoReport}]

ASSUME ConstantsAssumption ==
  /\ ConcurrentScanJobsLimit \in Nat \ {0}
  /\ NoJob \notin Job /\ NoReport \notin Report
  /\ Idle \notin NodeTask /\ Idle \notin JobTask
  /\ MaxEdits \in Nat /\ MaxFaults \in Nat

VARIABLES
  node, cNode,           \* the uid of every node, or Absent
  job, cJob, jobLag,     \* its job; jobLag: nodes with unseen job events
  report, cReport, reportLag,
  otherJobs,             \* jobs of the other scanners, seen by the cache at once
  queue, delayed, work,  \* reconcileNodes
  jobQueue, jobWork,     \* reconcileJobs
  edits, faults          \* counters of the bounds

nodeVars == <<node, cNode>>
jobVars == <<job, cJob, jobLag, otherJobs>>
reportVars == <<report, cReport, reportLag>>
workerVars == <<queue, delayed, work>>
collectorVars == <<jobQueue, jobWork>>
boundVars == <<edits, faults>>
vars == <<node, cNode, job, cJob, jobLag, otherJobs, report, cReport, reportLag,
          queue, delayed, work, jobQueue, jobWork, edits, faults>>

Init ==
  /\ node = [n \in Nodes |-> 1] /\ cNode = node
  /\ job = [n \in Nodes |-> NoJob] /\ cJob = job /\ jobLag = {}
  /\ report = [n \in Nodes |-> NoReport] /\ cReport = report /\ reportLag = {}
  /\ otherJobs = 0
  /\ queue = Nodes /\ delayed = {} /\ work = Idle
  /\ jobQueue = {} /\ jobWork = Idle
  /\ edits = 0 /\ faults = 0

Edit == edits < MaxEdits /\ edits' = edits + 1 /\ UNCHANGED faults

Fault == faults < MaxFaults /\ faults' = faults + 1 /\ UNCHANGED edits

-----------------------------------------------------------------------------
(* The cluster                                                              *)

EditNode(n) ==
  /\ Edit
  /\ node' = [node EXCEPT ![n] = IF @ = Absent THEN edits + 2 ELSE Absent]
  /\ UNCHANGED <<cNode, jobVars, reportVars, workerVars, collectorVars>>

JobHasAnyCondition(j) == j # NoJob /\ j.cond # "none"

SetJob(n, j) == job' = [job EXCEPT ![n] = j] /\ jobLag' = jobLag \cup {n} /\ UNCHANGED cJob
SetReport(n, r) ==
  report' = [report EXCEPT ![n] = r] /\ reportLag' = reportLag \cup {n} /\ UNCHANGED cReport

\* GetScanJobSpec binds the pod to the node of this name.
NodeOfPod(n) == node[n]

\* The job controller creates the pod of a job some time after the job.
CreatePod(n) ==
  /\ job[n] # NoJob /\ job[n].cond = "none" /\ ~job[n].pod
  /\ job' = [job EXCEPT ![n].pod = TRUE]
  /\ UNCHANGED <<nodeVars, cJob, jobLag, otherJobs, reportVars, workerVars, collectorVars, boundVars>>

\* The pod of the job ends, the job runs into its deadline, with or without a
\* pod, or the pod is deleted with its node.
FinishJob(n) ==
  /\ job[n] # NoJob /\ job[n].cond = "none"
  /\ \/ /\ NodeOfPod(n) # Absent /\ job[n].pod
        /\ SetJob(n, [scanned |-> NodeOfPod(n), cond |-> "complete", pod |-> TRUE]) /\ UNCHANGED boundVars
     \/ /\ SetJob(n, [job[n] EXCEPT !.cond = "failed"])
        /\ IF NodeOfPod(n) = Absent THEN UNCHANGED boundVars ELSE Fault
  /\ UNCHANGED <<nodeVars, otherJobs, reportVars, workerVars, collectorVars>>

LosePod(n) ==
  /\ JobHasAnyCondition(job[n]) /\ job[n].pod
  /\ job' = [job EXCEPT ![n].pod = FALSE]
  /\ Fault
  /\ UNCHANGED <<nodeVars, cJob, jobLag, otherJobs, reportVars, workerVars, collectorVars>>

UserDeletes(n) ==
  /\ Edit
  /\ \/ job[n] # NoJob /\ SetJob(n, NoJob) /\ UNCHANGED reportVars
     \/ report[n] # NoReport /\ SetReport(n, NoReport) /\ UNCHANGED <<job, cJob, jobLag>>
  /\ UNCHANGED <<nodeVars, otherJobs, workerVars, collectorVars>>

\* The garbage collector deletes the report of a node that is gone.
CollectReport(n) ==
  /\ report[n] # NoReport
  /\ report[n].owner # node[n]
  /\ SetReport(n, NoReport)
  /\ UNCHANGED <<nodeVars, jobVars, workerVars, collectorVars, boundVars>>

StartOtherJob ==
  /\ Edit
  /\ otherJobs' = otherJobs + 1
  /\ UNCHANGED <<nodeVars, job, cJob, jobLag, reportVars, workerVars, collectorVars>>

EndOtherJob ==
  /\ otherJobs > 0
  /\ otherJobs' = otherJobs - 1
  /\ UNCHANGED <<nodeVars, job, cJob, jobLag, reportVars, workerVars, collectorVars, boundVars>>

-----------------------------------------------------------------------------
(* SetupWithManager: watches and predicates                                 *)

SyncNode(n) ==
  /\ cNode[n] # node[n]
  /\ cNode' = [cNode EXCEPT ![n] = node[n]]
  /\ queue' = queue \cup {n}
  /\ UNCHANGED <<node, jobVars, reportVars, delayed, work, collectorVars, boundVars>>

\* The kubelet renews the status of its node every few minutes.
Heartbeat(n) ==
  /\ cNode[n] # Absent
  /\ n \notin queue
  /\ queue' = queue \cup {n}
  /\ UNCHANGED <<nodeVars, jobVars, reportVars, delayed, work, collectorVars, boundVars>>

\* Owns: any event of a report enqueues its controller, by name.
SyncReport(n) ==
  /\ n \in reportLag
  /\ cReport' = [cReport EXCEPT ![n] = report[n]]
  /\ reportLag' = reportLag \ {n}
  /\ queue' = queue \cup {n}
  /\ UNCHANGED <<nodeVars, jobVars, report, delayed, work, collectorVars, boundVars>>

SyncJob(n) ==
  /\ n \in jobLag
  /\ cJob' = [cJob EXCEPT ![n] = job[n]]
  /\ jobLag' = jobLag \ {n}
  /\ jobQueue' = IF JobHasAnyCondition(job[n]) \/ JobHasAnyCondition(cJob[n])
                 THEN jobQueue \cup {n} ELSE jobQueue
  /\ UNCHANGED <<nodeVars, job, otherJobs, reportVars, workerVars, jobWork, boundVars>>

FireDelayed(n) ==
  /\ n \in delayed
  /\ delayed' = delayed \ {n}
  /\ queue' = queue \cup {n}
  /\ UNCHANGED <<nodeVars, jobVars, reportVars, work, collectorVars, boundVars>>

Restart ==
  /\ Fault
  /\ cNode' = node /\ cJob' = job /\ cReport' = report
  /\ jobLag' = {} /\ reportLag' = {}
  /\ queue' = {n \in Nodes : node[n] # Absent \/ report[n] # NoReport}
  /\ jobQueue' = {n \in Nodes : JobHasAnyCondition(job[n])}
  /\ delayed' = {} /\ work' = Idle /\ jobWork' = Idle
  /\ UNCHANGED <<node, job, otherJobs, report>>

-----------------------------------------------------------------------------
(* reconcileNodes                                                           *)

At(pc) == work # Idle /\ work.pc = pc /\ UNCHANGED <<nodeVars, reportVars, collectorVars>>
GoTo(pc) == work' = [work EXCEPT !.pc = pc] /\ UNCHANGED <<queue, delayed>>
Done == work' = Idle /\ UNCHANGED <<queue, delayed>>

ReconcileNodes(n) ==
  /\ work = Idle
  /\ n \in queue
  /\ queue' = queue \ {n}
  /\ work' = IF cNode[n] = Absent THEN Idle ELSE [pc |-> "report", key |-> n]
  /\ UNCHANGED <<nodeVars, jobVars, reportVars, delayed, collectorVars, boundVars>>

CheckReport ==
  /\ At("report")
  /\ IF cReport[work.key] # NoReport THEN Done ELSE GoTo("job")
  /\ UNCHANGED <<jobVars, boundVars>>

CheckJob ==
  /\ At("job")
  /\ IF cJob[work.key] # NoJob THEN Done ELSE GoTo("limit")
  /\ UNCHANGED <<jobVars, boundVars>>

\* LimitChecker.Check counts the jobs of all scanners in the cache.
LimitExceeded ==
  Cardinality({n \in Nodes : cJob[n] # NoJob}) + otherJobs >= ConcurrentScanJobsLimit

CheckLimit ==
  /\ At("limit")
  /\ IF LimitExceeded
     THEN work' = Idle /\ delayed' = delayed \cup {work.key} /\ UNCHANGED queue
     ELSE GoTo("create")
  /\ UNCHANGED <<jobVars, boundVars>>

NewScanJob == [scanned |-> Absent, cond |-> "none", pod |-> FALSE]

\* Mutant: a job that exists already is replaced.
ReplaceJob ==
  /\ At("create")
  /\ Done
  /\ SetJob(work.key, NewScanJob)
  /\ UNCHANGED <<otherJobs, boundVars>>

\* newScanJob and Create; AlreadyExists ends the pass without a requeue.
CreateJob ==
  /\ At("create")
  /\ Done
  /\ IF job[work.key] # NoJob THEN UNCHANGED <<job, cJob, jobLag>>
     ELSE SetJob(work.key, NewScanJob)
  /\ UNCHANGED <<otherJobs, boundVars>>

\* An API error in any of these calls: the key comes back with a delay.
NodeError ==
  /\ \E pc \in {"report", "job", "limit", "create"} : At(pc)
  /\ Fault
  /\ work' = Idle /\ delayed' = delayed \cup {work.key}
  /\ UNCHANGED <<jobVars, queue>>

-----------------------------------------------------------------------------
(* reconcileJobs                                                            *)

JobAt(pc) ==
  /\ jobWork # Idle /\ jobWork.pc = pc
  /\ UNCHANGED <<nodeVars, otherJobs, workerVars>>

JobGoTo(pc) == jobWork' = [jobWork EXCEPT !.pc = pc] /\ UNCHANGED jobQueue
JobDone == jobWork' = Idle /\ UNCHANGED jobQueue
JobRetry == jobWork' = Idle /\ jobQueue' = jobQueue \cup {jobWork.key}
JobNoWrite == UNCHANGED <<job, cJob, jobLag, reportVars>>

ReconcileJobs(n) ==
  /\ jobWork = Idle
  /\ n \in jobQueue
  /\ jobQueue' = jobQueue \ {n}
  /\ jobWork' = IF ~JobHasAnyCondition(cJob[n]) THEN Idle
                ELSE [pc |-> IF cJob[n].cond = "complete" THEN "node" ELSE "statuses",
                      key |-> n, cond |-> cJob[n].cond, out |-> NoReport]
  /\ UNCHANGED <<nodeVars, jobVars, reportVars, workerVars, boundVars>>

\* processCompleteScanJob gets the node, which is to control the report.
GetNode ==
  /\ JobAt("node")
  /\ IF cNode[jobWork.key] = Absent THEN JobGoTo("delete")
     ELSE /\ jobWork' = [jobWork EXCEPT !.pc = "report",
                !.out = [owner |-> cNode[jobWork.key], scanned |-> Absent, data |-> "empty"]]
          /\ UNCHANGED jobQueue
  /\ UNCHANGED boundVars
  /\ JobNoWrite

CheckJobReport ==
  /\ JobAt("report")
  /\ JobGoTo(IF cReport[jobWork.key] # NoReport THEN "delete" ELSE "logs")
  /\ UNCHANGED boundVars
  /\ JobNoWrite

\* ParseCISKubeBenchReportData, with or without an error.
ReportData(live, data) ==
  [jobWork EXCEPT !.pc = "write", !.out.scanned = live.scanned, !.out.data = data]

\* The logs are those of the job that now has this name, which may still be
\* running; one without a pod, lost or not created yet, is deleted.  The error of ParseCISKubeBenchReportData is overwritten by that of
\* the report builder: output that cannot be parsed becomes an empty report.
ReadLogs ==
  /\ JobAt("logs")
  /\ LET live == job[jobWork.key]
         parsed == ReportData(live, "results")
         unparsable == ReportData(live, "empty")
     IN \/ live = NoJob /\ JobDone /\ UNCHANGED boundVars
        \/ live # NoJob /\ ~live.pod /\ JobGoTo("delete") /\ UNCHANGED boundVars
        \/ /\ live # NoJob /\ live.pod /\ live.cond = "complete"
           /\ jobWork' = parsed
           /\ UNCHANGED <<jobQueue, boundVars>>
        \/ /\ live # NoJob /\ live.pod
           /\ jobWork' = unparsable
           /\ UNCHANGED jobQueue
           /\ IF live.cond = "complete" THEN Fault ELSE UNCHANGED boundVars
  /\ JobNoWrite

\* The pod is looked for before it exists.
TooEarly ==
  /\ ReadLogs
  /\ job[jobWork.key] # NoJob /\ job[jobWork.key].cond = "none" /\ ~job[jobWork.key].pod

\* rw.Write reads the cache, then creates the report or updates the one it
\* found, keeping its owner; AlreadyExists, NotFound or a conflict ends the pass.
WriteReport ==
  /\ JobAt("write")
  /\ LET n == jobWork.key
         written == IF cReport[n] = NoReport THEN jobWork.out
                    ELSE [jobWork.out EXCEPT !.owner = cReport[n].owner]
         fresh == IF cReport[n] = NoReport THEN report[n] = NoReport ELSE n \notin reportLag
     IN IF fresh THEN SetReport(n, written) /\ JobGoTo("delete")
        ELSE UNCHANGED reportVars /\ JobRetry
  /\ UNCHANGED <<job, cJob, jobLag, boundVars>>

\* Mutant: a failed job is kept for inspection.
KeepFailedJob ==
  /\ JobAt("statuses")
  /\ JobDone
  /\ UNCHANGED boundVars
  /\ JobNoWrite

\* processFailedScanJob only logs the exit codes.
GetStatuses ==
  /\ JobAt("statuses")
  /\ IF job[jobWork.key] = NoJob THEN JobDone ELSE JobGoTo("delete")
  /\ UNCHANGED boundVars
  /\ JobNoWrite

\* By name: whichever job has it now.
DeleteJob ==
  /\ JobAt("delete")
  /\ JobDone
  /\ IF job[jobWork.key] = NoJob THEN UNCHANGED <<job, cJob, jobLag>> ELSE SetJob(jobWork.key, NoJob)
  /\ UNCHANGED <<reportVars, boundVars>>

\* Mutant: the job is given up on any error.
GiveUpOnError ==
  /\ \E pc \in {"node", "report", "logs", "write", "statuses", "delete"} : JobAt(pc)
  /\ Fault
  /\ JobGoTo("delete")
  /\ JobNoWrite

\* An error in any of these calls: the key comes back.
JobError ==
  /\ \E pc \in {"node", "report", "logs", "write", "statuses", "delete"} : JobAt(pc)
  /\ Fault
  /\ JobRetry
  /\ JobNoWrite

-----------------------------------------------------------------------------
ClusterNext ==
  \/ \E n \in Nodes : EditNode(n) \/ CreatePod(n) \/ FinishJob(n) \/ LosePod(n) \/ UserDeletes(n) \/ CollectReport(n)
  \/ StartOtherJob \/ EndOtherJob

SyncNext ==
  \/ \E n \in Nodes :
       SyncNode(n) \/ Heartbeat(n) \/ SyncReport(n) \/ SyncJob(n) \/ FireDelayed(n)
  \/ Restart

NodeWorker ==
  \/ \E n \in Nodes : ReconcileNodes(n)
  \/ CheckReport \/ CheckJob \/ CheckLimit \/ CreateJob

JobWorker ==
  \/ \E n \in Nodes : ReconcileJobs(n)
  \/ GetNode \/ CheckJobReport \/ ReadLogs \/ WriteReport \/ GetStatuses \/ DeleteJob

Next == ClusterNext \/ SyncNext \/ NodeWorker \/ NodeError \/ JobWorker \/ JobError

Spec == Init /\ [][Next]_vars

\* Informers deliver, workers run, pods are created, the kubelets keep renewing the status of
\* their nodes, and the jobs of the other scanners end.  The work queue is first
\* in, first out: a key that waits is taken, however many others come (SF).
FairSpec ==
  /\ Spec
  /\ WF_vars(NodeWorker) /\ WF_vars(JobWorker) /\ WF_vars(EndOtherJob)
  /\ \A n \in Nodes :
       /\ WF_vars(SyncNode(n)) /\ WF_vars(SyncReport(n)) /\ WF_vars(SyncJob(n))
       /\ WF_vars(FireDelayed(n)) /\ WF_vars(Heartbeat(n)) /\ SF_vars(ReconcileNodes(n))
       /\ WF_vars(CreatePod(n)) /\ WF_vars(FinishJob(n)) /\ WF_vars(CollectReport(n))

\* Every variable has its type.
TypeOK ==
  /\ node \in [Nodes -> Uids \cup {Absent}] /\ cNode \in [Nodes -> Uids \cup {Absent}]
  /\ job \in [Nodes -> Job \cup {NoJob}] /\ cJob \in [Nodes -> Job \cup {NoJob}]
  /\ report \in [Nodes -> Report \cup {NoReport}]
  /\ cReport \in [Nodes -> Report \cup {NoReport}]
  /\ jobLag \subseteq Nodes /\ reportLag \subseteq Nodes
  /\ otherJobs \in 0..MaxEdits
  /\ queue \subseteq Nodes /\ delayed \subseteq Nodes /\ jobQueue \subseteq Nodes
  /\ work \in NodeTask \cup {Idle} /\ jobWork \in JobTask \cup {Idle}
  /\ edits \in 0..MaxEdits /\ faults \in 0..MaxFaults

\* Once nodes stop to come and go, every node ends up with a report that it
\* controls: neither failed jobs, which processFailedScanJob deletes without a
\* retry, nor AlreadyExists, which ends reconcileNodes without a requeue, nor
\* the jobs of other scanners, nor stale caches lose it for good, because the
\* next status update of the node starts over.  The exception is an endless race: a
\* pass over a job that was deleted meets the next one before that has its pod,
\* deletes it once it is complete, and is followed by another such pass.
Benchmarked ==
  \/ <>[](\A n \in Nodes : node[n] # Absent => report[n] # NoReport /\ report[n].owner = node[n])
  \/ []<><<TooEarly>>_vars

\* A pass over a complete job deletes a job only when the node has a report or
\* the job has no pod, lost or not created yet, as long as nobody deletes nodes,
\* jobs or reports: what hasReport saw in the cache, conflicts, errors and restarts
\* cannot end with the results in neither place.
NoResultLost ==
  [][\A n \in Nodes :
       /\ job[n] # NoJob /\ job'[n] = NoJob
       /\ jobWork # Idle /\ jobWork.cond = "complete" /\ job[n].pod
       /\ edits' = 0
       => report[n] # NoReport]_vars

-----------------------------------------------------------------------------
(* The scan job of a node as a scan of ScanProtocol.  Nothing but its name  *)
(* identifies a node, so all scans have the same label.                     *)

Benchmark == "benchmark"

Scan == [n \in Nodes |-> IF job[n] = NoJob THEN {} ELSE {<<Benchmark, job[n].cond>>}]

\* What the API server, the cache and the pass over a job know of ended scans.
Ended ==
  [n \in Nodes |->
     {<<Benchmark, j.cond>> : j \in {i \in {job[n], cJob[n]} : JobHasAnyCondition(i)}} \cup
     {<<Benchmark, t.cond>> : t \in {i \in {jobWork} : i # Idle /\ i.key = n}}]

Wanted == [n \in Nodes |-> IF node[n] = Absent THEN "absent" ELSE Benchmark]

Reports ==
  [n \in Nodes |->
     [p \in {"report"} |-> IF report[n] = NoReport THEN NoReport ELSE Benchmark]]

Protocol == INSTANCE ScanProtocol WITH
  Targets <- Nodes, Labels <- {Benchmark},
  Parts <- {"report"}, PartsOf <- [l \in {Benchmark} |-> {"report"}],
  wanted <- Wanted, scan <- Scan, ended <- Ended, reports <- Reports,
  edited <- edits > 0, failed <- faults > 0

\* A node gets a report only when a job for it has completed, has one job at a
\* time, and loses none to a pass over an earlier one of the same name unless
\* the report is stored, something was edited or something failed.
FollowsProtocol == Protocol!Spec
=============================================================================
