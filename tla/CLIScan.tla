------------------------------- MODULE CLIScan -------------------------------
(***************************************************************************)
(* A scan by the command line: runner.Run (pkg/runner) runs the task of    *)
(* pkg/kube/runnable_job.go in a goroutine of its own, which creates a job *)
(* and waits for informer callbacks to report its end; then the scanner    *)
(* (vulnerabilityreport, kubebench, kubehunter) reads the logs, deletes    *)
(* the job and the command writes the report.  Scans of one target, by     *)
(* several invocations or by the goroutines of one, share the name of job  *)
(* and secret.                                                             *)
(***************************************************************************)
EXTENDS Naturals

CONSTANTS
  Scans,          \* invocations of a scan, each once
  Targets,        \* workloads, nodes or the cluster
  TargetOf,       \* [Scans -> Targets]
  Private,        \* targets whose job needs a credentials secret
  Timeout,        \* whether the runner has a timeout (NewWithTimeout)
  DeleteScanJob,  \* the flag --delete-scan-job
  Nobody, NoJob,
  MaxFaults,      \* bound on API errors, failed jobs, warnings and interrupts
  MaxUserDeletes  \* bound on jobs that users delete

ASSUME ConstantsAssumption ==
  /\ TargetOf \in [Scans -> Targets]
  /\ Private \subseteq Targets
  /\ Timeout \in BOOLEAN /\ DeleteScanJob \in BOOLEAN
  /\ Nobody \notin Scans
  /\ NoJob \notin [by : Scans, cond : {"none", "complete", "failed"}]
  /\ MaxFaults \in Nat /\ MaxUserDeletes \in Nat

VARIABLES
  job,        \* the job of every target: who created it and its condition
  secret,     \* its credentials: "none", "orphan", "owned" or "garbage"
  report,     \* the scan whose job the stored report is from, or Nobody
  main,       \* where the command is
  outcome,    \* how it ended so far
  got,        \* whose job's logs the command has read
  task,       \* where the goroutine of the runner is
  result,     \* the error that the task returns: "nil" or "error"
  cached,     \* what the task's informer shows of its job
  sending,    \* sending[p][h]: what handler h is blocked on sending, or "no"
  faults, userDeletes

apiVars == <<job, secret, report>>
mainVars == <<main, outcome, got>>
taskVars == <<task, result, cached, sending>>
boundVars == <<faults, userDeletes>>
vars == <<job, secret, report, main, outcome, got, task, result, cached, sending,
          faults, userDeletes>>

Handlers == {"jobs", "events"}

Init ==
  /\ job = [t \in Targets |-> NoJob]
  /\ secret = [t \in Targets |-> "none"]
  /\ report = [t \in Targets |-> Nobody]
  /\ main = [p \in Scans |-> "start"]
  /\ outcome = [p \in Scans |-> "pending"]
  /\ got = [p \in Scans |-> Nobody]
  /\ task = [p \in Scans |-> "none"]
  /\ result = [p \in Scans |-> "nil"]
  /\ cached = [p \in Scans |-> "off"]
  /\ sending = [p \in Scans |-> [h \in Handlers |-> "no"]]
  /\ faults = 0 /\ userDeletes = 0

Fault == faults < MaxFaults /\ faults' = faults + 1 /\ UNCHANGED userDeletes

Mine(p) == job[TargetOf[p]] # NoJob /\ job[TargetOf[p]].by = p

-----------------------------------------------------------------------------
(* The cluster.                                                             *)

FinishJob(t) ==
  /\ job[t] # NoJob
  /\ job[t].cond = "none"
  /\ \/ job' = [job EXCEPT ![t].cond = "complete"] /\ UNCHANGED boundVars
     \/ job' = [job EXCEPT ![t].cond = "failed"] /\ Fault
  /\ UNCHANGED <<secret, report, mainVars, taskVars>>

\* What the deletion of the job of t leaves: its secret waits for the collector.
JobDeleted(t) ==
  /\ job' = [job EXCEPT ![t] = NoJob]
  /\ secret' = [secret EXCEPT ![t] = IF job[t] # NoJob /\ @ = "owned" THEN "garbage" ELSE @]

UserDeletesJob(t) ==
  /\ userDeletes < MaxUserDeletes
  /\ userDeletes' = userDeletes + 1
  /\ job[t] # NoJob
  /\ JobDeleted(t)
  /\ UNCHANGED <<report, mainVars, taskVars, faults>>

CollectSecret(t) ==
  /\ secret[t] = "garbage"
  /\ secret' = [secret EXCEPT ![t] = "none"]
  /\ UNCHANGED <<job, report, mainVars, taskVars, boundVars>>

\* The command is interrupted, with all its goroutines.
Interrupt(p) ==
  /\ main[p] \notin {"start", "returned"}
  /\ Fault
  /\ main' = [main EXCEPT ![p] = "returned"]
  /\ outcome' = [outcome EXCEPT ![p] = "killed"]
  /\ task' = [task EXCEPT ![p] = "none"]
  /\ cached' = [cached EXCEPT ![p] = "off"]
  /\ sending' = [sending EXCEPT ![p] = [h \in Handlers |-> "no"]]
  /\ UNCHANGED <<apiVars, got, result>>

-----------------------------------------------------------------------------
(* runnableJob.Run, in the goroutine that runner.Run starts                 *)

\* return err: the goroutine goes on to send it to the runner.
TaskReturns(p, err) ==
  /\ task' = [task EXCEPT ![p] = "send"]
  /\ result' = [result EXCEPT ![p] = err]

TaskGoTo(p, label) == task' = [task EXCEPT ![p] = label] /\ UNCHANGED result

\* Mutant: a secret of this name is used.
ReuseSecret(p) ==
  /\ task[p] = "secret"
  /\ secret' = [secret EXCEPT ![TargetOf[p]] = IF @ = "none" THEN "orphan" ELSE @]
  /\ TaskGoTo(p, "job")
  /\ UNCHANGED <<job, report, mainVars, cached, sending, boundVars>>

\* A secret of this name is an error, as any other.
CreateSecret(p) ==
  LET t == TargetOf[p] IN
  /\ task[p] = "secret"
  /\ \/ secret[t] = "none" /\ secret' = [secret EXCEPT ![t] = "orphan"]
        /\ TaskGoTo(p, "job") /\ UNCHANGED boundVars
     \/ secret[t] # "none" /\ TaskReturns(p, "error") /\ UNCHANGED <<secret, boundVars>>
     \/ Fault /\ TaskReturns(p, "error") /\ UNCHANGED secret
  /\ UNCHANGED <<job, report, mainVars, cached, sending>>

\* So is a job of this name.
CreateJob(p) ==
  LET t == TargetOf[p] IN
  /\ task[p] = "job"
  /\ \/ job[t] = NoJob /\ job' = [job EXCEPT ![t] = [by |-> p, cond |-> "none"]]
        /\ TaskGoTo(p, "owner") /\ UNCHANGED boundVars
     \/ job[t] # NoJob /\ TaskReturns(p, "error") /\ UNCHANGED <<job, boundVars>>
     \/ Fault /\ TaskReturns(p, "error") /\ UNCHANGED job
  /\ UNCHANGED <<secret, report, mainVars, cached, sending>>

\* The secret is updated with a reference to the job created, which may be gone.
SetOwnerReference(p) ==
  LET t == TargetOf[p] IN
  /\ task[p] = "owner"
  /\ \/ secret' = [secret EXCEPT ![t] = IF t \notin Private THEN @
                                        ELSE IF Mine(p) THEN "owned" ELSE "garbage"]
        /\ TaskGoTo(p, "informers") /\ UNCHANGED boundVars
     \/ Fault /\ TaskReturns(p, "error") /\ UNCHANGED secret
  /\ UNCHANGED <<job, report, mainVars, cached, sending>>

\* The informers list; a condition that the list shows is no update event.
StartInformers(p) ==
  /\ task[p] = "informers"
  /\ TaskGoTo(p, "receive")
  /\ cached' = [cached EXCEPT ![p] = IF Mine(p) THEN job[TargetOf[p]].cond ELSE "gone"]
  /\ UNCHANGED <<apiVars, mainVars, sending, boundVars>>

\* UpdateFunc and AddFunc block on the unbuffered channel; each handler is
\* called by one goroutine, so it has at most one value to send.
Call(p, h, err) ==
  /\ sending[p][h] = "no"
  /\ sending' = [sending EXCEPT ![p][h] = err]
  /\ UNCHANGED <<apiVars, mainVars, task, result>>

\* Mutant: a job that failed reports its end like one that completed.
ErrorOfAnyCondition(cond) == "nil"

ErrorOf(cond) == IF cond = "complete" THEN "nil" ELSE "error"

JobUpdate(p) ==
  /\ cached[p] = "none"
  /\ Mine(p)
  /\ job[TargetOf[p]].cond # "none"
  /\ cached' = [cached EXCEPT ![p] = job[TargetOf[p]].cond]
  /\ Call(p, "jobs", ErrorOf(job[TargetOf[p]].cond))
  /\ UNCHANGED boundVars

\* No handler looks at deletions.
JobGone(p) ==
  /\ cached[p] \notin {"off", "gone"}
  /\ ~Mine(p)
  /\ cached' = [cached EXCEPT ![p] = "gone"]
  /\ UNCHANGED <<apiVars, mainVars, task, result, sending, boundVars>>

\* Mutant: the informer does not resync.
NoResync(p) == FALSE /\ UNCHANGED vars

\* Every half hour the informer repeats an update for what it shows.
JobResync(p) ==
  /\ cached[p] \in {"complete", "failed"}
  /\ Call(p, "jobs", ErrorOf(cached[p]))
  /\ UNCHANGED <<cached, boundVars>>

WarningEvent(p) ==
  /\ cached[p] # "off"
  /\ Fault
  /\ Call(p, "events", "error")
  /\ UNCHANGED cached

\* err = <-complete, with either handler.
Receive(p) ==
  /\ task[p] = "receive"
  /\ \E h \in Handlers :
       /\ sending[p][h] # "no"
       /\ TaskReturns(p, sending[p][h])
       /\ sending' = [sending EXCEPT ![p][h] = "no"]
  /\ UNCHANGED <<apiVars, mainVars, cached, boundVars>>

-----------------------------------------------------------------------------
(* runner.Run, Scanner.Scan and the command                                 *)

\* Nothing is created before the job has been built; errors until then end the
\* command, as a target that cannot be resolved does.
Start(p) ==
  /\ main[p] = "start"
  /\ \/ main' = [main EXCEPT ![p] = "select"]
        /\ task' = [task EXCEPT ![p] = IF TargetOf[p] \in Private THEN "secret" ELSE "job"]
        /\ UNCHANGED <<outcome, boundVars>>
     \/ Fault /\ main' = [main EXCEPT ![p] = "returned"]
        /\ outcome' = [outcome EXCEPT ![p] = "error"] /\ UNCHANGED task
  /\ UNCHANGED <<apiVars, got, result, cached, sending>>

\* The runner receives what the task returned.  An error ends the scan before
\* the deletion of the job is deferred.
RunReturns(p) ==
  /\ main[p] = "select"
  /\ task[p] = "send"
  /\ task' = [task EXCEPT ![p] = "ended"]
  /\ IF result[p] = "nil"
     THEN main' = [main EXCEPT ![p] = "logs"] /\ UNCHANGED outcome
     ELSE /\ main' = [main EXCEPT ![p] = "returned"]
          /\ outcome' = [outcome EXCEPT ![p] = "error"]
  /\ UNCHANGED <<apiVars, got, result, cached, sending, boundVars>>

\* ErrTimeout; the task goes on and nobody will receive what it sends.
RunTimesOut(p) ==
  /\ Timeout
  /\ main[p] = "select"
  /\ main' = [main EXCEPT ![p] = "returned"]
  /\ outcome' = [outcome EXCEPT ![p] = "error"]
  /\ UNCHANGED <<apiVars, got, taskVars, boundVars>>

\* Mutant: after an error, which is reported, the logs are read once more.
GetLogsAgain(p) ==
  LET t == TargetOf[p] IN
  /\ main[p] = "logs"
  /\ \/ job[t] # NoJob /\ got' = [got EXCEPT ![p] = job[t].by]
        /\ main' = [main EXCEPT ![p] = "delete"]
        /\ outcome' = [outcome EXCEPT ![p] = "collected"] /\ UNCHANGED boundVars
     \/ Fault /\ outcome' = [outcome EXCEPT ![p] = "error"] /\ UNCHANGED <<got, main>>
  /\ UNCHANGED <<apiVars, taskVars>>

\* The logs of the pod of the job of this name.
GetLogs(p) ==
  LET t == TargetOf[p] IN
  /\ main[p] = "logs"
  /\ main' = [main EXCEPT ![p] = "delete"]
  /\ \/ job[t] # NoJob /\ got' = [got EXCEPT ![p] = job[t].by]
        /\ outcome' = [outcome EXCEPT ![p] = "collected"] /\ UNCHANGED boundVars
     \/ job[t] = NoJob /\ outcome' = [outcome EXCEPT ![p] = "error"]
        /\ UNCHANGED <<got, boundVars>>
     \/ Fault /\ outcome' = [outcome EXCEPT ![p] = "error"] /\ UNCHANGED got
  /\ UNCHANGED <<apiVars, taskVars>>

\* The deferred function: an error of the deletion is ignored.
DeleteJob(p) ==
  LET t == TargetOf[p] IN
  /\ main[p] = "delete"
  /\ main' = [main EXCEPT ![p] = IF outcome[p] = "error" THEN "returned" ELSE "write"]
  /\ \/ DeleteScanJob /\ JobDeleted(t) /\ UNCHANGED boundVars
     \/ ~DeleteScanJob /\ UNCHANGED <<job, secret, boundVars>>
     \/ Fault /\ UNCHANGED <<job, secret>>
  /\ UNCHANGED <<report, outcome, got, taskVars>>

WriteReport(p) ==
  /\ main[p] = "write"
  /\ main' = [main EXCEPT ![p] = "returned"]
  /\ \/ report' = [report EXCEPT ![TargetOf[p]] = got[p]]
        /\ outcome' = [outcome EXCEPT ![p] = "ok"] /\ UNCHANGED boundVars
     \/ Fault /\ outcome' = [outcome EXCEPT ![p] = "error"] /\ UNCHANGED report
  /\ UNCHANGED <<job, secret, got, taskVars>>

-----------------------------------------------------------------------------
TaskNext(p) ==
  \/ CreateSecret(p) \/ CreateJob(p) \/ SetOwnerReference(p) \/ StartInformers(p)
  \/ Receive(p)
InformerNext(p) == JobUpdate(p) \/ JobGone(p) \/ JobResync(p)
MainNext(p) ==
  Start(p) \/ RunReturns(p) \/ GetLogs(p) \/ DeleteJob(p) \/ WriteReport(p)

Next ==
  \/ \E t \in Targets : FinishJob(t) \/ UserDeletesJob(t) \/ CollectSecret(t)
  \/ \E p \in Scans :
       \/ TaskNext(p) \/ InformerNext(p) \/ MainNext(p)
       \/ RunTimesOut(p) \/ WarningEvent(p) \/ Interrupt(p)

Spec == Init /\ [][Next]_vars

\* Goroutines run, informers deliver and resync, jobs end (a job without a
\* deadline may not; the scan then waits for it).
FairSpec ==
  /\ Spec
  /\ \A p \in Scans :
       WF_vars(TaskNext(p)) /\ WF_vars(MainNext(p)) /\ WF_vars(InformerNext(p))
  /\ \A t \in Targets : WF_vars(FinishJob(t)) /\ WF_vars(CollectSecret(t))
-----------------------------------------------------------------------------
(* Properties                                                               *)

\* Every variable keeps its type.
TypeOK ==
  /\ job \in [Targets -> [by : Scans, cond : {"none", "complete", "failed"}] \cup {NoJob}]
  /\ secret \in [Targets -> {"none", "orphan", "owned", "garbage"}]
  /\ report \in [Targets -> Scans \cup {Nobody}]
  /\ main \in [Scans -> {"start", "select", "logs", "delete", "write", "returned"}]
  /\ outcome \in [Scans -> {"pending", "collected", "ok", "error", "killed"}]
  /\ got \in [Scans -> Scans \cup {Nobody}]
  /\ task \in [Scans -> {"none", "secret", "job", "owner", "informers", "receive",
                         "send", "ended"}]
  /\ result \in [Scans -> {"nil", "error"}]
  /\ cached \in [Scans -> {"off", "none", "complete", "failed", "gone"}]
  /\ sending \in [Scans -> [Handlers -> {"no", "nil", "error"}]]
  /\ faults \in 0..MaxFaults /\ userDeletes \in 0..MaxUserDeletes

\* As long as nobody deletes jobs by hand, a stored report is made of the logs of
\* a job that completed and that the reporting scan created itself, whatever
\* other scans of the same target do: the name of the job is their lock.
OwnResults ==
  userDeletes = 0 =>
    \A p \in Scans :
      /\ got[p] \in {p, Nobody}
      /\ main[p] = "logs" => Mine(p) /\ job[TargetOf[p]].cond = "complete"
      /\ outcome[p] = "ok" => got[p] = p

\* Who has a target to itself, how a scan ends, and whether users interfered.
Holder == [t \in Targets |-> IF job[t] = NoJob THEN Nobody ELSE job[t].by]
Verdict == [p \in Scans |-> IF outcome[p] = "killed" THEN "error" ELSE outcome[p]]
Meddled == userDeletes > 0
Abstract == INSTANCE ExclusiveScan WITH holder <- Holder, outcome <- Verdict, meddled <- Meddled

\* The scans implement exclusive access to their target: the creation of the job
\* takes the target and its deletion, by the deferred function, releases it.
ExclusiveAccess == Abstract!Spec

\* Every scan returns, if nobody deletes its job: neither the condition that the
\* first list shows already, nor a warning, nor a handler that is blocked for
\* good keeps the command waiting.
Returns ==
  \A p \in Scans : main[p] = "select" ~> main[p] = "returned" \/ userDeletes > 0

\* The job of a private target has its credentials as long as it exists, whatever
\* other scans of the target and users who delete jobs do: no scan uses a secret
\* that it has not created itself.
JobHasSecret ==
  \A t \in Private : job[t] # NoJob => secret[t] \in {"orphan", "owned"}
=============================================================================
