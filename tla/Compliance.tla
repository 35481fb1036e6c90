----------------------------- MODULE Compliance -----------------------------
(***************************************************************************)
(* The compliance report of the operator (pkg/compliance).  The controller *)
(* (clustercompliancereport.go) generates the report when its cron         *)
(* expression is due; GenerateComplianceReport (io.go, mapper.go, util.go) *)
(* maps the checks of the stored kube-bench and configuration audit        *)
(* reports to controls, writes the detail report and then the status.      *)
(***************************************************************************)
EXTENDS Naturals, Integers, FiniteSets

CONSTANTS
  Controls, Checks,
  ScannerOf,      \* [Controls -> {"kube-bench", "config-audit"}]
  KindsOf,        \* [Controls -> set of kinds]; "Workload" stands for several
  ChecksOf,       \* [Controls -> SUBSET Checks]
  DefaultStatus,  \* [Controls -> {"PASS", "FAIL", ""}]
  Items,          \* 1..n, the scanners' reports in the order of the lists
  ItemScanner, ItemKind,
  Statuses,       \* what a scanner reports of a check
  FailEntriesLimit,   \* any integer a user writes; none or less leaves no failed entry
  Period,         \* the cron expression: every multiple of Period
  NoDetail, Idle,
  MaxTime, MaxEdits, MaxFaults   \* bounds on ticks, user edits and faults

ASSUME ConstantsAssumption ==
  /\ ScannerOf \in [Controls -> {"kube-bench", "config-audit"}]
  /\ KindsOf \in [Controls -> SUBSET (STRING \ {""})]
  /\ ChecksOf \in [Controls -> SUBSET Checks]
  /\ DefaultStatus \in [Controls -> {"PASS", "FAIL", ""}]
  /\ Items \subseteq Nat \ {0} /\ IsFiniteSet(Items) /\ IsFiniteSet(Checks)
  /\ Statuses \subseteq {"PASS", "WARN", "FAIL", "INFO"}
  /\ FailEntriesLimit \in Int /\ Period \in Nat \ {0}
  /\ MaxTime \in Nat /\ MaxEdits \in Nat /\ MaxFaults \in Nat

VARIABLES
  now,
  results,                       \* results[i][k]: check k in the report i, or "none"
  report, cReport, reportLag,    \* the compliance report as stored and as cached
  detail, cDetail, detailLag,    \* the detail report
  queued, due,                   \* the key in the queue, or delayed until due
  work,
  edits, faults

sourceVars == <<now, results>>
reportVars == <<report, cReport, reportLag>>
detailVars == <<detail, cDetail, detailLag>>
keyVars == <<queued, due>>
boundVars == <<edits, faults>>
vars == <<now, results, report, cReport, reportLag, detail, cDetail, detailLag,
          queued, due, work, edits, faults>>

-----------------------------------------------------------------------------
(* From check results to controls (io.go, mapper.go, util.go)               *)

WorkloadKinds ==
  {"Pod", "ReplicationController", "ReplicaSet", "StatefulSet", "DaemonSet", "CronJob", "Job"}

MapKinds(c) == UNION {IF k = "Workload" THEN WorkloadKinds ELSE {k} : k \in KindsOf[c]}

\* populateSpecDataToMaps: the lists to get, by scanner and kind.
ResourceLists == UNION {{ScannerOf[c]} \X MapKinds(c) : c \in Controls}

\* mapReportData and checkIdsToResults: all results for a check, whatever the
\* scanner and the kind of the list they come from.
CheckIdsToResults(res, lists) ==
  {x \in Items \X Checks :
     <<ItemScanner[x[1]], ItemKind[x[1]]>> \in lists /\ res[x[1]][x[2]] # "none"}

\* Controls without checks do not get into controlCheckIds.
Mapped == {c \in Controls : ChecksOf[c] # {}}

\* controlChecksByScannerChecks
ControlCheck(c, res, found) ==
  LET With(statuses) == Cardinality({x \in found : x[2] \in ChecksOf[c] /\ res[x[1]][x[2]] \in statuses})
      pass == With({"PASS", "WARN"})
      fail == With({"FAIL"})
      default == IF pass = 0 /\ fail = 0 THEN DefaultStatus[c] ELSE ""
  IN [pass |-> IF default = "PASS" THEN 1 ELSE pass, fail |-> IF default = "FAIL" THEN 1 ELSE fail]

ControlChecks(res, found) ==
  [c \in IF found = {} THEN {} ELSE Mapped |-> ControlCheck(c, res, found)]

\* Mutant: the default result is only made when no scanner found anything.
DefaultScanResult(c, k, found) ==
  IF DefaultStatus[c] = "FAIL" /\ found = {} THEN {[check |-> k, item |-> 0, status |-> "FAIL"]} ELSE {}

\* createDefaultScanResult: one entry for each kind of the control.
CreateDefaultScanResult(c, k, found) ==
  IF DefaultStatus[c] = "FAIL" /\ MapKinds(c) # {}
  THEN {[check |-> k, item |-> 0, status |-> "FAIL"]} ELSE {}

Failed(k, res, found) == {i \in Items : <<i, k>> \in found /\ res[i][k] \notin {"PASS", "WARN"}}
FailedBefore(i, k, res, found) ==
  {j \in Failed(k, res, found) : j < i /\ ItemKind[j] = ItemKind[i] /\ ItemScanner[j] = ItemScanner[i]}

\* createScanCheckResult: from every list the first entries up to the limit that
\* are neither PASS nor WARN.
CreateScanCheckResult(k, res, found) ==
  {[check |-> k, item |-> i, status |-> res[i][k]] :
     i \in {j \in Failed(k, res, found) : Cardinality(FailedBefore(j, k, res, found)) < FailEntriesLimit}}

ScanCheckResults(c, k, res, found) ==
  IF \E i \in Items : <<i, k>> \in found THEN CreateScanCheckResult(k, res, found)
  ELSE CreateDefaultScanResult(c, k, found)

\* controlChecksDetailsByScannerChecks
ControlChecksDetails(res, found) ==
  [c \in IF found = {} THEN {} ELSE Mapped |->
     UNION {ScanCheckResults(c, k, res, found) : k \in ChecksOf[c]}]

-----------------------------------------------------------------------------
(* The controller                                                           *)

NoChecks == [c \in {} |-> 0]

Init ==
  /\ now = 0
  /\ results \in [Items -> [Checks -> Statuses \cup {"none"}]]
  /\ report = [updated |-> 0, checks |-> NoChecks, from |-> {}]   \* created at 0
  /\ cReport = report /\ reportLag = FALSE
  /\ detail = NoDetail /\ cDetail = NoDetail /\ detailLag = FALSE
  /\ queued = TRUE /\ due = -1 /\ work = Idle
  /\ edits = 0 /\ faults = 0

Fault == faults < MaxFaults /\ faults' = faults + 1 /\ UNCHANGED edits

Tick ==
  /\ now < MaxTime
  /\ now' = now + 1
  /\ UNCHANGED <<results, reportVars, detailVars, keyVars, work, boundVars>>

\* The scanners find something else, or a user edits the compliance report.
Edit ==
  /\ edits < MaxEdits
  /\ edits' = edits + 1
  /\ \/ /\ \E i \in Items, k \in Checks, s \in Statuses : results' = [results EXCEPT ![i][k] = s]
        /\ UNCHANGED reportLag
     \/ reportLag' = TRUE /\ UNCHANGED results
  /\ UNCHANGED <<now, report, cReport, detailVars, keyVars, work, faults>>

SyncReport ==
  /\ reportLag
  /\ cReport' = report /\ reportLag' = FALSE
  /\ queued' = TRUE
  /\ UNCHANGED <<sourceVars, report, detailVars, due, work, boundVars>>

\* The detail report has no owner, so that its events enqueue nothing.
SyncDetail ==
  /\ detailLag
  /\ cDetail' = detail /\ detailLag' = FALSE
  /\ UNCHANGED <<sourceVars, reportVars, detail, keyVars, work, boundVars>>

FireDelayed ==
  /\ due >= 0 /\ due <= now
  /\ due' = -1 /\ queued' = TRUE
  /\ UNCHANGED <<sourceVars, reportVars, detailVars, work, boundVars>>

\* Mutant: the next activation after the present one.
NextCronFromNow(t) == ((now \div Period) + 1) * Period

\* cronexpr.Next: the first activation after t.
NextCron(t) == ((t \div Period) + 1) * Period

\* generateComplianceReport: generate now, or when the time has come.
Reconcile ==
  /\ work = Idle
  /\ queued
  /\ queued' = FALSE
  /\ LET d == NextCron(cReport.updated) - now
     IN IF d <= 0
        THEN /\ work' = [pc |-> "collect", from |-> {}, checks |-> NoChecks, details |-> NoChecks]
             /\ UNCHANGED due
        ELSE /\ due' = IF due \in 0..(now + d) THEN due ELSE now + d
             /\ UNCHANGED work
  /\ UNCHANGED <<sourceVars, reportVars, detailVars, boundVars>>

\* A list that cannot be read is skipped.
CollectResults ==
  /\ work # Idle /\ work.pc = "collect"
  /\ \E failed \in {{}} \cup {{l} : l \in ResourceLists} :
       /\ IF failed = {} THEN UNCHANGED boundVars ELSE Fault
       /\ LET found == CheckIdsToResults(results, ResourceLists \ failed)
          IN work' = [pc |-> "detail", from |-> {<<x, results[x[1]][x[2]]>> : x \in found},
                      checks |-> ControlChecks(results, found),
                      details |-> ControlChecksDetails(results, found)]
  /\ UNCHANGED <<sourceVars, reportVars, detailVars, keyVars>>

\* RetryOnConflict, or an error: the pass starts over.
Retry == work' = Idle /\ queued' = TRUE /\ UNCHANGED due

\* createComplianceDetailReport: an error of Get other than NotFound is lost, and
\* nothing is written.
WriteDetail ==
  /\ work # Idle /\ work.pc = "detail"
  /\ \/ /\ ~detailLag
        /\ detail' = [checks |-> work.details, from |-> work.from]
        /\ detailLag' = TRUE
        /\ work' = [work EXCEPT !.pc = "status"]
        /\ UNCHANGED <<cDetail, keyVars, boundVars>>
     \/ detailLag /\ Retry /\ UNCHANGED <<detailVars, boundVars>>
     \/ Fault /\ Retry /\ UNCHANGED detailVars
     \/ Fault /\ work' = [work EXCEPT !.pc = "status"] /\ UNCHANGED <<detailVars, keyVars>>
  /\ UNCHANGED <<sourceVars, reportVars>>

\* createComplianceReport and Status().Update of the copy it made of the cache;
\* the totals decide whether the controls are shown at all.
UpdateStatus ==
  /\ work # Idle /\ work.pc = "status"
  /\ \/ /\ ~reportLag
        /\ report' = [updated |-> now, from |-> work.from, checks |->
             IF \E c \in DOMAIN work.checks : work.checks[c].pass + work.checks[c].fail > 0
             THEN work.checks ELSE NoChecks]
        /\ reportLag' = TRUE
        /\ work' = Idle
        /\ UNCHANGED <<cReport, keyVars, boundVars>>
     \/ reportLag /\ Retry /\ UNCHANGED <<reportVars, boundVars>>
     \/ Fault /\ Retry /\ UNCHANGED reportVars
  /\ UNCHANGED <<sourceVars, detailVars>>

Controller == Reconcile \/ CollectResults \/ WriteDetail \/ UpdateStatus

Next == Tick \/ Edit \/ SyncReport \/ SyncDetail \/ FireDelayed \/ Controller

Spec == Init /\ [][Next]_vars

FairSpec ==
  /\ Spec
  /\ WF_vars(SyncReport) /\ WF_vars(SyncDetail) /\ WF_vars(FireDelayed) /\ WF_vars(Controller)

-----------------------------------------------------------------------------
\* Every variable has its type; a report shows all mapped controls or none.
TypeOK ==
  /\ now \in 0..MaxTime
  /\ results \in [Items -> [Checks -> Statuses \cup {"none"}]]
  /\ \A r \in {report, cReport} : r.updated \in 0..now /\ DOMAIN r.checks \in {{}, Mapped}
  /\ due \in -1..(MaxTime + Period)
  /\ work # Idle => work.pc \in {"collect", "detail", "status"}
  /\ edits \in 0..MaxEdits /\ faults \in 0..MaxFaults

\* Every activation of the cron expression is followed by a generation: the
\* event of the status update, not the reconciliation that made it, schedules
\* the next one, through conflicts, retries and delays.
EveryActivationReports ==
  \A t \in {n \in 1..MaxTime : n % Period = 0} : now >= t ~> report.updated >= t

\* Status and detail report that were made from the same findings (from) agree on
\* where to look: a control with failures is in the detail report, and, if
\* compliance.failEntriesLimit allows any entry, has one there, although totals and
\* entries are computed apart, with default results for checks without any, and
\* through faults such as a list that is skipped.  The limit is not validated: with
\* zero or less the failures that scanners found have no entry at all.
FailuresHaveDetails ==
  detail # NoDetail /\ detail.from = report.from =>
    \A c \in DOMAIN report.checks :
      report.checks[c].fail > 0 /\ KindsOf[c] # {} =>
        /\ c \in DOMAIN detail.checks
        /\ FailEntriesLimit > 0 => detail.checks[c] # {}
=============================================================================
