------------------------------ MODULE ReportTTL ------------------------------
(***************************************************************************)
(* The TTL controller (pkg/operator/controller/ttl_report.go), which       *)
(* deletes vulnerability reports whose TTL annotation has expired, and the *)
(* writer of those reports (pkg/vulnerabilityreport builder.go and io.go), *)
(* which runs concurrently.  Deleted reports are scanned again.            *)
(*                                                                         *)
(* report holds what the API server stores, cReport what the informer      *)
(* cache shows.  Time is counted in units of Tick.                         *)
(***************************************************************************)
EXTENDS Naturals, Integers

CONSTANTS
  Reports,
  TTLs,       \* values of OPERATOR_VULNERABILITY_SCANNER_REPORT_TTL; 0: not set
  NoReport, Idle,
  MaxTime, MaxWrites, MaxFaults   \* bounds on ticks, writes and faults

Stamps == 0..MaxTime
\* ttl is the annotation, or 0.
Report == [stamp : Stamps, ttl : TTLs]
Task == [key : Reports, stamp : Stamps]

ASSUME ConstantsAssumption ==
  /\ TTLs \subseteq Nat
  /\ NoReport \notin Report /\ Idle \notin Task
  /\ MaxTime \in Nat /\ MaxWrites \in Nat /\ MaxFaults \in Nat

VARIABLES
  now, ttl,                \* the clock and the configured TTL
  report, cReport, lag,    \* lag: reports with events that the cache has not seen
  queue, due,              \* due[r]: when the delayed key r fires, or -1
  work,
  writes, faults

vars == <<now, ttl, report, cReport, lag, queue, due, work, writes, faults>>
reportVars == <<report, cReport, lag>>
workVars == <<queue, due, work>>

Init ==
  /\ now = 0
  /\ ttl \in TTLs
  /\ report = [r \in Reports |-> NoReport] /\ cReport = report /\ lag = {}
  /\ queue = {} /\ due = [r \in Reports |-> -1] /\ work = Idle
  /\ writes = 0 /\ faults = 0

-----------------------------------------------------------------------------
Tick ==
  /\ now < MaxTime
  /\ now' = now + 1
  /\ UNCHANGED <<ttl, reportVars, workVars, writes, faults>>

SetReport(r, v) ==
  report' = [report EXCEPT ![r] = v] /\ lag' = lag \cup {r} /\ UNCHANGED cReport

\* The scanner stores new results: a new report gets the annotation, an update
\* replaces labels and results and keeps the annotations that the report has.
\* It fails while the cache lags behind, and is tried again.
WriteReport(r) ==
  /\ writes < MaxWrites
  /\ writes' = writes + 1
  /\ r \notin lag
  /\ SetReport(r, [stamp |-> now,
                   ttl |-> IF report[r] = NoReport THEN ttl ELSE report[r].ttl])
  /\ UNCHANGED <<now, ttl, workVars, faults>>

SyncReport(r) ==
  /\ r \in lag
  /\ cReport' = [cReport EXCEPT ![r] = report[r]]
  /\ lag' = lag \ {r}
  /\ queue' = queue \cup {r}
  /\ UNCHANGED <<now, ttl, report, due, work, writes, faults>>

FireDelayed(r) ==
  /\ due[r] >= 0 /\ due[r] <= now
  /\ due' = [due EXCEPT ![r] = -1]
  /\ queue' = queue \cup {r}
  /\ UNCHANGED <<now, ttl, reportVars, work, writes, faults>>

Fault == faults < MaxFaults /\ faults' = faults + 1

\* The operator starts again, perhaps with another TTL; all reports are listed.
Restart ==
  /\ Fault
  /\ ttl' \in TTLs
  /\ cReport' = report /\ lag' = {}
  /\ queue' = {r \in Reports : report[r] # NoReport}
  /\ due' = [r \in Reports |-> -1] /\ work' = Idle
  /\ UNCHANGED <<now, report, writes>>

-----------------------------------------------------------------------------
(* reconcileReport                                                          *)

\* utils.DurationExceeded, IsTTLExpired
DurationExceeded(d) == d <= 0
TimeToExpiration(stamp, t) == stamp + t - now

\* RequeueAfter: the zero value asks for nothing, and a key that is delayed
\* already fires at the earlier time.
RequeueAfter(r, d) ==
  due' = [due EXCEPT ![r] = IF d > 0 /\ ~(@ \in 0..(now + d)) THEN now + d ELSE @]

\* The controller is set up only when a TTL is configured (operator.go).
Reconcile(r) ==
  /\ ttl > 0
  /\ work = Idle
  /\ r \in queue
  /\ queue' = queue \ {r}
  /\ IF cReport[r] = NoReport \/ cReport[r].ttl = 0 THEN UNCHANGED <<work, due>>
     ELSE LET d == TimeToExpiration(cReport[r].stamp, cReport[r].ttl)
          IN IF DurationExceeded(d)
             THEN work' = [key |-> r, stamp |-> cReport[r].stamp]
                  /\ UNCHANGED due
             ELSE RequeueAfter(r, d) /\ UNCHANGED work
  /\ UNCHANGED <<now, ttl, reportVars, writes, faults>>

\* Mutant: the deletion asks for a version that is newer than the cached one.
DeleteIfNewer ==
  /\ work # Idle
  /\ work' = Idle
  /\ IF report[work.key] # NoReport /\ report[work.key].stamp > work.stamp
     THEN SetReport(work.key, NoReport) /\ UNCHANGED queue
     ELSE queue' = queue \cup {work.key} /\ UNCHANGED reportVars
  /\ UNCHANGED <<now, ttl, due, writes, faults>>

\* Delete by name; NotFound is fine.
DeleteReport ==
  /\ work # Idle
  /\ work' = Idle
  /\ IF report[work.key] = NoReport THEN UNCHANGED reportVars ELSE SetReport(work.key, NoReport)
  /\ UNCHANGED <<now, ttl, queue, due, writes, faults>>

\* Mutant: the error is logged and no more.
DropOnError ==
  /\ work # Idle
  /\ Fault
  /\ work' = Idle
  /\ UNCHANGED <<now, ttl, reportVars, queue, due, writes>>

DeleteError ==
  /\ work # Idle
  /\ Fault
  /\ work' = Idle /\ queue' = queue \cup {work.key}
  /\ UNCHANGED <<now, ttl, reportVars, due, writes>>

Controller == (\E r \in Reports : Reconcile(r)) \/ DeleteReport

Next ==
  \/ Tick \/ Restart \/ DeleteError \/ Controller
  \/ \E r \in Reports : WriteReport(r) \/ SyncReport(r) \/ FireDelayed(r)

Spec == Init /\ [][Next]_vars

\* Time passes, informers and the delaying queue deliver, the worker runs.
FairSpec ==
  /\ Spec
  /\ WF_vars(Tick) /\ WF_vars(Controller)
  /\ \A r \in Reports : WF_vars(SyncReport(r)) /\ WF_vars(FireDelayed(r))

-----------------------------------------------------------------------------
\* Every variable has its type.
TypeOK ==
  /\ now \in Stamps /\ ttl \in TTLs
  /\ report \in [Reports -> Report \cup {NoReport}]
  /\ cReport \in [Reports -> Report \cup {NoReport}]
  /\ lag \subseteq Reports /\ queue \subseteq Reports
  /\ due \in [Reports -> Int] /\ \A r \in Reports : due[r] = -1 \/ due[r] > 0
  /\ work \in Task \cup {Idle}
  /\ writes \in 0..MaxWrites /\ faults \in 0..MaxFaults

Expired(r) == report[r] # NoReport /\ report[r].ttl > 0 /\ report[r].stamp + report[r].ttl <= now

\* A report whose TTL has expired is eventually deleted or renewed while a TTL is
\* configured, even if the key fires at the very instant of the expiry or the
\* operator restarts while the key waits in the delaying queue.
ExpiredAreDeleted == \A r \in Reports : Expired(r) ~> ~Expired(r) \/ ttl = 0

\* The expiry of a stored report is never forgotten: an event, a queued key, the
\* worker, or a delayed key that fires no later than the report expires leads to
\* another look at it, whatever renewals, deletions by name, errors, restarts and
\* changes of the TTL came before.
ExpiryScheduled ==
  \A r \in Reports :
    report[r] # NoReport /\ report[r].ttl > 0 =>
      \/ r \in lag \cup queue
      \/ work # Idle /\ work.key = r
      \/ due[r] >= 0 /\ due[r] <= report[r].stamp + report[r].ttl
=============================================================================
