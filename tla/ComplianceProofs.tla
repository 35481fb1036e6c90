--------------------------- MODULE ComplianceProofs ---------------------------
(***************************************************************************)
(* Proofs about the compliance report, for any controls, checks, scanner   *)
(* reports, kinds, limits and schedules: types, and that status and detail *)
(* report, which are computed apart and written one after the other, agree *)
(* on where the failures are.                                              *)
(***************************************************************************)
EXTENDS Compliance, FiniteSetTheorems, WellFoundedInduction, TLAPS

Results == [Items -> [Checks -> Statuses \cup {"none"}]]

\* Findings with their statuses, as a pass takes them along.
Findings(res, found) == {<<x, res[x[1]][x[2]]>> : x \in found}

\* The three were made from one set of findings.
Made(from, checks, details) ==
  \E res \in Results, found \in SUBSET (Items \X Checks) :
    /\ from = Findings(res, found)
    /\ checks = ControlChecks(res, found)
    /\ details = ControlChecksDetails(res, found)

\* A pass has made what it is about to write.
WorkMade ==
  work # Idle =>
    \E p \in {"collect", "detail", "status"} : \E from, checks, details :
      /\ work = [pc |-> p, from |-> from, checks |-> checks, details |-> details]
      /\ p # "collect" => Made(from, checks, details)

\* The status was made by some pass, or shows no controls.
ReportMade ==
  report.checks = NoChecks \/ \E details : Made(report.from, report.checks, details)

\* So was the detail report, not necessarily by the same pass.
DetailMade ==
  detail # NoDetail => \E checks : Made(detail.from, checks, detail.checks)

MInv == results \in Results /\ WorkMade /\ ReportMade /\ DetailMade

-----------------------------------------------------------------------------
(* What is made from the same findings agrees                               *)

\* Every set of items has a first one.
LEMMA FirstItem ==
  ASSUME NEW S \in SUBSET Items, S # {}
  PROVE  \E i \in S : \A j \in S : ~(j < i)
<1>1. S \subseteq Nat
      BY ConstantsAssumption
<1>2. PICK i \in S : \A j \in S : ~(<<j, i>> \in OpToRel(<, Nat))
      BY <1>1, WFMin, NatLessThanWellFounded
<1>3. \A j \in S : j < i => <<j, i>> \in OpToRel(<, Nat)
      BY <1>1 DEF OpToRel
<1> QED BY <1>2, <1>3

\* A check with a result that is neither PASS nor WARN has an entry: the first
\* such item of its list is within the limit, if that allows an entry.
LEMMA BadHasEntry ==
  ASSUME NEW res, NEW found, NEW k, NEW i \in Items, <<i, k>> \in found,
         res[i][k] \notin {"PASS", "WARN"}, FailEntriesLimit > 0
  PROVE  CreateScanCheckResult(k, res, found) # {}
<1> DEFINE list == {j \in Failed(k, res, found) :
                      ItemKind[j] = ItemKind[i] /\ ItemScanner[j] = ItemScanner[i]}
<1>1. i \in list /\ list \subseteq Items
      BY DEF Failed
<1>2. PICK f \in list : \A j \in list : ~(j < f)
      BY <1>1, FirstItem
<1>3. FailedBefore(f, k, res, found) = {}
      BY <1>2 DEF FailedBefore
<1>4. Cardinality(FailedBefore(f, k, res, found)) < FailEntriesLimit
  <2>1. FailEntriesLimit \in Int
        BY ConstantsAssumption
  <2>2. Cardinality(FailedBefore(f, k, res, found)) = 0
        BY <1>3, FS_EmptySet
  <2> QED BY <2>1, <2>2
<1> QED BY <1>2, <1>4 DEF CreateScanCheckResult

\* A control that counts failures has entries in the details, be they those of
\* the scanners or that of the default.
LEMMA FailuresAgree ==
  ASSUME NEW res \in Results, NEW found \in SUBSET (Items \X Checks), NEW c \in Mapped,
         found # {}, ControlCheck(c, res, found).fail > 0, KindsOf[c] # {},
         FailEntriesLimit > 0
  PROVE  ControlChecksDetails(res, found)[c] # {}
<1> DEFINE Entries(k) == ScanCheckResults(c, k, res, found)
           With(s) == {x \in found : x[2] \in ChecksOf[c] /\ res[x[1]][x[2]] \in s}
<1>1. ControlChecksDetails(res, found)[c] = UNION {Entries(k) : k \in ChecksOf[c]}
      BY DEF ControlChecksDetails
<1>2. SUFFICES \E k \in ChecksOf[c] : Entries(k) # {}
      BY <1>1
<1>3. CASE \E x \in found : x[2] \in ChecksOf[c] /\ res[x[1]][x[2]] \notin {"PASS", "WARN"}
  <2>1. PICK x \in found : x[2] \in ChecksOf[c] /\ res[x[1]][x[2]] \notin {"PASS", "WARN"}
        BY <1>3
  <2>2. x[1] \in Items /\ <<x[1], x[2]>> \in found
        BY <2>1
  <2> QED BY <2>1, <2>2, BadHasEntry DEF ScanCheckResults
<1>4. CASE \A x \in found : x[2] \in ChecksOf[c] => res[x[1]][x[2]] \in {"PASS", "WARN"}
  <2>1. With({"FAIL"}) = {}
        BY <1>4
  <2>2. Cardinality(With({"FAIL"})) = 0
        BY <2>1, FS_EmptySet
  <2>3. ControlCheck(c, res, found).fail =
          IF (IF Cardinality(With({"PASS", "WARN"})) = 0 /\ Cardinality(With({"FAIL"})) = 0
              THEN DefaultStatus[c] ELSE "") = "FAIL" THEN 1 ELSE Cardinality(With({"FAIL"}))
        BY DEF ControlCheck
  <2>4. Cardinality(With({"PASS", "WARN"})) = 0 /\ DefaultStatus[c] = "FAIL"
    <3> HIDE DEF With
    <3> QED BY <2>2, <2>3
  <2>5. IsFiniteSet(Items \X Checks)
        BY FS_Product, ConstantsAssumption
  <2>6. IsFiniteSet(With({"PASS", "WARN"}))
        BY <2>5, FS_Subset
  <2>7. With({"PASS", "WARN"}) = {}
    <3> HIDE DEF With
    <3> QED BY <2>4, <2>6, FS_EmptySet
  <2>8. \A x \in found : x[2] \notin ChecksOf[c]
        BY <1>4, <2>7
  <2>9. PICK k \in ChecksOf[c] : TRUE
        BY DEF Mapped
  <2>10. ~ \E i \in Items : <<i, k>> \in found
        BY <2>8, <2>9
  <2>11. MapKinds(c) # {}
    <3>1. PICK n \in KindsOf[c] : TRUE
          OBVIOUS
    <3>2. (IF n = "Workload" THEN WorkloadKinds ELSE {n}) # {}
          BY DEF WorkloadKinds
    <3> QED BY <3>1, <3>2 DEF MapKinds
  <2> QED BY <2>4, <2>9, <2>10, <2>11 DEF CreateDefaultScanResult, ScanCheckResults
<1> QED BY <1>3, <1>4

\* The findings determine the results of the checks.
LEMMA SameFindings ==
  ASSUME NEW res1, NEW res2, NEW found1, NEW found2,
         Findings(res1, found1) = Findings(res2, found2)
  PROVE  /\ found1 = found2
         /\ \A x \in found1 : res1[x[1]][x[2]] = res2[x[1]][x[2]]
<1>1. ASSUME NEW x \in found1
      PROVE  x \in found2 /\ res1[x[1]][x[2]] = res2[x[1]][x[2]]
  <2>1. <<x, res1[x[1]][x[2]]>> \in Findings(res2, found2)
        BY <1>1 DEF Findings
  <2>2. PICK y \in found2 : <<x, res1[x[1]][x[2]]>> = <<y, res2[y[1]][y[2]]>>
        BY <2>1 DEF Findings
  <2> QED BY <2>2
<1>2. ASSUME NEW x \in found2 PROVE x \in found1
  <2>1. <<x, res2[x[1]][x[2]]>> \in Findings(res1, found1)
        BY <1>2 DEF Findings
  <2>2. PICK y \in found1 : <<x, res2[x[1]][x[2]]>> = <<y, res1[y[1]][y[2]]>>
        BY <2>1 DEF Findings
  <2> QED BY <2>2
<1> QED BY <1>1, <1>2
\* What a control counts depends on the findings only.
LEMMA SameCheck ==
  ASSUME NEW res1, NEW res2, NEW found, NEW c,
         \A x \in found : res1[x[1]][x[2]] = res2[x[1]][x[2]]
  PROVE  ControlCheck(c, res1, found) = ControlCheck(c, res2, found)
<1> DEFINE With(res, s) == {x \in found : x[2] \in ChecksOf[c] /\ res[x[1]][x[2]] \in s}
<1>1. \A s : With(res1, s) = With(res2, s)
      OBVIOUS
<1>2. \A res : ControlCheck(c, res, found) =
        LET p == Cardinality(With(res, {"PASS", "WARN"}))
            f == Cardinality(With(res, {"FAIL"}))
            d == IF p = 0 /\ f = 0 THEN DefaultStatus[c] ELSE ""
        IN [pass |-> IF d = "PASS" THEN 1 ELSE p, fail |-> IF d = "FAIL" THEN 1 ELSE f]
      BY DEF ControlCheck
<1> HIDE DEF With
<1> QED BY <1>1, <1>2

\* Hence status and details from the same findings agree, whoever made them.
LEMMA MadeAgree ==
  ASSUME NEW from, NEW checks, NEW details, NEW otherChecks, NEW otherDetails,
         Made(from, checks, otherDetails), Made(from, otherChecks, details),
         NEW c \in DOMAIN checks, checks[c].fail > 0, KindsOf[c] # {}
  PROVE  c \in DOMAIN details /\ (FailEntriesLimit > 0 => details[c] # {})
<1>1. PICK res1 \in Results, found1 \in SUBSET (Items \X Checks) :
             /\ from = Findings(res1, found1)
             /\ checks = ControlChecks(res1, found1)
      BY DEF Made
<1>2. PICK res2 \in Results, found2 \in SUBSET (Items \X Checks) :
             /\ from = Findings(res2, found2)
             /\ details = ControlChecksDetails(res2, found2)
      BY DEF Made
<1>3. found1 = found2 /\ \A x \in found1 : res1[x[1]][x[2]] = res2[x[1]][x[2]]
  <2>1. Findings(res1, found1) = Findings(res2, found2)
        BY <1>1, <1>2
  <2> QED BY <2>1, SameFindings
<1>4. found1 # {} /\ c \in Mapped /\ checks[c] = ControlCheck(c, res1, found1)
      BY <1>1 DEF ControlChecks
<1>5. ControlCheck(c, res2, found2).fail > 0
      BY <1>3, <1>4, SameCheck
<1>6. c \in DOMAIN details
      BY <1>2, <1>3, <1>4 DEF ControlChecksDetails
<1> QED BY <1>2, <1>3, <1>4, <1>5, <1>6, FailuresAgree

-----------------------------------------------------------------------------
(* What is stored was made by a pass                                        *)

\* The initial states satisfy the invariant.
LEMMA InitMade == Init => MInv
<1> SUFFICES ASSUME Init PROVE MInv
    OBVIOUS
<1> QED BY DEF Init, MInv, WorkMade, ReportMade, DetailMade, Results

\* Collecting the results makes status and details together.
LEMMA CollectMakes ==
  ASSUME MInv, CollectResults
  PROVE  WorkMade'
<1>1. PICK failed \in {{}} \cup {{l} : l \in ResourceLists} :
        LET found == CheckIdsToResults(results, ResourceLists \ failed)
        IN work' = [pc |-> "detail", from |-> {<<x, results[x[1]][x[2]]>> : x \in found},
                    checks |-> ControlChecks(results, found),
                    details |-> ControlChecksDetails(results, found)]
      BY DEF CollectResults
<1> DEFINE found == CheckIdsToResults(results, ResourceLists \ failed)
           from == Findings(results, found)
<1>2. found \in SUBSET (Items \X Checks)
      BY DEF CheckIdsToResults
<1>3. Made(from, ControlChecks(results, found), ControlChecksDetails(results, found))
      BY <1>2 DEF Made, MInv
<1>4. work' = [pc |-> "detail", from |-> from, checks |-> ControlChecks(results, found),
               details |-> ControlChecksDetails(results, found)]
      BY <1>1 DEF Findings
<1> HIDE DEF found, from
<1> QED BY <1>3, <1>4 DEF WorkMade

\* A pass that goes on to write the status keeps what it made.
LEMMA StatusKeeps ==
  ASSUME WorkMade, work # Idle, work.pc = "detail"
  PROVE  LET w == [work EXCEPT !.pc = "status"]
         IN \E from, checks, details :
              /\ w = [pc |-> "status", from |-> from, checks |-> checks, details |-> details]
              /\ work.from = from /\ work.details = details
              /\ Made(from, checks, details)
<1>1. PICK p, from, checks, details :
        /\ work = [pc |-> p, from |-> from, checks |-> checks, details |-> details]
        /\ p # "collect" => Made(from, checks, details)
      BY DEF WorkMade
<1>2. p = "detail" /\ work.from = from /\ work.details = details
      BY <1>1
<1>3. [work EXCEPT !.pc = "status"] =
        [pc |-> "status", from |-> from, checks |-> checks, details |-> details]
      BY <1>1
<1> QED BY <1>1, <1>2, <1>3

\* Every step keeps the invariant.
LEMMA MadeStep ==
  ASSUME MInv, [Next]_vars
  PROVE  MInv'
<1> USE DEF MInv
<1>1. CASE Tick
      BY <1>1 DEF Tick, reportVars, detailVars, WorkMade, ReportMade, DetailMade
<1>2. CASE Edit
  <2>1. results' \in Results
        BY <1>2 DEF Edit, Results
  <2> QED BY <1>2, <2>1 DEF Edit, detailVars, WorkMade, ReportMade, DetailMade
<1>3. CASE SyncReport
      BY <1>3 DEF SyncReport, sourceVars, detailVars, WorkMade, ReportMade, DetailMade
<1>4. CASE SyncDetail
      BY <1>4 DEF SyncDetail, sourceVars, reportVars, WorkMade, ReportMade, DetailMade
<1>5. CASE FireDelayed
      BY <1>5 DEF FireDelayed, sourceVars, reportVars, detailVars, WorkMade, ReportMade, DetailMade
<1>6. CASE Reconcile
  <2>1. WorkMade'
    <3>1. CASE UNCHANGED work
          BY <3>1 DEF WorkMade
    <3>2. CASE work' = [pc |-> "collect", from |-> {}, checks |-> NoChecks, details |-> NoChecks]
          BY <3>2 DEF WorkMade
    <3> QED BY <1>6, <3>1, <3>2 DEF Reconcile
  <2> QED BY <1>6, <2>1 DEF Reconcile, sourceVars, reportVars, detailVars, ReportMade, DetailMade
<1>7. CASE CollectResults
  <2>1. WorkMade'
        BY <1>7, CollectMakes
  <2> QED BY <1>7, <2>1 DEF CollectResults, sourceVars, reportVars, detailVars, ReportMade, DetailMade
<1>8. CASE WriteDetail
  <2>1. PICK from, checks, details :
          /\ [work EXCEPT !.pc = "status"] =
               [pc |-> "status", from |-> from, checks |-> checks, details |-> details]
          /\ work.from = from /\ work.details = details
          /\ Made(from, checks, details)
        BY <1>8, StatusKeeps DEF WriteDetail
  <2>2. WorkMade'
    <3>1. CASE work' = Idle
          BY <3>1 DEF WorkMade
    <3>2. CASE work' = [work EXCEPT !.pc = "status"]
          BY <2>1, <3>2 DEF WorkMade
    <3> QED BY <1>8, <3>1, <3>2 DEF WriteDetail, Retry
  <2>3. DetailMade'
    <3>1. CASE UNCHANGED detail
          BY <3>1 DEF DetailMade
    <3>2. CASE detail' = [checks |-> work.details, from |-> work.from]
          BY <2>1, <3>2 DEF DetailMade
    <3> QED BY <1>8, <3>1, <3>2 DEF WriteDetail, detailVars
  <2> QED BY <1>8, <2>2, <2>3 DEF WriteDetail, sourceVars, reportVars, ReportMade
<1>9. CASE UpdateStatus
  <2>1. WorkMade'
    <3>1. work' = Idle
          BY <1>9 DEF UpdateStatus, Retry
    <3> QED BY <3>1 DEF WorkMade
  <2>2. ReportMade'
    <3>1. CASE UNCHANGED report
          BY <3>1 DEF ReportMade
    <3>2. CASE /\ report'.from = work.from
               /\ report'.checks = work.checks \/ report'.checks = NoChecks
      <4>1. \E details : Made(work.from, work.checks, details)
            BY <1>9 DEF UpdateStatus, WorkMade
      <4> QED BY <3>2, <4>1 DEF ReportMade
    <3> QED BY <1>9, <3>1, <3>2 DEF UpdateStatus, reportVars
  <2> QED BY <1>9, <2>1, <2>2 DEF UpdateStatus, sourceVars, detailVars, DetailMade
<1>10. CASE UNCHANGED vars
      BY <1>10 DEF vars, WorkMade, ReportMade, DetailMade
<1> QED BY <1>1, <1>2, <1>3, <1>4, <1>5, <1>6, <1>7, <1>8, <1>9, <1>10 DEF Next, Controller

\* What passes have made agrees.
LEMMA MadeSuffices == MInv => FailuresHaveDetails
<1> SUFFICES ASSUME MInv, detail # NoDetail, detail.from = report.from,
                    NEW c \in DOMAIN report.checks, report.checks[c].fail > 0, KindsOf[c] # {}
             PROVE  c \in DOMAIN detail.checks /\ (FailEntriesLimit > 0 => detail.checks[c] # {})
    BY DEF FailuresHaveDetails
<1>1. report.checks # NoChecks
      BY DEF NoChecks
<1>2. \E details : Made(report.from, report.checks, details)
      BY <1>1 DEF MInv, ReportMade
<1>3. \E checks : Made(report.from, checks, detail.checks)
      BY DEF MInv, DetailMade
<1> QED BY <1>2, <1>3, MadeAgree

-----------------------------------------------------------------------------
(* Types                                                                    *)

\* Rounding down to a multiple.
LEMMA RoundDown ==
  ASSUME NEW t \in Int, NEW p \in Int, p > 0
  PROVE  t \div p \in Int /\ (t \div p) * p <= t /\ t < (t \div p) * p + p
<1>1. t \div p \in Int
      OBVIOUS
<1>2. (t \div p) * p <= t
      OBVIOUS
<1>3. t < (t \div p) * p + p
      OBVIOUS
<1> QED BY <1>1, <1>2, <1>3

\* The next activation comes within a period.
LEMMA CronNext ==
  ASSUME NEW t \in Nat
  PROVE  NextCron(t) \in Int /\ NextCron(t) > t /\ NextCron(t) <= t + Period
<1> DEFINE q == t \div Period
<1>0. Period \in Nat \ {0}
      BY ConstantsAssumption
<1>1. Period \in Int /\ Period > 0
      BY <1>0
<1>2. q \in Int /\ q * Period <= t /\ t < q * Period + Period
      BY <1>1, RoundDown
<1>3. NextCron(t) = (q + 1) * Period
      BY DEF NextCron
<1> HIDE DEF q
<1>4. (q + 1) * Period = q * Period + Period /\ q * Period \in Int
      BY <1>1, <1>2
<1> QED BY <1>1, <1>2, <1>3, <1>4

\* What a pass makes shows all mapped controls or none.
LEMMA MadeDomain ==
  ASSUME NEW from, NEW checks, NEW details, Made(from, checks, details)
  PROVE  DOMAIN checks \in {{}, Mapped}
BY DEF Made, ControlChecks

\* Every step keeps the types.
LEMMA TypeStep ==
  ASSUME TypeOK, MInv, [Next]_vars
  PROVE  TypeOK'
<1>0. /\ MaxTime \in Nat /\ MaxEdits \in Nat /\ MaxFaults \in Nat /\ Period \in Nat \ {0}
      /\ now \in 0..MaxTime /\ due \in -1..(MaxTime + Period)
      /\ edits \in 0..MaxEdits /\ faults \in 0..MaxFaults
      BY ConstantsAssumption DEF TypeOK
<1>1. results' \in [Items -> [Checks -> Statuses \cup {"none"}]]
      BY MadeStep DEF MInv, Results
<1>2. work' # Idle => work'.pc \in {"collect", "detail", "status"}
      BY MadeStep DEF MInv, WorkMade
<1>3. DOMAIN report'.checks \in {{}, Mapped}
  <2>1. DOMAIN NoChecks = {}
        BY DEF NoChecks
  <2> QED BY <2>1, MadeStep, MadeDomain DEF MInv, ReportMade
<1>4. now' \in 0..MaxTime /\ now <= now'
      BY <1>0 DEF Next, Controller, vars, Tick, Edit, SyncReport, SyncDetail, FireDelayed, Reconcile,
                  CollectResults, WriteDetail, UpdateStatus, sourceVars
<1>5. edits' \in 0..MaxEdits /\ faults' \in 0..MaxFaults
  <2>1. \/ UNCHANGED boundVars
        \/ Fault
        \/ edits < MaxEdits /\ edits' = edits + 1 /\ UNCHANGED faults
    <3>1. CASE CollectResults
          BY <3>1 DEF CollectResults
    <3>2. CASE WriteDetail \/ UpdateStatus
          BY <3>2 DEF WriteDetail, UpdateStatus
    <3> QED BY <3>1, <3>2 DEF Next, Controller, vars, Tick, Edit, SyncReport, SyncDetail, FireDelayed,
               Reconcile, boundVars
  <2> QED BY <1>0, <2>1 DEF Fault, boundVars
<1>6. report'.updated \in 0..now'
  <2>1. report.updated \in 0..now
        BY DEF TypeOK
  <2>2. CASE UpdateStatus
        BY <1>0, <2>1, <2>2 DEF UpdateStatus, sourceVars, reportVars
  <2>3. CASE UNCHANGED report
        BY <1>0, <1>4, <2>1, <2>3
  <2> QED BY <2>2, <2>3 DEF Next, Controller, vars, Tick, Edit, SyncReport, SyncDetail, FireDelayed,
             Reconcile, CollectResults, WriteDetail, sourceVars, reportVars
<1>7. cReport'.updated \in 0..now' /\ DOMAIN cReport'.checks \in {{}, Mapped}
  <2>1. \A r \in {report, cReport} : r.updated \in 0..now /\ DOMAIN r.checks \in {{}, Mapped}
        BY DEF TypeOK
  <2>2. CASE SyncReport
        BY <1>0, <1>4, <2>1, <2>2 DEF SyncReport
  <2>3. CASE UNCHANGED cReport
        BY <1>0, <1>4, <2>1, <2>3
  <2> QED BY <2>2, <2>3 DEF Next, Controller, vars, Tick, Edit, SyncDetail, FireDelayed,
             Reconcile, CollectResults, WriteDetail, UpdateStatus, sourceVars, reportVars
<1>8. due' \in -1..(MaxTime + Period)
  <2>1. CASE Reconcile
    <3>1. cReport.updated \in Nat /\ cReport.updated <= MaxTime
          BY <1>0 DEF TypeOK
    <3>2. NextCron(cReport.updated) \in Int /\ NextCron(cReport.updated) > cReport.updated
          /\ NextCron(cReport.updated) <= cReport.updated + Period
          BY <3>1, CronNext
    <3>3. now + (NextCron(cReport.updated) - now) = NextCron(cReport.updated)
          BY <1>0, <3>2
    <3> QED BY <1>0, <2>1, <3>1, <3>2, <3>3 DEF Reconcile
  <2>2. CASE FireDelayed
        BY <1>0, <2>2 DEF FireDelayed
  <2>3. CASE UNCHANGED due
        BY <1>0, <2>3
  <2> QED BY <2>1, <2>2, <2>3 DEF Next, Controller, vars, Tick, Edit, SyncReport, SyncDetail,
             CollectResults, WriteDetail, UpdateStatus, Retry, keyVars
<1> QED BY <1>1, <1>2, <1>3, <1>4, <1>5, <1>6, <1>7, <1>8 DEF TypeOK

\* The times, the queue and the reports of the controller keep their types; the
\* next generation is never scheduled later than one period after the last time
\* (clustercompliancereport.go).
THEOREM TypeCorrect == Spec => []TypeOK
<1>1. Init => TypeOK
  <2> SUFFICES ASSUME Init PROVE TypeOK
      OBVIOUS
  <2>1. /\ MaxTime \in Nat /\ MaxEdits \in Nat /\ MaxFaults \in Nat /\ Period \in Nat \ {0}
        BY ConstantsAssumption
  <2>2. DOMAIN NoChecks = {}
        BY DEF NoChecks
  <2>3. /\ report.updated = 0 /\ report.checks = NoChecks /\ cReport = report /\ now = 0
        BY DEF Init
  <2>4. \A r \in {report, cReport} : r.updated \in 0..now /\ DOMAIN r.checks \in {{}, Mapped}
        BY <2>2, <2>3
  <2> QED BY <2>1, <2>4 DEF Init, TypeOK
<1>2. TypeOK /\ MInv /\ [Next]_vars => (TypeOK /\ MInv)'
      BY TypeStep, MadeStep
<1> QED BY <1>1, <1>2, InitMade, PTL DEF Spec

\* GenerateComplianceReport never counts failures of a control that the detail
\* report from the same findings leaves out, or for which it has no entry although
\* the limit allows one, for any reports, statuses and defaults, any integer as
\* limit, and however passes are interrupted between the write of the detail
\* report and that of the status (io.go).
THEOREM DetailsFound == Spec => []FailuresHaveDetails
<1>1. MInv /\ [Next]_vars => MInv'
      BY MadeStep
<1>2. Spec => []MInv
      BY InitMade, <1>1, PTL DEF Spec
<1> QED BY <1>2, MadeSuffices, PTL
===============================================================================
