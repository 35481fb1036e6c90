----------------------------- MODULE PolicyAudit -----------------------------
(***************************************************************************)
(* Audits by Rego policies: which policies of a ConfigMap apply to a kind  *)
(* of resource, what their evaluation reports, and the hash by which a     *)
(* stored report is taken for current (pkg/policy/policy.go, used by       *)
(* pkg/configauditreport/scanner.go and by the built-in controllers).      *)
(* The Conftest plugin (pkg/plugin/conftest) selects and hashes policies   *)
(* in the same way and evaluates them in a scan job, whose output it       *)
(* parses.                                                                 *)
(*                                                                         *)
(* A Rego script is an element of Scripts; Meaning says what OPA makes of  *)
(* it.  Users edit the ConfigMap key by key.                               *)
(***************************************************************************)
EXTENDS Naturals, FiniteSets

CONSTANTS
  Policies, Libraries,
  Colliding,          \* <<p, l>>: policy p and library l have the same base name
  Kinds, WorkloadKinds,
  KindLists,          \* values of a .kinds key: sets of kinds, "*" and "Workload"
  Scripts, Meaning,
  NoReport, NoJob, Error,
  MaxEdits            \* bound on edits by users

\* What StringToSeverity returns, and the severities a summary has a count for.
Severities == {"CRITICAL", "HIGH", "MEDIUM", "LOW", "NONE", "UNKNOWN"}
Counted == {"CRITICAL", "HIGH", "MEDIUM", "LOW"}

\* __rego_metadata__ is an object from which NewMetadata gets every value; one
\* without a required value or not defined at all; or not an object.
Metadata == {"complete", "incomplete", "notObject"}

\* parses: the module compiles; deny and warn: the bindings of the rule, of which
\* objects are objects and messages have a message.
Bindings == [total : 0..2, objects : 0..2, messages : 0..2]
ScriptMeaning == [parses : BOOLEAN, metadata : Metadata, severity : Severities,
                  deny : Bindings, warn : Bindings]

Partial(D, R) == UNION {[E -> R] : E \in SUBSET D}

ASSUME ConstantsAssumption ==
  /\ IsFiniteSet(Policies)
  /\ WorkloadKinds \subseteq Kinds
  /\ Colliding \subseteq Policies \X Libraries
  /\ Meaning \in [Scripts -> ScriptMeaning]
  /\ Error \notin Partial(Policies, Scripts)
  /\ Error \notin [policy : Partial(Policies, Scripts), library : Partial(Libraries, Scripts)]
  /\ MaxEdits \in Nat

Check == [policy : Policies, severity : Severities, success : BOOLEAN]

VARIABLES
  conftest,           \* audits by the Conftest plugin, not the built-in ones
  data,               \* the ConfigMap: policy, kinds and library keys
  build, job,         \* build[k], job[k]: the scan job for the resource of kind k while it
                      \* is built, and once it exists, or NoJob
  report, edits

vars == <<conftest, data, build, job, report, edits>>

Init ==
  /\ conftest \in BOOLEAN
  /\ data = [policy |-> <<>>, kinds |-> <<>>, library |-> <<>>]
  /\ build = [k \in Kinds |-> NoJob] /\ job = build /\ report = [k \in Kinds |-> NoReport]
  /\ edits = 0

-----------------------------------------------------------------------------
Put(f, x, v) == [y \in DOMAIN f \cup {x} |-> IF y = x THEN v ELSE f[y]]
Drop(f, x) == [y \in DOMAIN f \ {x} |-> f[y]]

\* kubectl edits or patches one key at a time.
EditData ==
  /\ edits < MaxEdits /\ edits' = edits + 1
  /\ \/ \E p \in Policies, s \in Scripts : data' = [data EXCEPT !.policy = Put(@, p, s)]
     \/ \E p \in Policies, ks \in KindLists : data' = [data EXCEPT !.kinds = Put(@, p, ks)]
     \/ \E l \in Libraries, s \in Scripts : data' = [data EXCEPT !.library = Put(@, l, s)]
     \/ \E p \in DOMAIN data.policy : data' = [data EXCEPT !.policy = Drop(@, p)]
     \/ \E p \in DOMAIN data.kinds : data' = [data EXCEPT !.kinds = Drop(@, p)]
     \/ \E l \in DOMAIN data.library : data' = [data EXCEPT !.library = Drop(@, l)]
  /\ UNCHANGED <<conftest, build, job, report>>

-----------------------------------------------------------------------------
(* policy.Policies, and the same methods of conftest.Config                 *)

Applies(ks, kind) == \/ kind \in ks \/ "*" \in ks
                     \/ "Workload" \in ks /\ kind \in WorkloadKinds

\* A policy without kinds is an error for every kind, kinds without a policy
\* for the kinds they name.
PoliciesByKind(d, kind) ==
  LET applied == {p \in DOMAIN d.kinds : Applies(d.kinds[p], kind)}
  IN IF ~(DOMAIN d.policy \subseteq DOMAIN d.kinds) \/ ~(applied \subseteq DOMAIN d.policy)
     THEN Error
     ELSE [p \in applied |-> d.policy[p]]

ModulesByKind(d, kind) ==
  LET policies == PoliciesByKind(d, kind)
  IN IF policies = Error THEN Error ELSE [policy |-> policies, library |-> d.library]

\* Mutant: the libraries are not part of the hash.
HashOfPolicies(d, kind) ==
  LET policies == PoliciesByKind(d, kind)
  IN IF policies = Error THEN Error ELSE [policy |-> policies, library |-> <<>>]

\* The hash is taken of the modules.
Hash(d, kind) == ModulesByKind(d, kind)

Applicable(d, kind) ==
  LET policies == PoliciesByKind(d, kind)
  IN policies # Error /\ DOMAIN policies # {}

\* hasBindings: every binding is an object.
HasBindings(b) == b.total > 0 /\ b.objects = b.total
\* valuesToResults: every object has a message.
Valid(b) == HasBindings(b) => b.messages = b.total

\* Mutant: both rules add their result.
EvalBoth(p, s) ==
  LET m == Meaning[s]
      check(ok) == [policy |-> p, severity |-> m.severity, success |-> ok]
  IN {check(~HasBindings(m.deny)), check(~HasBindings(m.warn))}

\* The warn rule is evaluated only when the deny rule has no results.
EvalPolicy(p, s) ==
  LET m == Meaning[s]
  IN {[policy |-> p, severity |-> m.severity,
       success |-> ~HasBindings(m.deny) /\ ~HasBindings(m.warn)]}

\* hasBinding asserts the type of the metadata before it looks at ok: metadata
\* that is not an object panics, which ends the operator or the command.
EvalPanics(s) == Meaning[s].parses /\ Meaning[s].metadata = "notObject"

EvalFails(s) ==
  LET m == Meaning[s]
  IN \/ ~m.parses \/ m.metadata = "incomplete"
     \/ ~Valid(m.deny)
     \/ ~HasBindings(m.deny) /\ ~Valid(m.warn)

\* Libraries are parsed with every policy; one failure fails the evaluation.
\* Whether an error is returned or the process ends, there are no results.
Eval(d, kind) ==
  LET policies == PoliciesByKind(d, kind)
  IN IF policies = Error THEN Error
     ELSE IF \E p \in DOMAIN policies : \/ EvalPanics(policies[p]) \/ EvalFails(policies[p])
                                        \/ \E l \in DOMAIN d.library : ~Meaning[d.library[l]].parses
     THEN Error
     ELSE UNION {EvalPolicy(p, policies[p]) : p \in DOMAIN policies}

\* v1alpha1.ConfigAuditSummaryFromChecks: NONE and UNKNOWN have no count.
ConfigAuditSummaryFromChecks(checks) ==
  [s \in Counted |-> Cardinality({c \in checks : ~c.success /\ c.severity = s})]

-----------------------------------------------------------------------------
(* Scanner.Scan: the ConfigMap is read once.                                *)
Scan(k) ==
  /\ ~conftest
  /\ Applicable(data, k) /\ Eval(data, k) # Error
  /\ report' = [report EXCEPT ![k] =
                  [hash |-> Hash(data, k), torn |-> FALSE, checks |-> Eval(data, k),
                   summary |-> ConfigAuditSummaryFromChecks(Eval(data, k))]]
  /\ UNCHANGED <<conftest, data, build, job, edits>>

-----------------------------------------------------------------------------
(* The Conftest plugin                                                      *)

\* GetScanJobSpec: modules are mounted by their base names, and the API server
\* rejects a pod with the same mount path twice.  Whether policies apply and whether
\* there is a report was asked of earlier reads of the ConfigMap (PluginConfigAudit),
\* so any version may be met here.
MountPathsUnique(modules) ==
  \A p \in DOMAIN modules.policy, l \in DOMAIN modules.library : <<p, l>> \notin Colliding

GetScanJobSpec(k) ==
  /\ conftest /\ job[k] = NoJob /\ build[k] = NoJob
  /\ ModulesByKind(data, k) # Error /\ MountPathsUnique(ModulesByKind(data, k))
  /\ build' = [build EXCEPT ![k] = [modules |-> ModulesByKind(data, k), edits |-> edits]]
  /\ UNCHANGED <<conftest, data, job, report, edits>>

\* The hash of the job's label comes from another read of the ConfigMap; torn says
\* that it was edited in between.
ConfigHash(k) ==
  /\ build[k] # NoJob
  /\ build' = [build EXCEPT ![k] = NoJob]
  /\ job' = IF Hash(data, k) = Error THEN job
            ELSE [job EXCEPT ![k] = [modules |-> build[k].modules, hash |-> Hash(data, k),
                                     torn |-> edits # build[k].edits]]
  /\ UNCHANGED <<conftest, data, report, edits>>

\* conftest evaluates the copies in the job's secret: failures and warnings are
\* what deny and warn report, whatever they bind.  With a script that does not
\* compile it prints an error instead of JSON; --no-fail and the shell end with 0.
Findings(modules) ==
  UNION {LET m == Meaning[modules.policy[p]]
         IN (IF m.deny.total > 0 THEN {[policy |-> p, severity |-> "CRITICAL", success |-> FALSE]}
             ELSE {})
            \cup (IF m.warn.total > 0 THEN {[policy |-> p, severity |-> "LOW", success |-> FALSE]}
                  ELSE {}) : p \in DOMAIN modules.policy}
Compiles(modules) ==
  /\ \A p \in DOMAIN modules.policy : Meaning[modules.policy[p]].parses
  /\ \A l \in DOMAIN modules.library : Meaning[modules.library[l]].parses

\* ParseConfigAuditReportData: the error of the decoder is overwritten by the
\* next assignment, so what cannot be decoded has no findings.
ParsedFindings(modules) == IF Compiles(modules) THEN Findings(modules) ELSE {}

ParseConfigAuditReportData(k) ==
  /\ job[k] # NoJob
  /\ LET checks == ParsedFindings(job[k].modules)
     IN report' = [report EXCEPT ![k] =
                     [hash |-> job[k].hash, torn |-> job[k].torn, checks |-> checks,
                      summary |-> ConfigAuditSummaryFromChecks(checks)]]
  /\ job' = [job EXCEPT ![k] = NoJob]
  /\ UNCHANGED <<conftest, data, build, edits>>

Next ==
  \/ EditData
  \/ \E k \in Kinds : Scan(k) \/ GetScanJobSpec(k) \/ ConfigHash(k) \/ ParseConfigAuditReportData(k)

Spec == Init /\ [][Next]_vars

-----------------------------------------------------------------------------
\* Every variable has its type, and reports are made only of policies that
\* apply: the hash of a report is never that of an error, nor, of the built-in
\* scanner, that of no policy.
TypeOK ==
  /\ conftest \in BOOLEAN
  /\ data \in [policy : Partial(Policies, Scripts), kinds : Partial(Policies, KindLists),
               library : Partial(Libraries, Scripts)]
  /\ \A k \in Kinds : report[k] # NoReport =>
       /\ report[k].hash # Error /\ (~conftest => DOMAIN report[k].hash.policy # {})
       /\ report[k].checks \subseteq Check
  /\ edits \in 0..MaxEdits

\* A report whose hash is that of the current policies holds the checks that
\* evaluating them again would give: hasReport may skip the evaluation, by the
\* operator or by a scan job (policy.go Hash, conftest plugin.go ConfigHash,
\* and hasReport of their controllers).  The exception is a ConfigMap that was
\* edited between the two reads of the job builder.
HashIdentifiesResults ==
  \A k \in Kinds : report[k] # NoReport /\ ~report[k].torn /\ Hash(data, k) = report[k].hash =>
    report[k].checks = IF conftest THEN ParsedFindings(ModulesByKind(data, k)) ELSE Eval(data, k)

\* Every applicable policy is in the report with exactly one check, and the
\* summary counts exactly the failed ones of the severities it has a count for:
\* a failed policy of severity NONE or UNKNOWN is in the checks and in no count
\* (policy.go Eval, ConfigAuditSummaryFromChecks).
OneCheckPerPolicy ==
  \A k \in Kinds : ~conftest /\ report[k] # NoReport =>
    /\ \A p \in DOMAIN report[k].hash.policy :
         Cardinality({c \in report[k].checks : c.policy = p}) = 1
    /\ LET summary == report[k].summary
       IN summary["CRITICAL"] + summary["HIGH"] + summary["MEDIUM"] + summary["LOW"]
            = Cardinality({c \in report[k].checks : ~c.success /\ c.severity \in Counted})
==============================================================================
