---------------------------- MODULE PluginProofs ----------------------------
(***************************************************************************)
(* Proofs about the scanner plugins: audits by Rego policies (PolicyAudit, *)
(* which this module extends), the Aqua plugin and the Trivy plugin        *)
(* (instances).  The models are independent of each other, also where they *)
(* use the same name for a variable; a theorem about an instance assumes   *)
(* what its module assumes of the constants.                               *)
(*                                                                         *)
(* Policies: for all sets of policies, libraries, kinds and scripts,       *)
(* whatever the scripts mean.  That a hash identifies the results is not   *)
(* inductive: an edit may bring back the policies of an old report.        *)
(* ResultsOfHash, which does not mention the current policies, is: what a  *)
(* report holds is determined by its hash.                                 *)
(***************************************************************************)
EXTENDS PolicyAudit, Sequences, FiniteSetTheorems, WellFoundedInduction, TLAPS

CONSTANTS Containers, Images, ImageOf, RepositoryOf, RegistryCount, HasPrefix, Configs, Secrets,
          Missing, Unset, Idle, MaxFaults

VARIABLES cfg, sec, env, pc, lookup, result, known, faults

Aqua == INSTANCE AquaScan

CONSTANTS Registries, RegistryOf, Extends, PodSecrets, AccountSecrets, SecretContents,
          Anonymous, Accepts, SelfSigned, InitConfigs, SameNamespace, Pods, Nodes,
          NoRegistry, NoNode

VARIABLES secret, pods, cached, wake, building, creds, regcred

Trivy == INSTANCE TrivyScan

Modules == [policy : Partial(Policies, Scripts), library : Partial(Libraries, Scripts)]
Data == [policy : Partial(Policies, Scripts), kinds : Partial(Policies, KindLists),
         library : Partial(Libraries, Scripts)]

\* Eval, as a function of the modules.
EvalModules(m) ==
  IF \E p \in DOMAIN m.policy : \/ EvalPanics(m.policy[p]) \/ EvalFails(m.policy[p])
                                \/ \E l \in DOMAIN m.library : ~Meaning[m.library[l]].parses
  THEN Error
  ELSE UNION {EvalPolicy(p, m.policy[p]) : p \in DOMAIN m.policy}

\* Jobs are labelled with the hash of the modules they mount, unless torn.
JobsLabelled ==
  /\ build \in [Kinds -> [modules : Modules, edits : Nat] \cup {NoJob}]
  /\ job \in [Kinds -> [modules : Modules, hash : Modules, torn : BOOLEAN] \cup {NoJob}]
  /\ \A k \in Kinds : build[k] # NoJob => build[k].edits <= edits
  /\ \A k \in Kinds : build[k] # NoJob /\ build[k].edits = edits => build[k].modules = ModulesByKind(data, k)
  /\ \A k \in Kinds : job[k] # NoJob /\ ~job[k].torn => job[k].modules = job[k].hash
  /\ \A k \in Kinds : build[k] # NoJob \/ job[k] # NoJob => conftest

\* What a report holds is determined by its hash.
ResultsOfHash ==
  /\ DOMAIN report = Kinds
  /\ \A k \in Kinds : report[k] # NoReport =>
       /\ report[k].hash \in Modules
       /\ ~report[k].torn => report[k].checks = IF conftest THEN ParsedFindings(report[k].hash)
                                                ELSE EvalModules(report[k].hash)

\* Reports of the built-in scanner are never torn, nor of a failed evaluation, and
\* every summary is that of the checks next to it.
SummaryOfChecks ==
  \A k \in Kinds : report[k] # NoReport =>
    /\ ~conftest => ~report[k].torn /\ report[k].checks # Error
    /\ report[k].summary = ConfigAuditSummaryFromChecks(report[k].checks)

IInv == TypeOK /\ JobsLabelled /\ ResultsOfHash /\ SummaryOfChecks

-----------------------------------------------------------------------------
(* Operators                                                                *)

\* Edits of a key give a partial function again.
LEMMA PartialFunctions ==
  ASSUME NEW D, NEW R, NEW f \in Partial(D, R), NEW x
  PROVE  /\ DOMAIN f \subseteq D /\ \A y \in DOMAIN f : f[y] \in R
         /\ Drop(f, x) \in Partial(D, R)
         /\ \A v \in R : x \in D => Put(f, x, v) \in Partial(D, R)
<1>1. PICK E \in SUBSET D : f \in [E -> R]
      BY DEF Partial
<1>2. Drop(f, x) \in [E \ {x} -> R]
      BY <1>1 DEF Drop
<1>3. \A v \in R : Put(f, x, v) \in [E \cup {x} -> R]
      BY <1>1 DEF Put
<1> QED BY <1>1, <1>2, <1>3 DEF Partial

\* The policies that apply are part of those of the ConfigMap.
LEMMA PoliciesByKindType ==
  ASSUME NEW d \in Data, NEW k, PoliciesByKind(d, k) # Error
  PROVE  PoliciesByKind(d, k) \in Partial(Policies, Scripts)
<1> DEFINE applied == {p \in DOMAIN d.kinds : Applies(d.kinds[p], k)}
<1>1. d.policy \in Partial(Policies, Scripts)
      BY DEF Data
<1>2. applied \subseteq DOMAIN d.policy /\ PoliciesByKind(d, k) = [p \in applied |-> d.policy[p]]
      BY DEF PoliciesByKind
<1>3. DOMAIN d.policy \subseteq Policies /\ \A p \in DOMAIN d.policy : d.policy[p] \in Scripts
      BY <1>1, PartialFunctions
<1> HIDE DEF applied
<1>4. [p \in applied |-> d.policy[p]] \in [applied -> Scripts] /\ applied \in SUBSET Policies
      BY <1>2, <1>3
<1> QED BY <1>2, <1>4 DEF Partial

\* Modules are an error exactly when the policies are.
LEMMA ModulesByKindType ==
  ASSUME NEW d \in Data, NEW k
  PROVE  /\ PoliciesByKind(d, k) = Error <=> ModulesByKind(d, k) = Error
         /\ ModulesByKind(d, k) # Error =>
              /\ ModulesByKind(d, k) \in Modules
              /\ ModulesByKind(d, k) = [policy |-> PoliciesByKind(d, k), library |-> d.library]
<1>1. CASE PoliciesByKind(d, k) = Error
      BY <1>1 DEF ModulesByKind
<1>2. CASE PoliciesByKind(d, k) # Error
  <2>1. ModulesByKind(d, k) = [policy |-> PoliciesByKind(d, k), library |-> d.library]
        BY <1>2 DEF ModulesByKind
  <2>2. PoliciesByKind(d, k) \in Partial(Policies, Scripts) /\ d.library \in Partial(Libraries, Scripts)
        BY <1>2, PoliciesByKindType DEF Data
  <2>3. ModulesByKind(d, k) \in Modules
        BY <2>1, <2>2 DEF Modules
  <2> QED BY <1>2, <2>1, <2>3, ConstantsAssumption DEF Modules
<1> QED BY <1>1, <1>2

\* The evaluation depends on the modules alone, which are what is hashed.
LEMMA EvalIsOfModules ==
  ASSUME NEW d \in Data, NEW k, Hash(d, k) # Error
  PROVE  Eval(d, k) = EvalModules(Hash(d, k))
<1>1. /\ PoliciesByKind(d, k) # Error
      /\ Hash(d, k) = [policy |-> PoliciesByKind(d, k), library |-> d.library]
      BY ModulesByKindType DEF Hash
<1> DEFINE m == Hash(d, k)
<1>2. m.policy = PoliciesByKind(d, k) /\ m.library = d.library
      BY <1>1
<1> HIDE DEF m
<1>3. Eval(d, k) = EvalModules(m)
      BY <1>1, <1>2 DEF Eval, EvalModules
<1> QED BY <1>3 DEF m

\* Evaluations and parsed findings are checks of policies.
LEMMA ChecksType ==
  ASSUME NEW m \in Modules
  PROVE  /\ EvalModules(m) # Error => EvalModules(m) \subseteq Check
         /\ ParsedFindings(m) \subseteq Check
<1>1. m.policy \in Partial(Policies, Scripts)
      BY DEF Modules
<1>2. \A p \in DOMAIN m.policy : p \in Policies /\ m.policy[p] \in Scripts
      BY <1>1, PartialFunctions
<1>3. \A s \in Scripts : Meaning[s].severity \in Severities
      BY ConstantsAssumption DEF ScriptMeaning
<1>4. \A p \in DOMAIN m.policy : EvalPolicy(p, m.policy[p]) \subseteq Check
      BY <1>2, <1>3 DEF EvalPolicy, Check
<1>5. EvalModules(m) # Error => EvalModules(m) \subseteq Check
      BY <1>4 DEF EvalModules
<1>6. Findings(m) \subseteq Check
  <2>1. \A p \in Policies : /\ [policy |-> p, severity |-> "CRITICAL", success |-> FALSE] \in Check
                            /\ [policy |-> p, severity |-> "LOW", success |-> FALSE] \in Check
        BY DEF Check, Severities
  <2> QED BY <1>2, <2>1 DEF Findings
<1> QED BY <1>5, <1>6 DEF ParsedFindings

\* An evaluation that succeeds has exactly one check for every policy.
LEMMA ChecksOfPolicies ==
  ASSUME NEW m \in Modules, EvalModules(m) # Error
  PROVE  /\ IsFiniteSet(EvalModules(m))
         /\ \A p \in DOMAIN m.policy : Cardinality({c \in EvalModules(m) : c.policy = p}) = 1
<1> DEFINE D == DOMAIN m.policy
           check(p) == [policy |-> p, severity |-> Meaning[m.policy[p]].severity,
                        success |-> ~HasBindings(Meaning[m.policy[p]].deny)
                                    /\ ~HasBindings(Meaning[m.policy[p]].warn)]
           T == {check(p) : p \in D}
           f == [p \in D |-> check(p)]
<1>1. \A p \in D : EvalPolicy(p, m.policy[p]) = {check(p)}
      BY DEF EvalPolicy
<1>2. EvalModules(m) = UNION {EvalPolicy(p, m.policy[p]) : p \in D}
      BY DEF EvalModules
<1>3. EvalModules(m) = T
      BY <1>1, <1>2
<1>4. IsFiniteSet(D)
  <2>1. m.policy \in Partial(Policies, Scripts)
        BY DEF Modules
  <2>2. D \in SUBSET Policies
        BY <2>1, PartialFunctions
  <2> QED BY <2>2, ConstantsAssumption, FS_Subset
<1>5. \A p : check(p).policy = p
      OBVIOUS
<1> HIDE DEF check
<1>6. IsFiniteSet(T)
  <2>1. f \in Surjection(D, T)
        BY DEF Surjection
  <2> QED BY <1>4, <2>1, FS_Surjection
<1>7. ASSUME NEW p \in D PROVE Cardinality({c \in T : c.policy = p}) = 1
  <2>1. {c \in T : c.policy = p} = {check(p)}
        BY <1>5
  <2> QED BY <2>1, FS_Singleton
<1> QED BY <1>3, <1>6, <1>7

\* Disjoint finite sets have the sum of their numbers of elements.
LEMMA DisjointUnion ==
  ASSUME NEW S, NEW T, IsFiniteSet(S), IsFiniteSet(T), S \cap T = {}
  PROVE  /\ IsFiniteSet(S \cup T) /\ Cardinality(S) \in Nat /\ Cardinality(T) \in Nat
         /\ Cardinality(S \cup T) = Cardinality(S) + Cardinality(T)
<1>1. Cardinality(S \cup T) = Cardinality(S) + Cardinality(T) - Cardinality(S \cap T)
      BY FS_Union
<1>2. Cardinality(S \cap T) = 0
      BY FS_EmptySet
<1>3. Cardinality(S) \in Nat /\ Cardinality(T) \in Nat /\ IsFiniteSet(S \cup T)
      BY FS_CardinalityType, FS_Union
<1> QED BY <1>1, <1>2, <1>3

\* The counts of the summary add up to the number of failed checks that have one.
LEMMA SummaryCounts ==
  ASSUME NEW checks \in SUBSET Check, IsFiniteSet(checks)
  PROVE  LET summary == ConfigAuditSummaryFromChecks(checks)
         IN summary["CRITICAL"] + summary["HIGH"] + summary["MEDIUM"] + summary["LOW"]
              = Cardinality({c \in checks : ~c.success /\ c.severity \in Counted})
<1> DEFINE failed == {c \in checks : ~c.success /\ c.severity \in Counted}
           of(s) == {c \in checks : ~c.success /\ c.severity = s}
           high == of("CRITICAL") \cup of("HIGH")
           medium == high \cup of("MEDIUM")
<1>1. \A s : of(s) \in SUBSET checks
      OBVIOUS
<1>2. \A s : IsFiniteSet(of(s)) /\ Cardinality(of(s)) \in Nat
      BY <1>1, FS_Subset, FS_CardinalityType
<1>3. \A s, t : s # t => of(s) \cap of(t) = {}
      OBVIOUS
<1>4. failed = medium \cup of("LOW")
      BY DEF Counted
<1>5. /\ of("CRITICAL") \cap of("HIGH") = {} /\ high \cap of("MEDIUM") = {}
      /\ medium \cap of("LOW") = {}
      OBVIOUS
<1> HIDE DEF of, failed
<1>6. IsFiniteSet(high) /\ Cardinality(high) = Cardinality(of("CRITICAL")) + Cardinality(of("HIGH"))
      BY <1>2, <1>5, DisjointUnion
<1>7. IsFiniteSet(medium) /\ Cardinality(medium) = Cardinality(high) + Cardinality(of("MEDIUM"))
  <2> HIDE DEF high
  <2> QED BY <1>2, <1>5, <1>6, DisjointUnion
<1>8. Cardinality(failed) = Cardinality(medium) + Cardinality(of("LOW"))
  <2> HIDE DEF medium
  <2> QED BY <1>2, <1>4, <1>5, <1>7, DisjointUnion
<1>9. \A s \in Counted : ConfigAuditSummaryFromChecks(checks)[s] = Cardinality(of(s))
      BY DEF ConfigAuditSummaryFromChecks, of
<1> QED BY <1>2, <1>6, <1>7, <1>8, <1>9 DEF Counted, failed

-----------------------------------------------------------------------------
(* The invariant                                                            *)

\* Initially there are no policies, jobs and reports.
LEMMA InitIInv == Init => IInv
<1> SUFFICES ASSUME Init PROVE IInv
    OBVIOUS
<1>1. \A D, R : <<>> \in Partial(D, R)
  <2>1. \A R : <<>> \in [{} -> R]
        OBVIOUS
  <2> QED BY <2>1 DEF Partial
<1>2. TypeOK
      BY <1>1, ConstantsAssumption DEF Init, TypeOK
<1>3. JobsLabelled /\ ResultsOfHash /\ SummaryOfChecks
      BY DEF Init, JobsLabelled, ResultsOfHash, SummaryOfChecks
<1> QED BY <1>2, <1>3 DEF IInv

\* An edit of the ConfigMap gives a ConfigMap.
LEMMA EditType ==
  ASSUME data \in Data, EditData
  PROVE  data' \in Data
<1>1. /\ data.policy \in Partial(Policies, Scripts) /\ data.kinds \in Partial(Policies, KindLists)
      /\ data.library \in Partial(Libraries, Scripts)
      /\ data = [policy |-> data.policy, kinds |-> data.kinds, library |-> data.library]
      BY DEF Data
<1>2. ASSUME NEW p \in Policies, NEW s \in Scripts, data' = [data EXCEPT !.policy = Put(@, p, s)]
      PROVE  data' \in Data
  <2>1. Put(data.policy, p, s) \in Partial(Policies, Scripts)
        BY <1>1, PartialFunctions
  <2> QED BY <1>1, <1>2, <2>1 DEF Data
<1>3. ASSUME NEW p \in Policies, NEW ks \in KindLists, data' = [data EXCEPT !.kinds = Put(@, p, ks)]
      PROVE  data' \in Data
  <2>1. Put(data.kinds, p, ks) \in Partial(Policies, KindLists)
        BY <1>1, PartialFunctions
  <2> QED BY <1>1, <1>3, <2>1 DEF Data
<1>4. ASSUME NEW l \in Libraries, NEW s \in Scripts, data' = [data EXCEPT !.library = Put(@, l, s)]
      PROVE  data' \in Data
  <2>1. Put(data.library, l, s) \in Partial(Libraries, Scripts)
        BY <1>1, PartialFunctions
  <2> QED BY <1>1, <1>4, <2>1 DEF Data
<1>5. ASSUME NEW p \in DOMAIN data.policy, data' = [data EXCEPT !.policy = Drop(@, p)]
      PROVE  data' \in Data
  <2>1. Drop(data.policy, p) \in Partial(Policies, Scripts)
        BY <1>1, PartialFunctions
  <2> QED BY <1>1, <1>5, <2>1 DEF Data
<1>6. ASSUME NEW p \in DOMAIN data.kinds, data' = [data EXCEPT !.kinds = Drop(@, p)]
      PROVE  data' \in Data
  <2>1. Drop(data.kinds, p) \in Partial(Policies, KindLists)
        BY <1>1, PartialFunctions
  <2> QED BY <1>1, <1>6, <2>1 DEF Data
<1>7. ASSUME NEW l \in DOMAIN data.library, data' = [data EXCEPT !.library = Drop(@, l)]
      PROVE  data' \in Data
  <2>1. Drop(data.library, l) \in Partial(Libraries, Scripts)
        BY <1>1, PartialFunctions
  <2> QED BY <1>1, <1>7, <2>1 DEF Data
<1> QED BY <1>2, <1>3, <1>4, <1>5, <1>6, <1>7 DEF EditData

\* An edit changes neither jobs nor reports; a job being built is torn by it.
LEMMA EditKeeps == ASSUME IInv, EditData PROVE IInv'
<1>1. data' \in Data
      BY EditType DEF IInv, TypeOK, Data
<1>2. edits \in Nat /\ edits' = edits + 1 /\ edits' \in 0..MaxEdits
      BY ConstantsAssumption DEF IInv, TypeOK, EditData
<1>3. UNCHANGED <<conftest, build, job, report>>
      BY DEF EditData
<1>4. TypeOK'
      BY <1>1, <1>2, <1>3 DEF IInv, TypeOK, Data
<1>5. \A k \in Kinds : build[k] # NoJob => build[k].edits \in Nat /\ build[k].edits <= edits
      BY DEF IInv, JobsLabelled
<1>6. JobsLabelled'
      BY <1>2, <1>3, <1>5 DEF IInv, JobsLabelled
<1>7. ResultsOfHash' /\ SummaryOfChecks'
      BY <1>3 DEF IInv, ResultsOfHash, SummaryOfChecks
<1> QED BY <1>4, <1>6, <1>7 DEF IInv

\* The built-in scanner evaluates the version of the policies that it hashes.
LEMMA ScanKeeps == ASSUME IInv, NEW k \in Kinds, Scan(k) PROVE IInv'
<1> DEFINE hash == Hash(data, k)
           r == [hash |-> hash, torn |-> FALSE, checks |-> Eval(data, k),
                 summary |-> ConfigAuditSummaryFromChecks(Eval(data, k))]
<1>0. data \in Data
      BY DEF IInv, TypeOK, Data
<1>1. hash # Error /\ hash \in Modules /\ hash.policy = PoliciesByKind(data, k) /\ DOMAIN hash.policy # {}
      BY <1>0, ModulesByKindType DEF Scan, Applicable, Hash
<1>2. Eval(data, k) = EvalModules(hash) /\ Eval(data, k) \subseteq Check /\ Eval(data, k) # Error
      BY <1>0, <1>1, EvalIsOfModules, ChecksType DEF Scan
<1>3. ~conftest /\ report' = [report EXCEPT ![k] = r] /\ UNCHANGED <<conftest, data, build, job, edits>>
      BY DEF Scan
<1>4. /\ r.hash = hash /\ ~r.torn /\ r.checks = EvalModules(hash) /\ r.checks \subseteq Check
      /\ r.checks # Error /\ r.summary = ConfigAuditSummaryFromChecks(r.checks)
      BY <1>2
<1> HIDE DEF hash, r
<1>5. \A q \in Kinds : report'[q] = IF q = k THEN r ELSE report[q]
      BY <1>3 DEF IInv, ResultsOfHash
<1>6. TypeOK'
      BY <1>1, <1>3, <1>4, <1>5 DEF IInv, TypeOK
<1>7. JobsLabelled'
      BY <1>3 DEF IInv, JobsLabelled, ModulesByKind, PoliciesByKind, Applies
<1>8. ResultsOfHash'
      BY <1>1, <1>3, <1>4, <1>5 DEF IInv, ResultsOfHash
<1>9. SummaryOfChecks'
      BY <1>3, <1>4, <1>5 DEF IInv, SummaryOfChecks
<1> QED BY <1>6, <1>7, <1>8, <1>9 DEF IInv

\* A job that is built mounts the current modules.
LEMMA GetScanJobSpecKeeps == ASSUME IInv, NEW k \in Kinds, GetScanJobSpec(k) PROVE IInv'
<1> DEFINE b == [modules |-> ModulesByKind(data, k), edits |-> edits]
<1>1. ModulesByKind(data, k) \in Modules
      BY ModulesByKindType DEF IInv, TypeOK, Data, GetScanJobSpec
<1>2. edits \in Nat
      BY ConstantsAssumption DEF IInv, TypeOK
<1>3. conftest /\ build' = [build EXCEPT ![k] = b] /\ UNCHANGED <<conftest, data, job, report, edits>>
      BY DEF GetScanJobSpec
<1>4. b \in [modules : Modules, edits : Nat] /\ b.modules = ModulesByKind(data, k) /\ b.edits = edits
      BY <1>1, <1>2
<1> HIDE DEF b
<1>5. \A q \in Kinds : build'[q] = IF q = k THEN b ELSE build[q]
      BY <1>3 DEF IInv, JobsLabelled
<1>6. \A q : ModulesByKind(data, q)' = ModulesByKind(data, q)
      BY <1>3 DEF ModulesByKind, PoliciesByKind, Applies
<1>7. JobsLabelled'
      BY <1>2, <1>3, <1>4, <1>5, <1>6 DEF IInv, JobsLabelled
<1>8. TypeOK' /\ ResultsOfHash' /\ SummaryOfChecks'
      BY <1>3 DEF IInv, TypeOK, ResultsOfHash, SummaryOfChecks
<1> QED BY <1>7, <1>8 DEF IInv

\* Without an edit in between the label is the hash of the mounted modules.
LEMMA ConfigHashKeeps == ASSUME IInv, NEW k \in Kinds, ConfigHash(k) PROVE IInv'
<1>1. data \in Data /\ build[k] \in [modules : Modules, edits : Nat] /\ conftest
      BY DEF IInv, TypeOK, Data, JobsLabelled, ConfigHash
<1>2. build' = [build EXCEPT ![k] = NoJob] /\ UNCHANGED <<conftest, data, report, edits>>
      BY DEF ConfigHash
<1>3. \A q : ModulesByKind(data, q)' = ModulesByKind(data, q)
      BY <1>2 DEF ModulesByKind, PoliciesByKind, Applies
<1>4. \A q \in Kinds : build'[q] = IF q = k THEN NoJob ELSE build[q]
      BY <1>2 DEF IInv, JobsLabelled
<1>5. TypeOK' /\ ResultsOfHash' /\ SummaryOfChecks'
      BY <1>2 DEF IInv, TypeOK, ResultsOfHash, SummaryOfChecks
<1>6. CASE Hash(data, k) = Error
  <2>1. job' = job
        BY <1>6 DEF ConfigHash
  <2>2. JobsLabelled'
        BY <1>2, <1>3, <1>4, <2>1 DEF IInv, JobsLabelled
  <2> QED BY <1>5, <2>2 DEF IInv
<1>7. CASE Hash(data, k) # Error
  <2> DEFINE j == [modules |-> build[k].modules, hash |-> Hash(data, k), torn |-> edits # build[k].edits]
  <2>1. Hash(data, k) \in Modules /\ Hash(data, k) = ModulesByKind(data, k)
        BY <1>1, <1>7, ModulesByKindType DEF Hash
  <2>2. job' = [job EXCEPT ![k] = j]
        BY <1>7 DEF ConfigHash
  <2>3. j \in [modules : Modules, hash : Modules, torn : BOOLEAN]
        BY <1>1, <2>1
  <2>4. ~j.torn => j.modules = j.hash
        BY <2>1 DEF IInv, JobsLabelled, ConfigHash
  <2> HIDE DEF j
  <2>5. \A q \in Kinds : job'[q] = IF q = k THEN j ELSE job[q]
        BY <2>2 DEF IInv, JobsLabelled
  <2>6. JobsLabelled'
        BY <1>1, <1>2, <1>3, <1>4, <2>2, <2>3, <2>4, <2>5 DEF IInv, JobsLabelled
  <2> QED BY <1>5, <2>6 DEF IInv
<1> QED BY <1>6, <1>7

\* The report has the hash of the job and what its modules give.
LEMMA ParseKeeps == ASSUME IInv, NEW k \in Kinds, ParseConfigAuditReportData(k) PROVE IInv'
<1> DEFINE checks == ParsedFindings(job[k].modules)
           r == [hash |-> job[k].hash, torn |-> job[k].torn, checks |-> checks,
                 summary |-> ConfigAuditSummaryFromChecks(checks)]
<1>1. job[k] \in [modules : Modules, hash : Modules, torn : BOOLEAN] /\ conftest
      BY DEF IInv, JobsLabelled, ParseConfigAuditReportData
<1>2. /\ report' = [report EXCEPT ![k] = r] /\ job' = [job EXCEPT ![k] = NoJob]
      /\ UNCHANGED <<conftest, data, build, edits>>
      BY DEF ParseConfigAuditReportData
<1>3. checks \subseteq Check
      BY <1>1, ChecksType
<1>4. r.hash \in Modules /\ r.checks \subseteq Check /\ (~r.torn => r.checks = ParsedFindings(r.hash))
      BY <1>1, <1>3 DEF IInv, JobsLabelled, ParseConfigAuditReportData
<1>5. r.hash # Error /\ r.summary = ConfigAuditSummaryFromChecks(r.checks)
      BY <1>4, ConstantsAssumption DEF Modules
<1> HIDE DEF r, checks
<1>6. \A q \in Kinds : report'[q] = IF q = k THEN r ELSE report[q]
      BY <1>2 DEF IInv, ResultsOfHash
<1>7. TypeOK'
      BY <1>1, <1>2, <1>4, <1>5, <1>6 DEF IInv, TypeOK
<1>8. \A q : ModulesByKind(data, q)' = ModulesByKind(data, q)
      BY <1>2 DEF ModulesByKind, PoliciesByKind, Applies
<1>9. JobsLabelled'
      BY <1>2, <1>8 DEF IInv, JobsLabelled
<1>10. ResultsOfHash'
       BY <1>1, <1>2, <1>4, <1>6 DEF IInv, ResultsOfHash
<1>11. SummaryOfChecks'
       BY <1>1, <1>2, <1>5, <1>6 DEF IInv, SummaryOfChecks
<1> QED BY <1>7, <1>9, <1>10, <1>11 DEF IInv

\* Every step keeps the invariant.
LEMMA Inductive == Spec => []IInv
<1>1. ASSUME IInv, [Next]_vars PROVE IInv'
  <2>1. CASE UNCHANGED vars
    <3>1. \A q : ModulesByKind(data, q)' = ModulesByKind(data, q)
          BY <2>1 DEF vars, ModulesByKind, PoliciesByKind, Applies
    <3> QED BY <1>1, <2>1, <3>1 DEF vars, IInv, TypeOK, JobsLabelled, ResultsOfHash, SummaryOfChecks
  <2> QED BY <1>1, <2>1, EditKeeps, ScanKeeps, GetScanJobSpecKeeps, ConfigHashKeeps, ParseKeeps DEF Next
<1> QED BY InitIInv, <1>1, PTL DEF Spec

-----------------------------------------------------------------------------
\* Reports are made of checks of policies, and their hash is never that of an
\* error: Scan and the Conftest plugin evaluate nothing before it is hashed.
THEOREM TypeCorrect == Spec => []TypeOK
<1>1. IInv => TypeOK
      BY DEF IInv
<1> QED BY Inductive, <1>1, PTL

\* hasReport may take a report for current because of its hash, for all policies
\* and whatever they mean (policy.go Hash and Eval, conftest plugin.go).
THEOREM HashSuffices == Spec => []HashIdentifiesResults
<1>1. ASSUME IInv PROVE HashIdentifiesResults
  <2> SUFFICES ASSUME NEW k \in Kinds, report[k] # NoReport, ~report[k].torn, Hash(data, k) = report[k].hash
               PROVE  report[k].checks = IF conftest THEN ParsedFindings(ModulesByKind(data, k))
                                         ELSE Eval(data, k)
      BY DEF HashIdentifiesResults
  <2>1. data \in Data /\ Hash(data, k) # Error
        BY <1>1 DEF IInv, TypeOK, Data
  <2>2. Eval(data, k) = EvalModules(report[k].hash)
        BY <2>1, EvalIsOfModules
  <2> QED BY <1>1, <2>2 DEF IInv, ResultsOfHash, Hash
<1> QED BY Inductive, <1>1, PTL

\* No applicable policy is missing from a report of the built-in scanner or in it
\* twice, and the summary counts the failed ones but those of severity NONE and
\* UNKNOWN (policy.go Eval, ConfigAuditSummaryFromChecks).
THEOREM OneCheckEach == Spec => []OneCheckPerPolicy
<1>1. ASSUME IInv PROVE OneCheckPerPolicy
  <2> SUFFICES ASSUME NEW k \in Kinds, ~conftest, report[k] # NoReport
               PROVE  /\ \A p \in DOMAIN report[k].hash.policy :
                           Cardinality({c \in report[k].checks : c.policy = p}) = 1
                      /\ LET summary == report[k].summary
                         IN summary["CRITICAL"] + summary["HIGH"] + summary["MEDIUM"] + summary["LOW"]
                              = Cardinality({c \in report[k].checks : ~c.success /\ c.severity \in Counted})
      BY DEF OneCheckPerPolicy
  <2> DEFINE m == report[k].hash
  <2>1. m \in Modules /\ report[k].checks = EvalModules(m) /\ EvalModules(m) # Error
        BY <1>1 DEF IInv, ResultsOfHash, SummaryOfChecks
  <2>2. EvalModules(m) \subseteq Check
        BY <2>1, ChecksType
  <2>3. report[k].summary = ConfigAuditSummaryFromChecks(EvalModules(m))
        BY <1>1, <2>1 DEF IInv, SummaryOfChecks
  <2> HIDE DEF m
  <2>4. IsFiniteSet(EvalModules(m))
        BY <2>1, ChecksOfPolicies
  <2>5. LET summary == report[k].summary
        IN summary["CRITICAL"] + summary["HIGH"] + summary["MEDIUM"] + summary["LOW"]
             = Cardinality({c \in report[k].checks : ~c.success /\ c.severity \in Counted})
        BY <2>1, <2>2, <2>3, <2>4, SummaryCounts
  <2>6. \A p \in DOMAIN m.policy : Cardinality({c \in EvalModules(m) : c.policy = p}) = 1
        BY <2>1, ChecksOfPolicies
  <2> QED BY <2>1, <2>5, <2>6 DEF m
<1> QED BY Inductive, <1>1, PTL
-----------------------------------------------------------------------------
(* The Aqua plugin.  A container scans what the registry it asks does not   *)
(* know, so the invariant says where that registry comes from, and what a   *)
(* job and its environment are while a container runs.                      *)

AquaBuilds == [command : {"image", "filesystem"}, data : [cfg : Configs, sec : Secrets],
               init : Aqua!Versions \cup {Missing}, version : Partial(Containers, Aqua!Versions)]

\* A job is built while there is none; its init container comes first.
AquaBuild ==
  build # Idle => /\ build \in AquaBuilds /\ job = NoJob
                  /\ build.init = Missing => DOMAIN build.version = {}

\* Containers run in the pod of a job, with the environment it was started with.
AquaJob ==
  /\ job = NoJob \/ job \in Aqua!JobSpecs
  /\ \A c \in Containers : pc[c] # "waiting" =>
       job # NoJob /\ job.phase = "running" /\ env.registry \in Aqua!RegistryNames

\* Unless a registry is configured, the one that claims the image is asked.
AquaLookup ==
  \A c \in Containers :
    /\ pc[c] = "registries" => env.registry = Aqua!AdHoc
    /\ pc[c] \in {"fetch", "scannercli", "done"} =>
         lookup[c] = IF env.registry = Aqua!AdHoc THEN Aqua!GetRegistryName(ImageOf[c]) ELSE env.registry

AquaOutput == result \in [Containers -> Aqua!Outputs \cup {NoReport}]

AquaInv == Aqua!TypeOK /\ AquaBuild /\ AquaJob /\ AquaLookup /\ AquaOutput

\* A set of positions that is not empty has a last one.
LEMMA LastPosition ==
  ASSUME NEW n \in Nat, NEW S \in SUBSET (1..n), S # {}
  PROVE  \E m \in S : \A i \in S : m >= i
<1> DEFINE D == {n - i : i \in S}
<1>1. D \subseteq Nat
      OBVIOUS
<1>2. D # {}
  <2>1. PICK i \in S : TRUE
        OBVIOUS
  <2>2. n - i \in D
        BY <2>1
  <2> QED BY <2>2
<1>3. PICK d \in D : \A e \in D : ~(<<e, d>> \in OpToRel(<, Nat))
      BY <1>1, <1>2, WFMin, NatLessThanWellFounded
<1>4. \A e \in D : ~(e < d)
      BY <1>1, <1>3 DEF OpToRel
<1>5. PICK m \in S : d = n - m
      BY <1>3
<1>6. ASSUME NEW i \in S PROVE m >= i
  <2>1. ~(n - i < n - m)
        BY <1>4, <1>5
  <2> QED BY <2>1
<1> QED BY <1>6

\* Every image that a registry of the server claims is asked for in one that
\* claims it, the last of them.
LEMMA RegistryName ==
  ASSUME Aqua!ConstantsAssumption, NEW img
  PROVE  /\ Aqua!GetRegistryName(img) \in Aqua!RegistryNames
         /\ Aqua!GetRegistryName(img) # Aqua!AdHoc => img \in HasPrefix[Aqua!GetRegistryName(img)]
         /\ \A i \in Aqua!ServerRegistries :
              img \in HasPrefix[i] /\ (\A j \in Aqua!ServerRegistries : j > i => img \notin HasPrefix[j])
              => Aqua!GetRegistryName(img) = i
<1> DEFINE S == {i \in Aqua!ServerRegistries : img \in HasPrefix[i]}
<1>1. RegistryCount \in Nat /\ Aqua!ServerRegistries = 1..RegistryCount
      BY DEF Aqua!ConstantsAssumption, Aqua!ServerRegistries
<1>2. CASE S = {}
      BY <1>2 DEF Aqua!GetRegistryName, Aqua!RegistryNames
<1>3. CASE S # {}
  <2>1. \E m \in S : \A i \in S : m >= i
        BY <1>1, <1>3, LastPosition
  <2>2. Aqua!Max(S) \in S /\ \A i \in S : Aqua!Max(S) >= i
        BY <2>1 DEF Aqua!Max
  <2>3. Aqua!GetRegistryName(img) = Aqua!Max(S)
        BY <1>3 DEF Aqua!GetRegistryName
  <2>4. ASSUME NEW i \in Aqua!ServerRegistries, img \in HasPrefix[i],
               \A j \in Aqua!ServerRegistries : j > i => img \notin HasPrefix[j]
        PROVE  Aqua!Max(S) = i
        BY <1>1, <2>2, <2>4
  <2> QED BY <2>2, <2>3, <2>4 DEF Aqua!RegistryNames
<1> QED BY <1>2, <1>3

\* Initially nothing runs and nothing is reported.
LEMMA AquaInit == ASSUME Aqua!ConstantsAssumption, Aqua!Init PROVE AquaInv
<1>1. Aqua!TypeOK
      BY DEF Aqua!Init, Aqua!TypeOK, Aqua!RegistryNames
<1>2. AquaBuild /\ AquaJob /\ AquaLookup /\ AquaOutput
      BY DEF Aqua!Init, AquaBuild, AquaJob, AquaLookup, AquaOutput
<1> QED BY <1>1, <1>2 DEF AquaInv

\* Edits of the configuration and of the report leave the job alone.
LEMMA AquaEdits == ASSUME AquaInv, Aqua!EditConfig \/ Aqua!DeleteReport PROVE AquaInv'
<1>1. /\ cfg' \in Configs /\ sec' \in Secrets
      /\ UNCHANGED <<build, job, env, pc, lookup, result, known>>
      /\ report' = report \/ report' = NoReport
      BY DEF AquaInv, Aqua!TypeOK, Aqua!EditConfig, Aqua!DeleteReport, Aqua!podVars
<1>2. Aqua!TypeOK'
      BY <1>1 DEF AquaInv, Aqua!TypeOK
<1>3. AquaBuild' /\ AquaJob' /\ AquaLookup'
      BY <1>1 DEF AquaInv, AquaBuild, AquaJob, AquaLookup
<1>4. AquaOutput'
      BY <1>1 DEF AquaInv, AquaOutput
<1> QED BY <1>2, <1>3, <1>4 DEF AquaInv

\* A job is put together from one read of the configuration after the other.
LEMMA AquaBuilding ==
  ASSUME Aqua!ConstantsAssumption, AquaInv,
         Aqua!GetScanJobSpec \/ Aqua!GetImageRef \/ Aqua!NewScanJobContainer
  PROVE  AquaInv'
<1>1. UNCHANGED <<cfg, sec, job, env, pc, lookup, result, known, report>>
      BY DEF Aqua!GetScanJobSpec, Aqua!GetImageRef, Aqua!NewScanJobContainer, Aqua!podVars
<1>2. Aqua!TypeOK'
      BY <1>1 DEF AquaInv, Aqua!TypeOK
<1>3. AquaJob' /\ AquaLookup'
      BY <1>1 DEF AquaInv, AquaJob, AquaLookup
<1>4. AquaOutput'
      BY <1>1 DEF AquaInv, AquaOutput
<1>5. cfg \in Configs /\ sec \in Secrets /\ (cfg.image # Missing => cfg.image \in Aqua!Versions)
      BY DEF AquaInv, Aqua!TypeOK, Aqua!Versions
<1>6. CASE Aqua!GetScanJobSpec
  <2>1. [c \in {} |-> Missing] \in Partial(Containers, Aqua!Versions)
    <3>1. [c \in {} |-> Missing] \in [{} -> Aqua!Versions]
          OBVIOUS
    <3> QED BY <3>1 DEF Partial
  <2>2. build' \in AquaBuilds /\ job = NoJob /\ DOMAIN build'.version = {}
        BY <1>5, <1>6, <2>1 DEF Aqua!GetScanJobSpec, AquaBuilds
  <2> QED BY <1>1, <1>2, <1>3, <1>4, <2>2 DEF AquaInv, AquaBuild
<1>7. CASE Aqua!GetImageRef
  <2>1. build \in AquaBuilds /\ job = NoJob
        BY <1>7 DEF AquaInv, AquaBuild, Aqua!GetImageRef
  <2>2. build' = Idle \/ (build' \in AquaBuilds /\ build'.init \in Aqua!Versions)
        BY <1>5, <1>7, <2>1 DEF Aqua!GetImageRef, AquaBuilds
  <2>3. Missing \notin Aqua!Versions
        BY DEF Aqua!Versions
  <2> QED BY <1>1, <1>2, <1>3, <1>4, <2>1, <2>2, <2>3 DEF AquaInv, AquaBuild
<1>8. CASE Aqua!NewScanJobContainer
  <2>1. build \in AquaBuilds /\ job = NoJob /\ build.init # Missing
        BY <1>8 DEF AquaInv, AquaBuild, Aqua!NewScanJobContainer
  <2> DEFINE rest == Containers \ DOMAIN build.version
             next == IF build.command = "image" THEN {CHOOSE c \in rest : TRUE} ELSE rest
             v == [c \in DOMAIN build.version \cup next |->
                     IF c \in next THEN cfg.image ELSE build.version[c]]
  <2>2. build.version \in Partial(Containers, Aqua!Versions)
        BY <2>1 DEF AquaBuilds
  <2>3. DOMAIN build.version \subseteq Containers
        /\ \A c \in DOMAIN build.version : build.version[c] \in Aqua!Versions
        BY <2>2, PartialFunctions
  <2>4. rest # {}
        BY <1>8, <2>3 DEF Aqua!NewScanJobContainer
  <2>5. next \subseteq Containers
        BY <2>4
  <2>6. build' = Idle \/ (cfg.image # Missing /\ build' = [build EXCEPT !.version = v])
        BY <1>8 DEF Aqua!NewScanJobContainer
  <2> HIDE DEF next
  <2>7. cfg.image # Missing => v \in Partial(Containers, Aqua!Versions)
    <3>1. cfg.image # Missing => v \in [DOMAIN build.version \cup next -> Aqua!Versions]
          BY <1>5, <2>3
    <3> HIDE DEF v
    <3> QED BY <2>3, <2>5, <3>1 DEF Partial
  <2> HIDE DEF v
  <2>8. build' = Idle \/ (build' \in AquaBuilds /\ build'.init # Missing)
        BY <2>1, <2>6, <2>7 DEF AquaBuilds
  <2> QED BY <1>1, <1>2, <1>3, <1>4, <2>1, <2>8 DEF AquaInv, AquaBuild
<1> QED BY <1>6, <1>7, <1>8

\* A job that is submitted has a version for every container.
LEMMA AquaSubmit == ASSUME Aqua!ConstantsAssumption, AquaInv, Aqua!SubmitScanJob PROVE AquaInv'
<1>1. /\ build \in AquaBuilds /\ job = NoJob /\ build' = Idle
      /\ DOMAIN build.version = Containers /\ build.init # Missing
      /\ UNCHANGED <<cfg, sec, env, pc, lookup, result, known, report>>
      BY DEF AquaInv, AquaBuild, Aqua!SubmitScanJob, Aqua!podVars, Aqua!ConstantsAssumption
<1>2. build.version \in Partial(Containers, Aqua!Versions)
      BY <1>1 DEF AquaBuilds
<1>3. build.version \in [Containers -> Aqua!Versions]
  <2>1. PICK E \in SUBSET Containers : build.version \in [E -> Aqua!Versions]
        BY <1>2 DEF Partial
  <2> QED BY <1>1, <2>1
<1>4. job' \in Aqua!JobSpecs /\ job'.version = build.version
      BY <1>1, <1>3 DEF Aqua!SubmitScanJob, AquaBuilds, Aqua!JobSpecs
<1>5. \A c \in Containers : pc[c] = "waiting"
      BY <1>1 DEF AquaInv, AquaJob
<1>6. Aqua!TypeOK'
      BY <1>1, <1>3, <1>4 DEF AquaInv, Aqua!TypeOK
<1>7. AquaBuild' /\ AquaJob' /\ AquaLookup'
      BY <1>1, <1>4, <1>5 DEF AquaInv, AquaBuild, AquaJob, AquaLookup
<1>8. AquaOutput'
      BY <1>1 DEF AquaInv, AquaOutput
<1> QED BY <1>6, <1>7, <1>8 DEF AquaInv

\* The kubelet expands the environment when the pod starts.
LEMMA AquaStart == ASSUME Aqua!ConstantsAssumption, AquaInv, Aqua!StartPod PROVE AquaInv'
<1>1. /\ job \in Aqua!JobSpecs /\ job # NoJob
      /\ job' = [job EXCEPT !.phase = "running"] /\ pc' = [c \in Containers |-> "connect"]
      /\ UNCHANGED <<cfg, sec, build, lookup, result, known, report>>
      BY DEF AquaInv, AquaJob, Aqua!StartPod
<1>2. job' \in Aqua!JobSpecs /\ job'.phase = "running" /\ job'.version = job.version
      BY <1>1 DEF Aqua!JobSpecs
<1>3. job' # NoJob
      BY <1>2 DEF Aqua!ConstantsAssumption
<1>4. job.data.cfg \in Configs
      BY <1>1 DEF Aqua!JobSpecs
<1>5. env'.registry \in Aqua!RegistryNames
      BY <1>4 DEF Aqua!StartPod, Aqua!EnvFromConfigMap, Aqua!EnvFromSecret, Aqua!RegistryNames
<1>6. build = Idle
      BY <1>1 DEF AquaInv, AquaBuild
<1>7. \A c \in Containers : pc[c] = "waiting" /\ result[c] = NoReport
      BY DEF AquaInv, Aqua!TypeOK, AquaJob, Aqua!StartPod
<1>8. Aqua!TypeOK'
      BY <1>1, <1>2, <1>3, <1>7 DEF AquaInv, Aqua!TypeOK
<1>9. AquaBuild' /\ AquaJob' /\ AquaLookup'
      BY <1>1, <1>2, <1>3, <1>5, <1>6 DEF AquaInv, AquaBuild, AquaJob, AquaLookup
<1>10. AquaOutput'
       BY <1>1 DEF AquaInv, AquaOutput
<1> QED BY <1>8, <1>9, <1>10 DEF AquaInv

\* What a container does changes its own step, lookup and output.
LEMMA AquaContainer ==
  ASSUME Aqua!ConstantsAssumption, AquaInv, NEW c \in Containers, pc[c] # "waiting",
         NEW l \in {"fetch", "registries", "scannercli", "done", "failed"},
         NEW name \in Aqua!RegistryNames, NEW out \in Aqua!Outputs \cup {NoReport},
         pc' = [pc EXCEPT ![c] = l], lookup' = [lookup EXCEPT ![c] = name],
         result' = [result EXCEPT ![c] = out],
         l = "done" <=> out # NoReport,
         l = "registries" => env.registry = Aqua!AdHoc,
         l \in {"fetch", "scannercli", "done"} =>
           name = IF env.registry = Aqua!AdHoc THEN Aqua!GetRegistryName(ImageOf[c]) ELSE env.registry,
         UNCHANGED <<cfg, sec, build, job, env, report>>
  PROVE  AquaInv'
<1>1. \A d \in Containers : /\ pc'[d] = IF d = c THEN l ELSE pc[d]
                            /\ lookup'[d] = IF d = c THEN name ELSE lookup[d]
                            /\ result'[d] = IF d = c THEN out ELSE result[d]
      BY DEF AquaInv, Aqua!TypeOK, AquaOutput
<1>2. Aqua!TypeOK'
      BY <1>1 DEF AquaInv, Aqua!TypeOK
<1>3. AquaBuild'
      BY DEF AquaInv, AquaBuild
<1>4. AquaJob'
      BY <1>1 DEF AquaInv, AquaJob
<1>5. AquaLookup'
      BY <1>1 DEF AquaInv, AquaLookup
<1>6. AquaOutput'
      BY DEF AquaInv, AquaOutput
<1> QED BY <1>2, <1>3, <1>4, <1>5, <1>6 DEF AquaInv

\* The output of a container names the version of its job.
LEMMA AquaResult ==
  ASSUME Aqua!ConstantsAssumption, AquaInv, NEW c \in Containers, pc[c] \in {"fetch", "scannercli"},
         NEW how \in {"api", "scannercli"}
  PROVE  Aqua!Result(c, how) \in Aqua!Outputs
<1>1. job.version[c] \in Aqua!Versions
      BY DEF AquaInv, Aqua!TypeOK, AquaJob
<1> QED BY <1>1 DEF Aqua!Result, Aqua!Outputs

\* Before a container has asked the server, and when it fails, it has no output.
LEMMA AquaAsking ==
  ASSUME Aqua!ConstantsAssumption, AquaInv, NEW c \in Containers,
         Aqua!NewClient(c) \/ Aqua!ListRegistries(c) \/ Aqua!ServerError(c)
  PROVE  AquaInv'
<1> USE DEF Aqua!Goto, Aqua!ScannerVars
<1>1. pc[c] # "waiting" /\ pc[c] # "done" /\ result[c] = NoReport /\ env.registry \in Aqua!RegistryNames
      BY DEF AquaInv, Aqua!TypeOK, AquaJob, Aqua!NewClient, Aqua!ListRegistries, Aqua!ServerError
<1>2. lookup[c] \in Aqua!RegistryNames /\ result = [result EXCEPT ![c] = NoReport]
      /\ lookup = [lookup EXCEPT ![c] = lookup[c]]
      BY <1>1 DEF AquaInv, Aqua!TypeOK, AquaOutput
<1>3. CASE Aqua!NewClient(c)
  <2>1. PICK l \in {"failed", "fetch", "registries"} :
           pc' = [pc EXCEPT ![c] = l] /\ (l # "failed" => (l = "fetch" <=> env.registry # Aqua!AdHoc))
        BY <1>3 DEF Aqua!NewClient
  <2>2. /\ lookup' = [lookup EXCEPT ![c] = env.registry]
        /\ UNCHANGED <<cfg, sec, build, job, env, report, known, result>>
        BY <1>3 DEF Aqua!NewClient
  <2> QED BY <1>1, <1>2, <2>1, <2>2, AquaContainer
<1>4. CASE Aqua!ListRegistries(c)
  <2>1. /\ lookup' = [lookup EXCEPT ![c] = Aqua!GetRegistryName(ImageOf[c])]
        /\ UNCHANGED <<cfg, sec, build, job, env, report, known, result>>
        BY <1>4 DEF Aqua!ListRegistries
  <2>2. PICK l \in {"failed", "fetch"} : pc' = [pc EXCEPT ![c] = l]
        BY <1>4 DEF Aqua!ListRegistries
  <2>3. env.registry = Aqua!AdHoc
        BY <1>4 DEF AquaInv, AquaLookup, Aqua!ListRegistries
  <2> QED BY <1>1, <1>2, <2>1, <2>2, <2>3, RegistryName, AquaContainer
<1>5. CASE Aqua!ServerError(c)
  <2>1. /\ pc' = [pc EXCEPT ![c] = "failed"]
        /\ UNCHANGED <<cfg, sec, build, job, env, report, known, result, lookup>>
        BY <1>5 DEF Aqua!ServerError
  <2> QED BY <1>1, <1>2, <2>1, AquaContainer
<1> QED BY <1>3, <1>4, <1>5

\* A container has output when it is done.
LEMMA AquaScanning ==
  ASSUME Aqua!ConstantsAssumption, AquaInv, NEW c \in Containers,
         Aqua!Vulnerabilities(c) \/ Aqua!ScannerCli(c)
  PROVE  AquaInv'
<1> USE DEF Aqua!Goto, Aqua!ScannerVars
<1>1. pc[c] \in {"fetch", "scannercli"} /\ result[c] = NoReport /\ lookup[c] \in Aqua!RegistryNames
      BY DEF AquaInv, Aqua!TypeOK, Aqua!Vulnerabilities, Aqua!ScannerCli
<1>2. /\ result = [result EXCEPT ![c] = NoReport]
      /\ lookup = [lookup EXCEPT ![c] = lookup[c]]
      BY <1>1 DEF AquaInv, Aqua!TypeOK, AquaOutput
<1>3. lookup[c] = IF env.registry = Aqua!AdHoc THEN Aqua!GetRegistryName(ImageOf[c]) ELSE env.registry
      BY <1>1 DEF AquaInv, AquaLookup
<1>4. UNCHANGED <<cfg, sec, build, job, env, report, lookup>>
      BY DEF Aqua!Vulnerabilities, Aqua!ScannerCli
<1>5. CASE UNCHANGED result
  <2>1. PICK l \in {"failed", "scannercli"} : pc' = [pc EXCEPT ![c] = l]
    <3>1. ASSUME NEW how, result' = [result EXCEPT ![c] = Aqua!Result(c, how)],
                 how \in {"api", "scannercli"}
          PROVE  FALSE
      <4>1. result'[c] \in Aqua!Outputs
            BY <1>1, <3>1, AquaResult DEF AquaInv, AquaOutput
      <4> QED BY <1>1, <1>5, <4>1 DEF Aqua!ConstantsAssumption
    <3>2. CASE Aqua!Vulnerabilities(c)
      <4>1. ~(result' = [result EXCEPT ![c] = Aqua!Result(c, "api")])
            BY <3>1
      <4> QED BY <3>2, <4>1 DEF Aqua!Vulnerabilities
    <3>3. CASE Aqua!ScannerCli(c)
      <4>1. ~(result' = [result EXCEPT ![c] = Aqua!Result(c, "scannercli")])
            BY <3>1
      <4> QED BY <3>3, <4>1 DEF Aqua!ScannerCli
    <3> QED BY <3>2, <3>3
  <2>2. /\ result' = [result EXCEPT ![c] = NoReport] /\ lookup' = [lookup EXCEPT ![c] = lookup[c]]
        /\ pc[c] # "waiting"
        BY <1>1, <1>2, <1>4, <1>5
  <2> HIDE DEF Aqua!Goto, Aqua!ScannerVars
  <2> QED BY <1>1, <1>3, <1>4, <2>1, <2>2, AquaContainer
<1>6. CASE ~UNCHANGED result
  <2>1. PICK how \in {"api", "scannercli"} :
          /\ result' = [result EXCEPT ![c] = Aqua!Result(c, how)] /\ pc' = [pc EXCEPT ![c] = "done"]
        BY <1>6 DEF Aqua!Vulnerabilities, Aqua!ScannerCli
  <2> DEFINE out == Aqua!Result(c, how)
  <2>2. out \in Aqua!Outputs
        BY <1>1, <2>1, AquaResult
  <2>3. out # NoReport
        BY <2>2 DEF Aqua!ConstantsAssumption
  <2>4. result' = [result EXCEPT ![c] = out]
        BY <2>1
  <2> HIDE DEF out
  <2> QED BY <1>1, <1>2, <1>3, <1>4, <2>1, <2>2, <2>3, <2>4, AquaContainer
<1> QED BY <1>5, <1>6

\* A finished job is replaced by what its containers printed, or dropped.
LEMMA AquaFinish ==
  ASSUME Aqua!ConstantsAssumption, AquaInv,
         Aqua!ParseVulnerabilityReportData \/ Aqua!ProcessFailedScanJob
  PROVE  AquaInv'
<1>1. /\ job # NoJob /\ job' = NoJob
      /\ pc' = [c \in Containers |-> "waiting"]
      /\ lookup' = [c \in Containers |-> Aqua!AdHoc]
      /\ result' = [c \in Containers |-> NoReport]
      /\ UNCHANGED <<cfg, sec, build, known>>
      BY DEF Aqua!ParseVulnerabilityReportData, Aqua!ProcessFailedScanJob, Aqua!ResetPod
<1>2. build = Idle
      BY <1>1 DEF AquaInv, AquaBuild
<1>3. Aqua!TypeOK'
      BY <1>1 DEF AquaInv, Aqua!TypeOK, Aqua!RegistryNames
<1>4. AquaBuild' /\ AquaJob' /\ AquaLookup'
      BY <1>1, <1>2 DEF AquaBuild, AquaJob, AquaLookup
<1>5. report' = report \/ (report' = result /\ \A c \in Containers : result[c] # NoReport)
      BY DEF Aqua!ParseVulnerabilityReportData, Aqua!ProcessFailedScanJob, AquaInv, Aqua!TypeOK
<1>6. AquaOutput'
      BY <1>1, <1>5 DEF AquaInv, AquaOutput
<1> QED BY <1>3, <1>4, <1>6 DEF AquaInv

\* Every step keeps the invariant.
LEMMA AquaInductive == ASSUME Aqua!ConstantsAssumption PROVE Aqua!Spec => []AquaInv
<1>1. ASSUME AquaInv, [Aqua!Next]_(Aqua!vars) PROVE AquaInv'
  <2>1. CASE UNCHANGED Aqua!vars
        BY <1>1, <2>1 DEF Aqua!vars, AquaInv, Aqua!TypeOK, AquaBuild, AquaJob, AquaLookup, AquaOutput
  <2> QED BY <1>1, <2>1, AquaEdits, AquaBuilding, AquaSubmit, AquaStart, AquaAsking, AquaScanning,
             AquaFinish DEF Aqua!Next
<1> QED BY AquaInit, <1>1, PTL DEF Aqua!Spec

\* Every variable of the Aqua plugin has its type, and finished containers, and
\* only they, have output (cmd/scanner-aqua/main.go).
THEOREM AquaTypeCorrect == ASSUME Aqua!ConstantsAssumption PROVE Aqua!Spec => []Aqua!TypeOK
<1>1. AquaInv => Aqua!TypeOK
      BY DEF AquaInv
<1> QED BY AquaInductive, <1>1, PTL

\* scannercli never runs because of an error of the server: the image was asked
\* for in the registry that claims it, and is unknown (scan() in main.go).
THEOREM AquaScansUnknown == ASSUME Aqua!ConstantsAssumption PROVE Aqua!Spec => Aqua!ScansOnlyUnknown
<1> DEFINE P == \A c \in Containers :
        (pc[c] # "scannercli" /\ pc'[c] = "scannercli") =>
          /\ env.login = "valid"
          /\ \A i \in Aqua!ServerRegistries :
               /\ env.registry = Aqua!AdHoc /\ ImageOf[c] \in HasPrefix[i]
               /\ \A j \in Aqua!ServerRegistries : j > i => ImageOf[c] \notin HasPrefix[j]
               => <<i, Aqua!AskedFor(c)>> \notin known
          /\ faults' = faults
<1>1. ASSUME AquaInv, [Aqua!Next]_(Aqua!vars) PROVE [P]_(Aqua!vars)
  <2> SUFFICES ASSUME NEW c \in Containers, pc[c] # "scannercli", pc'[c] = "scannercli", Aqua!Next
               PROVE  /\ env.login = "valid" /\ faults' = faults
                      /\ <<lookup[c], Aqua!AskedFor(c)>> \notin known /\ pc[c] = "fetch"
    <3>1. SUFFICES ASSUME NEW c \in Containers, pc[c] # "scannercli", pc'[c] = "scannercli", Aqua!Next,
                          <<lookup[c], Aqua!AskedFor(c)>> \notin known, pc[c] = "fetch",
                          NEW i \in Aqua!ServerRegistries, env.registry = Aqua!AdHoc,
                          ImageOf[c] \in HasPrefix[i],
                          \A j \in Aqua!ServerRegistries : j > i => ImageOf[c] \notin HasPrefix[j]
                   PROVE  <<i, Aqua!AskedFor(c)>> \notin known
          BY <1>1
    <3>2. lookup[c] = i
          BY <1>1, <3>1, RegistryName DEF AquaInv, AquaLookup
    <3> QED BY <3>1, <3>2
  <2>1. pc \in [Containers -> {"waiting", "connect", "registries", "fetch", "scannercli",
                               "done", "failed"}]
        BY <1>1 DEF AquaInv, Aqua!TypeOK
  <2>2. PICK d \in Containers : Aqua!Vulnerabilities(d) /\ d = c
        BY <2>1 DEF Aqua!Next, Aqua!EditConfig, Aqua!DeleteReport, Aqua!StartPod,
              Aqua!GetScanJobSpec, Aqua!GetImageRef, Aqua!NewScanJobContainer, Aqua!SubmitScanJob, Aqua!ParseVulnerabilityReportData,
              Aqua!ProcessFailedScanJob, Aqua!ResetPod, Aqua!podVars, Aqua!NewClient, Aqua!ListRegistries,
              Aqua!Vulnerabilities, Aqua!ScannerCli, Aqua!ServerError, Aqua!Goto
  <2> QED BY <2>1, <2>2 DEF Aqua!Vulnerabilities, Aqua!Goto
<1>2. Aqua!ScansOnlyUnknown <=> [][P]_(Aqua!vars)
      BY DEF Aqua!ScansOnlyUnknown
<1> QED BY AquaInductive, <1>1, <1>2, PTL DEF Aqua!Spec

-----------------------------------------------------------------------------
(* The Trivy plugin.  Credentials go from a secret into the reconciliation, *)
(* from there into the secret of the job and on into a container; they are  *)
(* followed along that way.                                                 *)

\* Some content of a secret has the credentials a for the registry of c.
Holds(c, a) == \E s \in SecretContents : RegistryOf[c] \in DOMAIN s /\ s[RegistryOf[c]] = a

CredentialsHeld ==
  /\ \A c \in DOMAIN creds : Holds(c, creds[c])
  /\ \A c \in DOMAIN regcred : Holds(c, regcred[c])
  /\ \A c \in DOMAIN env : env[c] # Anonymous => Holds(c, env[c])

TrivyInv == Trivy!TypeOK /\ CredentialsHeld

\* The credentials of a container are those of the last secret that has any for
\* the registry of its image.
LEMMA DockerAuths ==
  ASSUME Trivy!ConstantsAssumption, Trivy!TypeOK, \A s \in Trivy!SecretNames : secret[s] # Missing
  PROVE  /\ DOMAIN Trivy!MapContainerNamesToDockerAuths \subseteq Containers
         /\ \A c \in DOMAIN Trivy!MapContainerNamesToDockerAuths :
              Holds(c, Trivy!MapContainerNamesToDockerAuths[c])
<1> DEFINE S == Trivy!ListImagePullSecretsByPodSpec
           with(r) == {i \in DOMAIN S : r \in DOMAIN secret[S[i]]}
           auths == Trivy!MapDockerRegistryServersToAuths
<1>1. S \in Seq(Trivy!SecretNames)
      BY DEF Trivy!ConstantsAssumption, Trivy!ListImagePullSecretsByPodSpec
<1>2. Len(S) \in Nat /\ DOMAIN S = 1..Len(S) /\ \A i \in DOMAIN S : secret[S[i]] \in SecretContents
      BY <1>1 DEF Trivy!TypeOK
<1>3. auths = [r \in {q \in Registries : with(q) # {}} |-> secret[S[Trivy!Max(with(r))]][r]]
      BY DEF Trivy!MapDockerRegistryServersToAuths
<1> HIDE DEF S
<1>4. ASSUME NEW r, with(r) # {} PROVE Trivy!Max(with(r)) \in with(r)
  <2>1. \E m \in with(r) : \A i \in with(r) : m >= i
    <3>1. with(r) \in SUBSET (1..Len(S))
          BY <1>2
    <3> HIDE DEF with
    <3> QED BY <1>2, <1>4, <3>1, LastPosition
  <2> QED BY <2>1 DEF Trivy!Max
<1> HIDE DEF auths
<1>5. ASSUME NEW r \in DOMAIN auths
      PROVE  \E s \in SecretContents : r \in DOMAIN s /\ s[r] = auths[r]
  <2>1. r \in Registries /\ with(r) # {} /\ auths[r] = secret[S[Trivy!Max(with(r))]][r]
        BY <1>3
  <2>2. Trivy!Max(with(r)) \in DOMAIN S /\ r \in DOMAIN secret[S[Trivy!Max(with(r))]]
        BY <1>4, <2>1
  <2> QED BY <1>2, <2>1, <2>2
<1>6. Trivy!MapContainerNamesToDockerAuths =
        [c \in {d \in Containers : RegistryOf[d] \in DOMAIN auths} |-> auths[RegistryOf[c]]]
      BY DEF Trivy!MapContainerNamesToDockerAuths, auths
<1> QED BY <1>5, <1>6 DEF Holds

\* A pod spec has its type, and refers only to credentials that were read.
LEMMA PodSpecs ==
  ASSUME Trivy!ConstantsAssumption, Trivy!TypeOK, NEW spec \in Trivy!GetScanJobSpec
  PROVE  /\ spec \in Trivy!JobSpec /\ spec.phase = "waiting"
         /\ spec.command = "image" => spec.login = DOMAIN creds
         /\ spec.command # "image" => spec.login = {}
<1> USE DEF Trivy!PodSpec, Trivy!JobSpec, Trivy!RegistryLogins, Trivy!IgnoreFileVolume
<1>1. /\ cfg.ignoreFile \in BOOLEAN /\ DOMAIN creds \subseteq Containers
      /\ Trivy!InsecureEnv \subseteq Containers /\ Trivy!ServerInsecureEnv \subseteq Containers
      /\ Trivy!ImageTargets \subseteq [Containers -> Registries \cup {NoRegistry}]
      /\ RegistryOf \in [Containers -> Registries \cup {NoRegistry}]
      BY DEF Trivy!ConstantsAssumption, Trivy!TypeOK, Trivy!InsecureEnv,
             Trivy!ServerInsecureEnv, Trivy!ImageTargets
<1>2. Trivy!ScanNodes \subseteq Nodes \cup {NoNode}
      BY DEF Trivy!ScanNodes, Trivy!GetNodeName, Trivy!TypeOK, Trivy!PodStates
<1>3. CASE cfg.command = "image" /\ spec \in Trivy!GetPodSpecForStandaloneMode
      BY <1>1, <1>3 DEF Trivy!GetPodSpecForStandaloneMode
<1>4. CASE cfg.command = "image" /\ spec \in Trivy!GetPodSpecForClientServerMode
      BY <1>1, <1>4 DEF Trivy!GetPodSpecForClientServerMode
<1>5. CASE cfg.command = "filesystem" /\ spec \in Trivy!GetPodSpecForStandaloneFSMode
      BY <1>1, <1>2, <1>5 DEF Trivy!GetPodSpecForStandaloneFSMode
<1> QED BY <1>3, <1>4, <1>5 DEF Trivy!GetScanJobSpec

\* Initially nobody has any credentials.
LEMMA TrivyInit == ASSUME Trivy!ConstantsAssumption, Trivy!Init PROVE TrivyInv
<1>1. Trivy!TypeOK
  <2>1. DOMAIN creds \subseteq Containers /\ job = NoJob
        BY DEF Trivy!Init
  <2>2. cfg \in Configs /\ wake \in BOOLEAN /\ building \in BOOLEAN
        BY DEF Trivy!ConstantsAssumption, Trivy!Init
  <2>3. pods \in [Pods -> Trivy!PodStates] /\ cached \subseteq Nodes
        BY DEF Trivy!Init, Trivy!PodStates
  <2>4. secret \in [Trivy!SecretNames -> SecretContents \cup {Missing}]
        BY DEF Trivy!Init
  <2> QED BY <2>1, <2>2, <2>3, <2>4 DEF Trivy!TypeOK
<1>2. CredentialsHeld
      BY DEF Trivy!Init, CredentialsHeld
<1> QED BY <1>1, <1>2 DEF TrivyInv

\* Users and the cluster do not touch what was read.
LEMMA TrivyEdits ==
  ASSUME TrivyInv,
         \/ Trivy!EditConfig \/ Trivy!DeleteReport \/ Trivy!Resync
         \/ \E s \in Trivy!SecretNames : Trivy!EditSecret(s)
         \/ \E p \in Pods : Trivy!MovePod(p)
         \/ \E n \in Nodes : Trivy!CollectImages(n)
  PROVE  TrivyInv'
<1> USE DEF Trivy!userVars, Trivy!workVars, Trivy!jobVars
<1>1. UNCHANGED <<building, creds, job, regcred, env>>
      BY DEF Trivy!EditConfig, Trivy!DeleteReport, Trivy!Resync, Trivy!EditSecret, Trivy!MovePod,
             Trivy!CollectImages
<1>2. cfg' \in Configs /\ wake' \in BOOLEAN
      BY DEF TrivyInv, Trivy!TypeOK, Trivy!EditConfig, Trivy!DeleteReport, Trivy!Resync,
             Trivy!EditSecret, Trivy!MovePod, Trivy!CollectImages
<1>3. secret' \in [Trivy!SecretNames -> SecretContents \cup {Missing}]
      BY DEF TrivyInv, Trivy!TypeOK, Trivy!EditConfig, Trivy!DeleteReport, Trivy!Resync,
             Trivy!EditSecret, Trivy!MovePod, Trivy!CollectImages
<1>4. pods' \in [Pods -> Trivy!PodStates] /\ cached' \subseteq Nodes
  <2>1. CASE UNCHANGED pods /\ cached' \subseteq cached
        BY <2>1 DEF TrivyInv, Trivy!TypeOK
  <2>2. CASE \E p \in Pods : Trivy!MovePod(p)
        BY <2>2 DEF Trivy!MovePod, Trivy!PodStates, TrivyInv, Trivy!TypeOK
  <2> QED BY <2>1, <2>2 DEF Trivy!EditConfig, Trivy!DeleteReport, Trivy!Resync, Trivy!EditSecret,
                            Trivy!CollectImages
<1>5. Trivy!TypeOK'
      BY <1>1, <1>2, <1>3, <1>4 DEF TrivyInv, Trivy!TypeOK
<1>6. CredentialsHeld'
      BY <1>1 DEF TrivyInv, CredentialsHeld
<1> QED BY <1>5, <1>6 DEF TrivyInv

\* The credentials that are read are those of the containers' registries.
LEMMA TrivyReads ==
  ASSUME Trivy!ConstantsAssumption, TrivyInv, Trivy!CredentialsByWorkload
  PROVE  TrivyInv'
<1>1. /\ building' = TRUE /\ creds' = Trivy!MapContainerNamesToDockerAuths
      /\ UNCHANGED <<cfg, secret, pods, cached, wake, job, regcred, env>>
      BY DEF Trivy!CredentialsByWorkload, Trivy!userVars, Trivy!jobVars
<1>2. DOMAIN creds' \subseteq Containers /\ \A c \in DOMAIN creds' : Holds(c, creds'[c])
      BY <1>1, DockerAuths DEF TrivyInv, Trivy!CredentialsByWorkload
<1>3. Trivy!TypeOK'
      BY <1>1, <1>2 DEF TrivyInv, Trivy!TypeOK
<1>4. CredentialsHeld'
      BY <1>1, <1>2 DEF TrivyInv, CredentialsHeld
<1> QED BY <1>3, <1>4 DEF TrivyInv

\* The secret of a job has the credentials that its pod refers to.
LEMMA TrivySubmits ==
  ASSUME Trivy!ConstantsAssumption, TrivyInv, Trivy!SubmitScanJob
  PROVE  TrivyInv'
<1>1. /\ building' = FALSE /\ DOMAIN creds' = {} /\ wake' \in BOOLEAN
      /\ UNCHANGED <<cfg, secret, pods, cached, env>>
  <2>1. creds' = <<>> /\ building' = FALSE /\ UNCHANGED <<cfg, secret, pods, cached, env>>
        BY DEF Trivy!SubmitScanJob, Trivy!userVars
  <2>2. wake' = FALSE \/ wake' = ~Trivy!NoRunningPods
        BY DEF Trivy!SubmitScanJob
  <2>3. DOMAIN creds' = {}
        BY <2>1
  <2> QED BY <2>1, <2>2, <2>3 DEF Trivy!NoRunningPods
<1>2. CASE UNCHANGED <<job, regcred>>
  <2>1. Trivy!TypeOK'
        BY <1>1, <1>2 DEF TrivyInv, Trivy!TypeOK
  <2>2. CredentialsHeld'
        BY <1>1, <1>2 DEF TrivyInv, CredentialsHeld
  <2> QED BY <2>1, <2>2 DEF TrivyInv
<1>3. ASSUME NEW spec \in Trivy!GetScanJobSpec, job' = spec,
             regcred' = IF spec.command = "image" THEN Trivy!AggregateImagePullSecretsData ELSE <<>>
      PROVE  TrivyInv'
  <2>1. /\ spec \in Trivy!JobSpec /\ spec.phase = "waiting"
        /\ spec.command = "image" => spec.login = DOMAIN creds
        /\ spec.command # "image" => spec.login = {}
        BY PodSpecs DEF TrivyInv
  <2>2. DOMAIN creds \subseteq Containers
        BY DEF TrivyInv, Trivy!TypeOK
  <2>3. Trivy!AggregateImagePullSecretsData = [c \in DOMAIN creds |-> creds[c]]
        BY <2>2 DEF Trivy!AggregateImagePullSecretsData
  <2>4. /\ spec.login \subseteq DOMAIN regcred'
        /\ \A c \in DOMAIN regcred' : c \in DOMAIN creds /\ regcred'[c] = creds[c]
        BY <1>3, <2>1, <2>3
  <2>5. Trivy!TypeOK'
        BY <1>1, <1>3, <2>1, <2>4 DEF TrivyInv, Trivy!TypeOK
  <2>6. CredentialsHeld'
        BY <1>1, <2>4 DEF TrivyInv, CredentialsHeld
  <2> QED BY <2>5, <2>6 DEF TrivyInv
<1> QED BY <1>2, <1>3 DEF Trivy!SubmitScanJob

\* Containers get what the secret of the job has for them, and the end of a job
\* takes it away.
LEMMA TrivyRuns ==
  ASSUME Trivy!ConstantsAssumption, TrivyInv,
         \/ Trivy!StartPod \/ Trivy!ExceedDeadline \/ Trivy!FinishPod
         \/ Trivy!ParseVulnerabilityReportData \/ Trivy!ProcessFailedScanJob
  PROVE  TrivyInv'
<1>1. UNCHANGED <<cfg, secret, pods, cached, wake, building, creds>>
      BY DEF Trivy!StartPod, Trivy!ExceedDeadline, Trivy!FinishPod, Trivy!DeleteJob,
             Trivy!ParseVulnerabilityReportData, Trivy!ProcessFailedScanJob, Trivy!userVars,
             Trivy!workVars
<1>2. CASE Trivy!ParseVulnerabilityReportData \/ Trivy!ProcessFailedScanJob
  <2>1. job' = NoJob /\ regcred' = <<>> /\ env' = <<>>
        BY <1>2 DEF Trivy!ParseVulnerabilityReportData, Trivy!ProcessFailedScanJob, Trivy!DeleteJob
  <2>2. Trivy!TypeOK'
        BY <1>1, <2>1 DEF TrivyInv, Trivy!TypeOK
  <2>3. CredentialsHeld'
        BY <1>1, <2>1 DEF TrivyInv, CredentialsHeld
  <2> QED BY <2>2, <2>3 DEF TrivyInv
<1>3. CASE Trivy!StartPod
  <2>1. /\ job \in Trivy!JobSpec /\ job.login \subseteq DOMAIN regcred
        /\ job' = [job EXCEPT !.phase = "running"] /\ regcred' = regcred
        /\ env' = [c \in Containers |-> IF c \in job.login THEN regcred[c] ELSE Anonymous]
        BY <1>3 DEF TrivyInv, Trivy!TypeOK, Trivy!StartPod
  <2>2. job' \in Trivy!JobSpec /\ job'.login = job.login
        BY <2>1 DEF Trivy!JobSpec
  <2>3. Trivy!TypeOK'
        BY <1>1, <2>1, <2>2 DEF TrivyInv, Trivy!TypeOK
  <2>4. CredentialsHeld'
        BY <1>1, <2>1 DEF TrivyInv, CredentialsHeld
  <2> QED BY <2>3, <2>4 DEF TrivyInv
<1>4. CASE Trivy!ExceedDeadline \/ Trivy!FinishPod
  <2>1. PICK p \in {"failed", "complete"} :
          /\ job \in Trivy!JobSpec /\ job # NoJob /\ job' = [job EXCEPT !.phase = p]
          /\ p = "complete" => job.phase = "running"
          /\ UNCHANGED <<regcred, env>>
        BY <1>4 DEF TrivyInv, Trivy!TypeOK, Trivy!ExceedDeadline, Trivy!FinishPod
  <2>2. job' \in Trivy!JobSpec /\ job'.login = job.login /\ job'.phase = p
        BY <2>1 DEF Trivy!JobSpec
  <2>3. Trivy!TypeOK'
        BY <1>1, <2>1, <2>2 DEF TrivyInv, Trivy!TypeOK
  <2>4. CredentialsHeld'
        BY <1>1, <2>1 DEF TrivyInv, CredentialsHeld
  <2> QED BY <2>3, <2>4 DEF TrivyInv
<1> QED BY <1>2, <1>3, <1>4

\* Every step keeps the invariant.
LEMMA TrivyInductive == ASSUME Trivy!ConstantsAssumption PROVE Trivy!Spec => []TrivyInv
<1>1. ASSUME TrivyInv, [Trivy!Next]_(Trivy!vars) PROVE TrivyInv'
  <2>1. CASE UNCHANGED Trivy!vars
        BY <1>1, <2>1 DEF Trivy!vars, TrivyInv, Trivy!TypeOK, CredentialsHeld
  <2> QED BY <1>1, <2>1, TrivyEdits, TrivyReads, TrivySubmits, TrivyRuns DEF Trivy!Next
<1> QED BY TrivyInit, <1>1, PTL DEF Trivy!Spec

\* Every variable of the Trivy plugin has its type: a scan job never refers to
\* credentials that its secret does not have (plugin.go GetScanJobSpec).
THEOREM TrivyTypeCorrect == ASSUME Trivy!ConstantsAssumption PROVE Trivy!Spec => []Trivy!TypeOK
<1>1. TrivyInv => Trivy!TypeOK
      BY DEF TrivyInv
<1> QED BY TrivyInductive, <1>1, PTL

\* A container logs in only with credentials that a pull secret holds for the
\* registry of its own image (kube/secrets.go MapContainerNamesToDockerAuths).
THEOREM TrivyOwnCredentials ==
  ASSUME Trivy!ConstantsAssumption PROVE Trivy!Spec => []Trivy!OwnCredentials
<1>1. TrivyInv => Trivy!OwnCredentials
      BY DEF TrivyInv, CredentialsHeld, Holds, Trivy!OwnCredentials
<1> QED BY TrivyInductive, <1>1, PTL

=============================================================================
