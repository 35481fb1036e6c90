-------------------------- MODULE InstallationProofs --------------------------
(***************************************************************************)
(* Proofs about the installer, for any number of operators, any initial    *)
(* state of the cluster and any edits and faults: types, and what a        *)
(* command that succeeds leaves behind.  The invariant says what a command *)
(* has achieved before its current step, in spite of what the operators    *)
(* and a namespace that is going away do meanwhile.                        *)
(***************************************************************************)
EXTENDS Installation, TLAPS

Invocations == [cmd : {"install", "uninstall", "operator"}, at : Nat,
            seen : Values \cup {"?"}, scanners : Values, left : SUBSET CRDs]

\* The kind of step that p is at.
Op(p) == StepsOf(proc[p].cmd)[proc[p].at].op

\* A process runs one of its commands, and is at one of its steps.
ProcType ==
  /\ proc \in [Procs -> Invocations \cup {Idle}]
  /\ result \in [Procs -> {"none", "success", "error"}]
  /\ \A p \in Procs : proc[p] # Idle =>
       /\ proc[p].cmd \in Commands[p] /\ proc[p].at \in 1..Len(StepsOf(proc[p].cmd))
       /\ result[p] # "success"

ClusterType ==
  /\ store \in [ObjectNames -> Values] /\ terminating \subseteq CRDs
  /\ ns \in {"none", "active", "terminating"} /\ served \in BOOLEAN
  /\ \A o \in Namespaced : store[o] # "none" => ns # "none"
  /\ store["spec"] # "none" \/ served => store["compliance"] # "none"
  /\ edits \in Nat /\ faults \in Nat /\ edits + faults <= MaxDisturbances

\* What install has done before its step at, where the namespace it found may
\* still go away until the secret is created, and the CRDs it updated while they
\* were terminating may go at any time.
InstallDone(p) ==
  proc[p] # Idle /\ proc[p].cmd = "install" =>
    LET at == proc[p].at
        there(o) == ns = "active" => store[o] # "none"
        applied(c) == c \in proc[p].left \/ (store[c] = "new" /\ c \notin terminating)
    IN /\ at > 1 => applied("reports")
       /\ at > 2 => applied("compliance")
       /\ at > 5 \/ (at = 5 /\ proc[p].seen \notin {"?", "none"}) => there("config")
       /\ at > 6 \/ (at = 6 /\ proc[p].seen \notin {"?", "none"}) => there("policies")
       /\ at > 7 => ns = "active" /\ there("secret")
       /\ at > 11 \/ (at = 11 /\ proc[p].seen \notin {"?", "none"}) => there("sa")
       /\ at > 12 => store["role"] = "new"

\* What uninstall has removed before its step at, but for what is in the namespace.
\* A CRD that was there is at least terminating.
UninstallDone(p) ==
  proc[p] # Idle /\ proc[p].cmd = "uninstall" =>
    LET at == proc[p].at
        goes(o) == store[o] = "none" \/ o \in terminating
    IN /\ at > 1 => goes("reports")
       /\ at > 2 => goes("compliance") /\ (store["spec"] = "none" \/ "compliance" \in terminating)
       /\ at > 3 => store["binding"] = "none"
       /\ at > 4 => store["role"] = "none"

IInv == ProcType /\ ClusterType /\ \A p \in Procs : InstallDone(p) /\ UninstallDone(p)

-----------------------------------------------------------------------------
\* The steps of install, by their positions.
LEMMA InstallSteps ==
  /\ Len(Install) = 13
  /\ Install[1] = step("apply", "reports")
  /\ Install[2] = step("apply", "compliance")
  /\ Install[3] = step("applySpec", "spec")
  /\ Install[4] = step("ensureNs", "ns")
  /\ Install[5] = step("ensure", "config")
  /\ Install[6] = step("ensure", "policies")
  /\ Install[7] = step("create", "secret")
  /\ Install[8] = step("read", "config")
  /\ Install[9] = step("plugin", "vulnerability")
  /\ Install[10] = step("plugin", "configAudit")
  /\ Install[11] = step("ensure", "sa")
  /\ Install[12] = step("apply", "role")
  /\ Install[13] = step("apply", "binding")
BY DEF Install, InstallCRDs, Configure, InitRBAC

\* The steps of uninstall.
LEMMA UninstallSteps ==
  /\ Len(Uninstall) = 10
  /\ Uninstall[1] = step("delete", "reports")
  /\ Uninstall[2] = step("delete", "compliance")
  /\ Uninstall[3] = step("delete", "binding")
  /\ Uninstall[4] = step("delete", "role")
  /\ Uninstall[5] = step("delete", "sa")
  /\ Uninstall[6] = step("delete", "config")
  /\ Uninstall[7] = step("delete", "polaris")
  /\ Uninstall[8] = step("delete", "secret")
  /\ Uninstall[9] = step("deleteNs", "ns")
  /\ Uninstall[10] = step("waitNs", "ns")
BY DEF Uninstall, CleanupRBAC

\* The steps of the operator's start.
LEMMA ConfigureSteps ==
  /\ Len(Configure) = 6
  /\ Configure[1] = step("ensure", "config")
  /\ Configure[2] = step("ensure", "policies")
  /\ Configure[3] = step("create", "secret")
  /\ Configure[4] = step("read", "config")
  /\ Configure[5] = step("plugin", "vulnerability")
  /\ Configure[6] = step("plugin", "configAudit")
BY DEF Configure

\* The steps of the commands, as a relation.
InstallAt(at, op, obj) ==
  \/ at = 1 /\ op = "apply" /\ obj = "reports"
  \/ at = 2 /\ op = "apply" /\ obj = "compliance"
  \/ at = 3 /\ op = "applySpec" /\ obj = "spec"
  \/ at = 4 /\ op = "ensureNs" /\ obj = "ns"
  \/ at = 5 /\ op = "ensure" /\ obj = "config"
  \/ at = 6 /\ op = "ensure" /\ obj = "policies"
  \/ at = 7 /\ op = "create" /\ obj = "secret"
  \/ at = 8 /\ op = "read" /\ obj = "config"
  \/ at = 9 /\ op = "plugin" /\ obj = "vulnerability"
  \/ at = 10 /\ op = "plugin" /\ obj = "configAudit"
  \/ at = 11 /\ op = "ensure" /\ obj = "sa"
  \/ at = 12 /\ op = "apply" /\ obj = "role"
  \/ at = 13 /\ op = "apply" /\ obj = "binding"

UninstallAt(at, op, obj) ==
  \/ at = 1 /\ op = "delete" /\ obj = "reports"
  \/ at = 2 /\ op = "delete" /\ obj = "compliance"
  \/ at = 3 /\ op = "delete" /\ obj = "binding"
  \/ at = 4 /\ op = "delete" /\ obj = "role"
  \/ at = 5 /\ op = "delete" /\ obj = "sa"
  \/ at = 6 /\ op = "delete" /\ obj = "config"
  \/ at = 7 /\ op = "delete" /\ obj = "polaris"
  \/ at = 8 /\ op = "delete" /\ obj = "secret"
  \/ at = 9 /\ op = "deleteNs" /\ obj = "ns"
  \/ at = 10 /\ op = "waitNs" /\ obj = "ns"

ConfigureAt(at, op, obj) ==
  \/ at = 1 /\ op = "ensure" /\ obj = "config"
  \/ at = 2 /\ op = "ensure" /\ obj = "policies"
  \/ at = 3 /\ op = "create" /\ obj = "secret"
  \/ at = 4 /\ op = "read" /\ obj = "config"
  \/ at = 5 /\ op = "plugin" /\ obj = "vulnerability"
  \/ at = 6 /\ op = "plugin" /\ obj = "configAudit"

\* Where a process is.
LEMMA Position ==
  ASSUME ProcType, NEW p \in Procs, proc[p] # Idle
  PROVE  /\ proc[p] \in Invocations /\ proc[p].cmd \in Commands[p] /\ result[p] # "success"
         /\ \/ /\ proc[p].cmd = "install" /\ Len(StepsOf(proc[p].cmd)) = 13
               /\ InstallAt(proc[p].at, Op(p), Object(p))
            \/ /\ proc[p].cmd = "uninstall" /\ Len(StepsOf(proc[p].cmd)) = 10
               /\ UninstallAt(proc[p].at, Op(p), Object(p))
            \/ /\ proc[p].cmd = "operator" /\ Len(StepsOf(proc[p].cmd)) = 6
               /\ ConfigureAt(proc[p].at, Op(p), Object(p))
<1> DEFINE cmd == proc[p].cmd
           at == proc[p].at
           s == StepsOf(cmd)[at]
<1>1. proc[p] \in Invocations /\ cmd \in Commands[p] /\ result[p] # "success"
      BY DEF ProcType
<1>2. at \in 1..Len(StepsOf(cmd))
      BY DEF ProcType
<1>3. Object(p) = s.obj /\ Op(p) = s.op
      BY DEF Object, Op
<1>4. \A op, obj : step(op, obj).op = op /\ step(op, obj).obj = obj
      BY DEF step
<1>5. CASE cmd = "install"
  <2>1. StepsOf(cmd) = Install
        BY <1>5 DEF StepsOf
  <2>2. at \in 1..13 /\ s = Install[at]
        BY <1>2, <2>1, InstallSteps
  <2> HIDE DEF s, at
  <2>3. InstallAt(at, s.op, s.obj)
        BY <1>4, <2>2, InstallSteps DEF InstallAt
  <2> QED BY <1>1, <1>3, <1>5, <2>1, <2>3, InstallSteps DEF at
<1>6. CASE cmd = "uninstall"
  <2>1. StepsOf(cmd) = Uninstall
        BY <1>6 DEF StepsOf
  <2>2. at \in 1..10 /\ s = Uninstall[at]
        BY <1>2, <2>1, UninstallSteps
  <2> HIDE DEF s, at
  <2>3. UninstallAt(at, s.op, s.obj)
        BY <1>4, <2>2, UninstallSteps DEF UninstallAt
  <2> QED BY <1>1, <1>3, <1>6, <2>1, <2>3, UninstallSteps DEF at
<1>7. CASE cmd = "operator"
  <2>1. StepsOf(cmd) = Configure
        BY <1>7 DEF StepsOf
  <2>2. at \in 1..6 /\ s = Configure[at]
        BY <1>2, <2>1, ConfigureSteps
  <2> HIDE DEF s, at
  <2>3. ConfigureAt(at, s.op, s.obj)
        BY <1>4, <2>2, ConfigureSteps DEF ConfigureAt
  <2> QED BY <1>1, <1>3, <1>7, <2>1, <2>3, ConfigureSteps DEF at
<1> QED BY <1>1, <1>5, <1>6, <1>7 DEF Invocations

\* The tables of the commands do not depend on the state.
LEMMA SameTables ==
  /\ Invocations' = Invocations /\ \A cmd : StepsOf(cmd)' = StepsOf(cmd)
  /\ ObjectNames' = ObjectNames /\ Namespaced' = Namespaced /\ CRDs' = CRDs
  /\ Values' = Values
BY DEF Invocations, Values, ObjectNames, CRDs, Namespaced, StepsOf,
       Install, Uninstall, Configure, InstallCRDs, InitRBAC,
       CleanupRBAC, step

\* What there is outside the namespace.
LEMMA Outside ==
  /\ CRDs \cup {"role", "binding", "spec"} = ObjectNames \ Namespaced
  /\ CRDs = {"reports", "compliance"}
  /\ \A o \in {"compliance", "spec", "role", "binding"} : o \in ObjectNames /\ o \notin Namespaced
BY DEF CRDs, ObjectNames, Namespaced

\* A process goes on with a new record, and all others stay.
LEMMA ProcTypeKept ==
  ASSUME ProcType, NEW p \in Procs, NEW t,
         proc' = [proc EXCEPT ![p] = t], result' = [result EXCEPT ![p] = result'[p]],
         result'[p] \in {"none", "success", "error"},
         \/ t = Idle
         \/ /\ t \in Invocations /\ t.cmd \in Commands[p] /\ t.at \in 1..Len(StepsOf(t.cmd))
            /\ result'[p] # "success"
  PROVE  /\ ProcType' /\ proc'[p] = t
         /\ \A q \in Procs \ {p} : proc'[q] = proc[q] /\ result'[q] = result[q]
<1>1. proc \in [Procs -> Invocations \cup {Idle}] /\ result \in [Procs -> {"none", "success", "error"}]
      BY DEF ProcType
<1>2. proc' \in [Procs -> Invocations \cup {Idle}] /\ result' \in [Procs -> {"none", "success", "error"}]
      BY <1>1
<1>3. proc'[p] = t /\ \A q \in Procs \ {p} : proc'[q] = proc[q] /\ result'[q] = result[q]
      BY <1>1
<1>4. ASSUME NEW q \in Procs, proc'[q] # Idle
      PROVE  /\ proc'[q].cmd \in Commands[q] /\ proc'[q].at \in 1..Len(StepsOf(proc'[q].cmd))
             /\ result'[q] # "success"
  <2>1. CASE q = p
        BY <1>3, <1>4, <2>1
  <2>2. CASE q # p
        BY <1>3, <1>4, <2>2 DEF ProcType
  <2> QED BY <2>1, <2>2
<1> QED BY <1>2, <1>3, <1>4, SameTables DEF ProcType

\* What a process that acts does to proc and result.
Others(p) == \A q \in Procs \ {p} : proc'[q] = proc[q] /\ result'[q] = result[q]

\* A command that goes on is at its next step, or at its end.
LEMMA AdvancedPast ==
  ASSUME ProcType, NEW p \in Procs, NEW objs \in SUBSET CRDs, proc[p] # Idle, AdvancePast(p, objs)
  PROVE  /\ ProcType' /\ Others(p)
         /\ proc[p].at = Len(StepsOf(proc[p].cmd)) => proc'[p] = Idle
         /\ proc[p].at # Len(StepsOf(proc[p].cmd)) =>
              /\ proc'[p].cmd = proc[p].cmd /\ proc'[p].at = proc[p].at + 1 /\ proc'[p].seen = "?"
              /\ proc'[p].left = proc[p].left \cup objs
              /\ result'[p] = result[p]
<1>1. /\ proc[p] \in Invocations /\ proc[p].cmd \in Commands[p] /\ result[p] # "success"
      /\ proc[p].at \in 1..Len(StepsOf(proc[p].cmd)) /\ Len(StepsOf(proc[p].cmd)) \in Nat
      /\ proc \in [Procs -> Invocations \cup {Idle}] /\ result \in [Procs -> {"none", "success", "error"}]
      BY Position DEF ProcType
<1> DEFINE len == Len(StepsOf(proc[p].cmd))
<1>2. CASE proc[p].at = len
  <2>1. proc' = [proc EXCEPT ![p] = Idle] /\ result' = [result EXCEPT ![p] = "success"]
        BY <1>2 DEF AdvancePast
  <2>2. result'[p] = "success"
        BY <1>1, <2>1
  <2> QED BY <1>2, <2>1, <2>2, ProcTypeKept DEF Others
<1>3. CASE proc[p].at # len
  <2> DEFINE t == [proc[p] EXCEPT !.at = @ + 1, !.seen = "?", !.left = @ \cup objs]
  <2>1. proc' = [proc EXCEPT ![p] = t] /\ result' = result
        BY <1>3 DEF AdvancePast
  <2>2. /\ t \in Invocations /\ t.cmd = proc[p].cmd /\ t.at = proc[p].at + 1 /\ t.seen = "?"
        /\ t.left = proc[p].left \cup objs
    <3>1. proc[p].at \in Nat
          BY <1>1 DEF Invocations
    <3>2. proc[p].at + 1 \in Nat
          BY <3>1
    <3> QED BY <1>1, <3>2 DEF Invocations
  <2>3. t.at \in 1..Len(StepsOf(t.cmd))
        BY <1>1, <1>3, <2>2
  <2>4. result' = [result EXCEPT ![p] = result'[p]] /\ result'[p] \in {"none", "success", "error"}
        BY <1>1, <2>1
  <2> HIDE DEF t
  <2>5. ProcType' /\ proc'[p] = t /\ Others(p)
        BY <1>1, <2>1, <2>2, <2>3, <2>4, ProcTypeKept DEF Others
  <2> QED BY <1>3, <2>1, <2>2, <2>5 DEF t
<1> QED BY <1>2, <1>3

\* Most steps update no CRD.
LEMMA Advanced ==
  ASSUME ProcType, NEW p \in Procs, proc[p] # Idle, Advance(p)
  PROVE  /\ ProcType' /\ Others(p)
         /\ proc[p].at = Len(StepsOf(proc[p].cmd)) => proc'[p] = Idle
         /\ proc[p].at # Len(StepsOf(proc[p].cmd)) =>
              /\ proc'[p].cmd = proc[p].cmd /\ proc'[p].at = proc[p].at + 1 /\ proc'[p].seen = "?"
              /\ proc'[p].left = proc[p].left
              /\ result'[p] = result[p]
<1>1. AdvancePast(p, {}) /\ proc[p].left \cup {} = proc[p].left
      BY DEF Advance
<1> QED BY <1>1, AdvancedPast

\* A command that fails is over.
LEMMA Failed ==
  ASSUME ProcType, NEW p \in Procs, Fail(p)
  PROVE  ProcType' /\ Others(p) /\ proc'[p] = Idle /\ result'[p] = "error"
<1>1. proc' = [proc EXCEPT ![p] = Idle] /\ result' = [result EXCEPT ![p] = "error"] /\ result'[p] = "error"
      BY DEF Fail, ProcType
<1> QED BY <1>1, ProcTypeKept DEF Others

\* A command that has read an object stays at its step.
LEMMA Saw ==
  ASSUME ProcType, ClusterType, NEW p \in Procs, proc[p] # Idle, See(p), Object(p) \in ObjectNames
  PROVE  /\ ProcType' /\ Others(p) /\ result'[p] = result[p]
         /\ proc'[p].cmd = proc[p].cmd /\ proc'[p].at = proc[p].at /\ proc'[p].seen = store[Object(p)]
         /\ proc'[p].left = proc[p].left
<1> DEFINE t == [proc[p] EXCEPT !.seen = store[Object(p)]]
<1>1. /\ proc[p] \in Invocations /\ proc[p].cmd \in Commands[p] /\ result[p] # "success"
      /\ proc[p].at \in 1..Len(StepsOf(proc[p].cmd))
      /\ result \in [Procs -> {"none", "success", "error"}] /\ store[Object(p)] \in Values
      BY Position DEF ProcType, ClusterType
<1>2. proc' = [proc EXCEPT ![p] = t] /\ result' = result
      BY DEF See
<1>3. t \in Invocations /\ t.cmd = proc[p].cmd /\ t.at = proc[p].at /\ t.seen = store[Object(p)] /\ t.left = proc[p].left
      BY <1>1 DEF Invocations
<1>4. result' = [result EXCEPT ![p] = result'[p]] /\ result'[p] \in {"none", "success", "error"}
      BY <1>1, <1>2
<1> HIDE DEF t
<1>5. ProcType' /\ proc'[p] = t /\ Others(p)
      BY <1>1, <1>2, <1>3, <1>4, ProcTypeKept DEF Others
<1> QED BY <1>2, <1>3, <1>5

\* What an operator, a user or Kubernetes may change while a command of the CLI runs:
\* outside the namespace only CRDs that are terminating go, with their objects,
\* and an active namespace loses nothing.
Untouched ==
  /\ (ns' = "active") <=> (ns = "active")
  /\ terminating' \subseteq terminating
  /\ \A o \in {"role", "binding"} : store'[o] = store[o]
  /\ \A o \in CRDs : IF o \in terminating THEN o \in terminating' \/ store'[o] = "none"
                     ELSE store'[o] = store[o]
  /\ store'["spec"] \in {store["spec"], "none"}
  /\ "compliance" \in terminating \ terminating' => store'["spec"] = "none"
  /\ ns = "active" => \A o \in Namespaced : store[o] # "none" => store'[o] # "none"

InstallEnd(p) ==
  /\ ns' = "active"
  /\ \A o \in CRDs \ proc[p].left : store'[o] = "new" /\ o \notin terminating'
  /\ \A o \in {"role", "binding"} : store'[o] = "new"
  /\ \A o \in {"config", "policies", "secret", "sa"} : store'[o] # "none"

UninstallEnd ==
  /\ ns' = "none" /\ \A o \in Namespaced \cup {"role", "binding"} : store'[o] = "none"
  /\ \A o \in CRDs : store'[o] = "none" \/ o \in terminating'
  /\ store'["spec"] = "none" \/ "compliance" \in terminating'

\* What every step of a process p achieves.
StepEffect(p) ==
  /\ ProcType' /\ ClusterType' /\ Others(p)
  /\ InstallDone(p)' /\ UninstallDone(p)'
  /\ proc[p].cmd = "operator" => Untouched
  /\ proc[p].cmd = "install" /\ result'[p] = "success" => InstallEnd(p)
  /\ proc[p].cmd = "uninstall" /\ result'[p] = "success" => UninstallEnd

\* What is done stays done while others move.
LEMMA ProgressKept ==
  ASSUME NEW p \in Procs, InstallDone(p), UninstallDone(p), Untouched, proc'[p] = proc[p]
  PROVE  InstallDone(p)' /\ UninstallDone(p)'
<1>1. /\ \A o \in {"role", "binding"} : store'[o] = store[o]
      /\ \A o \in {"reports", "compliance"} :
           IF o \in terminating THEN o \in terminating' \/ store'[o] = "none" ELSE store'[o] = store[o]
      BY DEF Untouched, CRDs
<1>2. ns' = "active" => ns = "active" /\ \A o \in {"config", "policies", "secret", "sa"} : store[o] # "none" => store'[o] # "none"
      BY DEF Untouched, Namespaced
<1>3. /\ ns = "active" => ns' = "active"
      /\ terminating' \subseteq terminating /\ store'["spec"] \in {store["spec"], "none"}
      /\ "compliance" \in terminating \ terminating' => store'["spec"] = "none"
      BY DEF Untouched
<1>4. InstallDone(p)'
      BY <1>1, <1>2, <1>3 DEF InstallDone
<1>5. UninstallDone(p)'
      BY <1>1, <1>3 DEF UninstallDone
<1> QED BY <1>4, <1>5

\* A write keeps the store well typed.
LEMMA Written ==
  ASSUME ClusterType, NEW o \in ObjectNames, NEW v \in Values, Write(o, v),
         Creatable(o), o = "compliance" => v # "none", o = "spec" => store["compliance"] # "none",
         UNCHANGED <<served, edits, faults>>
  PROVE  /\ ClusterType' /\ ns' = ns /\ store'[o] = v /\ terminating' = terminating
         /\ \A q \in ObjectNames \ {o} : store'[q] = store[q]
<1>1. store' = [store EXCEPT ![o] = v] /\ ns' = ns /\ terminating' = terminating
      BY DEF Write
<1>2. store' \in [ObjectNames -> Values] /\ store'[o] = v
      /\ \A q \in ObjectNames \ {o} : store'[q] = store[q]
      BY <1>1 DEF ClusterType
<1>3. \A q \in Namespaced : store'[q] # "none" => ns' # "none"
      BY <1>1, <1>2 DEF ClusterType, Creatable, ObjectNames
<1>4. store'["spec"] # "none" \/ served' => store'["compliance"] # "none"
      BY <1>2, Outside DEF ClusterType
<1> QED BY <1>1, <1>2, <1>3, <1>4, SameTables DEF ClusterType

\* A cluster that stays as it is.
LEMMA Unwritten ==
  ASSUME ClusterType, UNCHANGED <<store, terminating, ns, served, edits, faults>>
  PROVE  ClusterType' /\ Untouched
BY SameTables DEF ClusterType, Untouched, CRDs

\* A failed step ends the command.
LEMMA FailEffect ==
  ASSUME IInv, NEW p \in Procs, Fail(p), UNCHANGED <<store, terminating, ns, served, edits, faults>>
  PROVE  StepEffect(p)
<1>1. ProcType' /\ Others(p) /\ proc'[p] = Idle /\ result'[p] = "error"
      BY Failed DEF IInv
<1>2. ClusterType' /\ Untouched
      BY Unwritten DEF IInv
<1> QED BY <1>1, <1>2 DEF StepEffect, InstallDone, UninstallDone

\* Custom resource definitions, role and binding.
LEMMA ApplyEffect == ASSUME IInv, NEW p \in Procs, Apply(p) PROVE StepEffect(p)
<1> DEFINE at == proc[p].at
           obj == Object(p)
<1> USE DEF IInv
<1>1. proc[p] # Idle /\ Op(p) = "apply"
      BY DEF Apply, Running, Op
<1>2. /\ proc[p].cmd = "install" /\ Len(StepsOf(proc[p].cmd)) = 13 /\ result[p] # "success"
      /\ \/ at = 1 /\ obj = "reports"
         \/ at = 2 /\ obj = "compliance"
         \/ at = 12 /\ obj = "role"
         \/ at = 13 /\ obj = "binding"
  <2>1. ~UninstallAt(at, Op(p), obj) /\ ~ConfigureAt(at, Op(p), obj)
        BY <1>1 DEF UninstallAt, ConfigureAt
  <2>2. /\ proc[p].cmd = "install" /\ Len(StepsOf(proc[p].cmd)) = 13 /\ result[p] # "success"
        /\ InstallAt(at, Op(p), obj)
        BY <1>1, <2>1, Position
  <2> QED BY <1>1, <2>2 DEF InstallAt
<1>3. obj \in ObjectNames /\ obj \notin Namespaced
      BY <1>2 DEF ObjectNames, CRDs, Namespaced
<1>4. CASE proc[p].seen = "?"
  <2>1. See(p) /\ UNCHANGED <<store, terminating, ns, served, edits, faults>>
        BY <1>4 DEF Apply, See, clusterVars
  <2>2. /\ ProcType' /\ Others(p) /\ result'[p] = result[p]
        /\ proc'[p].cmd = proc[p].cmd /\ proc'[p].at = at /\ proc'[p].left = proc[p].left
        BY <1>1, <1>3, <2>1, Saw
  <2>3. ClusterType'
        BY <2>1, Unwritten
  <2>4. InstallDone(p)' /\ UninstallDone(p)'
        BY <1>1, <1>2, <2>1, <2>2 DEF InstallDone, UninstallDone
  <2> QED BY <1>2, <2>2, <2>3, <2>4 DEF StepEffect
<1>5. CASE proc[p].seen # "?" /\ store[obj] = proc[p].seen
  <2> DEFINE objs == {obj} \cap terminating
  <2>1. Write(obj, "new") /\ AdvancePast(p, objs) /\ objs \in SUBSET CRDs /\ UNCHANGED <<served, edits, faults>>
        BY <1>5 DEF Apply, ClusterType
  <2>2. /\ ClusterType' /\ ns' = ns /\ store'[obj] = "new" /\ terminating' = terminating
        /\ \A q \in ObjectNames \ {obj} : store'[q] = store[q]
    <3>1. obj # "spec" /\ "new" \in Values /\ "new" # "none" /\ Creatable(obj)
          BY <1>2, <1>3 DEF Values, Creatable
    <3> HIDE DEF obj
    <3> QED BY <1>3, <2>1, <3>1, Written
  <2>3. \A q \in {"reports", "compliance", "role", "config", "policies", "secret", "sa"} :
          store'[q] = IF q = obj THEN "new" ELSE store[q]
        BY <2>2 DEF ObjectNames, CRDs, Namespaced
  <2>4. CASE at = 13
    <3>1. ProcType' /\ Others(p) /\ proc'[p] = Idle
          BY <1>1, <1>2, <2>1, <2>4, AdvancedPast
    <3>2. InstallEnd(p)
          BY <1>1, <1>2, <2>2, <2>3, <2>4 DEF InstallDone, InstallEnd, CRDs
    <3> QED BY <1>2, <2>2, <3>1, <3>2 DEF StepEffect, InstallDone, UninstallDone
  <2>5. CASE at # 13
    <3>1. /\ ProcType' /\ Others(p) /\ result'[p] = result[p]
          /\ proc'[p].cmd = proc[p].cmd /\ proc'[p].at = at + 1 /\ proc'[p].seen = "?"
          /\ proc'[p].left = proc[p].left \cup objs
          BY <1>1, <1>2, <2>1, <2>5, AdvancedPast
    <3>2. InstallDone(p)' /\ UninstallDone(p)'
          BY <1>1, <1>2, <2>2, <2>3, <2>5, <3>1 DEF InstallDone, UninstallDone
    <3> QED BY <1>2, <2>2, <3>1, <3>2 DEF StepEffect
  <2> QED BY <2>4, <2>5
<1>6. CASE proc[p].seen # "?" /\ store[obj] # proc[p].seen
  <2>1. Fail(p) /\ UNCHANGED <<store, terminating, ns, served, edits, faults>>
        BY <1>6 DEF Apply, clusterVars
  <2> QED BY <2>1, FailEffect
<1> QED BY <1>4, <1>5, <1>6

\* A step that is not the last one.
LEMMA GoesOn ==
  ASSUME ProcType, NEW p \in Procs, proc[p] # Idle, Advance(p),
         NEW len, Len(StepsOf(proc[p].cmd)) = len, proc[p].at # len
  PROVE  /\ ProcType' /\ Others(p) /\ result'[p] = result[p]
         /\ proc'[p].cmd = proc[p].cmd /\ proc'[p].at = proc[p].at + 1 /\ proc'[p].seen = "?"
         /\ proc'[p].left = proc[p].left
BY Advanced

\* The specification of compliance reports, and the namespace.
LEMMA ApplySpecEffect ==
  ASSUME IInv, NEW p \in Procs, ApplySpec(p) \/ EnsureNamespace(p)
  PROVE  StepEffect(p)
<1> DEFINE at == proc[p].at
<1> USE DEF IInv
<1>1. proc[p] # Idle
      BY DEF ApplySpec, EnsureNamespace, Running
<1>2. /\ proc[p].cmd = "install" /\ Len(StepsOf(proc[p].cmd)) = 13 /\ result[p] # "success"
      /\ at = 3 \/ at = 4
  <2>1. Op(p) \in {"applySpec", "ensureNs"}
        BY DEF ApplySpec, EnsureNamespace, Running, Op
  <2> QED BY <1>1, <2>1, Position DEF InstallAt, UninstallAt, ConfigureAt
<1>3. ASSUME Advance(p)
      PROVE  /\ ProcType' /\ Others(p) /\ result'[p] = result[p]
             /\ proc'[p].cmd = proc[p].cmd /\ proc'[p].at = at + 1 /\ proc'[p].seen = "?"
             /\ proc'[p].left = proc[p].left
  <2> DEFINE len == Len(StepsOf(proc[p].cmd))
  <2>1. len = 13
        BY <1>2
  <2> HIDE DEF len
  <2>2. at # len
        BY <1>2, <2>1
  <2> QED BY <1>1, <1>3, <2>2, Advanced DEF len
<1>4. CASE ApplySpec(p)
  <2> DEFINE kept == \A q \in {"reports", "compliance"} : store'[q] = store[q]
  <2>1. ASSUME Advance(p), ClusterType', kept, terminating' = terminating PROVE StepEffect(p)
    <3>1. InstallDone(p)' /\ UninstallDone(p)'
          BY <1>1, <1>2, <1>3, <2>1 DEF InstallDone, UninstallDone
    <3> QED BY <1>2, <1>3, <2>1, <3>1 DEF StepEffect
  <2>2. CASE ~served \/ store["spec"] # "none"
    <3>1. Advance(p) /\ UNCHANGED <<store, terminating, ns, served, edits, faults>>
          BY <1>4, <2>2 DEF ApplySpec
    <3> QED BY <2>1, <3>1, Unwritten
  <2>3. CASE served /\ store["spec"] = "none" /\ "compliance" \in terminating
    <3>1. Fail(p) /\ UNCHANGED <<store, terminating, ns, served, edits, faults>>
          BY <1>4, <2>3 DEF ApplySpec
    <3> QED BY <3>1, FailEffect
  <2>4. CASE served /\ store["spec"] = "none" /\ "compliance" \notin terminating
    <3>1. "spec" \in ObjectNames /\ "new" \in Values /\ Creatable("spec")
          BY DEF ObjectNames, Values, Creatable, Namespaced
    <3>2. Advance(p) /\ Write("spec", "new") /\ UNCHANGED <<served, edits, faults>>
          BY <1>4, <2>4 DEF ApplySpec
    <3>3. ClusterType' /\ terminating' = terminating /\ \A q \in ObjectNames \ {"spec"} : store'[q] = store[q]
      <4>1. store["compliance"] # "none" /\ "spec" # "compliance"
            BY <2>4 DEF ClusterType
      <4> QED BY <3>1, <3>2, <4>1, Written
    <3>4. kept
          BY <3>3 DEF ObjectNames, CRDs
    <3> QED BY <2>1, <3>2, <3>3, <3>4
  <2> QED BY <2>2, <2>3, <2>4 DEF ClusterType
<1>5. CASE EnsureNamespace(p)
  <2>1. /\ store' = store /\ ns' \in {"none", "active", "terminating"} /\ (ns' = "none" => ns = "none")
        /\ Advance(p) /\ UNCHANGED <<terminating, served, edits, faults>>
        BY <1>5 DEF EnsureNamespace, ClusterType
  <2>2. ClusterType'
        BY <2>1, SameTables DEF ClusterType
  <2>3. InstallDone(p)' /\ UninstallDone(p)'
        BY <1>1, <1>2, <1>3, <2>1 DEF InstallDone, UninstallDone
  <2> QED BY <1>2, <1>3, <2>1, <2>2, <2>3 DEF StepEffect
<1> QED BY <1>4, <1>5

\* ConfigMaps and the service account.
LEMMA EnsureEffect == ASSUME IInv, NEW p \in Procs, Ensure(p) PROVE StepEffect(p)
<1> DEFINE at == proc[p].at
           obj == Object(p)
           cmd == proc[p].cmd
<1> USE DEF IInv
<1>1. proc[p] # Idle /\ Op(p) = "ensure"
      BY DEF Ensure, Running, Op
<1>2. /\ result[p] # "success"
      /\ \/ /\ cmd = "install" /\ Len(StepsOf(cmd)) = 13
            /\ \/ at = 5 /\ obj = "config"
               \/ at = 6 /\ obj = "policies"
               \/ at = 11 /\ obj = "sa"
         \/ /\ cmd = "operator" /\ Len(StepsOf(cmd)) = 6
            /\ \/ at = 1 /\ obj = "config"
               \/ at = 2 /\ obj = "policies"
  <2>1. ~UninstallAt(at, Op(p), obj)
        BY <1>1 DEF UninstallAt
  <2>2. ConfigureAt(at, Op(p), obj) => (at = 1 /\ obj = "config") \/ (at = 2 /\ obj = "policies")
        BY <1>1 DEF ConfigureAt
  <2>3. InstallAt(at, Op(p), obj) =>
          (at = 5 /\ obj = "config") \/ (at = 6 /\ obj = "policies") \/ (at = 11 /\ obj = "sa")
        BY <1>1 DEF InstallAt
  <2> QED BY <1>1, <2>1, <2>2, <2>3, Position
<1>3. obj \in Namespaced /\ obj \in ObjectNames
      BY <1>2 DEF ObjectNames, Namespaced
<1>4. PICK len : Len(StepsOf(cmd)) = len /\ at # len
  <2> DEFINE n == Len(StepsOf(cmd))
  <2>1. (n = 13 /\ (at = 5 \/ at = 6 \/ at = 11)) \/ (n = 6 /\ (at = 1 \/ at = 2))
        BY <1>2
  <2> HIDE DEF n
  <2>2. at # n
        BY <2>1
  <2> QED BY <2>2 DEF n
<1>5. CASE proc[p].seen = "?"
  <2>1. See(p) /\ UNCHANGED <<store, terminating, ns, served, edits, faults>>
        BY <1>5 DEF Ensure, See, clusterVars
  <2>2. /\ ProcType' /\ Others(p) /\ result'[p] = result[p]
        /\ proc'[p].cmd = cmd /\ proc'[p].at = at /\ proc'[p].seen = store[obj]
        /\ proc'[p].left = proc[p].left
        BY <1>1, <1>3, <2>1, Saw
  <2>3. ClusterType' /\ Untouched
        BY <2>1, Unwritten
  <2>4. InstallDone(p)' /\ UninstallDone(p)'
        BY <1>1, <1>2, <2>1, <2>2 DEF InstallDone, UninstallDone
  <2> QED BY <1>2, <2>2, <2>3, <2>4 DEF StepEffect
<1>6. CASE proc[p].seen \notin {"?", "none"}
  <2>1. Advance(p) /\ UNCHANGED <<store, terminating, ns, served, edits, faults>>
        BY <1>6 DEF Ensure, clusterVars
  <2>2. /\ ProcType' /\ Others(p) /\ result'[p] = result[p]
        /\ proc'[p].cmd = cmd /\ proc'[p].at = at + 1 /\ proc'[p].seen = "?"
        /\ proc'[p].left = proc[p].left
        BY <1>1, <1>4, <2>1, GoesOn
  <2>3. ClusterType' /\ Untouched
        BY <2>1, Unwritten
  <2>4. InstallDone(p)' /\ UninstallDone(p)'
        BY <1>1, <1>2, <1>6, <2>1, <2>2 DEF InstallDone, UninstallDone
  <2> QED BY <1>2, <2>2, <2>3, <2>4 DEF StepEffect
<1>7. CASE proc[p].seen = "none" /\ store[obj] = "none" /\ Creatable(obj)
  <2>1. Write(obj, "new") /\ Advance(p) /\ UNCHANGED <<served, edits, faults>>
        BY <1>7 DEF Ensure
  <2>2. /\ ProcType' /\ Others(p) /\ result'[p] = result[p]
        /\ proc'[p].cmd = cmd /\ proc'[p].at = at + 1 /\ proc'[p].seen = "?"
        /\ proc'[p].left = proc[p].left
        BY <1>1, <1>4, <2>1, GoesOn
  <2>3. /\ ClusterType' /\ ns' = ns /\ store'[obj] = "new" /\ terminating' = terminating
        /\ \A q \in ObjectNames \ {obj} : store'[q] = store[q]
    <3>1. obj # "spec" /\ "new" \in Values /\ "new" # "none"
          BY <1>2 DEF Values
    <3> HIDE DEF obj
    <3> QED BY <1>3, <1>7, <2>1, <3>1, Written
  <2>4. Untouched
        BY <1>3, <2>3, Outside DEF Untouched, ObjectNames
  <2>5. \A q \in {"reports", "compliance", "role", "config", "policies", "secret", "sa"} :
          store'[q] = IF q = obj THEN "new" ELSE store[q]
        BY <2>3 DEF ObjectNames, CRDs, Namespaced
  <2>6. InstallDone(p)' /\ UninstallDone(p)'
        BY <1>1, <1>2, <2>2, <2>3, <2>5 DEF InstallDone, UninstallDone
  <2> QED BY <1>2, <2>2, <2>3, <2>4, <2>6 DEF StepEffect
<1>8. CASE proc[p].seen = "none" /\ ~(store[obj] = "none" /\ Creatable(obj))
  <2>1. Fail(p) /\ UNCHANGED <<store, terminating, ns, served, edits, faults>>
        BY <1>8 DEF Ensure, clusterVars
  <2> QED BY <2>1, FailEffect
<1> QED BY <1>5, <1>6, <1>7, <1>8

\* What Create, EnsureConfig and the secret do to the cluster.
LEMMA Created ==
  ASSUME IInv, NEW p \in Procs, NEW o \in Namespaced, Creatable(o),
         CreateIfNotExists(p, o), UNCHANGED <<served, edits, faults>>
  PROVE  /\ ClusterType' /\ Untouched /\ Advance(p) /\ ns = "active" /\ ns' = ns /\ store'[o] # "none"
         /\ terminating' = terminating
         /\ \A q \in {"reports", "compliance", "role"} : store'[q] = store[q]
         /\ \A q \in Namespaced : store[q] # "none" => store'[q] # "none"
<1> DEFINE v == IF store[o] = "none" THEN "new" ELSE store[o]
<1>1. Write(o, v) /\ Advance(p)
      BY DEF CreateIfNotExists
<1>2. v \in Values /\ v # "none" /\ o \in ObjectNames /\ o # "spec"
      BY Outside DEF IInv, ClusterType, Values, ObjectNames
<1>3. /\ ClusterType' /\ ns' = ns /\ store'[o] = v /\ terminating' = terminating
      /\ \A q \in ObjectNames \ {o} : store'[q] = store[q]
      BY <1>1, <1>2, Written DEF IInv
<1>4. \A q \in Namespaced : store[q] # "none" => store'[q] # "none"
      BY <1>2, <1>3 DEF ObjectNames
<1>5. \A q \in ObjectNames \ Namespaced : store'[q] = store[q]
      BY <1>3
<1>6. \A q \in {"reports", "compliance", "role"} : store'[q] = store[q]
      BY <1>5 DEF ObjectNames, Namespaced, CRDs
<1>7. ns = "active"
      BY DEF Creatable
<1>8. Untouched
      BY <1>3, <1>4, <1>5, Outside DEF Untouched
<1> QED BY <1>1, <1>2, <1>3, <1>4, <1>5, <1>6, <1>7, <1>8

\* The secret.
LEMMA CreateEffect == ASSUME IInv, NEW p \in Procs, Create(p) PROVE StepEffect(p)
<1> DEFINE at == proc[p].at
           cmd == proc[p].cmd
<1> USE DEF IInv
<1>1. proc[p] # Idle /\ Op(p) = "create"
      BY DEF Create, Running, Op
<1>2. /\ result[p] # "success" /\ Object(p) = "secret"
      /\ \/ cmd = "install" /\ Len(StepsOf(cmd)) = 13 /\ at = 7
         \/ cmd = "operator" /\ Len(StepsOf(cmd)) = 6 /\ at = 3
      BY <1>1, Position DEF InstallAt, UninstallAt, ConfigureAt
<1>3. CreateIfNotExists(p, "secret") /\ UNCHANGED <<served, edits, faults>>
      BY <1>2 DEF Create
<1>4. CASE Creatable("secret")
  <2>1. /\ ClusterType' /\ Untouched /\ Advance(p) /\ ns = "active" /\ ns' = ns /\ store'["secret"] # "none"
        /\ terminating' = terminating
        /\ \A q \in {"reports", "compliance", "role"} : store'[q] = store[q]
        /\ \A q \in Namespaced : store[q] # "none" => store'[q] # "none"
    <3>1. "secret" \in Namespaced
          BY DEF Namespaced
    <3> QED BY <1>3, <1>4, <3>1, Created
  <2>2. PICK len : Len(StepsOf(cmd)) = len /\ at # len
    <3> DEFINE n == Len(StepsOf(cmd))
    <3>1. (n = 13 /\ at = 7) \/ (n = 6 /\ at = 3)
          BY <1>2
    <3> HIDE DEF n
    <3>2. at # n
          BY <3>1
    <3> QED BY <3>2 DEF n
  <2>3. /\ ProcType' /\ Others(p) /\ result'[p] = result[p]
        /\ proc'[p].cmd = cmd /\ proc'[p].at = at + 1 /\ proc'[p].seen = "?"
        /\ proc'[p].left = proc[p].left
        BY <1>1, <2>1, <2>2, GoesOn
  <2>4. \A q \in {"config", "policies"} : store[q] # "none" => store'[q] # "none"
        BY <2>1 DEF Namespaced
  <2>5. InstallDone(p)' /\ UninstallDone(p)'
        BY <1>1, <1>2, <2>1, <2>3, <2>4 DEF InstallDone, UninstallDone
  <2> QED BY <1>2, <2>1, <2>3, <2>5 DEF StepEffect
<1>5. CASE ~Creatable("secret")
  <2>1. Fail(p) /\ UNCHANGED <<store, terminating, ns, served, edits, faults>>
        BY <1>3, <1>5 DEF CreateIfNotExists
  <2> QED BY <2>1, FailEffect
<1> QED BY <1>4, <1>5

\* The configuration is read.
LEMMA ReadEffect == ASSUME IInv, NEW p \in Procs, Read(p) PROVE StepEffect(p)
<1> DEFINE at == proc[p].at
           cmd == proc[p].cmd
           t == [proc[p] EXCEPT !.at = @ + 1, !.scanners = store["config"]]
<1> USE DEF IInv
<1>1. proc[p] # Idle /\ Op(p) = "read" /\ UNCHANGED <<store, terminating, ns, served, edits, faults>>
      BY DEF Read, Running, Op, clusterVars
<1>2. /\ proc[p] \in Invocations /\ cmd \in Commands[p] /\ result[p] # "success"
      /\ \/ cmd = "install" /\ Len(StepsOf(cmd)) = 13 /\ at = 8
         \/ cmd = "operator" /\ Len(StepsOf(cmd)) = 6 /\ at = 4
      BY <1>1, Position DEF InstallAt, UninstallAt, ConfigureAt
<1>3. CASE "none" \in {store["config"], store["secret"]}
  <2>1. Fail(p)
        BY <1>3 DEF Read
  <2> QED BY <1>1, <2>1, FailEffect
<1>4. CASE "none" \notin {store["config"], store["secret"]}
  <2>1. proc' = [proc EXCEPT ![p] = t] /\ result' = result
        BY <1>4 DEF Read
  <2>2. t \in Invocations /\ t.cmd = cmd /\ t.at = at + 1 /\ t.left = proc[p].left
    <3>1. store["config"] \in Values
          BY DEF ClusterType, ObjectNames, Namespaced
    <3>2. at \in Nat /\ at + 1 \in Nat
          BY <1>2
    <3> QED BY <1>2, <3>1, <3>2 DEF Invocations
  <2>3. t.at \in 1..Len(StepsOf(t.cmd))
    <3> DEFINE n == Len(StepsOf(cmd))
    <3>1. (n = 13 /\ at = 8) \/ (n = 6 /\ at = 4)
          BY <1>2
    <3> HIDE DEF n
    <3>2. at + 1 \in 1..n
          BY <3>1
    <3> QED BY <2>2, <3>2 DEF n
  <2>4. result \in [Procs -> {"none", "success", "error"}]
        BY DEF ProcType
  <2>5. result' = [result EXCEPT ![p] = result'[p]] /\ result'[p] \in {"none", "success", "error"}
        BY <2>1, <2>4
  <2> HIDE DEF t
  <2>6. ProcType' /\ proc'[p] = t /\ Others(p)
        BY <1>2, <2>1, <2>2, <2>3, <2>5, ProcTypeKept DEF Others
  <2>7. ClusterType' /\ Untouched
        BY <1>1, Unwritten
  <2>8. InstallDone(p)' /\ UninstallDone(p)'
        BY <1>1, <1>2, <2>2, <2>6 DEF InstallDone, UninstallDone
  <2> QED BY <1>2, <2>1, <2>6, <2>7, <2>8 DEF StepEffect
<1> QED BY <1>3, <1>4

\* The configuration of the plugins.
LEMMA PluginEffect == ASSUME IInv, NEW p \in Procs, InitPlugin(p) PROVE StepEffect(p)
<1> DEFINE at == proc[p].at
           cmd == proc[p].cmd
           o == ConfigToCreate(p)
<1> USE DEF IInv
<1>1. proc[p] # Idle /\ Op(p) = "plugin"
      BY DEF InitPlugin, Running, Op
<1>2. /\ result[p] # "success"
      /\ \/ cmd = "install" /\ Len(StepsOf(cmd)) = 13 /\ (at = 9 \/ at = 10)
         \/ cmd = "operator" /\ Len(StepsOf(cmd)) = 6 /\ (at = 5 \/ at = 6)
      BY <1>1, Position DEF InstallAt, UninstallAt, ConfigureAt
<1>3. o \in {"error", "none"} \/ o \in Namespaced
      BY DEF ConfigToCreate, PluginConfig, Namespaced
<1>4. ASSUME /\ ClusterType' /\ Untouched /\ Advance(p) /\ ns' = ns /\ terminating' = terminating
             /\ \A q \in {"reports", "compliance", "role"} : store'[q] = store[q]
             /\ ns = "active" => \A q \in Namespaced : store[q] # "none" => store'[q] # "none"
      PROVE  StepEffect(p)
  <2>1. ProcType' /\ Others(p)
        BY <1>1, <1>4, Advanced
  <2>2. CASE cmd = "install"
    <3> DEFINE n == Len(StepsOf(cmd))
    <3>1. n = 13 /\ (at = 9 \/ at = 10)
          BY <1>2, <2>2
    <3>2. at # n
      <4> HIDE DEF n
      <4> QED BY <3>1
    <3>3. /\ result'[p] = result[p]
          /\ proc'[p].cmd = cmd /\ proc'[p].at = at + 1 /\ proc'[p].seen = "?"
        /\ proc'[p].left = proc[p].left
          BY <1>1, <1>4, <3>2, GoesOn
    <3>4. ns = "active" => \A q \in {"config", "policies", "secret"} : store[q] # "none" => store'[q] # "none"
          BY <1>4 DEF Namespaced
    <3>5. InstallDone(p)' /\ UninstallDone(p)'
          BY <1>1, <1>4, <2>2, <3>1, <3>3, <3>4 DEF InstallDone, UninstallDone
    <3> QED BY <1>2, <1>4, <2>1, <2>2, <3>3, <3>5 DEF StepEffect
  <2>3. CASE cmd = "operator"
    <3>1. proc'[p] # Idle => proc'[p].cmd = "operator"
          BY <1>1, <1>4, <2>3, Advanced
    <3> QED BY <1>4, <2>1, <2>3, <3>1 DEF StepEffect, InstallDone, UninstallDone
  <2> QED BY <1>2, <2>2, <2>3
<1>5. UNCHANGED <<served, edits, faults>>
      BY DEF InitPlugin
<1>6. CASE o = "error"
  <2>1. Fail(p) /\ UNCHANGED <<store, terminating, ns, served, edits, faults>>
        BY <1>5, <1>6 DEF InitPlugin
  <2> QED BY <2>1, FailEffect
<1>7. CASE o = "none"
  <2>1. Advance(p) /\ UNCHANGED <<store, terminating, ns, served, edits, faults>>
        BY <1>5, <1>7 DEF InitPlugin
  <2>2. ClusterType' /\ Untouched
        BY <2>1, Unwritten
  <2> QED BY <1>4, <2>1, <2>2
<1>8. CASE o \in Namespaced /\ Creatable(o)
  <2>1. CreateIfNotExists(p, o)
        BY <1>8 DEF InitPlugin, Namespaced
  <2> HIDE DEF o
  <2> QED BY <1>4, <1>5, <1>8, <2>1, Created
<1>9. CASE o \in Namespaced /\ ~Creatable(o)
  <2>1. CreateIfNotExists(p, o)
        BY <1>9 DEF InitPlugin, Namespaced
  <2>2. Fail(p) /\ UNCHANGED <<store, terminating, ns, served, edits, faults>>
        BY <1>5, <1>9, <2>1 DEF CreateIfNotExists
  <2> QED BY <2>2, FailEffect
<1> QED BY <1>3, <1>6, <1>7, <1>8, <1>9

\* What uninstall deletes by name.
LEMMA DeleteEffect == ASSUME IInv, NEW p \in Procs, Delete(p) PROVE StepEffect(p)
<1> DEFINE at == proc[p].at
           cmd == proc[p].cmd
           obj == Object(p)
           n == Len(StepsOf(cmd))
<1> USE DEF IInv
<1>1. proc[p] # Idle /\ Op(p) = "delete" /\ Advance(p)
      BY DEF Delete, Running, Op
<1>2. cmd = "uninstall" /\ n = 10 /\ result[p] # "success" /\ UninstallAt(at, "delete", obj)
  <2>1. ~InstallAt(at, Op(p), obj) /\ ~ConfigureAt(at, Op(p), obj)
        BY <1>1 DEF InstallAt, ConfigureAt
  <2> QED BY <1>1, <2>1, Position
<1>3. at # n
  <2>1. at = 1 \/ at = 2 \/ at = 3 \/ at = 4 \/ at = 5 \/ at = 6 \/ at = 7 \/ at = 8
        BY <1>2 DEF UninstallAt
  <2> HIDE DEF n
  <2> QED BY <1>2, <2>1
<1>4. /\ ProcType' /\ Others(p) /\ result'[p] = result[p]
      /\ proc'[p].cmd = cmd /\ proc'[p].at = at + 1
      BY <1>1, <1>3, GoesOn
<1> DEFINE going == {q \in {obj} \cap CRDs : store[q] # "none"}
<1>5. /\ store' \in [ObjectNames -> Values] /\ ns' = ns /\ terminating' = terminating \cup going
      /\ \A o \in ObjectNames : store'[o] = IF o = obj /\ o \notin CRDs THEN "none" ELSE store[o]
  <2>1. CASE obj \in CRDs
        BY <2>1 DEF Delete, ClusterType
  <2>2. CASE obj \notin CRDs
    <3>1. store' = [store EXCEPT ![obj] = "none"] /\ terminating' = terminating /\ going = {} /\ ns' = ns
          BY <2>2 DEF Delete
    <3> QED BY <2>2, <3>1 DEF ClusterType, Values
  <2> QED BY <2>1, <2>2
<1>6. ClusterType'
  <2>1. \A o \in Namespaced : store'[o] # "none" => store[o] # "none"
        BY <1>5 DEF ObjectNames
  <2>2. served' \in BOOLEAN /\ UNCHANGED <<edits, faults>>
        BY DEF Delete, ClusterType
  <2>3. terminating' \subseteq CRDs
        BY <1>5 DEF ClusterType
  <2>4. store'["spec"] = store["spec"] /\ store'["compliance"] = store["compliance"] /\ served' = served
    <3>1. obj # "spec"
          BY <1>2 DEF UninstallAt
    <3> QED BY <1>5, <3>1, Outside DEF Delete
  <2> QED BY <1>5, <2>1, <2>2, <2>3, <2>4, SameTables DEF ClusterType
<1>7. /\ \A o \in {"binding", "role", "spec"} : store'[o] = IF o = obj THEN "none" ELSE store[o]
      /\ \A o \in {"reports", "compliance"} :
           /\ store'[o] = store[o] /\ (o \in terminating => o \in terminating')
           /\ o = obj => store'[o] = "none" \/ o \in terminating'
  <2>1. "binding" \notin CRDs /\ "role" \notin CRDs /\ "spec" \notin CRDs
        BY DEF CRDs
  <2>2. {"reports", "compliance"} = CRDs /\ CRDs \subseteq ObjectNames
        BY DEF CRDs, ObjectNames
  <2>3. \A o \in {"binding", "role", "spec"} : o \in ObjectNames
        BY DEF ObjectNames
  <2> QED BY <1>5, <2>1, <2>2, <2>3
<1> HIDE DEF going
<1>8. InstallDone(p)' /\ UninstallDone(p)'
  <2>1. store["compliance"] = "none" => store["spec"] = "none"
        BY DEF ClusterType
  <2>2. InstallDone(p)'
        BY <1>2, <1>4 DEF InstallDone
  <2>3. at \in Nat /\ obj # "spec"
        BY <1>1, <1>2, Position DEF Invocations, UninstallAt
  <2>4. /\ at + 1 > 1 => store'["reports"] = "none" \/ "reports" \in terminating'
        /\ at + 1 > 2 => store'["compliance"] = "none" \/ "compliance" \in terminating'
        BY <1>1, <1>2, <1>7, <2>3 DEF UninstallDone, UninstallAt
  <2>5. at + 1 > 2 => store'["spec"] = "none" \/ "compliance" \in terminating'
        BY <1>1, <1>2, <1>7, <2>1, <2>3, <2>4 DEF UninstallDone, UninstallAt
  <2>6. /\ at + 1 > 3 => store'["binding"] = "none"
        /\ at + 1 > 4 => store'["role"] = "none"
        BY <1>1, <1>2, <1>7, <2>3 DEF UninstallDone, UninstallAt
  <2> QED BY <1>4, <2>2, <2>4, <2>5, <2>6 DEF UninstallDone
<1> QED BY <1>2, <1>4, <1>6, <1>8 DEF StepEffect

\* The namespace is deleted, and awaited.
LEMMA DeleteNamespaceEffect ==
  ASSUME IInv, NEW p \in Procs, DeleteNamespace(p) \/ AwaitNamespace(p)
  PROVE  StepEffect(p)
<1> DEFINE at == proc[p].at
           cmd == proc[p].cmd
           n == Len(StepsOf(cmd))
<1> USE DEF IInv
<1>1. proc[p] # Idle /\ Advance(p)
      BY DEF DeleteNamespace, AwaitNamespace, PollNamespace, Running
<1>2. CASE DeleteNamespace(p)
  <2>1. cmd = "uninstall" /\ n = 10 /\ result[p] # "success" /\ at = 9
    <3>1. Op(p) = "deleteNs"
          BY <1>2 DEF DeleteNamespace, Running, Op
    <3> QED BY <1>1, <3>1, Position DEF InstallAt, UninstallAt, ConfigureAt
  <2>2. at # n
    <3> HIDE DEF n
    <3> QED BY <2>1
  <2>3. /\ ProcType' /\ Others(p) /\ result'[p] = result[p]
        /\ proc'[p].cmd = cmd /\ proc'[p].at = at + 1
        BY <1>1, <2>2, GoesOn
  <2>4. /\ store' = store /\ ns' \in {"none", "terminating"} /\ (ns' = "none" => ns = "none")
        /\ UNCHANGED <<terminating, served, edits, faults>>
        BY <1>2 DEF DeleteNamespace
  <2>5. ClusterType'
        BY <2>4, SameTables DEF ClusterType
  <2>6. InstallDone(p)' /\ UninstallDone(p)'
        BY <1>1, <2>1, <2>3, <2>4 DEF InstallDone, UninstallDone
  <2> QED BY <2>1, <2>3, <2>5, <2>6 DEF StepEffect
<1>3. CASE AwaitNamespace(p)
  <2>1. cmd = "uninstall" /\ n = 10 /\ at = 10
    <3>1. Op(p) = "waitNs"
          BY <1>3 DEF AwaitNamespace, PollNamespace, Running, Op
    <3> QED BY <1>1, <3>1, Position DEF InstallAt, UninstallAt, ConfigureAt
  <2>2. ProcType' /\ Others(p) /\ proc'[p] = Idle
        BY <1>1, <2>1, Advanced
  <2>3. ns = "none" /\ UNCHANGED <<store, terminating, ns, served, edits, faults>>
        BY <1>3 DEF AwaitNamespace, PollNamespace, clusterVars
  <2>4. ClusterType'
        BY <2>3, Unwritten
  <2>5. /\ \A o \in {"binding", "role"} : store[o] = "none"
        /\ \A o \in {"reports", "compliance"} : store[o] = "none" \/ o \in terminating
        /\ store["spec"] = "none" \/ "compliance" \in terminating
        BY <1>1, <2>1 DEF UninstallDone
  <2>6. \A o \in Namespaced : store[o] = "none"
        BY <2>3 DEF ClusterType
  <2>7. UninstallEnd
        BY <2>3, <2>5, <2>6 DEF UninstallEnd, CRDs
  <2> QED BY <2>1, <2>2, <2>4, <2>7 DEF StepEffect, InstallDone, UninstallDone
<1> QED BY <1>2, <1>3

\* Every step of a running process, faults included.
LEMMA ProcessStep ==
  ASSUME IInv, NEW p \in Procs, Step(p)
  PROVE  StepEffect(p) /\ proc[p] # Idle
<1>1. proc[p] # Idle
      BY DEF Step, Apply, ApplySpec, EnsureNamespace, Ensure, Create,
         Read, InitPlugin, Delete, DeleteNamespace, AwaitNamespace,
         PollNamespace, Running
<1> QED BY <1>1, ApplyEffect, ApplySpecEffect, EnsureEffect, CreateEffect, ReadEffect, PluginEffect,
           DeleteEffect, DeleteNamespaceEffect DEF Step

\* One user runs install and uninstall, so that no other process disturbs them.
LEMMA OthersKept ==
  ASSUME IInv, NEW p \in Procs, proc[p] # Idle, Others(p),
         InstallDone(p)', UninstallDone(p)', proc[p].cmd = "operator" => Untouched
  PROVE  \A q \in Procs : InstallDone(q)' /\ UninstallDone(q)'
<1> SUFFICES ASSUME NEW q \in Procs, q # p PROVE InstallDone(q)' /\ UninstallDone(q)'
    OBVIOUS
<1>1. proc'[q] = proc[q]
      BY DEF Others
<1>2. CASE proc[p].cmd = "operator"
      BY <1>1, <1>2, ProgressKept DEF IInv
<1>3. CASE proc[p].cmd # "operator"
  <2>1. proc[p].cmd \in Commands[p]
        BY Position DEF IInv
  <2>2. Commands[q] = {"operator"}
        BY <1>3, <2>1, ConstantsAssumption
  <2>3. proc[q] # Idle => proc[q].cmd = "operator"
        BY <2>2, Position DEF IInv
  <2> QED BY <1>1, <2>3 DEF InstallDone, UninstallDone
<1> QED BY <1>2, <1>3

\* A fault ends a command and counts.
LEMMA FaultEffect ==
  ASSUME IInv, NEW p \in Procs, Fault(p)
  PROVE  IInv' /\ Others(p) /\ result'[p] = "error"
<1>1. ProcType' /\ Others(p) /\ proc'[p] = Idle /\ result'[p] = "error"
      BY Failed DEF IInv, Fault
<1>2. UNCHANGED <<store, terminating, ns, served, edits>> /\ faults' \in Nat /\ edits + faults' <= MaxDisturbances
      BY ConstantsAssumption DEF Fault, clusterVars, IInv, ClusterType
<1>3. ClusterType' /\ Untouched
      BY <1>2, SameTables DEF IInv, ClusterType, Untouched, CRDs
<1>4. InstallDone(p)' /\ UninstallDone(p)'
      BY <1>1 DEF InstallDone, UninstallDone
<1> QED BY <1>1, <1>3, <1>4, OthersKept DEF IInv, Fault

\* A command starts at its first step.
LEMMA StartEffect ==
  ASSUME IInv, NEW p \in Procs, NEW cmd \in Commands[p], Start(p, cmd)
  PROVE  IInv' /\ Others(p) /\ proc[p] = Idle
<1> DEFINE t == [cmd |-> cmd, at |-> 1, seen |-> "?", scanners |-> "none", left |-> {}]
<1>1. /\ proc[p] = Idle /\ proc' = [proc EXCEPT ![p] = t] /\ result' = [result EXCEPT ![p] = "none"]
      /\ UNCHANGED <<store, terminating, ns, served, edits, faults>>
      BY DEF Start, clusterVars
<1>2. cmd \in {"install", "uninstall", "operator"}
      BY ConstantsAssumption
<1>3. t \in Invocations /\ t.cmd = cmd /\ t.at = 1 /\ t.seen = "?"
      BY <1>2 DEF Invocations, Values, IInv, ClusterType
<1>4. 1 \in 1..Len(StepsOf(cmd))
  <2> DEFINE n == Len(StepsOf(cmd))
  <2>1. n = 13 \/ n = 10 \/ n = 6
        BY <1>2, InstallSteps, UninstallSteps, ConfigureSteps DEF StepsOf
  <2> HIDE DEF n
  <2>2. 1 \in 1..n
        BY <2>1
  <2> QED BY <2>2 DEF n
<1>5. result'[p] = "none"
      BY <1>1 DEF IInv, ProcType
<1> HIDE DEF t
<1>6. ProcType' /\ proc'[p] = t /\ Others(p)
      BY <1>1, <1>3, <1>4, <1>5, ProcTypeKept DEF IInv, Others
<1>7. ClusterType' /\ Untouched
      BY <1>1, Unwritten DEF IInv
<1>8. InstallDone(p)' /\ UninstallDone(p)'
      BY <1>1, <1>3, <1>6 DEF InstallDone, UninstallDone, t
<1>9. ASSUME NEW q \in Procs, q # p PROVE InstallDone(q)' /\ UninstallDone(q)'
      BY <1>6, <1>7, <1>9, ProgressKept DEF IInv, Others
<1> QED BY <1>1, <1>6, <1>7, <1>8, <1>9 DEF IInv

\* Users and Kubernetes.
LEMMA ClusterStep ==
  ASSUME IInv,
         \/ Serve \/ RemoveInstances \/ FinishNamespace \/ EditConfig
         \/ \E c \in CRDs : RemoveCRD(c)
         \/ \E o \in Namespaced : RemoveContent(o)
         \/ UNCHANGED vars
  PROVE  IInv' /\ result' = result
<1>1. UNCHANGED <<proc, result>>
      BY DEF Serve, RemoveInstances, RemoveCRD, FinishNamespace, EditConfig, RemoveContent, vars
<1>2. ClusterType' /\ Untouched
  <2>1. CASE Serve
        BY <2>1, SameTables DEF Serve, IInv, ClusterType, Untouched, CRDs
  <2>2. CASE FinishNamespace
        BY <2>2, SameTables DEF FinishNamespace, IInv, ClusterType, Untouched, CRDs
  <2>3. CASE EditConfig
    <3>1. PICK v \in {"custom", "unknown"} : store' = [store EXCEPT !["config"] = v]
          BY <2>3 DEF EditConfig
    <3>2. "config" \in Namespaced /\ "config" \in ObjectNames /\ v \in Values /\ v # "none"
          BY DEF Namespaced, ObjectNames, Values
    <3>3. /\ store' \in [ObjectNames -> Values] /\ store'["config"] # "none"
          /\ \A o \in ObjectNames \ {"config"} : store'[o] = store[o]
          BY <3>1, <3>2 DEF IInv, ClusterType
    <3>4. ns = "active" /\ ns' = ns /\ served' = served /\ terminating' = terminating
          /\ faults' = faults /\ edits' \in Nat /\ edits' + faults' <= MaxDisturbances
          BY <2>3, ConstantsAssumption DEF EditConfig, IInv, ClusterType
    <3>5. ClusterType'
      <4>1. store'["spec"] = store["spec"] /\ store'["compliance"] = store["compliance"]
            BY <3>2, <3>3, Outside
      <4> QED BY <3>3, <3>4, <4>1, SameTables DEF IInv, ClusterType
    <3>6. \A o \in Namespaced : store[o] # "none" => store'[o] # "none"
          BY <3>3 DEF ObjectNames
    <3>7. \A o \in CRDs \cup {"role", "binding", "spec"} : store'[o] = store[o]
          BY <3>3 DEF CRDs, ObjectNames
    <3> QED BY <3>2, <3>3, <3>4, <3>5, <3>6, <3>7 DEF Untouched
  <2>4. ASSUME NEW o \in Namespaced, RemoveContent(o) PROVE ClusterType' /\ Untouched
    <3>1. /\ ns = "terminating" /\ ns' = ns /\ store' = [store EXCEPT ![o] = "none"]
          /\ UNCHANGED <<terminating, served, edits, faults>>
          BY <2>4 DEF RemoveContent
    <3>2. "none" \in Values /\ o \in ObjectNames
          BY DEF Values, ObjectNames
    <3>3. /\ store' \in [ObjectNames -> Values]
          /\ \A q \in CRDs \cup {"role", "binding", "spec"} : store'[q] = store[q]
      <4>1. \A q \in CRDs \cup {"role", "binding", "spec"} : q \in ObjectNames /\ q \notin Namespaced
            BY DEF CRDs, ObjectNames, Namespaced
      <4> QED BY <3>1, <3>2, <4>1 DEF IInv, ClusterType
    <3>4. \A q \in Namespaced : store'[q] # "none" => store[q] # "none"
          BY <3>1 DEF IInv, ClusterType, ObjectNames
    <3>5. ClusterType'
          BY <3>1, <3>3, <3>4, SameTables, Outside DEF IInv, ClusterType
    <3> QED BY <3>1, <3>3, <3>5 DEF Untouched
  <2>5. CASE RemoveInstances
    <3>1. /\ store' = [store EXCEPT !["spec"] = "none"] /\ "compliance" \in terminating
          /\ UNCHANGED <<terminating, ns, served, edits, faults>>
          BY <2>5 DEF RemoveInstances
    <3>2. /\ "none" \in Values /\ "spec" \in ObjectNames
          /\ \A q \in CRDs \cup Namespaced \cup {"role", "binding"} : q # "spec" /\ q \in ObjectNames
          BY DEF Values, ObjectNames, CRDs, Namespaced
    <3>3. /\ store' \in [ObjectNames -> Values] /\ store'["spec"] = "none"
          /\ \A q \in CRDs \cup Namespaced \cup {"role", "binding"} : store'[q] = store[q]
          BY <3>1, <3>2 DEF IInv, ClusterType
    <3> QED BY <3>1, <3>3, SameTables DEF IInv, ClusterType, Untouched
  <2>6. ASSUME NEW c \in CRDs, RemoveCRD(c) PROVE ClusterType' /\ Untouched
    <3>1. /\ store' = [store EXCEPT ![c] = "none"] /\ terminating' = terminating \ {c} /\ c \in terminating
          /\ c = "compliance" => store["spec"] = "none"
          /\ served' \in BOOLEAN /\ UNCHANGED <<ns, edits, faults>>
          BY <2>6 DEF RemoveCRD, IInv, ClusterType
    <3>2. /\ "none" \in Values /\ c \in ObjectNames
          /\ \A q \in Namespaced \cup {"role", "binding", "spec"} : q # c /\ q \in ObjectNames
          /\ CRDs \subseteq ObjectNames
          BY DEF Values, ObjectNames, CRDs, Namespaced
    <3>3. /\ store' \in [ObjectNames -> Values] /\ store'[c] = "none"
          /\ \A q \in CRDs \ {c} : store'[q] = store[q]
          /\ \A q \in Namespaced \cup {"role", "binding", "spec"} : store'[q] = store[q]
          BY <3>1, <3>2 DEF IInv, ClusterType
    <3>4. ClusterType'
      <4>1. served' => c # "compliance"
            BY <2>6 DEF RemoveCRD
      <4>2. store'["spec"] # "none" \/ served' => store'["compliance"] # "none"
        <5>1. "compliance" \in CRDs /\ (served' => served)
              BY <2>6, Outside DEF RemoveCRD, IInv, ClusterType
        <5>2. c # "compliance" => store'["compliance"] = store["compliance"]
              BY <3>3, <5>1
        <5>3. store'["spec"] = store["spec"]
              BY <3>3
        <5> QED BY <3>1, <4>1, <5>1, <5>2, <5>3 DEF IInv, ClusterType
      <4> QED BY <3>1, <3>3, <4>2, SameTables DEF IInv, ClusterType
    <3>5. Untouched
          BY <3>1, <3>3 DEF Untouched
    <3> QED BY <3>4, <3>5
  <2>7. CASE UNCHANGED vars
        BY <2>7, Unwritten DEF vars, IInv
  <2> QED BY <2>1, <2>2, <2>3, <2>4, <2>5, <2>6, <2>7
<1>3. ProcType'
      BY <1>1, SameTables DEF IInv, ProcType
<1> QED BY <1>1, <1>2, <1>3, ProgressKept DEF IInv

\* Every step keeps the invariant.
LEMMA InvStep ==
  ASSUME IInv, [Next]_vars
  PROVE  IInv'
<1>1. ASSUME NEW p \in Procs, Step(p) PROVE IInv'
  <2>1. StepEffect(p) /\ proc[p] # Idle
        BY <1>1, ProcessStep
  <2> QED BY <2>1, OthersKept DEF StepEffect, IInv
<1> QED BY <1>1, FaultEffect, StartEffect, ClusterStep DEF Next

\* Initially no command runs.
LEMMA InitIInv == ASSUME Init PROVE IInv
<1>1. ProcType
      BY DEF Init, ProcType
<1>2. ClusterType
  <2>1. store \in [ObjectNames -> Values] /\ (store["spec"] # "none" => store["compliance"] # "none")
        BY ConstantsAssumption DEF Init
  <2>2. served \in BOOLEAN /\ (served => store["compliance"] # "none")
        BY Zenon DEF Init
  <2>3. ns \in {"none", "active", "terminating"} /\ \A o \in Namespaced : store[o] # "none" => ns # "none"
        BY Zenon DEF Init
  <2>4. edits \in Nat /\ faults \in Nat /\ edits + faults <= MaxDisturbances /\ terminating \subseteq CRDs
        BY ConstantsAssumption DEF Init
  <2> QED BY <2>1, <2>2, <2>3, <2>4 DEF ClusterType
<1> QED BY <1>1, <1>2 DEF Init, IInv, InstallDone, UninstallDone

\* Every step keeps the invariant.
LEMMA Inductive == Spec => []IInv
<1>1. Init => IInv
      BY InitIInv
<1>2. IInv /\ [Next]_vars => IInv'
      BY InvStep
<1> QED BY <1>1, <1>2, PTL DEF Spec

\* No object is without its namespace, and a command is at one of its steps.
THEOREM TypeCorrect == Spec => []TypeOK
<1>1. IInv => TypeOK
      BY DEF IInv, ProcType, ClusterType, TypeOK
<1> QED BY <1>1, Inductive, PTL

\* A command that succeeds has just made its last step.
LEMMA SuccessIsAStep ==
  ASSUME IInv, [Next]_vars, NEW p \in Procs, NEW cmd,
         Succeeds(p, cmd)
  PROVE  StepEffect(p) /\ proc[p].cmd = cmd /\ result'[p] = "success"
<1>1. proc[p] # Idle /\ proc[p].cmd = cmd /\ result'[p] = "success"
      BY DEF Succeeds
<1>2. result[p] # "success"
      BY <1>1, Position DEF IInv
<1>3. ASSUME NEW q \in Procs, Step(q) PROVE StepEffect(p)
  <2>1. StepEffect(q)
        BY <1>3, ProcessStep
  <2> QED BY <1>1, <1>2, <2>1 DEF StepEffect, Others
<1>4. ASSUME NEW q \in Procs, Fault(q) PROVE FALSE
      BY <1>1, <1>2, <1>4, FaultEffect DEF Others
<1>5. ASSUME NEW q \in Procs, NEW c \in Commands[q], Start(q, c) PROVE FALSE
      BY <1>1, <1>2, <1>5, StartEffect DEF Others
<1> QED BY <1>1, <1>2, <1>3, <1>4, <1>5, ClusterStep DEF Next

\* When Install (installer.go) succeeds the cluster has all that it installs,
\* whatever earlier commands left behind, but for the CRDs that it updated while they were terminating.
THEOREM InstallSucceeds == Spec => InstallComplete
<1> DEFINE A == \A p \in Procs : Succeeds(p, "install") => InstallEnd(p)
<1>1. IInv /\ [Next]_vars => [A]_vars
      BY SuccessIsAStep DEF StepEffect
<1>2. [][A]_vars => InstallComplete
      BY DEF InstallEnd, InstallComplete
<1> QED BY <1>1, <1>2, Inductive, PTL DEF Spec

\* When Uninstall (installer.go) succeeds nothing is left but CRDs whose deletion
\* goes on, although operators that start may write their configuration again until
\* the namespace goes away.
THEOREM UninstallSucceeds == Spec => UninstallRemovesAll
<1> DEFINE A == \A p \in Procs : Succeeds(p, "uninstall") => UninstallEnd
<1>1. IInv /\ [Next]_vars => [A]_vars
      BY SuccessIsAStep DEF StepEffect
<1>2. [][A]_vars => UninstallRemovesAll
      BY DEF UninstallEnd, UninstallRemovesAll
<1> QED BY <1>1, <1>2, Inductive, PTL DEF Spec
===============================================================================
