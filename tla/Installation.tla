---------------------------- MODULE Installation ----------------------------
(***************************************************************************)
(* starboard install and uninstall (pkg/cmd installer.go, init.go,         *)
(* cleanup.go), the configuration objects of both the CLI and the operator *)
(* (pkg/starboard config.go and plugin.go, pkg/plugin/factory.go), and the *)
(* start of the operator up to its controllers (pkg/operator/operator.go). *)
(* Commands run step by step, next to each other, fail or are killed       *)
(* between any two calls of the API server, and are run again.             *)
(***************************************************************************)
EXTENDS Naturals, Sequences, FiniteSets

CONSTANTS
  Procs,
  Commands,          \* Commands[p]: the commands that p runs
  Initially,         \* states of the cluster to start from
  OperatorPlugins,   \* the plugins of the scanners that are enabled in the operator
  Idle,
  MaxDisturbances    \* bounds edits of the configuration and faults together

\* The custom resource definitions in the order of the installer, where
\* "reports" stands for the first six and "compliance" for the last two, of
\* compliance reports and their details.
CRDs == {"reports", "compliance"}
Namespaced == {"config", "policies", "secret", "trivy", "polaris", "conftest", "sa"}
ObjectNames == CRDs \cup Namespaced \cup {"spec", "role", "binding"}

\* What is stored: nothing, an object of an earlier release or of this one.  The
\* starboard ConfigMap holds the default scanners, others, or an unknown one.
Values == {"none", "old", "new", "custom", "unknown"}

\* One user runs the commands of the CLI, and there are no objects without their CRD.
ASSUME ConstantsAssumption ==
  /\ Commands \in [Procs -> SUBSET {"install", "uninstall", "operator"}]
  /\ Initially \subseteq {s \in [ObjectNames -> Values] : s["spec"] # "none" => s["compliance"] # "none"}
  /\ OperatorPlugins \subseteq {"vulnerability", "configAudit"}
  /\ \A p, q \in Procs : Commands[p] # {"operator"} /\ Commands[q] # {"operator"} => p = q
  /\ MaxDisturbances \in Nat

VARIABLES
  store,       \* [ObjectNames -> Values]
  terminating, \* the CRDs whose deletion was requested and that are still there
  ns,          \* "none", "active" or "terminating"
  served,      \* the API server serves compliance reports
  proc,        \* proc[p]: the running command, or Idle
  result,      \* result[p]: how the last command of p ended, or "none"
  edits, faults

clusterVars == <<store, terminating, ns, served>>
vars == <<store, terminating, ns, served, proc, result, edits, faults>>

-----------------------------------------------------------------------------
(* The steps of the commands                                                *)

step(op, o) == [op |-> op, obj |-> o]

\* ConfigManager.EnsureDefault, Read, and Init of the two plugins.
Configure ==
  <<step("ensure", "config"), step("ensure", "policies"), step("create", "secret"), step("read", "config"),
    step("plugin", "vulnerability"), step("plugin", "configAudit")>>

InstallCRDs == <<step("apply", "reports"), step("apply", "compliance")>>
InitRBAC == <<step("ensure", "sa"), step("apply", "role"), step("apply", "binding")>>

Install ==
  InstallCRDs \o <<step("applySpec", "spec"), step("ensureNs", "ns")>> \o Configure \o InitRBAC

CleanupRBAC == <<step("delete", "binding"), step("delete", "role"), step("delete", "sa")>>

Uninstall ==
  <<step("delete", "reports"), step("delete", "compliance")>> \o CleanupRBAC
  \o <<step("delete", "config"), step("delete", "polaris"), step("delete", "secret"),
    step("deleteNs", "ns"), step("waitNs", "ns")>>

StepsOf(cmd) ==
  CASE cmd = "install" -> Install [] cmd = "uninstall" -> Uninstall [] cmd = "operator" -> Configure

\* GetVulnerabilityPlugin and GetConfigAuditPlugin: the object that Init of the
\* plugin creates; that of Aqua creates none.
PluginConfig(kind, config) ==
  CASE config = "custom" -> IF kind = "vulnerability" THEN "none" ELSE "conftest"
    [] config = "unknown" -> "error"
    [] OTHER -> IF kind = "vulnerability" THEN "trivy" ELSE "polaris"

Init ==
  /\ store \in Initially /\ terminating = {}
  /\ ns = IF \E o \in Namespaced : store[o] # "none" THEN "active" ELSE "none"
  /\ served = (store["compliance"] # "none")
  /\ proc = [p \in Procs |-> Idle] /\ result = [p \in Procs |-> "none"]
  /\ edits = 0 /\ faults = 0

\* The operator runs in the namespace.
Start(p, cmd) ==
  /\ proc[p] = Idle /\ cmd \in Commands[p]
  /\ cmd = "operator" => result[p] # "success" /\ ns # "none"
  /\ proc' = [proc EXCEPT ![p] =
       [cmd |-> cmd, at |-> 1, seen |-> "?", scanners |-> "none", left |-> {}]]
  /\ result' = [result EXCEPT ![p] = "none"]
  /\ UNCHANGED <<clusterVars, edits, faults>>

Running(p, ops) == proc[p] # Idle /\ StepsOf(proc[p].cmd)[proc[p].at].op \in ops
Object(p) == StepsOf(proc[p].cmd)[proc[p].at].obj

\* The step is done: the next one, or the command has succeeded.  For the
\* properties a command remembers the CRDs that it updated while they were
\* terminating.
AdvancePast(p, objs) ==
  IF proc[p].at = Len(StepsOf(proc[p].cmd))
  THEN proc' = [proc EXCEPT ![p] = Idle] /\ result' = [result EXCEPT ![p] = "success"]
  ELSE /\ proc' = [proc EXCEPT ![p].at = @ + 1, ![p].seen = "?", ![p].left = @ \cup objs]
       /\ UNCHANGED result

Advance(p) == AdvancePast(p, {})

Fail(p) ==
  /\ proc' = [proc EXCEPT ![p] = Idle] /\ result' = [result EXCEPT ![p] = "error"]

See(p) ==
  /\ proc' = [proc EXCEPT ![p].seen = store[Object(p)]]
  /\ UNCHANGED <<result, clusterVars>>

\* A namespaced object can be created in an active namespace only.
Creatable(o) == o \in Namespaced => ns = "active"
Write(o, v) == store' = [store EXCEPT ![o] = v] /\ UNCHANGED <<terminating, ns>>

\* Mutant: what exists is left as it is.
CreateIfMissing(p) ==
  /\ Running(p, {"apply"})
  /\ Write(Object(p), IF store[Object(p)] = "none" THEN "new" ELSE store[Object(p)]) /\ Advance(p)
  /\ UNCHANGED <<served, edits, faults>>

\* createOrUpdateCRD, createOrUpdateClusterRole, createOrUpdateClusterRoleBinding:
\* a conflict, or an object that was created or removed meanwhile, is an error.  A
\* CRD that is terminating is updated, and goes all the same.
Apply(p) ==
  /\ Running(p, {"apply"})
  /\ IF proc[p].seen = "?" THEN See(p)
     ELSE IF store[Object(p)] = proc[p].seen
     THEN Write(Object(p), "new") /\ AdvancePast(p, {Object(p)} \cap terminating) /\ UNCHANGED served
     ELSE Fail(p) /\ UNCHANGED clusterVars
  /\ UNCHANGED <<edits, faults>>

\* createOrUpdateComplianceSpec: Get overwrites the new specification with the
\* stored one, and an error of Get, such as a kind that is not served yet, is
\* no error of the step.  Nothing is created of a CRD that is terminating.
ApplySpec(p) ==
  /\ Running(p, {"applySpec"})
  /\ IF ~served \/ store["spec"] # "none" THEN Advance(p) /\ UNCHANGED <<store, terminating, ns>>
     ELSE IF "compliance" \in terminating THEN Fail(p) /\ UNCHANGED <<store, terminating, ns>>
     ELSE Write("spec", "new") /\ Advance(p)
  /\ UNCHANGED <<served, edits, faults>>

\* createNamespaceIfNotFound
EnsureNamespace(p) ==
  /\ Running(p, {"ensureNs"})
  /\ ns' = IF ns = "none" THEN "active" ELSE ns
  /\ Advance(p)
  /\ UNCHANGED <<store, terminating, served, edits, faults>>

\* EnsureDefault of a ConfigMap, createServiceAccountIfNotFound.
Ensure(p) ==
  /\ Running(p, {"ensure"})
  /\ LET o == Object(p)
     IN IF proc[p].seen = "?" THEN See(p)
        ELSE IF proc[p].seen # "none" THEN Advance(p) /\ UNCHANGED clusterVars
        ELSE IF store[o] = "none" /\ Creatable(o) THEN Write(o, "new") /\ Advance(p) /\ UNCHANGED served
        ELSE Fail(p) /\ UNCHANGED clusterVars
  /\ UNCHANGED <<edits, faults>>

\* Mutant: AlreadyExists is an error.
CreateNew(p, o) ==
  IF ~Creatable(o) \/ store[o] # "none" THEN Fail(p) /\ UNCHANGED <<store, terminating, ns>>
  ELSE Write(o, "new") /\ Advance(p)

\* Create, where AlreadyExists is fine: the secret, EnsureConfig.
CreateIfNotExists(p, o) ==
  IF ~Creatable(o) THEN Fail(p) /\ UNCHANGED <<store, terminating, ns>>
  ELSE Write(o, IF store[o] = "none" THEN "new" ELSE store[o]) /\ Advance(p)

Create(p) ==
  /\ Running(p, {"create"})
  /\ CreateIfNotExists(p, Object(p))
  /\ UNCHANGED <<served, edits, faults>>

\* ConfigManager.Read needs the ConfigMap and the secret.
Read(p) ==
  /\ Running(p, {"read"})
  /\ IF "none" \in {store["config"], store["secret"]} THEN Fail(p)
     ELSE proc' = [proc EXCEPT ![p].at = @ + 1, ![p].scanners = store["config"]] /\ UNCHANGED result
  /\ UNCHANGED <<clusterVars, edits, faults>>

\* What Init of a plugin creates; the operator skips the scanners it has disabled.
ConfigToCreate(p) ==
  IF proc[p].cmd = "operator" /\ Object(p) \notin OperatorPlugins THEN "none"
  ELSE PluginConfig(Object(p), proc[p].scanners)

InitPlugin(p) ==
  /\ Running(p, {"plugin"})
  /\ LET o == ConfigToCreate(p)
     IN CASE o = "error" -> Fail(p) /\ UNCHANGED <<store, terminating, ns>>
          [] o = "none" -> Advance(p) /\ UNCHANGED <<store, terminating, ns>>
          [] OTHER -> CreateIfNotExists(p, o)
  /\ UNCHANGED <<served, edits, faults>>

\* deleteCRD, cleanupRBAC, ConfigManager.Delete: NotFound is fine.  The deletion of
\* a CRD is only requested, and nobody waits for it.
Delete(p) ==
  /\ Running(p, {"delete"})
  /\ LET o == Object(p)
     IN IF o \in CRDs THEN UNCHANGED store /\ terminating' = terminating \cup {q \in {o} : store[q] # "none"}
        ELSE store' = [store EXCEPT ![o] = "none"] /\ UNCHANGED terminating
  /\ Advance(p)
  /\ UNCHANGED <<ns, served, edits, faults>>

\* cleanupNamespace: Delete, then a Get every two seconds.  Both timers start
\* anew with each turn, so that the timeout never comes first and
\* the command waits for as long as it takes.
DeleteNamespace(p) ==
  /\ Running(p, {"deleteNs"})
  /\ ns' = IF ns = "none" THEN ns ELSE "terminating"
  /\ Advance(p)
  /\ UNCHANGED <<store, terminating, served, edits, faults>>

\* Mutant: the Get is made once.
PollOnce(p) == Running(p, {"waitNs"})

PollNamespace(p) == Running(p, {"waitNs"}) /\ ns = "none"

AwaitNamespace(p) ==
  /\ PollNamespace(p)
  /\ Advance(p)
  /\ UNCHANGED <<clusterVars, edits, faults>>

\* A call fails, or the process is killed.
Fault(p) ==
  /\ proc[p] # Idle /\ edits + faults < MaxDisturbances
  /\ Fail(p) /\ faults' = faults + 1
  /\ UNCHANGED <<clusterVars, edits>>

-----------------------------------------------------------------------------
(* Kubernetes and users                                                     *)

\* A new CRD is served after a while.
Serve ==
  /\ store["compliance"] # "none" /\ ~served /\ served' = TRUE
  /\ UNCHANGED <<store, terminating, ns, proc, result, edits, faults>>

\* The objects of a CRD that is terminating go first, and then it is served no more.
RemoveInstances ==
  /\ "compliance" \in terminating /\ store["spec"] # "none"
  /\ store' = [store EXCEPT !["spec"] = "none"]
  /\ UNCHANGED <<terminating, ns, served, proc, result, edits, faults>>

RemoveCRD(c) ==
  /\ c \in terminating /\ (c = "compliance" => store["spec"] = "none")
  /\ store' = [store EXCEPT ![c] = "none"] /\ terminating' = terminating \ {c}
  /\ served' = (served /\ c # "compliance")
  /\ UNCHANGED <<ns, proc, result, edits, faults>>

\* The content of a namespace that is deleted goes first.
RemoveContent(o) ==
  /\ ns = "terminating" /\ o \in Namespaced /\ store[o] # "none"
  /\ store' = [store EXCEPT ![o] = "none"]
  /\ UNCHANGED <<terminating, ns, served, proc, result, edits, faults>>

FinishNamespace ==
  /\ ns = "terminating" /\ \A o \in Namespaced : store[o] = "none"
  /\ ns' = "none"
  /\ UNCHANGED <<store, terminating, served, proc, result, edits, faults>>

EditConfig ==
  /\ edits + faults < MaxDisturbances /\ store["config"] # "none" /\ ns = "active"
  /\ \E v \in {"custom", "unknown"} : store' = [store EXCEPT !["config"] = v]
  /\ edits' = edits + 1
  /\ UNCHANGED <<terminating, ns, served, proc, result, faults>>

Step(p) ==
  \/ Apply(p) \/ ApplySpec(p) \/ EnsureNamespace(p) \/ Ensure(p) \/ Create(p) \/ Read(p)
  \/ InitPlugin(p) \/ Delete(p) \/ DeleteNamespace(p) \/ AwaitNamespace(p)

Next ==
  \/ \E p \in Procs : Step(p) \/ Fault(p) \/ (\E cmd \in Commands[p] : Start(p, cmd))
  \/ Serve \/ RemoveInstances \/ FinishNamespace \/ EditConfig
  \/ \E c \in CRDs : RemoveCRD(c)
  \/ \E o \in Namespaced : RemoveContent(o)

Spec == Init /\ [][Next]_vars

Kubernetes ==
  \/ Serve \/ RemoveInstances \/ FinishNamespace
  \/ (\E c \in CRDs : RemoveCRD(c)) \/ \E o \in Namespaced : RemoveContent(o)

\* Commands and Kubernetes make progress.  Users run a command until it succeeds
\* and do not break it off by another, the kubelet restarts the operator.
FairSpec ==
  /\ Spec /\ WF_clusterVars(Kubernetes)
  /\ \A p \in Procs : WF_proc(Step(p))
  /\ \A p \in Procs : \A cmd \in {"install", "operator"} : WF_proc(result[p] # "success" /\ Start(p, cmd))

-----------------------------------------------------------------------------
\* Every variable has its type; there are no objects without their namespace or
\* CRD, and a command is at one of its steps.
TypeOK ==
  /\ store \in [ObjectNames -> Values] /\ terminating \subseteq CRDs
  /\ ns \in {"none", "active", "terminating"} /\ served \in BOOLEAN
  /\ \A o \in Namespaced : store[o] # "none" => ns # "none"
  /\ store["spec"] # "none" \/ served => store["compliance"] # "none"
  /\ \A p \in Procs : proc[p] # Idle => proc[p].at \in 1..Len(StepsOf(proc[p].cmd))
  /\ edits \in Nat /\ faults \in Nat /\ edits + faults <= MaxDisturbances

Succeeds(p, cmd) == proc[p] # Idle /\ proc[p].cmd = cmd /\ result'[p] = "success"

\* When Install succeeds everything it needs is there and of this release (but
\* for the compliance report), whatever was left by earlier commands that failed
\* or were killed, such as a namespace that is still going away.  The exception
\* is a CRD that was still terminating when the command updated it:
\* createOrUpdateCRD does not look at its deletion timestamp, and it goes afterwards.
InstallComplete ==
  [][\A p \in Procs : Succeeds(p, "install") =>
       /\ ns' = "active"
       /\ \A o \in CRDs \ proc[p].left : store'[o] = "new" /\ o \notin terminating'
       /\ \A o \in {"role", "binding"} : store'[o] = "new"
       /\ \A o \in {"config", "policies", "secret", "sa"} : store'[o] # "none"]_vars

\* "All resources created by this command can be removed from the cluster using
\* the uninstall command", also what a part of an installation left: when Uninstall
\* succeeds all of it is gone or, the CRDs and their objects, on its way out.
UninstallRemovesAll ==
  [][\A p \in Procs : Succeeds(p, "uninstall") =>
       /\ ns' = "none" /\ \A o \in Namespaced \cup {"role", "binding"} : store'[o] = "none"
       /\ \A o \in CRDs : store'[o] = "none" \/ o \in terminating'
       /\ store'["spec"] = "none" \/ "compliance" \in terminating']_vars

\* A command that is repeated until it succeeds does so in the end, and so does
\* the start of the operator while it has its namespace, unless the configured
\* scanner is unknown: objects of earlier or concurrent attempts are no obstacle.
RetriesSucceed ==
  \A p \in Procs : []<>(\/ result[p] = "success" \/ store["config"] = "unknown"
                         \/ ("operator" \in Commands[p] /\ ns # "active"))
=============================================================================
