------------------------------ MODULE TrivyScan ------------------------------
(***************************************************************************)
(* How the Trivy plugin (pkg/plugin/trivy) turns its ConfigMap, the image  *)
(* pull secrets of a workload (pkg/kube/secrets.go) and the nodes of its   *)
(* pods (pkg/kube/object.go) into a scan job, and the output of the job    *)
(* into a report.  The ConfigMap is read when the job is built, again by   *)
(* the kubelet when the pod starts (environment and volumes refer to it),  *)
(* and again when the output is parsed; users edit it in between.          *)
(*                                                                         *)
(* One workload is scanned.  Creation of the job's secret and of the job,  *)
(* which VulnerabilityScan takes apart, is one step here.                  *)
(***************************************************************************)
EXTENDS Naturals, Sequences, FiniteSetsExt

CONSTANTS
  Containers,
  Registries, RegistryOf,     \* RegistryOf[c]: the registry in c's image reference
  Extends,                    \* <<r, s>>: the name of r is a proper prefix of s
  PodSecrets, AccountSecrets, \* names of the pull secrets, in the order of reference
  SecretContents,             \* contents: functions from registries to credentials
  Anonymous, Accepts,         \* Accepts[r]: credentials with which r lets images be pulled
  SelfSigned,                 \* registries whose certificate nobody trusts
  Configs, InitConfigs,       \* contents of the plugin's ConfigMap
  SameNamespace,              \* vulnerabilityReports.scanJobsInSameNamespace
  Pods, Nodes,
  Missing, NoRegistry, NoNode, NoJob, NoReport,
  MaxEdits, MaxFaults         \* bounds on edits by users and on faults

SecretNames == {PodSecrets[i] : i \in DOMAIN PodSecrets}
               \cup {AccountSecrets[i] : i \in DOMAIN AccountSecrets}
Auths == UNION {Accepts[r] : r \in Registries}
         \cup UNION {{s[r] : r \in DOMAIN s} : s \in SecretContents}
ASSUME ConstantsAssumption ==
  /\ RegistryOf \in [Containers -> Registries]
  /\ PodSecrets \in Seq(SecretNames) /\ AccountSecrets \in Seq(SecretNames)
  /\ InitConfigs \subseteq Configs /\ \A d \in Configs : d.ignoreFile \in BOOLEAN

PodStates == [node : Nodes \cup {NoNode}, phase : {"none", "pending", "running", "failed"}]

VARIABLES
  cfg, secret, pods, cached,  \* cached: the nodes that hold the workload's images
  wake,                       \* the workload's key is in the work queue
  building, creds,            \* a reconciliation has read these credentials
  job, regcred,               \* the scan job and the data of its secret
  env,                        \* env[c]: the credentials c was started with
  report, edits, faults

vars == <<cfg, secret, pods, cached, wake, building, creds, job, regcred, env,
          report, edits, faults>>
userVars == <<cfg, secret, pods, cached>>
workVars == <<building, creds>>
jobVars == <<job, regcred, env>>

Init ==
  /\ cfg \in InitConfigs
  /\ secret \in [SecretNames -> SecretContents]
  /\ pods = [p \in Pods |-> [node |-> NoNode, phase |-> "none"]] /\ cached = {}
  /\ wake = TRUE /\ building = FALSE /\ creds = <<>>
  /\ job = NoJob /\ regcred = <<>> /\ env = <<>>
  /\ report = NoReport
  /\ edits = 0 /\ faults = 0

-----------------------------------------------------------------------------
(* Users and the cluster                                                    *)

Edit == edits < MaxEdits /\ edits' = edits + 1
Fault == faults < MaxFaults /\ faults' = faults + 1

EditConfig ==
  /\ Edit
  /\ cfg' \in Configs
  /\ UNCHANGED <<secret, pods, cached, wake, workVars, jobVars, report, faults>>

EditSecret(s) ==
  /\ Edit
  /\ \E content \in SecretContents \cup {Missing} : secret' = [secret EXCEPT ![s] = content]
  /\ UNCHANGED <<cfg, pods, cached, wake, workVars, jobVars, report, faults>>

\* A pod is created, scheduled and run, and evicted; an evicted pod stays listed.
\* The status of the workload follows, which is an event.
MovePod(p) ==
  /\ \/ /\ pods[p].phase = "none"
        /\ pods' = [pods EXCEPT ![p].phase = "pending"]
        /\ UNCHANGED cached
     \/ /\ pods[p].phase = "pending"
        /\ \E n \in Nodes : /\ pods' = [pods EXCEPT ![p] = [node |-> n, phase |-> "running"]]
                            /\ cached' = cached \cup {n}
     \/ /\ pods[p].phase = "running"
        /\ pods' = [pods EXCEPT ![p].phase = "failed"]
        /\ UNCHANGED cached
  /\ wake' = TRUE
  /\ UNCHANGED <<cfg, secret, workVars, jobVars, report, edits, faults>>

\* The images of the workload are removed from a node that runs no pod of it.
CollectImages(n) ==
  /\ n \in cached
  /\ \A p \in Pods : pods[p] # [node |-> n, phase |-> "running"]
  /\ cached' = cached \ {n}
  /\ UNCHANGED <<cfg, secret, pods, wake, workVars, jobVars, report, edits, faults>>

\* The report is deleted, by a user or because its TTL has expired.
DeleteReport ==
  /\ report # NoReport
  /\ Edit
  /\ report' = NoReport /\ wake' = TRUE
  /\ UNCHANGED <<userVars, workVars, jobVars, faults>>

\* The informers list every object again.
Resync ==
  /\ ~wake /\ wake' = TRUE
  /\ UNCHANGED <<userVars, workVars, jobVars, report, edits, faults>>

-----------------------------------------------------------------------------
(* Registry credentials: pkg/kube/secrets.go                                *)

ListImagePullSecretsByPodSpec == PodSecrets \o AccountSecrets

\* The last secret that has credentials for a server wins.
MapDockerRegistryServersToAuths ==
  LET S == ListImagePullSecretsByPodSpec
      with(r) == {i \in DOMAIN S : r \in DOMAIN secret[S[i]]}
  IN [r \in {q \in Registries : with(q) # {}} |-> secret[S[Max(with(r))]][r]]

\* Mutant: any credentials will do.
MapContainersToAnyAuth ==
  LET auths == MapDockerRegistryServersToAuths
  IN IF DOMAIN auths = {} THEN <<>>
     ELSE [c \in Containers |-> auths[CHOOSE r \in DOMAIN auths : TRUE]]

MapContainerNamesToDockerAuths ==
  LET auths == MapDockerRegistryServersToAuths
  IN [c \in {d \in Containers : RegistryOf[d] \in DOMAIN auths} |-> auths[RegistryOf[c]]]

\* CredentialsByWorkload: a secret that does not exist is an error, and the
\* reconciliation is repeated.
CredentialsByWorkload ==
  /\ wake /\ ~building /\ job = NoJob /\ report = NoReport
  /\ \A s \in SecretNames : secret[s] # Missing
  /\ building' = TRUE /\ creds' = MapContainerNamesToDockerAuths
  /\ UNCHANGED <<userVars, wake, jobVars, report, edits, faults>>

\* AggregateImagePullSecretsData, newSecretWithAggregateImagePullCredentials
AggregateImagePullSecretsData == [c \in Containers \cap DOMAIN creds |-> creds[c]]

-----------------------------------------------------------------------------
(* The plugin: pkg/plugin/trivy/plugin.go                                   *)

GetResourceRequirements == cfg.quantities   \* whether the four quantities parse
GetDBRepository == cfg.dbRepository         \* whether the key, new in this release, is there
RequiredData == cfg.image # Missing /\ GetResourceRequirements

\* GetMirroredImage: the registries from which the image may be pulled.  Any
\* mirror whose key is a prefix of the image's name may be taken, and only the
\* prefix is replaced.
GetMirroredImage(c) ==
  LET r == RegistryOf[c]
      keys == {k \in DOMAIN cfg.mirrors : k = r \/ <<k, r>> \in Extends}
  IN IF keys = {} THEN {r}
     ELSE {IF k = r THEN cfg.mirrors[k] ELSE NoRegistry : k \in keys}

\* appendTrivyInsecureEnv, appendTrivyNonSSLEnv
InsecureEnv == {c \in Containers : RegistryOf[c] \in cfg.insecure}

\* The volume of the ignore file is not optional, unlike the variables that
\* refer to the ConfigMap.
IgnoreFileVolume == cfg.ignoreFile

\* Containers whose environment refers to their user name and password in the
\* secret of the job; these references are not optional.
RegistryLogins == DOMAIN creds

PodSpec(targets, login, insecure, node) ==
  [command |-> cfg.command, target |-> targets, login |-> login,
   insecure |-> insecure, ignoreFile |-> IgnoreFileVolume, node |-> node, phase |-> "waiting"]

ImageTargets == {t \in [Containers -> Registries \cup {NoRegistry}] :
                  \A c \in Containers : t[c] \in GetMirroredImage(c)}

GetPodSpecForStandaloneMode ==
  {PodSpec(t, RegistryLogins, InsecureEnv, NoNode) :
     t \in IF RequiredData /\ GetDBRepository THEN ImageTargets ELSE {}}

\* TRIVY_INSECURE is also set when the connection to the server is insecure.
ServerInsecureEnv == IF cfg.serverInsecure THEN Containers ELSE InsecureEnv

GetPodSpecForClientServerMode ==
  {PodSpec(t, RegistryLogins, ServerInsecureEnv, NoNode) :
     t \in IF RequiredData /\ cfg.serverURL THEN ImageTargets ELSE {}}

\* ObjectResolver.GetNodeName: the node of any pod that matches the selector.
GetNodeName == {pods[p].node : p \in {q \in Pods : pods[q].phase # "none"}}

\* The pod is bound to that node, unless jobs run in the workload's namespace.
ScanNodes == IF SameNamespace THEN {NoNode} ELSE GetNodeName

\* The containers run the images of the workload, without credentials.
GetPodSpecForStandaloneFSMode ==
  {PodSpec(RegistryOf, {}, InsecureEnv, n) :
     n \in IF RequiredData /\ GetDBRepository THEN ScanNodes ELSE {}}

\* The empty set stands for an error.
GetScanJobSpec ==
  CASE cfg.command = "image" /\ cfg.mode = "Standalone" -> GetPodSpecForStandaloneMode
    [] cfg.command = "image" /\ cfg.mode = "ClientServer" -> GetPodSpecForClientServerMode
    [] cfg.command = "filesystem" /\ cfg.mode = "Standalone" -> GetPodSpecForStandaloneFSMode
    [] OTHER -> {}

\* ErrNoRunningPods ends the reconciliation without an error.
NoRunningPods ==
  cfg.command = "filesystem" /\ cfg.mode = "Standalone" /\ ~SameNamespace /\ GetNodeName = {}

\* submitScanJob: ScanJobBuilder.Get and the creation of the secret and the job.
SubmitScanJob ==
  /\ building
  /\ building' = FALSE /\ creds' = <<>>
  /\ \/ \E spec \in GetScanJobSpec :
          /\ job' = spec
          /\ regcred' = IF spec.command = "image" THEN AggregateImagePullSecretsData ELSE <<>>
          /\ wake' = FALSE
     \/ /\ GetScanJobSpec = {}
        /\ wake' = ~NoRunningPods
        /\ UNCHANGED <<job, regcred>>
  /\ UNCHANGED <<userVars, env, report, edits, faults>>

-----------------------------------------------------------------------------
(* The kubelet and Trivy                                                    *)

JobNode(n) == job.node # NoNode => n = job.node

\* Names in the pod are looked up in the namespace of the job, where the
\* plugin's ConfigMap only is when jobs run in the operator's namespace.
Startable(n) ==
  /\ JobNode(n)
  /\ job.ignoreFile => ~SameNamespace /\ cfg.ignoreFile
  /\ job.login \subseteq DOMAIN regcred
  /\ job.command = "filesystem" /\ ~SameNamespace => n \in cached     \* PullNever

StartPod ==
  /\ job # NoJob /\ job.phase = "waiting"
  /\ \E n \in Nodes : Startable(n)
  /\ job' = [job EXCEPT !.phase = "running"]
  /\ env' = [c \in Containers |-> IF c \in job.login THEN regcred[c] ELSE Anonymous]
  /\ UNCHANGED <<userVars, wake, workVars, regcred, report, edits, faults>>

\* activeDeadlineSeconds ends a job whose pod cannot start, or takes too long.
ExceedDeadline ==
  /\ job # NoJob /\ job.phase \in {"waiting", "running"}
  /\ IF \E n \in Nodes : job.phase = "running" \/ Startable(n) THEN Fault ELSE UNCHANGED faults
  /\ job' = [job EXCEPT !.phase = "failed"]
  /\ UNCHANGED <<userVars, wake, workVars, regcred, env, report, edits>>

Pullable(r, auth, insecure) ==
  /\ r # NoRegistry
  /\ auth \in Accepts[r]
  /\ r \in SelfSigned => insecure

FinishPod ==
  /\ job # NoJob /\ job.phase = "running"
  /\ LET ok == job.command = "image" =>
                 \A c \in Containers : Pullable(job.target[c], env[c], c \in job.insecure)
     IN job' = [job EXCEPT !.phase = IF ok THEN "complete" ELSE "failed"]
  /\ UNCHANGED <<userVars, wake, workVars, regcred, env, report, edits, faults>>

-----------------------------------------------------------------------------
(* The controller of the jobs                                               *)

DeleteJob == job' = NoJob /\ regcred' = <<>> /\ env' = <<>>

\* ParseVulnerabilityReportData: the version of the scanner is taken from the
\* ConfigMap, and an error is retried.
ParseVulnerabilityReportData ==
  /\ job # NoJob /\ job.phase = "complete"
  /\ cfg.image # Missing
  /\ report' = [version |-> cfg.image]
  /\ DeleteJob
  /\ UNCHANGED <<userVars, wake, workVars, edits, faults>>

\* Mutant: a failed job is kept.
KeepFailedJob ==
  /\ job # NoJob /\ job.phase = "failed"
  /\ UNCHANGED vars

ProcessFailedScanJob ==
  /\ job # NoJob /\ job.phase = "failed"
  /\ DeleteJob
  /\ UNCHANGED <<userVars, wake, workVars, report, edits, faults>>

Operator == CredentialsByWorkload \/ SubmitScanJob \/ ParseVulnerabilityReportData
            \/ ProcessFailedScanJob

Next ==
  \/ EditConfig \/ DeleteReport \/ Resync \/ StartPod \/ ExceedDeadline \/ FinishPod
  \/ CredentialsByWorkload \/ SubmitScanJob \/ ParseVulnerabilityReportData
  \/ ProcessFailedScanJob
  \/ \E s \in SecretNames : EditSecret(s)
  \/ \E p \in Pods : MovePod(p)
  \/ \E n \in Nodes : CollectImages(n)

Spec == Init /\ [][Next]_vars

\* The workers run, jobs end, and informers resync.
FairSpec ==
  /\ Spec
  /\ WF_vars(Operator) /\ WF_vars(Resync)
  /\ WF_vars(StartPod) /\ WF_vars(ExceedDeadline) /\ WF_vars(FinishPod)

-----------------------------------------------------------------------------
JobSpec ==
  [command : {"image", "filesystem"},
   target : [Containers -> Registries \cup {NoRegistry}], login : SUBSET Containers,
   insecure : SUBSET Containers, ignoreFile : BOOLEAN, node : Nodes \cup {NoNode},
   phase : {"waiting", "running", "complete", "failed"}]

\* Every variable has its type, and a job that was started has given every
\* container credentials or none.
TypeOK ==
  /\ cfg \in Configs
  /\ secret \in [SecretNames -> SecretContents \cup {Missing}]
  /\ pods \in [Pods -> PodStates] /\ cached \subseteq Nodes
  /\ wake \in BOOLEAN /\ building \in BOOLEAN
  /\ DOMAIN creds \subseteq Containers
  /\ job \in JobSpec \cup {NoJob}
  /\ job # NoJob => job.login \subseteq DOMAIN regcred
  /\ job # NoJob /\ job.phase \in {"running", "complete"} => DOMAIN env = Containers

\* A container logs in to a registry only with credentials that some pull
\* secret holds for the registry of its own image, whatever mixture of secrets
\* pod and service account name and however they change (secrets.go).
OwnCredentials ==
  job # NoJob => \A c \in DOMAIN env :
    env[c] # Anonymous => \E s \in SecretContents : /\ RegistryOf[c] \in DOMAIN s
                                                    /\ s[RegistryOf[c]] = env[c]

ImageScannable ==
  /\ cfg.command = "image" /\ cfg.mode \in {"Standalone", "ClientServer"}
  /\ LET auths == MapContainerNamesToDockerAuths
     IN \A c \in Containers : \A r \in GetMirroredImage(c) :
          Pullable(r, IF c \in DOMAIN auths THEN auths[c] ELSE Anonymous, c \in InsecureEnv)
FilesystemScannable ==
  /\ cfg.command = "filesystem" /\ cfg.mode = "Standalone"
  /\ \A p \in Pods : pods[p].phase \in {"none", "running"}
  /\ \E p \in Pods : pods[p].phase = "running"
Scannable ==
  /\ RequiredData /\ IF cfg.mode = "ClientServer" THEN cfg.serverURL ELSE GetDBRepository
  /\ cfg.ignoreFile => ~SameNamespace
  /\ \A s \in SecretNames : secret[s] # Missing
  /\ ImageScannable \/ FilesystemScannable

\* However configuration and secrets changed while jobs were built and started,
\* once they stay as a scan needs them (every pull secret that is named exists, one
\* that is missing is an error for all containers) the workload has a report: jobs that
\* were built from what no longer exists end, are deleted and built again
\* (plugin.go, controller.go).
Scanned == <>[]Scannable => <>[](report # NoReport)
==============================================================================
