------------------------------ MODULE AquaScan ------------------------------
(***************************************************************************)
(* The Aqua plugin (pkg/plugin/aqua/plugin.go) and the program its scan    *)
(* jobs run in every container (cmd/scanner-aqua): ask the Aqua server for *)
(* the vulnerabilities of the image (scanner/api, client), and scan with   *)
(* scannercli when the server does not know the image (scanner/cli).       *)
(*                                                                         *)
(* The plugin reads its ConfigMap several times while it builds one job;   *)
(* users edit it in between.  The containers of a job run concurrently and *)
(* share the server.  One workload is scanned.                             *)
(***************************************************************************)
EXTENDS Integers, FiniteSetsExt

CONSTANTS
  Containers, Images, ImageOf,
  RepositoryOf,                \* RepositoryOf[img]: repository and tag, without the server
  RegistryCount, HasPrefix,    \* registries of the server, and HasPrefix[i]: the
                               \* images with a prefix of its i-th registry
  Configs, Secrets,            \* contents of the plugin's ConfigMap and Secret
  Missing, Unset, NoJob, NoReport, Idle,
  MaxEdits, MaxFaults          \* bounds on edits by users and on faults

ServerRegistries == 1..RegistryCount \* in the order the server lists them
AdHoc == 0                     \* "Ad Hoc Scans", for images no registry claims
Literal == -1                  \* the unexpanded text "$(AQUA_CSP_REGISTRY)"

Versions == {d.image : d \in Configs} \ {Missing}
RegistryNames == ServerRegistries \cup {AdHoc, Literal}
                 \cup ({d.registry : d \in Configs} \ {Unset})
JobSpecs == [command : {"image", "filesystem"}, init : Versions, version : [Containers -> Versions],
             data : [cfg : Configs, sec : Secrets], phase : {"waiting", "running"}]
Outputs == [how : {"api", "scannercli"}, version : Versions]

ASSUME ConstantsAssumption ==
  /\ Containers # {} /\ ImageOf \in [Containers -> Images]
  /\ Images \subseteq DOMAIN RepositoryOf
  /\ RegistryCount \in Nat
  /\ NoJob \notin JobSpecs /\ NoReport \notin Outputs

VARIABLES
  cfg, sec,                    \* the ConfigMap and the Secret of the plugin
  build,                       \* a job spec that is being put together, or Idle
  job, env,                    \* the job; env: what the kubelet expanded for it
  pc, lookup, result,          \* per container: its step, the registry it asks, its output
  known,                       \* <<registry, name>>: what the server has results for
  report, edits, faults

vars == <<cfg, sec, build, job, env, pc, lookup, result, known, report, edits, faults>>
podVars == <<pc, lookup, result>>

Init ==
  /\ cfg \in Configs /\ sec \in Secrets
  /\ build = Idle /\ job = NoJob /\ env = Unset
  /\ pc = [c \in Containers |-> "waiting"] /\ lookup = [c \in Containers |-> AdHoc]
  /\ result = [c \in Containers |-> NoReport]
  /\ known \in SUBSET {<<i, RepositoryOf[img]>> : i \in ServerRegistries, img \in Images}
  /\ report = NoReport
  /\ edits = 0 /\ faults = 0

Edit == edits < MaxEdits /\ edits' = edits + 1
Fault == faults < MaxFaults /\ faults' = faults + 1

EditConfig ==
  /\ Edit
  /\ \/ cfg' \in Configs /\ UNCHANGED sec
     \/ sec' \in Secrets /\ UNCHANGED cfg
  /\ UNCHANGED <<build, job, env, podVars, known, report, faults>>

-----------------------------------------------------------------------------
(* The plugin                                                               *)

\* GetScanJobSpec reads ConfigMap and Secret, and the command; an invalid command
\* is an error, as is every missing or invalid property below, and is retried.
GetScanJobSpec ==
  /\ build = Idle /\ job = NoJob /\ report = NoReport
  /\ cfg.command \in {"image", "filesystem"}
  /\ build' = [command |-> cfg.command, data |-> [cfg |-> cfg, sec |-> sec],
               init |-> Missing, version |-> [c \in {} |-> Missing]]
  /\ UNCHANGED <<cfg, sec, job, env, podVars, known, report, edits, faults>>

\* getImageRef for the init container that copies scannercli; file system jobs
\* also need the image of the scanner itself.
GetImageRef ==
  /\ build # Idle /\ build.init = Missing
  /\ IF cfg.image = Missing \/ (build.command = "filesystem" /\ ~build.data.cfg.scannerImage)
     THEN build' = Idle
     ELSE build' = [build EXCEPT !.init = cfg.image]
  /\ UNCHANGED <<cfg, sec, job, env, podVars, known, report, edits, faults>>

\* newScanJobContainer reads the image reference, and so AQUA_VERSION, again
\* for every container; getEnvFromConfig reads it once for all of them.  The
\* resource quantities are parsed from what was read first.
NewScanJobContainer ==
  /\ build # Idle /\ build.init # Missing /\ DOMAIN build.version # Containers
  /\ LET rest == Containers \ DOMAIN build.version
         next == IF build.command = "image" THEN {CHOOSE c \in rest : TRUE} ELSE rest
     IN IF cfg.image = Missing \/ ~build.data.cfg.quantities THEN build' = Idle
        ELSE build' = [build EXCEPT !.version = [c \in DOMAIN @ \cup next |->
                                                   IF c \in next THEN cfg.image ELSE @[c]]]
  /\ UNCHANGED <<cfg, sec, job, env, podVars, known, report, edits, faults>>

\* Jobs of the file system command bring a copy of ConfigMap and Secret along.
SubmitScanJob ==
  /\ build # Idle /\ DOMAIN build.version = Containers
  /\ build' = Idle
  /\ job' = [command |-> build.command, init |-> build.init, version |-> build.version,
             data |-> build.data, phase |-> "waiting"]
  /\ UNCHANGED <<cfg, sec, env, podVars, known, report, edits, faults>>

-----------------------------------------------------------------------------
(* The pod.  All references of the environment are optional; a variable     *)
(* that is not defined is left as it stands in the arguments.               *)

\* The image command takes user name and password from the ConfigMap, where
\* only the server's URL is; the file system command from the job's secret.
EnvFromConfigMap == [host |-> cfg.server, login |-> cfg.login, registry |-> AdHoc]
EnvFromSecret == [host |-> job.data.cfg.server, login |-> job.data.sec,
                  registry |-> IF job.data.cfg.registry = Unset THEN Literal
                               ELSE job.data.cfg.registry]

StartPod ==
  /\ job # NoJob /\ job.phase = "waiting"
  /\ job' = [job EXCEPT !.phase = "running"]
  /\ env' = IF job.command = "image" THEN EnvFromConfigMap ELSE EnvFromSecret
  /\ pc' = [c \in Containers |-> "connect"]
  /\ UNCHANGED <<cfg, sec, build, lookup, result, known, report, edits, faults>>

Goto(c, l) == pc' = [pc EXCEPT ![c] = l]
ScannerVars == <<cfg, sec, build, job, env, known, report, edits>>

\* client.NewClient: getAuthHeader needs the server, and no credentials.
NewClient(c) ==
  /\ pc[c] = "connect"
  /\ Goto(c, IF env.host = Unset THEN "failed"
             ELSE IF env.registry # AdHoc THEN "fetch" ELSE "registries")
  /\ lookup' = [lookup EXCEPT ![c] = env.registry]
  /\ UNCHANGED <<ScannerVars, result, faults>>

\* getRegistryName: the last registry that has a matching prefix.
GetRegistryName(img) ==
  LET S == {i \in ServerRegistries : img \in HasPrefix[i]}
  IN IF S = {} THEN AdHoc ELSE Max(S)

ListRegistries(c) ==
  /\ pc[c] = "registries"
  /\ Goto(c, IF env.login = "valid" THEN "fetch" ELSE "failed")
  /\ lookup' = [lookup EXCEPT ![c] = GetRegistryName(ImageOf[c])]
  /\ UNCHANGED <<ScannerVars, result, faults>>

\* What the scanner converts to a report; the vulnerabilities are left out.
Result(c, how) == [how |-> how, version |-> job.version[c]]

\* The image command asks by repository and tag: images of two servers with the
\* same repository cannot be told apart.  The file system command asks by full name.
AskedFor(c) == IF job.command = "image" THEN RepositoryOf[ImageOf[c]] ELSE ImageOf[c]

\* Images.Vulnerabilities and the decision of scan(): only ErrNotFound leads
\* to scannercli.
Vulnerabilities(c) ==
  /\ pc[c] = "fetch"
  /\ \/ /\ env.login # "valid"
        /\ Goto(c, "failed") /\ UNCHANGED result
     \/ /\ env.login = "valid" /\ <<lookup[c], AskedFor(c)>> \in known
        /\ Goto(c, "done")
        /\ result' = [result EXCEPT ![c] = Result(c, "api")]
     \/ /\ env.login = "valid" /\ <<lookup[c], AskedFor(c)>> \notin known
        /\ Goto(c, "scannercli") /\ UNCHANGED result
  /\ UNCHANGED <<ScannerVars, lookup, faults>>

\* Mutant: every error of the server leads to scannercli.
ScanOnError(c) ==
  /\ pc[c] \in {"connect", "registries", "fetch"}
  /\ Fault
  /\ Goto(c, "scannercli")
  /\ UNCHANGED <<ScannerVars, lookup, result>>

\* The server does not answer, or answers with an unexpected status.
ServerError(c) ==
  /\ pc[c] \in {"connect", "registries", "fetch"}
  /\ Fault
  /\ Goto(c, "failed")
  /\ UNCHANGED <<ScannerVars, lookup, result>>

\* cli.Scanner.Scan: the file system command registers the image with the
\* server, under the name of the registry.
ScannerCli(c) ==
  /\ pc[c] = "scannercli"
  /\ \/ /\ env.login = "valid"
        /\ Goto(c, "done")
        /\ result' = [result EXCEPT ![c] = Result(c, "scannercli")]
        /\ known' = IF job.command = "filesystem" THEN known \cup {<<lookup[c], ImageOf[c]>>}
                    ELSE known
        /\ UNCHANGED faults
     \/ Fault /\ Goto(c, "failed") /\ UNCHANGED <<result, known>>
  /\ UNCHANGED <<cfg, sec, build, job, env, lookup, report, edits>>

-----------------------------------------------------------------------------
(* The controller.  Reports are what the containers printed.                *)

ResetPod == /\ job' = NoJob /\ env' = Unset
            /\ pc' = [c \in Containers |-> "waiting"]
            /\ lookup' = [c \in Containers |-> AdHoc]
            /\ result' = [c \in Containers |-> NoReport]

ParseVulnerabilityReportData ==
  /\ job # NoJob /\ \A c \in Containers : pc[c] = "done"
  /\ report' = result
  /\ ResetPod
  /\ UNCHANGED <<cfg, sec, build, known, edits, faults>>

\* Mutant: a failed job is kept.
KeepFailedJob == job # NoJob /\ (\E c \in Containers : pc[c] = "failed") /\ UNCHANGED vars

\* One failed container fails the job, as restarts are off.
ProcessFailedScanJob ==
  /\ job # NoJob
  /\ \A c \in Containers : pc[c] \in {"done", "failed"}
  /\ \E c \in Containers : pc[c] = "failed"
  /\ ResetPod
  /\ UNCHANGED <<cfg, sec, build, known, report, edits, faults>>

DeleteReport ==
  /\ report # NoReport /\ Edit
  /\ report' = NoReport
  /\ UNCHANGED <<cfg, sec, build, job, env, podVars, known, faults>>

Scanner(c) == NewClient(c) \/ ListRegistries(c) \/ Vulnerabilities(c) \/ ScannerCli(c)
Operator == GetScanJobSpec \/ GetImageRef \/ NewScanJobContainer \/ SubmitScanJob
            \/ ParseVulnerabilityReportData \/ ProcessFailedScanJob

Next ==
  \/ EditConfig \/ DeleteReport \/ StartPod
  \/ GetScanJobSpec \/ GetImageRef \/ NewScanJobContainer \/ SubmitScanJob
  \/ ParseVulnerabilityReportData \/ ProcessFailedScanJob
  \/ \E c \in Containers : \/ NewClient(c) \/ ListRegistries(c) \/ Vulnerabilities(c)
                           \/ ScannerCli(c) \/ ServerError(c)

Spec == Init /\ [][Next]_vars

\* The worker, with the resync that brings it back to the workload, the kubelet
\* and every container make progress.
FairSpec ==
  /\ Spec
  /\ WF_vars(Operator) /\ WF_vars(StartPod)
  /\ \A c \in Containers : WF_vars(Scanner(c))

-----------------------------------------------------------------------------
\* Every variable has its type; finished containers, and only they, have output.
TypeOK ==
  /\ cfg \in Configs /\ sec \in Secrets
  /\ pc \in [Containers -> {"waiting", "connect", "registries", "fetch", "scannercli",
                            "done", "failed"}]
  /\ lookup \in [Containers -> RegistryNames]
  /\ \A c \in Containers : (pc[c] = "done") <=> (result[c] # NoReport)
  /\ job # NoJob => job.version \in [Containers -> Versions]

\* scannercli runs only for images that the server was asked for, in the registry
\* that claims them, and that it does not know by that name: an error of the server
\* (a fault, here) is never taken for an unknown image (scan() in
\* cmd/scanner-aqua/main.go).
ScansOnlyUnknown ==
  [][ \A c \in Containers :
        (pc[c] # "scannercli" /\ pc'[c] = "scannercli") =>
          /\ env.login = "valid"
          /\ \A i \in ServerRegistries :
               /\ env.registry = AdHoc /\ ImageOf[c] \in HasPrefix[i]
               /\ \A j \in ServerRegistries : j > i => ImageOf[c] \notin HasPrefix[j]
               => <<i, AskedFor(c)>> \notin known
          /\ faults' = faults ]_vars

Scannable == /\ cfg.image # Missing /\ cfg.server # Unset /\ cfg.quantities
             /\ \/ cfg.command = "image" /\ cfg.login = "valid"
                \/ cfg.command = "filesystem" /\ cfg.scannerImage /\ sec = "valid"

\* Once the configuration stays usable the workload gets its report, whatever
\* mixture of settings earlier jobs were built from.  For the image command that
\* takes a login in the ConfigMap: newScanJobContainer does not look into the Secret,
\* where docs/vulnerability-scanning/aqua-enterprise.md puts it, and with a login
\* there only the workload is never scanned.
Scanned == <>[]Scannable => <>[](report # NoReport)
=============================================================================
