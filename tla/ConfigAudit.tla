----------------------------- MODULE ConfigAudit -----------------------------
(***************************************************************************)
(* The built-in configuration audit scanner of the Starboard operator      *)
(* (pkg/configauditreport): per resource kind one controller that          *)
(* evaluates the policies synchronously and writes a ConfigAuditReport     *)
(* (reconcileResource), and one controller that reacts to the policies     *)
(* ConfigMap by deleting, batch by batch, the reports made with other      *)
(* policies (reconcileConfig / reconcileClusterConfig).                    *)
(*                                                                         *)
(* Both read through the manager's informer caches, which lag behind the   *)
(* API server, and write to the API server.  A variable X holds what the   *)
(* API server stores and cX what the cache shows; a Sync step brings one   *)
(* cached object up to date and enqueues the keys its event maps to.       *)
(***************************************************************************)
EXTENDS Naturals, FiniteSets

CONSTANTS
  Resources,         \* names of the resources that pass the watch predicates
  Kinds,             \* resource kinds, each with its own pair of controllers
  KindOf,            \* [Resources -> Kinds]
  Controlled,        \* Pods of built-in workloads and Jobs of CronJobs
  Specs,             \* what ComputeSpecHash tells apart
  Policies,          \* contents of the policies ConfigMap
  Hashes,            \* values of Policies.Hash
  Hash,              \* [Policies -> [Kinds -> Hashes]]
  Applicable,        \* [Policies -> SUBSET Kinds]: kinds some policy names
  BatchDeleteLimit,  \* OPERATOR_BATCH_DELETE_LIMIT
  NoResource, NoPolicies, NoReport, NoHash, Idle,
  MaxEdits,          \* bound on what users do to resources, policies, reports
  MaxFaults          \* bound on API errors and operator restarts

ASSUME ConstantsAssumption ==
  /\ KindOf \in [Resources -> Kinds]
  /\ Controlled \subseteq Resources
  /\ Hash \in [Policies -> [Kinds -> Hashes]]
  /\ Applicable \in [Policies -> SUBSET Kinds]
  /\ BatchDeleteLimit \in Nat \ {0}
  /\ MaxEdits \in Nat
  /\ MaxFaults \in Nat

\* A resource re-created under the same name has a new uid.
Resource == [uid : Nat, spec : Specs]

\* Owner reference and the two labels that hasReport compares.
Report == [owner : Nat, spec : Specs, config : Hashes]

\* What a worker holds between the calls of one reconciliation.
Task == [pc : {"policies", "check", "write"}, key : Resources, seen : Resource,
         config : Hashes \cup {NoHash}]
CfgTask == [pc : {"list", "delete"}, hash : Hashes, victims : SUBSET Resources,
            more : BOOLEAN]

ASSUME SentinelsAssumption ==
  /\ NoResource \notin Resource
  /\ NoPolicies \notin Policies
  /\ NoReport \notin Report
  /\ Idle \notin Task /\ Idle \notin CfgTask

VARIABLES
  res, cRes,             \* resources
  pol, cPol,             \* the policies ConfigMap
  rep, cRep,             \* one report per resource: its name derives from the owner
  repLag,                \* reports with a version that the cache has not seen
  queue, delayed, work,  \* resource controllers: keys, keys to re-add, workers
  cfgQueue, cfgDelayed, cfgWork, \* config controllers: the same, one key per kind
  edits, faults          \* counters of the bounds

apiVars == <<res, pol, rep>>
cacheVars == <<cRes, cPol, cRep, repLag>>
workerVars == <<queue, delayed, work>>
cfgVars == <<cfgQueue, cfgDelayed, cfgWork>>
vars == <<res, pol, rep, cRes, cPol, cRep, repLag, queue, delayed, work,
          cfgQueue, cfgDelayed, cfgWork, edits, faults>>

\* The operator starts on a cluster without reports.
Init ==
  /\ res \in [Resources -> {NoResource} \cup [uid : {0}, spec : Specs]]
  /\ pol \in Policies
  /\ rep = [r \in Resources |-> NoReport]
  /\ cRes = res /\ cPol = pol /\ cRep = rep /\ repLag = {}
  /\ queue = {r \in Resources : res[r] # NoResource}
  /\ delayed = {}
  /\ work = [k \in Kinds |-> Idle]
  /\ cfgQueue = Kinds
  /\ cfgDelayed = {}
  /\ cfgWork = [k \in Kinds |-> Idle]
  /\ edits = 0 /\ faults = 0

-----------------------------------------------------------------------------
(* The cluster: what users and Kubernetes do to the watched objects.        *)

Edit ==
  /\ edits < MaxEdits
  /\ edits' = edits + 1

\* A resource is created or changed; a re-creation takes a new uid.
PutResource(r) ==
  /\ Edit
  /\ \E s \in Specs :
       res' = [res EXCEPT ![r] =
                 [uid |-> IF @ = NoResource THEN edits' ELSE @.uid, spec |-> s]]
  /\ UNCHANGED <<pol, rep, cacheVars, workerVars, cfgVars, faults>>

DeleteResource(r) ==
  /\ Edit
  /\ res[r] # NoResource
  /\ res' = [res EXCEPT ![r] = NoResource]
  /\ UNCHANGED <<pol, rep, cacheVars, workerVars, cfgVars, faults>>

\* The policies ConfigMap is replaced or deleted.
PutPolicies ==
  /\ Edit
  /\ pol' \in Policies \cup {NoPolicies}
  /\ UNCHANGED <<res, rep, cacheVars, workerVars, cfgVars, faults>>

\* A new version of r's report, or its removal, reaches the API server; the
\* cache has yet to see it.
StoreReport(r, report) ==
  /\ rep' = [rep EXCEPT ![r] = report]
  /\ repLag' = repLag \cup {r}
  /\ UNCHANGED <<res, pol, cRes, cPol, cRep>>

UserDeletesReport(r) ==
  /\ Edit
  /\ rep[r] # NoReport
  /\ StoreReport(r, NoReport)
  /\ UNCHANGED <<workerVars, cfgVars, faults>>

\* The garbage collector removes a report whose owner no longer exists.
GarbageCollect(r) ==
  /\ rep[r] # NoReport
  /\ res[r] # NoResource => res[r].uid # rep[r].owner
  /\ StoreReport(r, NoReport)
  /\ UNCHANGED <<workerVars, cfgVars, edits, faults>>

-----------------------------------------------------------------------------
(* Informers and work queues.                                               *)

\* SetupWithManager, For(kind): an event of the resource enqueues its key; the
\* delete event of an object that was being terminated is filtered out.
SyncResource(r) ==
  /\ cRes[r] # res[r]
  /\ cRes' = [cRes EXCEPT ![r] = res[r]]
  /\ \/ queue' = queue \cup {r}
     \/ res[r] = NoResource /\ UNCHANGED queue
  /\ UNCHANGED <<apiVars, cPol, cRep, repLag, delayed, work, cfgVars, edits,
                 faults>>

\* SetupWithManager, Owns(report): an event of the report enqueues its owner.
SyncReport(r) ==
  /\ r \in repLag
  /\ cRep' = [cRep EXCEPT ![r] = rep[r]]
  /\ repLag' = repLag \ {r}
  /\ queue' = queue \cup {r}
  /\ UNCHANGED <<apiVars, cRes, cPol, delayed, work, cfgVars, edits, faults>>

\* SetupWithManager, For(ConfigMap): an event of the policies ConfigMap
\* enqueues its key with the config controller of every kind.
SyncPolicies ==
  /\ cPol # pol
  /\ cPol' = pol
  /\ cfgQueue' = Kinds
  /\ UNCHANGED <<apiVars, cRes, cRep, repLag, workerVars, cfgDelayed, cfgWork,
                 edits, faults>>

\* The periodic resync of the informers repeats an event for every object.
Resync ==
  /\ queue' = queue \cup {r \in Resources : cRes[r] # NoResource}
  /\ cfgQueue' = IF cPol = NoPolicies THEN cfgQueue ELSE Kinds
  /\ UNCHANGED <<apiVars, cacheVars, delayed, work, cfgDelayed, cfgWork, edits,
                 faults>>

\* The delay of a RequeueAfter, or of the rate limiter after an error, is over.
FireDelayed(r) ==
  /\ r \in delayed
  /\ delayed' = delayed \ {r}
  /\ queue' = queue \cup {r}
  /\ UNCHANGED <<apiVars, cacheVars, work, cfgVars, edits, faults>>

FireCfgDelayed(k) ==
  /\ k \in cfgDelayed
  /\ cfgDelayed' = cfgDelayed \ {k}
  /\ cfgQueue' = cfgQueue \cup {k}
  /\ UNCHANGED <<apiVars, cacheVars, workerVars, cfgWork, edits, faults>>

\* The operator restarts: queues and workers are lost, the caches list afresh
\* and every listed object is an event.
Restart ==
  /\ faults < MaxFaults
  /\ faults' = faults + 1
  /\ cRes' = res /\ cPol' = pol /\ cRep' = rep /\ repLag' = {}
  /\ queue' = {r \in Resources : res[r] # NoResource \/ rep[r] # NoReport}
  /\ delayed' = {}
  /\ work' = [k \in Kinds |-> Idle]
  /\ cfgQueue' = IF pol = NoPolicies THEN {} ELSE Kinds
  /\ cfgDelayed' = {}
  /\ cfgWork' = [k \in Kinds |-> Idle]
  /\ UNCHANGED <<apiVars, edits>>

-----------------------------------------------------------------------------
(* reconcileResource                                                        *)

At(k, label) == work[k] # Idle /\ work[k].pc = label

\* The reconciliation of worker k goes on at the label, with the given hash.
GoTo(k, label, hash) ==
  /\ work' = [work EXCEPT ![k] = [pc |-> label, key |-> work[k].key,
                                  seen |-> work[k].seen, config |-> hash]]
  /\ UNCHANGED delayed

\* return ctrl.Result{}, nil
Done(k) ==
  /\ work' = [work EXCEPT ![k] = Idle]
  /\ UNCHANGED delayed

\* return ctrl.Result{RequeueAfter: ...}, nil, or return ctrl.Result{}, err
Requeue(k) ==
  /\ work' = [work EXCEPT ![k] = Idle]
  /\ delayed' = delayed \cup {work[k].key}

\* Get the resource from the cache; ignore it when it is gone or controlled by
\* another workload that is audited itself.
ReconcileResource(k) ==
  /\ work[k] = Idle
  /\ \E r \in queue :
       /\ KindOf[r] = k
       /\ queue' = queue \ {r}
       /\ IF cRes[r] = NoResource \/ r \in Controlled
          THEN UNCHANGED work
          ELSE work' = [work EXCEPT ![k] = [pc |-> "policies", key |-> r,
                                            seen |-> cRes[r], config |-> NoHash]]
  /\ UNCHANGED <<apiVars, cacheVars, delayed, cfgVars, edits, faults>>

\* Mutant: the report is built without the hash of the policies.
ReadPoliciesWithoutHash(k) ==
  /\ At(k, "policies")
  /\ IF cPol = NoPolicies \/ (cPol # NoPolicies /\ k \notin Applicable[cPol])
     THEN Requeue(k)
     ELSE GoTo(k, "check", NoHash)
  /\ UNCHANGED <<apiVars, cacheVars, queue, cfgVars, edits, faults>>

\* Mutant: a kind without policies is ignored rather than pushed back.
ReadPoliciesOnce(k) ==
  /\ At(k, "policies")
  /\ IF cPol = NoPolicies THEN Requeue(k)
     ELSE IF k \notin Applicable[cPol] THEN Done(k)
     ELSE GoTo(k, "check", Hash[cPol][k])
  /\ UNCHANGED <<apiVars, cacheVars, queue, cfgVars, edits, faults>>

\* A missing ConfigMap is an error, kinds without policies are pushed back.
ReadPolicies(k) ==
  /\ At(k, "policies")
  /\ IF cPol = NoPolicies \/ (cPol # NoPolicies /\ k \notin Applicable[cPol])
     THEN Requeue(k)
     ELSE GoTo(k, "check", Hash[cPol][k])
  /\ UNCHANGED <<apiVars, cacheVars, queue, cfgVars, edits, faults>>

\* Mutant: the two labels are swapped.
HasReportSwapped(r, spec, hash) ==
  /\ cRep[r] # NoReport
  /\ cRep[r].spec = hash
  /\ cRep[r].config = spec

HasReport(r, spec, hash) ==
  /\ cRep[r] # NoReport
  /\ cRep[r].spec = spec
  /\ cRep[r].config = hash

CheckReport(k) ==
  /\ At(k, "check")
  /\ IF HasReport(work[k].key, work[k].seen.spec, work[k].config)
     THEN Done(k)
     ELSE GoTo(k, "write", work[k].config)
  /\ UNCHANGED <<apiVars, cacheVars, queue, cfgVars, edits, faults>>

\* Mutant: a report that exists is never updated.
CreateReport(k) ==
  LET t == work[k]  r == t.key IN
  /\ At(k, "write")
  /\ \/ /\ rep[r] = NoReport
        /\ StoreReport(r, [owner |-> t.seen.uid, spec |-> t.seen.spec,
                           config |-> t.config])
        /\ Done(k)
     \/ /\ rep[r] # NoReport
        /\ Requeue(k)
        /\ UNCHANGED <<apiVars, cacheVars>>
  /\ UNCHANGED <<queue, cfgVars, edits, faults>>

\* readWriter.WriteReport: an update of the cached report keeps its metadata
\* (owner reference, resource version) and is refused when that version is not
\* the current one; a create is refused when a report exists.  A write that
\* took effect may still be answered with an error.
WriteReport(k) ==
  LET t == work[k]  r == t.key IN
  /\ At(k, "write")
  /\ \/ /\ cRep[r] # NoReport
        /\ r \notin repLag
        /\ StoreReport(r, [owner |-> cRep[r].owner, spec |-> t.seen.spec,
                           config |-> t.config])
        /\ Done(k) \/ Requeue(k)
     \/ /\ cRep[r] = NoReport
        /\ rep[r] = NoReport
        /\ StoreReport(r, [owner |-> t.seen.uid, spec |-> t.seen.spec,
                           config |-> t.config])
        /\ Done(k) \/ Requeue(k)
     \/ /\ IF cRep[r] # NoReport THEN r \in repLag ELSE rep[r] # NoReport
        /\ Requeue(k)
        /\ UNCHANGED <<apiVars, cacheVars>>
  /\ UNCHANGED <<queue, cfgVars, edits, faults>>

\* Any call of a reconciliation fails and its error is returned.
ResourceError(k) ==
  /\ work[k] # Idle
  /\ faults < MaxFaults
  /\ faults' = faults + 1
  /\ Requeue(k)
  /\ UNCHANGED <<apiVars, cacheVars, queue, cfgVars, edits>>

-----------------------------------------------------------------------------
(* reconcileConfig and reconcileClusterConfig                               *)

CfgAt(k, label) == cfgWork[k] # Idle /\ cfgWork[k].pc = label

\* Read the ConfigMap and hash the modules of this kind.
ReconcileConfig(k) ==
  /\ cfgWork[k] = Idle
  /\ k \in cfgQueue
  /\ cfgQueue' = cfgQueue \ {k}
  /\ IF cPol = NoPolicies
     THEN UNCHANGED cfgWork
     ELSE cfgWork' = [cfgWork EXCEPT ![k] = [pc |-> "list", hash |-> Hash[cPol][k],
                                             victims |-> {}, more |-> FALSE]]
  /\ UNCHANGED <<apiVars, cacheVars, workerVars, cfgDelayed, edits, faults>>

\* Cached reports of the kind whose config label differs.
Outdated(k) ==
  {r \in Resources : /\ KindOf[r] = k
                     /\ cRep[r] # NoReport
                     /\ cRep[r].config # cfgWork[k].hash}

\* len(reportList.Items) - BatchDeleteLimit > 0 does not hold.
BatchFits(k) == Cardinality(Outdated(k)) <= BatchDeleteLimit

\* The list asks for one report more than a batch may delete, to know whether
\* any is left; which reports it returns is the cache's choice.
ListOutdated(k) ==
  /\ CfgAt(k, "list")
  /\ \E batch \in SUBSET Outdated(k) :
       /\ IF Cardinality(Outdated(k)) <= BatchDeleteLimit
          THEN batch = Outdated(k)
          ELSE Cardinality(batch) = BatchDeleteLimit
       /\ cfgWork' = [cfgWork EXCEPT ![k] =
                        [pc |-> "delete", hash |-> cfgWork[k].hash,
                         victims |-> batch, more |-> ~BatchFits(k)]]
  /\ UNCHANGED <<apiVars, cacheVars, workerVars, cfgQueue, cfgDelayed, edits, faults>>

\* Delete the reports of the batch one by one; NotFound is no error.
DeleteOutdated(k) ==
  /\ CfgAt(k, "delete")
  /\ \E r \in cfgWork[k].victims :
       /\ cfgWork' = [cfgWork EXCEPT ![k] =
                        [pc |-> "delete", hash |-> cfgWork[k].hash,
                         victims |-> cfgWork[k].victims \ {r},
                         more |-> cfgWork[k].more]]
       /\ IF rep[r] = NoReport
          THEN UNCHANGED <<apiVars, cacheVars>>
          ELSE StoreReport(r, NoReport)
  /\ UNCHANGED <<workerVars, cfgQueue, cfgDelayed, edits, faults>>

FinishConfig(k) ==
  /\ CfgAt(k, "delete")
  /\ cfgWork[k].victims = {}
  /\ cfgWork' = [cfgWork EXCEPT ![k] = Idle]
  /\ cfgDelayed' = IF cfgWork[k].more THEN cfgDelayed \cup {k} ELSE cfgDelayed
  /\ UNCHANGED <<apiVars, cacheVars, workerVars, cfgQueue, edits, faults>>

ConfigError(k) ==
  /\ cfgWork[k] # Idle
  /\ faults < MaxFaults
  /\ faults' = faults + 1
  /\ cfgWork' = [cfgWork EXCEPT ![k] = Idle]
  /\ cfgDelayed' = cfgDelayed \cup {k}
  /\ UNCHANGED <<apiVars, cacheVars, workerVars, cfgQueue, edits>>

-----------------------------------------------------------------------------
\* What users and the cluster do.
ClusterNext ==
  \/ PutPolicies
  \/ \E r \in Resources :
       PutResource(r) \/ DeleteResource(r) \/ UserDeletesReport(r) \/ GarbageCollect(r)

\* What the operator's controllers and their informers do.
WorkerNext(k) ==
  ReconcileResource(k) \/ ReadPolicies(k) \/ CheckReport(k) \/ WriteReport(k)
ConfigNext(k) ==
  ReconcileConfig(k) \/ ListOutdated(k) \/ DeleteOutdated(k) \/ FinishConfig(k)
OperatorNext ==
  \/ SyncPolicies
  \/ Resync
  \/ Restart
  \/ \E r \in Resources : SyncResource(r) \/ SyncReport(r) \/ FireDelayed(r)
  \/ \E k \in Kinds : \/ WorkerNext(k) \/ ConfigNext(k) \/ FireCfgDelayed(k)
                      \/ ResourceError(k) \/ ConfigError(k)

Next == ClusterNext \/ OperatorNext

\* Informers deliver, delays end, workers run and the garbage collector works.  The
\* work queues are first in first out, so that a key that is added again and again
\* keeps no other from being served.  Nothing is assumed of users, of errors, of
\* restarts or of the resync.
Fairness ==
  /\ WF_vars(SyncPolicies)
  /\ \A r \in Resources :
       /\ WF_vars(SyncResource(r)) /\ WF_vars(SyncReport(r))
       /\ WF_vars(FireDelayed(r)) /\ WF_vars(GarbageCollect(r))
       /\ SF_vars(ReconcileResource(KindOf[r]) /\ queue' = queue \ {r})
  /\ \A k \in Kinds :
       WF_vars(WorkerNext(k)) /\ WF_vars(ConfigNext(k)) /\ WF_vars(FireCfgDelayed(k))

Spec == Init /\ [][Next]_vars
FairSpec == Spec /\ Fairness
-----------------------------------------------------------------------------
(* Properties                                                               *)

\* Every variable keeps its type; a worker of a kind holds keys of that kind.
TypeOK ==
  /\ res \in [Resources -> Resource \cup {NoResource}]
  /\ cRes \in [Resources -> Resource \cup {NoResource}]
  /\ pol \in Policies \cup {NoPolicies}
  /\ cPol \in Policies \cup {NoPolicies}
  /\ rep \in [Resources -> Report \cup {NoReport}]
  /\ cRep \in [Resources -> Report \cup {NoReport}]
  /\ repLag \subseteq Resources
  /\ queue \subseteq Resources
  /\ delayed \subseteq Resources
  /\ work \in [Kinds -> Task \cup {Idle}]
  /\ \A k \in Kinds : work[k] # Idle =>
       /\ KindOf[work[k].key] = k
       /\ work[k].pc # "policies" => work[k].config \in Hashes
  /\ cfgQueue \subseteq Kinds
  /\ cfgDelayed \subseteq Kinds
  /\ cfgWork \in [Kinds -> CfgTask \cup {Idle}]
  /\ edits \in 0..MaxEdits
  /\ faults \in 0..MaxFaults

\* The resource exists, is audited in its own name, and policies exist.
Wanted(r) ==
  /\ res[r] # NoResource
  /\ r \notin Controlled
  /\ pol # NoPolicies

\* The stored report is the one for the current resource and policies.
Current(r) ==
  /\ rep[r] # NoReport
  /\ rep[r].spec = res[r].spec
  /\ rep[r].config = Hash[pol][KindOf[r]]

\* r's own controller is going to look at r again.
ResourcePending(r) ==
  \/ cRes[r] # res[r]
  \/ r \in repLag \cup queue \cup delayed
  \/ work[KindOf[r]] # Idle /\ work[KindOf[r]].key = r

\* The config controller of r's kind is going to look at its reports again.
ConfigPending(k) ==
  \/ cPol # pol
  \/ k \in cfgQueue \cup cfgDelayed
  \/ cfgWork[k] # Idle

\* No change is ever forgotten: whenever the report of a resource is missing, or
\* was made for another version of the resource or of the policies, an event, a
\* queued or delayed key or a running reconciliation is going to repair it.  No
\* resync is needed: reconcileResource and reconcileConfig, each reading caches
\* the other one is changing, never both return without one seeing the change.
NoLostWakeup ==
  \A r \in Resources :
    Wanted(r) /\ ~Current(r) => ResourcePending(r) \/ ConfigPending(KindOf[r])

\* All caches are up to date, every report is the current one of a live owner,
\* and no running reconciliation holds a decision made before that was so.
Settled ==
  /\ cRes = res /\ cPol = pol /\ repLag = {} /\ pol # NoPolicies
  /\ \A r \in Resources :
       IF Wanted(r) /\ KindOf[r] \in Applicable[pol]
       THEN Current(r) /\ rep[r].owner = res[r].uid
       ELSE rep[r] = NoReport
  /\ \A k \in Kinds :
       /\ work[k] # Idle => /\ work[k].seen = res[work[k].key]
                            /\ work[k].key \notin Controlled
                            /\ \/ work[k].pc = "policies"
                               \/ /\ work[k].pc = "check"
                                  /\ k \in Applicable[pol]
                                  /\ work[k].config = Hash[pol][k]
       /\ cfgWork[k] # Idle => cfgWork[k].hash = Hash[pol][k] /\ cfgWork[k].victims = {}

\* Once every report is right the operator leaves them alone: retries, resyncs,
\* restarts and API errors lead to no scan, no write and no deletion.
SettledIsStable == [][Settled /\ OperatorNext => Settled' /\ UNCHANGED rep]_vars

\* When users stop editing, every audited resource ends up with the report for
\* its current version and the current policies, owned by its current
\* incarnation, whatever was edited, deleted, re-created or failed before.
Converges ==
  <>[](\A r \in Resources :
         Wanted(r) /\ KindOf[r] \in Applicable[pol]
           => Current(r) /\ rep[r].owner = res[r].uid)

=============================================================================
