-------------------------- MODULE ConfigAuditProofs --------------------------
(***************************************************************************)
(* Proofs about ConfigAudit for every value of its constants: the type     *)
(* invariant, NoLostWakeup, by an invariant stated over the caches, and    *)
(* SettledIsStable.                                                        *)
(***************************************************************************)
EXTENDS ConfigAudit, TLAPS

\* A cached report without a pending event is the stored one.
CacheExact == \A r \in Resources : r \notin repLag => cRep[r] = rep[r]

\* A reconciliation works on the cached resource, or its key is queued again.
SeenFresh ==
  \A k \in Kinds : work[k] # Idle =>
    \/ work[k].seen = cRes[work[k].key]
    \/ cRes[work[k].key] = NoResource
    \/ work[k].key \in queue

Working(r) == work[KindOf[r]] # Idle /\ work[KindOf[r]].key = r

\* A report that is missing or of another version of the cached resource.
SpecRepair ==
  \A r \in Resources :
    /\ r \notin Controlled
    /\ cRes[r] # NoResource
    /\ rep[r] # NoReport => rep[r].spec # cRes[r].spec
    => r \in repLag \cup queue \cup delayed \/ Working(r)

\* The worker on r is not about to take its report for the current one.
WillRewrite(r) ==
  LET t == work[KindOf[r]] IN
  /\ Working(r)
  /\ t.pc \in {"policies", "write"} \/ t.config # rep[r].config

\* The config controller of r's kind is going to delete r's report.
WillDelete(r) ==
  LET k == KindOf[r]
      t == cfgWork[k]
  IN \/ k \in cfgQueue \cup cfgDelayed
     \/ /\ t # Idle
        /\ \/ t.pc = "list" /\ t.hash = Hash[cPol][k]
           \/ t.pc = "delete" /\ (r \in t.victims \/ t.more)

\* A report made with policies other than the cached ones.
ConfigRepair ==
  \A r \in Resources :
    /\ r \notin Controlled
    /\ cRes[r] # NoResource
    /\ cPol # NoPolicies
    /\ rep[r] # NoReport
    /\ rep[r].config # Hash[cPol][KindOf[r]]
    => r \in repLag \cup queue \cup delayed \/ WillRewrite(r) \/ WillDelete(r)

IInv == TypeOK /\ CacheExact /\ SeenFresh /\ SpecRepair /\ ConfigRepair

-----------------------------------------------------------------------------
USE ConstantsAssumption, SentinelsAssumption

\* The fields of a task of reconcileResource.
LEMMA TaskFields ==
  ASSUME NEW t \in Task
  PROVE  /\ t.pc \in {"policies", "check", "write"}
         /\ t.key \in Resources
         /\ t.seen \in Resource
         /\ t.config \in Hashes \cup {NoHash}
BY DEF Task

\* A record with the right fields is a task.
LEMMA TaskMake ==
  ASSUME NEW l \in {"policies", "check", "write"}, NEW r \in Resources,
         NEW s \in Resource, NEW h \in Hashes \cup {NoHash}
  PROVE  [pc |-> l, key |-> r, seen |-> s, config |-> h] \in Task
BY DEF Task

\* The fields of a task of reconcileConfig.
LEMMA CfgTaskFields ==
  ASSUME NEW t \in CfgTask
  PROVE  /\ t.pc \in {"list", "delete"}
         /\ t.hash \in Hashes
         /\ t.victims \in SUBSET Resources
         /\ t.more \in BOOLEAN
BY DEF CfgTask

\* A record with the right fields is a task of reconcileConfig.
LEMMA CfgTaskMake ==
  ASSUME NEW l \in {"list", "delete"}, NEW h \in Hashes,
         NEW v \in SUBSET Resources, NEW m \in BOOLEAN
  PROVE  [pc |-> l, hash |-> h, victims |-> v, more |-> m] \in CfgTask
BY DEF CfgTask

\* The initial states are well-typed.
LEMMA TypeInit == Init => TypeOK
BY DEF Init, TypeOK, Resource

\* What users and Kubernetes do keeps the types.
LEMMA ClusterType == TypeOK /\ ClusterNext => TypeOK'
<1> SUFFICES ASSUME TypeOK, ClusterNext PROVE TypeOK'
  OBVIOUS
<1> USE DEF TypeOK, cacheVars, workerVars, cfgVars
<1>1. CASE PutPolicies
  BY <1>1 DEF PutPolicies, Edit
<1>2. ASSUME NEW r \in Resources, PutResource(r) PROVE TypeOK'
  BY <1>2 DEF PutResource, Edit, Resource
<1>3. ASSUME NEW r \in Resources, DeleteResource(r) PROVE TypeOK'
  BY <1>3 DEF DeleteResource, Edit
<1>4. ASSUME NEW r \in Resources, UserDeletesReport(r) PROVE TypeOK'
  BY <1>4 DEF UserDeletesReport, StoreReport, Edit
<1>5. ASSUME NEW r \in Resources, GarbageCollect(r) PROVE TypeOK'
  BY <1>5 DEF GarbageCollect, StoreReport
<1> QED
  BY <1>1, <1>2, <1>3, <1>4, <1>5 DEF ClusterNext

\* Policy events, the resync and a restart keep the types.
LEMMA BareInformerType ==
  ASSUME TypeOK, SyncPolicies \/ Resync \/ Restart
  PROVE  TypeOK'
<1> USE DEF TypeOK, apiVars, cacheVars, workerVars, cfgVars
<1>1. CASE SyncPolicies
  BY <1>1 DEF SyncPolicies
<1>2. CASE Resync
  BY <1>2 DEF Resync
<1>3. CASE Restart
  BY <1>3 DEF Restart
<1> QED
  BY <1>1, <1>2, <1>3

\* Informer events and ended delays keep the types.
LEMMA InformerType ==
  ASSUME TypeOK, NEW r \in Resources,
         SyncResource(r) \/ SyncReport(r) \/ FireDelayed(r)
  PROVE  TypeOK'
<1> USE DEF TypeOK, apiVars, cacheVars, workerVars, cfgVars
<1>1. CASE SyncResource(r)
  BY <1>1 DEF SyncResource
<1>2. CASE SyncReport(r)
  BY <1>2 DEF SyncReport
<1>3. CASE FireDelayed(r)
  BY <1>3 DEF FireDelayed
<1> QED
  BY <1>1, <1>2, <1>3

\* So does the next batch of reconcileConfig.
LEMMA FireCfgType ==
  ASSUME TypeOK, NEW k \in Kinds, FireCfgDelayed(k)
  PROVE  TypeOK'
BY DEF FireCfgDelayed, TypeOK, apiVars, cacheVars, workerVars

\* Every step of the reconciliation of a key keeps the types.
LEMMA WorkerType ==
  ASSUME TypeOK, NEW k \in Kinds, WorkerNext(k) \/ ResourceError(k)
  PROVE  TypeOK'
<1> USE DEF TypeOK, apiVars, cacheVars, cfgVars
<1>1. CASE ReconcileResource(k)
  <2>1. PICK r \in queue :
          /\ KindOf[r] = k
          /\ queue' = queue \ {r}
          /\ IF cRes[r] = NoResource \/ r \in Controlled
             THEN UNCHANGED work
             ELSE work' = [work EXCEPT ![k] = [pc |-> "policies", key |-> r,
                                               seen |-> cRes[r], config |-> NoHash]]
    BY <1>1 DEF ReconcileResource
  <2>2. CASE UNCHANGED work
    BY <1>1, <2>1, <2>2 DEF ReconcileResource
  <2>3. CASE cRes[r] # NoResource /\ r \notin Controlled
    <3>1. [pc |-> "policies", key |-> r, seen |-> cRes[r], config |-> NoHash] \in Task
      BY <2>3, TaskMake
    <3>2. PICK t \in Task : /\ t.key = r /\ t.pc = "policies"
                            /\ work' = [work EXCEPT ![k] = t]
      BY <2>1, <2>3, <3>1
    <3>3. UNCHANGED <<apiVars, cacheVars, delayed, cfgVars, edits, faults>>
      BY <1>1 DEF ReconcileResource
    <3> QED
      BY <2>1, <3>2, <3>3
  <2> QED
    BY <2>1, <2>2, <2>3
<1>2. CASE work[k] # Idle
  <2> DEFINE t == work[k]
  <2>1. /\ t \in Task
        /\ t.key \in Resources /\ t.seen \in Resource /\ t.config \in Hashes \cup {NoHash}
    BY <1>2, TaskFields
  <2>2. ASSUME NEW l \in {"check", "write"}, NEW h \in Hashes, GoTo(k, l, h)
        PROVE  /\ work' \in [Kinds -> Task \cup {Idle}]
               /\ \A j \in Kinds : work'[j] # Idle =>
                    /\ KindOf[work'[j].key] = j
                    /\ work'[j].pc # "policies" => work'[j].config \in Hashes
               /\ delayed' = delayed
    <3>1. [pc |-> l, key |-> t.key, seen |-> t.seen, config |-> h] \in Task
      BY <2>1, TaskMake
    <3> QED
      BY <1>2, <2>2, <3>1 DEF GoTo
  <2>3. ASSUME Done(k) \/ Requeue(k)
        PROVE  /\ work' \in [Kinds -> Task \cup {Idle}]
               /\ \A j \in Kinds : work'[j] # Idle =>
                    /\ KindOf[work'[j].key] = j
                    /\ work'[j].pc # "policies" => work'[j].config \in Hashes
               /\ delayed' \subseteq Resources
    BY <2>1, <2>3 DEF Done, Requeue
  <2>4. CASE ReadPolicies(k)
    BY <2>2, <2>3, <2>4 DEF ReadPolicies
  <2>5. CASE CheckReport(k)
    BY <1>2, <2>2, <2>3, <2>5 DEF CheckReport, At
  <2>6. CASE WriteReport(k)
    <3>1. t.config \in Hashes
      BY <1>2, <2>6 DEF WriteReport, At
    <3>2. ASSUME NEW r \in Resources, NEW report \in Report, StoreReport(r, report)
          PROVE  /\ rep' \in [Resources -> Report \cup {NoReport}]
                 /\ repLag' \subseteq Resources
      BY <3>2 DEF StoreReport
    <3>3. ASSUME cRep[t.key] # NoReport
          PROVE  [owner |-> cRep[t.key].owner, spec |-> t.seen.spec,
                  config |-> t.config] \in Report
      BY <2>1, <3>1, <3>3 DEF Report, Resource
    <3>4. [owner |-> t.seen.uid, spec |-> t.seen.spec, config |-> t.config] \in Report
      BY <2>1, <3>1 DEF Report, Resource
    <3>5. /\ rep' \in [Resources -> Report \cup {NoReport}]
          /\ repLag' \subseteq Resources
          /\ UNCHANGED <<res, pol, cRes, cPol, cRep>>
      <4>1. CASE \E report \in Report : StoreReport(t.key, report)
        BY <2>1, <4>1, <3>2 DEF StoreReport
      <4>2. CASE UNCHANGED <<apiVars, cacheVars>>
        BY <4>2
      <4> QED
        BY <2>6, <3>3, <3>4, <4>1, <4>2 DEF WriteReport
    <3>6. /\ Done(k) \/ Requeue(k)
          /\ UNCHANGED <<queue, cfgVars, edits, faults>>
      BY <2>6 DEF WriteReport
    <3> QED
      BY <2>3, <3>5, <3>6
  <2>7. CASE ResourceError(k)
    BY <2>3, <2>7 DEF ResourceError
  <2> QED
    BY <1>2, <2>4, <2>5, <2>6, <2>7 DEF WorkerNext, ReconcileResource
<1> QED
  BY <1>1, <1>2 DEF WorkerNext, ReadPolicies, CheckReport, WriteReport, At, ResourceError

\* Every step of reconcileConfig keeps the types.
LEMMA ConfigType ==
  ASSUME TypeOK, NEW k \in Kinds, ConfigNext(k) \/ ConfigError(k)
  PROVE  TypeOK'
<1> USE DEF TypeOK, apiVars, cacheVars, workerVars
<1>1. CASE ReconcileConfig(k)
  <2>1. CASE cPol = NoPolicies
    BY <1>1, <2>1 DEF ReconcileConfig
  <2>2. CASE cPol # NoPolicies
    <3>1. [pc |-> "list", hash |-> Hash[cPol][k], victims |-> {}, more |-> FALSE]
            \in CfgTask
      BY <2>2, CfgTaskMake
    <3> QED
      BY <1>1, <2>2, <3>1 DEF ReconcileConfig
  <2> QED
    BY <2>1, <2>2
<1>2. CASE ListOutdated(k)
  <2>1. PICK batch \in SUBSET Outdated(k) :
          cfgWork' = [cfgWork EXCEPT ![k] =
                        [pc |-> "delete", hash |-> cfgWork[k].hash,
                         victims |-> batch, more |-> ~BatchFits(k)]]
    BY <1>2 DEF ListOutdated
  <2>2. cfgWork[k].hash \in Hashes
    BY <1>2, CfgTaskFields DEF ListOutdated, CfgAt
  <2>3. [pc |-> "delete", hash |-> cfgWork[k].hash, victims |-> batch,
         more |-> ~BatchFits(k)] \in CfgTask
    BY <2>2, CfgTaskMake DEF Outdated, BatchFits
  <2> QED
    BY <1>2, <2>1, <2>3 DEF ListOutdated
<1>3. CASE DeleteOutdated(k)
  <2>1. cfgWork[k] \in CfgTask
    BY <1>3 DEF DeleteOutdated, CfgAt
  <2>2. PICK r \in cfgWork[k].victims :
          /\ cfgWork' = [cfgWork EXCEPT ![k] =
                           [pc |-> "delete", hash |-> cfgWork[k].hash,
                            victims |-> cfgWork[k].victims \ {r},
                            more |-> cfgWork[k].more]]
          /\ IF rep[r] = NoReport
             THEN UNCHANGED <<apiVars, cacheVars>>
             ELSE StoreReport(r, NoReport)
    BY <1>3 DEF DeleteOutdated
  <2>3. [pc |-> "delete", hash |-> cfgWork[k].hash,
         victims |-> cfgWork[k].victims \ {r}, more |-> cfgWork[k].more] \in CfgTask
    BY <2>1, CfgTaskFields, CfgTaskMake
  <2>4. r \in Resources
    BY <2>1, CfgTaskFields
  <2>5. /\ rep' \in [Resources -> Report \cup {NoReport}]
        /\ repLag' \subseteq Resources
        /\ UNCHANGED <<res, pol, cRes, cPol, cRep>>
    BY <2>2, <2>4 DEF StoreReport
  <2>6. cfgWork' \in [Kinds -> CfgTask \cup {Idle}]
    BY <2>2, <2>3
  <2>7. UNCHANGED <<workerVars, cfgQueue, cfgDelayed, edits, faults>>
    BY <1>3 DEF DeleteOutdated
  <2> QED
    BY <2>5, <2>6, <2>7
<1>4. CASE FinishConfig(k)
  BY <1>4 DEF FinishConfig
<1>5. CASE ConfigError(k)
  BY <1>5 DEF ConfigError
<1> QED
  BY <1>1, <1>2, <1>3, <1>4, <1>5 DEF ConfigNext

\* Every step keeps the types.
LEMMA TypeStep == TypeOK /\ [Next]_vars => TypeOK'
<1>1. TypeOK /\ ClusterNext => TypeOK'
  BY ClusterType
<1>2. TypeOK /\ OperatorNext => TypeOK'
  <2> SUFFICES ASSUME TypeOK, OperatorNext PROVE TypeOK'
    OBVIOUS
  <2>1. CASE SyncPolicies \/ Resync \/ Restart
    BY <2>1, BareInformerType
  <2>2. ASSUME NEW r \in Resources, SyncResource(r) \/ SyncReport(r) \/ FireDelayed(r)
        PROVE  TypeOK'
    BY <2>2, InformerType
  <2>3. ASSUME NEW k \in Kinds,
               \/ WorkerNext(k) \/ ConfigNext(k) \/ FireCfgDelayed(k)
               \/ ResourceError(k) \/ ConfigError(k)
        PROVE  TypeOK'
    BY <2>3, FireCfgType, WorkerType, ConfigType
  <2> QED
    BY <2>1, <2>2, <2>3 DEF OperatorNext
<1>3. TypeOK /\ UNCHANGED vars => TypeOK'
  BY DEF TypeOK, vars
<1> QED
  BY <1>1, <1>2, <1>3 DEF Next

\* Every reachable state is well-typed: no handler of the controllers stores a
\* report without both hashes or works on a key of another kind.
THEOREM TypeCorrect == Spec => []TypeOK
BY TypeInit, TypeStep, PTL DEF Spec

-----------------------------------------------------------------------------
\* The part of IInv that goes beyond typing.
Repair == CacheExact /\ SeenFresh /\ SpecRepair /\ ConfigRepair

\* Initially every resource is queued, so nothing is left to repair.
LEMMA RepairInit == Init => Repair
BY DEF Init, Repair, CacheExact, SeenFresh, SpecRepair, ConfigRepair

\* Users and the garbage collector touch no cache, and a report they remove is
\* an event that is still to come.
LEMMA ClusterRepair ==
  ASSUME IInv, ClusterNext
  PROVE  Repair'
<1> USE DEF IInv, TypeOK, cacheVars, workerVars, cfgVars
<1>1. CASE UNCHANGED <<rep, cacheVars, workerVars, cfgVars>>
  BY <1>1 DEF Repair, CacheExact, SeenFresh, SpecRepair, ConfigRepair, Working,
              WillRewrite, WillDelete
<1>2. ASSUME NEW r \in Resources, StoreReport(r, NoReport), UNCHANGED <<workerVars, cfgVars>>
      PROVE  Repair'
  <2>1. /\ rep' = [rep EXCEPT ![r] = NoReport]
        /\ repLag' = repLag \cup {r}
        /\ UNCHANGED <<cRes, cPol, cRep, workerVars, cfgVars>>
    BY <1>2 DEF StoreReport
  <2> QED
    BY <2>1 DEF Repair, CacheExact, SeenFresh, SpecRepair, ConfigRepair, Working,
                WillRewrite, WillDelete
<1> QED
  BY <1>1, <1>2 DEF ClusterNext, PutPolicies, PutResource, DeleteResource,
                    UserDeletesReport, GarbageCollect

\* An event enqueues what it may have invalidated.
LEMMA BareInformerRepair ==
  ASSUME IInv, SyncPolicies \/ Resync \/ Restart
  PROVE  Repair'
<1> USE DEF IInv, TypeOK, apiVars, cacheVars, workerVars, cfgVars
<1>1. CASE SyncPolicies
  BY <1>1 DEF SyncPolicies, Repair, CacheExact, SeenFresh, SpecRepair, ConfigRepair,
              Working, WillRewrite, WillDelete
<1>2. CASE Resync
  BY <1>2 DEF Resync, Repair, CacheExact, SeenFresh, SpecRepair, ConfigRepair,
              Working, WillRewrite, WillDelete
<1>3. CASE Restart
  BY <1>3 DEF Restart, Repair, CacheExact, SeenFresh, SpecRepair, ConfigRepair
<1> QED
  BY <1>1, <1>2, <1>3

\* Informer events and ended delays forget no repair.
LEMMA InformerRepair ==
  ASSUME IInv, NEW r \in Resources,
         SyncResource(r) \/ SyncReport(r) \/ FireDelayed(r)
  PROVE  Repair'
<1> USE DEF IInv, TypeOK, apiVars, cacheVars, workerVars, cfgVars
<1>0. \A k \in Kinds : work[k] # Idle => work[k].key \in Resources
  BY TaskFields
<1>1. CASE SyncResource(r)
  BY <1>0, <1>1 DEF SyncResource, Repair, CacheExact, SeenFresh, SpecRepair, ConfigRepair,
              Working, WillRewrite, WillDelete
<1>2. CASE SyncReport(r)
  BY <1>0, <1>2 DEF SyncReport, Repair, CacheExact, SeenFresh, SpecRepair, ConfigRepair,
              Working, WillRewrite, WillDelete
<1>3. CASE FireDelayed(r)
  BY <1>0, <1>3 DEF FireDelayed, Repair, CacheExact, SeenFresh, SpecRepair, ConfigRepair,
              Working, WillRewrite, WillDelete
<1> QED
  BY <1>1, <1>2, <1>3

\* An ended delay of reconcileConfig forgets no repair.
LEMMA FireCfgRepair ==
  ASSUME IInv, NEW k \in Kinds, FireCfgDelayed(k)
  PROVE  Repair'
BY DEF FireCfgDelayed, IInv, TypeOK, apiVars, cacheVars, workerVars, Repair, CacheExact,
       SeenFresh, SpecRepair, ConfigRepair, Working, WillRewrite, WillDelete

\* A worker that returns has left a report, an event or a requeued key behind,
\* or found the report that matches what it had read.
LEMMA WorkerRepair ==
  ASSUME IInv, NEW k \in Kinds, WorkerNext(k) \/ ResourceError(k)
  PROVE  Repair'
<1> USE DEF IInv, TypeOK, apiVars, cacheVars, workerVars, cfgVars
<1>0. \A j \in Kinds : work[j] # Idle =>
        /\ work[j].key \in Resources /\ work[j].seen \in Resource
        /\ work[j].pc \in {"policies", "check", "write"}
  BY TaskFields
<1>1. CASE ReconcileResource(k)
  <2>1. PICK r \in queue :
          /\ KindOf[r] = k
          /\ queue' = queue \ {r}
          /\ IF cRes[r] = NoResource \/ r \in Controlled
             THEN UNCHANGED work
             ELSE work' = [work EXCEPT ![k] = [pc |-> "policies", key |-> r,
                                               seen |-> cRes[r], config |-> NoHash]]
    BY <1>1 DEF ReconcileResource
  <2>2. /\ work[k] = Idle
        /\ UNCHANGED <<apiVars, cacheVars, delayed, cfgVars, edits, faults>>
    BY <1>1 DEF ReconcileResource
  <2>3. CASE cRes[r] = NoResource \/ r \in Controlled
    <3>1. queue' = queue \ {r} /\ UNCHANGED work
      BY <2>1, <2>3
    <3>2. \A j \in Kinds : work[j] # Idle => work[j].key # r
      BY <2>1, <2>2
    <3> QED
      BY <2>2, <2>3, <3>1, <3>2
      DEF Repair, CacheExact, SeenFresh, SpecRepair, ConfigRepair, Working, WillRewrite,
          WillDelete
  <2>4. CASE cRes[r] # NoResource /\ r \notin Controlled
    <3>1. [pc |-> "policies", key |-> r, seen |-> cRes[r], config |-> NoHash] \in Task
      BY <2>4, TaskMake
    <3>2. PICK t \in Task : /\ t.key = r /\ t.pc = "policies" /\ t.seen = cRes[r]
                            /\ work' = [work EXCEPT ![k] = t]
      BY <2>1, <2>4, <3>1
    <3>3. \A j \in Kinds : work[j] # Idle => work[j].key # r
      BY <2>1, <2>2
    <3> QED
      BY <2>1, <2>2, <3>2, <3>3
      DEF Repair, CacheExact, SeenFresh, SpecRepair, ConfigRepair, Working, WillRewrite,
          WillDelete
  <2> QED
    BY <2>3, <2>4
<1>2. CASE work[k] # Idle
  <2> DEFINE t == work[k]
  <2>1. /\ t \in Task /\ t.key \in Resources /\ t.seen \in Resource /\ KindOf[t.key] = k
        /\ t.config \in Hashes \cup {NoHash}
    BY <1>2, TaskFields
  <2>2. ASSUME Requeue(k), UNCHANGED <<rep, cacheVars, queue, cfgVars>>
        PROVE  Repair'
    BY <1>0, <1>2, <2>1, <2>2
    DEF Requeue, Repair, CacheExact, SeenFresh, SpecRepair, ConfigRepair, Working,
        WillRewrite, WillDelete
  <2>3. ASSUME NEW l \in {"check", "write"}, NEW h \in Hashes \cup {NoHash}, GoTo(k, l, h),
               UNCHANGED <<rep, cacheVars, queue, cfgVars>>,
               \/ l = "write"
               \/ cPol # NoPolicies /\ h = Hash[cPol][k]
        PROVE  Repair'
    <3>1. [pc |-> l, key |-> t.key, seen |-> t.seen, config |-> h] \in Task
      BY <2>1, TaskMake
    <3>2. PICK u \in Task : /\ u.key = t.key /\ u.pc = l /\ u.seen = t.seen /\ u.config = h
                            /\ work' = [work EXCEPT ![k] = u]
      BY <2>3, <3>1 DEF GoTo
    <3>3. UNCHANGED delayed
      BY <2>3 DEF GoTo
    <3> QED
      BY <1>0, <1>2, <2>1, <2>3, <3>2, <3>3
      DEF Repair, CacheExact, SeenFresh, SpecRepair, ConfigRepair, Working, WillRewrite,
          WillDelete
  <2>4. ASSUME Done(k), HasReport(t.key, t.seen.spec, t.config), t.pc = "check",
               UNCHANGED <<rep, cacheVars, queue, cfgVars>>
        PROVE  Repair'
    <3>1. CacheExact' /\ SeenFresh'
      BY <2>4 DEF Done, CacheExact, SeenFresh
    <3>2. SpecRepair'
      BY <1>0, <1>2, <2>1, <2>4
      DEF Done, HasReport, CacheExact, SeenFresh, SpecRepair, Working
    <3>3. ConfigRepair'
      BY <1>0, <1>2, <2>1, <2>4
      DEF Done, HasReport, CacheExact, ConfigRepair, Working, WillRewrite, WillDelete
    <3> QED
      BY <3>1, <3>2, <3>3 DEF Repair
  <2>5. ASSUME NEW report, StoreReport(t.key, report), Done(k) \/ Requeue(k),
               UNCHANGED <<queue, cfgVars>>
        PROVE  Repair'
    <3>1. /\ rep' = [rep EXCEPT ![t.key] = report]
          /\ repLag' = repLag \cup {t.key}
          /\ UNCHANGED <<cRes, cPol, cRep>>
      BY <2>5 DEF StoreReport
    <3>2. work' = [work EXCEPT ![k] = Idle] /\ delayed \subseteq delayed'
      BY <2>5 DEF Done, Requeue
    <3> QED
      BY <1>0, <1>2, <2>1, <2>5, <3>1, <3>2
      DEF Repair, CacheExact, SeenFresh, SpecRepair, ConfigRepair, Working, WillRewrite,
          WillDelete
  <2>6. CASE ReadPolicies(k)
    <3>1. CASE Requeue(k)
      BY <2>2, <2>6, <3>1 DEF ReadPolicies
    <3>2. CASE cPol # NoPolicies /\ GoTo(k, "check", Hash[cPol][k])
      BY <2>3, <2>6, <3>2 DEF ReadPolicies
    <3> QED
      BY <2>6, <3>1, <3>2 DEF ReadPolicies
  <2>7. CASE CheckReport(k)
    <3>1. UNCHANGED <<rep, cacheVars, queue, cfgVars>> /\ t.pc = "check"
      BY <2>7 DEF CheckReport, At
    <3>2. CASE HasReport(t.key, t.seen.spec, t.config) /\ Done(k)
      BY <2>4, <3>1, <3>2
    <3>3. CASE GoTo(k, "write", t.config)
      BY <2>1, <2>3, <3>1, <3>3
    <3> QED
      BY <2>7, <3>2, <3>3 DEF CheckReport
  <2>8. CASE WriteReport(k)
    <3>1. UNCHANGED <<queue, cfgVars>>
      BY <2>8 DEF WriteReport
    <3>2. CASE Requeue(k) /\ UNCHANGED <<apiVars, cacheVars>>
      BY <2>2, <3>1, <3>2
    <3>3. CASE \E report : StoreReport(t.key, report) /\ (Done(k) \/ Requeue(k))
      BY <2>5, <3>1, <3>3
    <3> QED
      BY <2>8, <3>2, <3>3 DEF WriteReport
  <2>9. CASE ResourceError(k)
    BY <2>2, <2>9 DEF ResourceError
  <2> QED
    BY <1>2, <2>6, <2>7, <2>8, <2>9 DEF WorkerNext, ReconcileResource
<1> QED
  BY <1>1, <1>2 DEF WorkerNext, ReadPolicies, CheckReport, WriteReport, At, ResourceError

\* A config worker that returns has deleted every outdated cached report, or
\* asked to be called again.
LEMMA CfgRepair ==
  ASSUME IInv, NEW k \in Kinds, ConfigNext(k) \/ ConfigError(k)
  PROVE  Repair'
<1> USE DEF IInv, TypeOK, apiVars, cacheVars, workerVars, cfgVars
<1>1. CASE ReconcileConfig(k)
  <2>1. /\ cfgQueue' = cfgQueue \ {k} /\ cfgWork[k] = Idle
        /\ UNCHANGED <<rep, cacheVars, workerVars, cfgDelayed>>
    BY <1>1 DEF ReconcileConfig
  <2>2. CASE cPol = NoPolicies
    BY <2>1, <2>2
    DEF Repair, CacheExact, SeenFresh, SpecRepair, ConfigRepair, Working
  <2>3. CASE cPol # NoPolicies
    <3>1. [pc |-> "list", hash |-> Hash[cPol][k], victims |-> {}, more |-> FALSE]
            \in CfgTask
      BY <2>3, CfgTaskMake
    <3>2. PICK t \in CfgTask : /\ t.pc = "list" /\ t.hash = Hash[cPol][k]
                               /\ cfgWork' = [cfgWork EXCEPT ![k] = t]
      BY <1>1, <2>3, <3>1 DEF ReconcileConfig
    <3> QED
      BY <2>1, <3>2
      DEF Repair, CacheExact, SeenFresh, SpecRepair, ConfigRepair, Working, WillRewrite,
          WillDelete
  <2> QED
    BY <2>2, <2>3
<1>2. CASE cfgWork[k] # Idle
  <2> DEFINE t == cfgWork[k]
  <2>1. t \in CfgTask /\ t.victims \in SUBSET Resources /\ t.hash \in Hashes
        /\ t.more \in BOOLEAN
    BY <1>2, CfgTaskFields
  <2>2. CASE ListOutdated(k)
    <3>1. PICK batch \in SUBSET Outdated(k) :
            /\ IF Cardinality(Outdated(k)) <= BatchDeleteLimit
               THEN batch = Outdated(k)
               ELSE Cardinality(batch) = BatchDeleteLimit
            /\ cfgWork' = [cfgWork EXCEPT ![k] =
                             [pc |-> "delete", hash |-> t.hash,
                              victims |-> batch, more |-> ~BatchFits(k)]]
      BY <2>2 DEF ListOutdated
    <3>2. batch = Outdated(k) \/ ~BatchFits(k)
      BY <3>1 DEF BatchFits
    <3>3. [pc |-> "delete", hash |-> t.hash, victims |-> batch, more |-> ~BatchFits(k)]
            \in CfgTask
      BY <2>1, CfgTaskMake DEF Outdated, BatchFits
    <3>4. PICK u \in CfgTask : /\ u.pc = "delete" /\ (u.victims = Outdated(k) \/ u.more)
                               /\ cfgWork' = [cfgWork EXCEPT ![k] = u]
      BY <3>1, <3>2, <3>3
    <3>5. t.pc = "list" /\ UNCHANGED <<rep, cacheVars, workerVars, cfgQueue, cfgDelayed>>
      BY <2>2 DEF ListOutdated, CfgAt
    <3>6. ConfigRepair'
      BY <3>4, <3>5
      DEF CacheExact, ConfigRepair, Working, WillRewrite, WillDelete, Outdated
    <3> QED
      BY <3>5, <3>6 DEF Repair, CacheExact, SeenFresh, SpecRepair, Working
  <2>3. CASE DeleteOutdated(k)
    <3>1. PICK r \in t.victims :
            /\ cfgWork' = [cfgWork EXCEPT ![k] =
                             [pc |-> "delete", hash |-> t.hash,
                              victims |-> t.victims \ {r}, more |-> t.more]]
            /\ IF rep[r] = NoReport
               THEN UNCHANGED <<apiVars, cacheVars>>
               ELSE StoreReport(r, NoReport)
      BY <2>3 DEF DeleteOutdated
    <3>2. [pc |-> "delete", hash |-> t.hash, victims |-> t.victims \ {r},
           more |-> t.more] \in CfgTask
      BY <2>1, CfgTaskMake
    <3>3. PICK u \in CfgTask : /\ u.pc = "delete" /\ u.victims = t.victims \ {r}
                               /\ u.more = t.more
                               /\ cfgWork' = [cfgWork EXCEPT ![k] = u]
      BY <3>1, <3>2
    <3>4. t.pc = "delete" /\ UNCHANGED <<workerVars, cfgQueue, cfgDelayed>>
      BY <2>3 DEF DeleteOutdated, CfgAt
    <3>5. /\ rep' = [rep EXCEPT ![r] = NoReport]
          /\ repLag' \in {repLag, repLag \cup {r}}
          /\ repLag' = repLag => rep[r] = NoReport \/ r \in repLag
          /\ UNCHANGED <<cRes, cPol, cRep>>
      BY <2>1, <3>1 DEF StoreReport
    <3> QED
      BY <2>1, <3>3, <3>4, <3>5
      DEF Repair, CacheExact, SeenFresh, SpecRepair, ConfigRepair, Working, WillRewrite,
          WillDelete
  <2>4. CASE FinishConfig(k)
    BY <2>4
    DEF FinishConfig, CfgAt, Repair, CacheExact, SeenFresh, SpecRepair, ConfigRepair,
        Working, WillRewrite, WillDelete
  <2>5. CASE ConfigError(k)
    BY <2>5
    DEF ConfigError, Repair, CacheExact, SeenFresh, SpecRepair, ConfigRepair,
        Working, WillRewrite, WillDelete
  <2> QED
    BY <1>2, <2>2, <2>3, <2>4, <2>5 DEF ConfigNext, ReconcileConfig
<1> QED
  BY <1>1, <1>2 DEF ConfigNext, ListOutdated, DeleteOutdated, FinishConfig, CfgAt,
                    ConfigError

\* The inductive invariant holds in every reachable state.
THEOREM Inductive == Spec => []IInv
<1>1. Init => IInv
  BY TypeInit, RepairInit DEF IInv, Repair
<1>2. IInv /\ [Next]_vars => IInv'
  <2> SUFFICES ASSUME IInv, [Next]_vars, TypeOK' PROVE Repair'
    BY TypeStep DEF IInv, Repair
  <2>1. CASE ClusterNext
    BY <2>1, ClusterRepair
  <2>2. CASE SyncPolicies \/ Resync \/ Restart
    BY <2>2, BareInformerRepair
  <2>3. ASSUME NEW r \in Resources, SyncResource(r) \/ SyncReport(r) \/ FireDelayed(r)
        PROVE  Repair'
    BY <2>3, InformerRepair
  <2>4. ASSUME NEW k \in Kinds,
               \/ WorkerNext(k) \/ ConfigNext(k) \/ FireCfgDelayed(k)
               \/ ResourceError(k) \/ ConfigError(k)
        PROVE  Repair'
    BY <2>4, WorkerRepair, CfgRepair, FireCfgRepair
  <2>5. CASE UNCHANGED vars
    BY <2>5 DEF vars, IInv, Repair, CacheExact, SeenFresh, SpecRepair, ConfigRepair,
                Working, WillRewrite, WillDelete
  <2> QED
    BY <2>1, <2>2, <2>3, <2>4, <2>5 DEF Next, OperatorNext
<1> QED
  BY <1>1, <1>2, PTL DEF Spec

\* No change of a resource or of the policies is ever forgotten, for any number
\* of resources, kinds, policies, edits and faults.
THEOREM NeverForgotten == Spec => []NoLostWakeup
<1>1. IInv => NoLostWakeup
  <2> SUFFICES ASSUME IInv, NEW r \in Resources, Wanted(r), ~Current(r),
                      cRes[r] = res[r], cPol = pol
               PROVE  ResourcePending(r) \/ ConfigPending(KindOf[r])
    BY DEF NoLostWakeup, ResourcePending, ConfigPending
  <2>1. CASE rep[r] # NoReport => rep[r].spec # cRes[r].spec
    BY <2>1 DEF IInv, SpecRepair, Working, Wanted, ResourcePending
  <2>2. CASE rep[r] # NoReport /\ rep[r].config # Hash[cPol][KindOf[r]]
    BY <2>2 DEF IInv, ConfigRepair, WillRewrite, WillDelete, Working, Wanted,
                ResourcePending, ConfigPending
  <2> QED
    BY <2>1, <2>2 DEF Current
<1> QED
  BY <1>1, Inductive, PTL

-----------------------------------------------------------------------------
\* Informer events leave a settled operator settled.
LEMMA InformerStable ==
  ASSUME IInv, Settled,
         \/ SyncPolicies \/ Resync \/ Restart
         \/ \E r \in Resources : SyncResource(r) \/ SyncReport(r) \/ FireDelayed(r)
         \/ \E k \in Kinds : FireCfgDelayed(k)
  PROVE  Settled' /\ UNCHANGED rep
<1> USE DEF IInv, TypeOK, apiVars, cacheVars, workerVars, cfgVars
<1>1. ~SyncPolicies /\ \A r \in Resources : ~SyncResource(r) /\ ~SyncReport(r)
  BY DEF Settled, SyncPolicies, SyncResource, SyncReport
<1>2. CASE \/ Resync
           \/ \E r \in Resources : FireDelayed(r)
           \/ \E k \in Kinds : FireCfgDelayed(k)
  <2>1. UNCHANGED <<res, pol, rep, cRes, cPol, cRep, repLag, work, cfgWork>>
    BY <1>2 DEF Resync, FireDelayed, FireCfgDelayed
  <2> QED
    BY <2>1 DEF Settled, Wanted, Current
<1>3. CASE Restart
  <2>1. /\ UNCHANGED <<res, pol, rep>>
        /\ cRes' = res /\ cPol' = pol /\ repLag' = {}
        /\ \A k \in Kinds : work'[k] = Idle /\ cfgWork'[k] = Idle
    BY <1>3 DEF Restart
  <2> QED
    BY <2>1 DEF Settled, Wanted, Current
<1> QED
  BY <1>1, <1>2, <1>3

\* A worker that starts in a settled state reads the current resource and the
\* current policies, and finds the report.
LEMMA WorkerStable ==
  ASSUME IInv, Settled, NEW k \in Kinds, WorkerNext(k) \/ ResourceError(k)
  PROVE  Settled' /\ UNCHANGED rep
<1> USE DEF IInv, TypeOK, apiVars, cacheVars, workerVars, cfgVars
<1> DEFINE Good(t) == /\ t.seen = res[t.key]
                      /\ t.key \notin Controlled
                      /\ \/ t.pc = "policies"
                         \/ /\ t.pc = "check"
                            /\ k \in Applicable[pol]
                            /\ t.config = Hash[pol][k]
<1>0. ASSUME NEW t, t = Idle \/ Good(t), work' = [work EXCEPT ![k] = t],
             UNCHANGED <<res, pol, rep, cRes, cPol, cRep, repLag, cfgWork>>
      PROVE  Settled' /\ UNCHANGED rep
  BY <1>0 DEF Settled, Wanted, Current
<1>1. CASE ReconcileResource(k)
  <2>0. UNCHANGED <<res, pol, rep, cRes, cPol, cRep, repLag, cfgWork>> /\ work[k] = Idle
    BY <1>1 DEF ReconcileResource
  <2>1. CASE UNCHANGED work
    BY <2>0, <2>1 DEF Settled, Wanted, Current
  <2>2. ASSUME NEW r \in queue, r \notin Controlled, cRes[r] # NoResource,
               work' = [work EXCEPT ![k] = [pc |-> "policies", key |-> r,
                                            seen |-> cRes[r], config |-> NoHash]]
        PROVE  Settled' /\ UNCHANGED rep
    <3>1. Good([pc |-> "policies", key |-> r, seen |-> cRes[r], config |-> NoHash])
      BY <2>2 DEF Settled
    <3> HIDE DEF Good
    <3> QED
      BY <1>0, <2>0, <2>2, <3>1
  <2> QED
    BY <1>1, <2>1, <2>2 DEF ReconcileResource
<1>2. CASE work[k] # Idle
  <2> DEFINE t == work[k]
  <2>0. t \in Task /\ t.key \in Resources /\ t.seen \in Resource /\ KindOf[t.key] = k
    BY <1>2, TaskFields
  <2>1. t.seen = res[t.key] /\ t.key \notin Controlled /\ t.pc # "write"
    BY <1>2, <2>0 DEF Settled
  <2>2. CASE work' = [work EXCEPT ![k] = Idle] /\
             UNCHANGED <<res, pol, rep, cRes, cPol, cRep, repLag, cfgWork>>
    BY <1>0, <2>2
  <2>3. CASE ReadPolicies(k)
    <3>0. UNCHANGED <<res, pol, rep, cRes, cPol, cRep, repLag, cfgWork>>
      BY <2>3 DEF ReadPolicies
    <3>1. CASE Requeue(k)
      BY <2>2, <3>0, <3>1 DEF Requeue
    <3>2. CASE k \in Applicable[cPol] /\ GoTo(k, "check", Hash[cPol][k])
      <4>1. Good([pc |-> "check", key |-> t.key, seen |-> t.seen,
                  config |-> Hash[cPol][k]])
        BY <2>1, <3>2 DEF Settled
      <4>2. work' = [work EXCEPT ![k] = [pc |-> "check", key |-> t.key,
                                         seen |-> t.seen, config |-> Hash[cPol][k]]]
        BY <3>2 DEF GoTo
      <4> HIDE DEF Good
      <4> QED
        BY <1>0, <3>0, <4>1, <4>2
    <3> QED
      BY <2>3, <3>1, <3>2 DEF ReadPolicies
  <2>4. CASE CheckReport(k)
    <3>1. t.config = Hash[pol][k] /\ k \in Applicable[pol]
      BY <1>2, <2>4 DEF CheckReport, At, Settled
    <3>2. res[t.key] # NoResource
      BY <2>0, <2>1
    <3>3. Wanted(t.key)
      BY <2>1, <3>2 DEF Wanted, Settled
    <3>4. Current(t.key)
      BY <2>0, <3>1, <3>3 DEF Settled
    <3>5. cRep[t.key] = rep[t.key]
      BY <2>0 DEF CacheExact, Settled
    <3>6. HasReport(t.key, t.seen.spec, t.config)
      BY <2>0, <2>1, <3>1, <3>4, <3>5 DEF HasReport, Current
    <3> QED
      BY <2>2, <2>4, <3>6 DEF CheckReport, Done
  <2>5. CASE ResourceError(k)
    BY <2>2, <2>5 DEF ResourceError, Requeue
  <2> QED
    BY <1>2, <2>1, <2>3, <2>4, <2>5 DEF WorkerNext, ReconcileResource, WriteReport, At
<1> QED
  BY <1>1, <1>2 DEF WorkerNext, ReadPolicies, CheckReport, WriteReport, At, ResourceError

\* A config worker finds nothing to delete.
LEMMA CfgStable ==
  ASSUME IInv, Settled, NEW k \in Kinds, ConfigNext(k) \/ ConfigError(k)
  PROVE  Settled' /\ UNCHANGED rep
<1> USE DEF IInv, TypeOK, apiVars, cacheVars, workerVars, cfgVars
<1> DEFINE Good(t) == t.hash = Hash[pol][k] /\ t.victims = {}
<1>0. ASSUME NEW t, t = Idle \/ Good(t), cfgWork' = [cfgWork EXCEPT ![k] = t],
             UNCHANGED <<res, pol, rep, cRes, cPol, cRep, repLag, work>>
      PROVE  Settled' /\ UNCHANGED rep
  BY <1>0 DEF Settled, Wanted, Current
<1>1. CASE ReconcileConfig(k)
  <2>1. Good([pc |-> "list", hash |-> Hash[cPol][k], victims |-> {}, more |-> FALSE])
    BY DEF Settled
  <2>2. /\ cfgWork' = [cfgWork EXCEPT ![k] = [pc |-> "list", hash |-> Hash[cPol][k],
                                              victims |-> {}, more |-> FALSE]]
        /\ UNCHANGED <<res, pol, rep, cRes, cPol, cRep, repLag, work>>
    BY <1>1 DEF ReconcileConfig, Settled
  <2> HIDE DEF Good
  <2> QED
    BY <1>0, <2>1, <2>2
<1>2. CASE ListOutdated(k)
  <2>1. cfgWork[k].hash = Hash[pol][k]
    BY <1>2 DEF ListOutdated, CfgAt, Settled
  <2>2. Outdated(k) = {}
    BY <2>1 DEF Outdated, Settled, CacheExact, Current
  <2>3. cfgWork' = [cfgWork EXCEPT ![k] =
                      [pc |-> "delete", hash |-> cfgWork[k].hash,
                       victims |-> {}, more |-> ~BatchFits(k)]]
    BY <1>2, <2>2 DEF ListOutdated
  <2>4. Good([pc |-> "delete", hash |-> cfgWork[k].hash, victims |-> {},
              more |-> ~BatchFits(k)])
    BY <2>1
  <2>5. UNCHANGED <<res, pol, rep, cRes, cPol, cRep, repLag, work>>
    BY <1>2 DEF ListOutdated
  <2> HIDE DEF Good
  <2> QED
    BY <1>0, <2>3, <2>4, <2>5
<1>3. ~DeleteOutdated(k)
  BY DEF DeleteOutdated, CfgAt, Settled
<1>4. CASE FinishConfig(k) \/ ConfigError(k)
  BY <1>0, <1>4 DEF FinishConfig, ConfigError
<1> QED
  BY <1>1, <1>2, <1>3, <1>4 DEF ConfigNext

\* Reports that are right stay untouched by the operator, whatever it retries,
\* resyncs or restarts, for every value of the constants.
THEOREM SettledStays == Spec => SettledIsStable
<1>1. IInv /\ [Next]_vars => [Settled /\ OperatorNext => Settled' /\ UNCHANGED rep]_vars
  BY InformerStable, WorkerStable, CfgStable DEF OperatorNext
<1> QED
  BY <1>1, Inductive, PTL DEF Spec, SettledIsStable

=============================================================================
