---------------------------- MODULE ReportProofs ----------------------------
(***************************************************************************)
(* Proofs about stored reports: to whom they belong (ReportOwner, which    *)
(* this module extends) and when they expire (the instance TTL of          *)
(* ReportTTL, whose theorems assume what it assumes of its constants).     *)
(*                                                                         *)
(* Owners: for any objects, install modes, scans and deletions.  Jobs and  *)
(* reports keep only names and labels; the invariant says of which object. *)
(***************************************************************************)
EXTENDS ReportOwner, Integers, TLAPS

\* The objects that reports are written for: their own report owners.
IsOwner(o) == o \in Objects /\ Kind[o] \in Workloads /\ ReportOwner(o) = o

ContainerNames == UNION {Containers[o] : o \in Objects}
NamesOf(o) == {ReportName(o, c) : c \in ContainerNames}
ReportNames == UNION {NamesOf(o) : o \in Objects}
LabelsOfObjects == {Labels(o) : o \in Objects}
Metas == [labels : LabelsOfObjects, name : {Name[o] : o \in Objects} \cup {None}]
StoredReports ==
  [name : ReportNames, container : ContainerNames, of : Objects, meta : Metas, owner : Objects]

\* A report has the name and the labels of the object it is about.
Consistent(r) ==
  /\ r.container \in Containers[r.of] /\ IsOwner(r.of)
  /\ r.name = ReportName(r.of, r.container) /\ r.meta.labels = Labels(r.of)

ReportsOfOwners ==
  /\ reports \subseteq StoredReports
  /\ \A r \in reports : Consistent(r)
  /\ \A r, q \in reports : r.name = q.name => r = q

\* The objects that may have come to the operator's attention.
Known(o) == Watched(o) \/ o \in scanned

JobsOfReconciled ==
  \A j \in jobs : \E o \in Objects : Reconciled(o) /\ Known(o) /\ j = ObjectToObjectMeta(o)

EventsOfKnown ==
  /\ events \subseteq Objects /\ scanned \subseteq Objects
  /\ \A o \in events : Known(o)
  /\ \A r \in reports : Known(r.owner)

IInv ==
  /\ config \in Configs /\ live \subseteq Objects
  /\ scans \in 0..MaxScans /\ deletes \in 0..MaxDeletes
  /\ JobsOfReconciled /\ ReportsOfOwners /\ EventsOfKnown

-----------------------------------------------------------------------------
\* What is appended to a sequence can be told from the result.
LEMMA AppendedIsUnique ==
  ASSUME NEW S, NEW s \in Seq(S), NEW c \in Seq(S), NEW d \in Seq(S), s \o c = s \o d
  PROVE  c = d
<1>1. Len(s) + Len(c) = Len(s) + Len(d)
  <2>1. Len(s \o c) = Len(s) + Len(c) /\ Len(s \o d) = Len(s) + Len(d)
        OBVIOUS
  <2> QED BY <2>1
<1>2. Len(c) = Len(d) /\ Len(c) \in Nat /\ Len(s) \in Nat
      BY <1>1
<1>3. ASSUME NEW i \in 1..Len(c) PROVE c[i] = d[i]
  <2>1. (s \o c)[Len(s) + i] = c[i] /\ (s \o d)[Len(s) + i] = d[i]
        BY <1>2
  <2> QED BY <2>1
<1> QED BY <1>2, <1>3

\* reportName tells the containers of an object apart.
LEMMA NamesOfContainers ==
  ASSUME NEW o \in Objects,
         NEW c \in Containers[o], NEW d \in Containers[o],
         ReportName(o, c) = ReportName(o, d)
  PROVE  c = d
<1> DEFINE T == STRING \cup {Kind[o], "hash"}
           valid(x) == <<Kind[o]>> \o Name[o] \o x
           hash(x) == <<Kind[o]>> \o (<<"hash">> \o (Name[o] \o x))
           isValid(x) == Len(valid(x)) <= MaxLabel
<1>1. Name[o] \in Seq(T) /\ c \in Seq(T) /\ d \in Seq(T) /\ MaxLabel \in Nat
  <2>1. Name[o] \in Seq(STRING) /\ c \in Seq(STRING) /\ d \in Seq(STRING) /\ MaxLabel \in Nat
        BY ConstantsAssumption
  <2> QED BY <2>1
<1>2. <<Kind[o]>> \in Seq(T) /\ <<"hash">> \in Seq(T)
  <2>1. Kind[o] \in T /\ "hash" \in T
        OBVIOUS
  <2> QED BY <2>1
<1> HIDE DEF T
<1>3. \A x \in Seq(T) : Len(valid(x)) = 1 + Len(Name[o]) + Len(x) /\ Len(hash(x)) = 2 + Len(Name[o]) + Len(x)
      BY <1>1
<1>4. (IF isValid(c) THEN valid(c) ELSE hash(c)) = (IF isValid(d) THEN valid(d) ELSE hash(d))
  <2>1. ReportName(o, c)[2] = ReportName(o, d)[2]
        OBVIOUS
  <2>2. ReportName(o, c)[2] = IF isValid(c) THEN valid(c) ELSE hash(c)
        BY DEF ReportName, IsValidLabelValue, Hash
  <2>3. ReportName(o, d)[2] = IF isValid(d) THEN valid(d) ELSE hash(d)
        BY DEF ReportName, IsValidLabelValue, Hash
  <2> QED BY <2>1, <2>2, <2>3
<1>5. \A x, y \in Seq(T) : isValid(x) /\ ~isValid(y) => valid(x) # hash(y)
  <2> SUFFICES ASSUME NEW x \in Seq(T), NEW y \in Seq(T), isValid(x), ~isValid(y), valid(x) = hash(y)
               PROVE  FALSE
      OBVIOUS
  <2>1. Len(valid(x)) = Len(hash(y)) /\ Len(valid(x)) <= MaxLabel /\ ~(Len(valid(y)) <= MaxLabel)
        OBVIOUS
  <2>2. Len(x) \in Nat /\ Len(y) \in Nat /\ Len(Name[o]) \in Nat
        BY <1>1
  <2>3. Len(hash(y)) = 2 + Len(Name[o]) + Len(y) /\ Len(valid(y)) = 1 + Len(Name[o]) + Len(y)
        BY <1>3
  <2> HIDE DEF valid, hash
  <2> QED BY <1>1, <2>1, <2>2, <2>3
<1>6. CASE isValid(c)
  <2>1. isValid(d) /\ valid(c) = valid(d)
        BY <1>1, <1>4, <1>5, <1>6
  <2> DEFINE s == <<Kind[o]>> \o Name[o]
  <2>2. s \in Seq(T) /\ s \o c = s \o d
        BY <1>1, <1>2, <2>1
  <2> HIDE DEF s
  <2> QED BY <1>1, <2>2, AppendedIsUnique
<1>7. CASE ~isValid(c)
  <2>1. ~isValid(d) /\ hash(c) = hash(d)
        BY <1>1, <1>4, <1>5, <1>7
  <2> DEFINE s == <<Kind[o]>>
             t == <<"hash">>
             u(x) == Name[o] \o x
  <2>2. s \in Seq(T) /\ t \in Seq(T) /\ u(c) \in Seq(T) /\ u(d) \in Seq(T)
        BY <1>1, <1>2
  <2>3. s \o (t \o u(c)) = s \o (t \o u(d))
        BY <2>1
  <2> HIDE DEF s, t, u
  <2>4. t \o u(c) \in Seq(T) /\ t \o u(d) \in Seq(T)
        BY <2>2
  <2>5. t \o u(c) = t \o u(d)
        BY <2>2, <2>3, <2>4, AppendedIsUnique
  <2>6. u(c) = u(d)
        BY <2>2, <2>5, AppendedIsUnique
  <2> QED BY <1>1, <2>6, AppendedIsUnique DEF u
<1> QED BY <1>6, <1>7

\* The owner of the reports of an object that starboard scan accepts.
LEMMA ScannedOwner ==
  ASSUME NEW o \in Objects,
         Kind[o] \in Workloads \cup {"Deployment"}
  PROVE  IsOwner(ReportOwner(o))
<1>1. Controller[o] # None => Controller[o] \in Objects
      BY ConstantsAssumption
<1>2. ASSUME NEW j \in Objects, Kind[j] = "Job" PROVE IsOwner(JobOwner(j))
  <2>1. CASE ControlledBy(j, {"CronJob"})
    <3>1. Controller[j] \in Objects /\ Kind[Controller[j]] = "CronJob"
          BY <2>1, ConstantsAssumption DEF ControlledBy
    <3> QED BY <2>1, <3>1 DEF JobOwner, IsOwner, Workloads, ReportOwner
  <2>2. CASE ~ControlledBy(j, {"CronJob"})
        BY <1>2, <2>2 DEF JobOwner, IsOwner, Workloads, ReportOwner
  <2> QED BY <2>1, <2>2
<1>3. ASSUME NEW s \in Objects, Kind[s] = "ReplicaSet" PROVE IsOwner(s)
      BY <1>3 DEF IsOwner, Workloads, ReportOwner
<1>4. CASE Kind[o] = "Deployment"
      BY <1>3, <1>4, ConstantsAssumption DEF ReportOwner
<1>5. CASE Kind[o] = "Job"
      BY <1>2, <1>5 DEF ReportOwner
<1>6. CASE Kind[o] = "Pod" /\ ControlledBy(o, {"ReplicaSet"})
  <2>1. Controller[o] \in Objects /\ Kind[Controller[o]] = "ReplicaSet"
        BY <1>1, <1>6 DEF ControlledBy
  <2>2. ~ControlledBy(o, {"Job"})
        BY <2>1 DEF ControlledBy
  <2> QED BY <1>3, <1>6, <2>1, <2>2 DEF ReportOwner
<1>7. CASE Kind[o] = "Pod" /\ ControlledBy(o, {"Job"})
  <2>1. Controller[o] \in Objects /\ Kind[Controller[o]] = "Job"
        BY <1>1, <1>7 DEF ControlledBy
  <2>2. ~ControlledBy(o, {"ReplicaSet"})
        BY <2>1 DEF ControlledBy
  <2> QED BY <1>2, <1>7, <2>1, <2>2 DEF ReportOwner
<1>8. CASE /\ Kind[o] \notin {"Deployment", "Job"}
           /\ Kind[o] = "Pod" => ~ControlledBy(o, {"ReplicaSet"}) /\ ~ControlledBy(o, {"Job"})
      BY <1>8 DEF ReportOwner, IsOwner
<1> QED BY <1>4, <1>5, <1>6, <1>7, <1>8

\* What the operator reconciles is the owner of its reports.
LEMMA ReconciledOwner ==
  ASSUME NEW o \in Objects, Reconciled(o)
  PROVE  IsOwner(o)
<1>1. Kind[o] = "Pod" => ~ControlledBy(o, {"ReplicaSet"}) /\ ~ControlledBy(o, {"Job"})
      BY DEF Reconciled, IsBuiltInWorkload, ControlledBy, BuiltInWorkload
<1> QED BY <1>1 DEF Reconciled, IsOwner, ReportOwner, JobOwner, Workloads

\* Labels and annotation refer to no other object than the one they were made from.
LEMMA ReferredObject ==
  ASSUME live \subseteq Objects, NEW o \in Objects,
         NEW q \in ObjectRefFromObjectMeta(ObjectToObjectMeta(o))
  PROVE  q = o
<1>1. q \in Objects /\ Kind[q] = Kind[o] /\ Namespace[q] = Namespace[o] /\ Name[q] = Name[o]
      BY ConstantsAssumption DEF ObjectRefFromObjectMeta, ObjectToObjectMeta, Labels
<1> QED BY <1>1, ConstantsAssumption

\* What a report may be does not depend on the state.
LEMMA SameOwners ==
  StoredReports' = StoredReports /\ \A r : Consistent(r)' = Consistent(r)
BY DEF StoredReports, ContainerNames, ReportNames, NamesOf, LabelsOfObjects, Metas, Consistent, IsOwner,
       ReportName, IsValidLabelValue, Hash, Labels, Workloads,
       ReportOwner, JobOwner, ControlledBy

\* A name that is stored is replaced by one report, all other reports stay.
LEMMA WriteKeeps ==
  ASSUME IInv, NEW o, IsOwner(o), WriteReports(o)
  PROVE  /\ ReportsOfOwners' /\ \E r \in reports' : r.of = o
         /\ \A r \in reports : \/ r \in reports'
                                \/ \E c \in Containers[o] : r.name = ReportName(o, c)
         /\ \A r \in reports' : r.owner = o \/ \E q \in reports : r.owner = q.owner
<1> DEFINE stored(n) == {r \in reports : r.name = n}
           new(c) == [name |-> ReportName(o, c), container |-> c, of |-> o,
                      meta |-> ObjectToObjectMeta(o), owner |-> o]
           update(r, c) == [r EXCEPT !.container = c, !.of = o, !.meta.labels = Labels(o)]
           write(c) == IF stored(ReportName(o, c)) = {} THEN {new(c)}
                       ELSE {update(r, c) : r \in stored(ReportName(o, c))}
           kept == {r \in reports : \A c \in Containers[o] : r.name # ReportName(o, c)}
<1>1. reports' = kept \cup UNION {write(c) : c \in Containers[o]}
      BY DEF WriteReports
<1>2. o \in Objects /\ reports \subseteq StoredReports
      BY DEF IsOwner, IInv, ReportsOfOwners
<1>3. ASSUME NEW c \in Containers[o], NEW r \in write(c)
      PROVE  /\ r \in StoredReports /\ Consistent(r) /\ r.of = o
             /\ r.name = ReportName(o, c) /\ r.container = c
             /\ r.owner = o \/ \E q \in reports : r.owner = q.owner
  <2>a. c \in ContainerNames /\ ReportName(o, c) \in ReportNames /\ Labels(o) \in LabelsOfObjects
    <3>1. c \in ContainerNames
          BY <1>2 DEF ContainerNames
    <3>2. ReportName(o, c) \in ReportNames
      <4>1. ReportName(o, c) \in NamesOf(o)
            BY <3>1 DEF NamesOf
      <4> QED BY <1>2, <4>1 DEF ReportNames
    <3> QED BY <1>2, <3>1, <3>2 DEF LabelsOfObjects
  <2>1. CASE stored(ReportName(o, c)) = {}
    <3>1. r = new(c)
          BY <1>3, <2>1
    <3>2. ObjectToObjectMeta(o) \in Metas /\ ObjectToObjectMeta(o).labels = Labels(o)
          BY <1>2 DEF ObjectToObjectMeta, Metas, LabelsOfObjects
    <3>3. /\ r.container = c /\ r.of = o /\ r.name = ReportName(o, c) /\ r.meta.labels = Labels(o)
          /\ r.owner = o
          BY <3>1, <3>2
    <3>4. r \in StoredReports
          BY <1>2, <2>a, <3>1, <3>2 DEF StoredReports
    <3> QED BY <3>3, <3>4 DEF Consistent
  <2>2. CASE stored(ReportName(o, c)) # {}
    <3>1. PICK q \in reports : q.name = ReportName(o, c) /\ r = update(q, c)
          BY <1>3, <2>2
    <3>2. q \in StoredReports
          BY <1>2, <3>1
    <3>3. /\ r.name = q.name /\ r.container = c /\ r.of = o /\ r.meta.labels = Labels(o)
          /\ r.owner = q.owner
          BY <3>1, <3>2 DEF StoredReports, Metas
    <3>4. r \in StoredReports
          BY <1>2, <2>a, <3>1, <3>2 DEF StoredReports, Metas
    <3> QED BY <3>1, <3>3, <3>4 DEF Consistent
  <2> QED BY <2>1, <2>2
<1>4. ASSUME NEW c \in Containers[o], NEW r \in write(c), NEW q \in write(c) PROVE r = q
  <2>1. \A x, y \in stored(ReportName(o, c)) : x = y
        BY DEF IInv, ReportsOfOwners
  <2>2. CASE stored(ReportName(o, c)) = {}
        BY <1>4, <2>2
  <2>3. CASE stored(ReportName(o, c)) # {}
    <3>1. PICK x \in stored(ReportName(o, c)) : r = update(x, c)
          BY <1>4, <2>3
    <3>2. PICK y \in stored(ReportName(o, c)) : q = update(y, c)
          BY <1>4, <2>3
    <3> QED BY <2>1, <3>1, <3>2
  <2> QED BY <2>2, <2>3
<1>5. ASSUME NEW c \in Containers[o] PROVE write(c) # {}
  <2>1. CASE stored(ReportName(o, c)) = {}
        BY <2>1
  <2>2. CASE stored(ReportName(o, c)) # {}
    <3>1. PICK x \in stored(ReportName(o, c)) : TRUE
          BY <2>2
    <3>2. write(c) = {update(r, c) : r \in stored(ReportName(o, c))}
          BY <2>2
    <3> HIDE DEF write, stored, update
    <3> QED BY <3>1, <3>2
  <2> QED BY <2>1, <2>2
<1> HIDE DEF write
<1>6. reports' \subseteq StoredReports /\ \A r \in reports' : Consistent(r)
      BY <1>1, <1>2, <1>3 DEF IInv, ReportsOfOwners
<1>7. \A r, q \in reports' : r.name = q.name => r = q
  <2> SUFFICES ASSUME NEW r \in reports', NEW q \in reports', r.name = q.name PROVE r = q
      OBVIOUS
  <2>1. CASE r \in kept /\ q \in kept
        BY <2>1 DEF IInv, ReportsOfOwners
  <2>2. CASE r \notin kept /\ q \notin kept
    <3>1. PICK c \in Containers[o] : r \in write(c)
          BY <1>1, <2>2
    <3>2. PICK d \in Containers[o] : q \in write(d)
          BY <1>1, <2>2
    <3>3. ReportName(o, c) = ReportName(o, d)
          BY <1>3, <3>1, <3>2
    <3>4. c = d
          BY <1>2, <3>3, NamesOfContainers
    <3> QED BY <1>4, <3>1, <3>2, <3>4
  <2>3. CASE r \in kept /\ q \notin kept
        BY <1>1, <1>3, <2>3
  <2>4. CASE r \notin kept /\ q \in kept
        BY <1>1, <1>3, <2>4
  <2> QED BY <2>1, <2>2, <2>3, <2>4
<1>8. ReportsOfOwners'
      BY <1>6, <1>7, SameOwners DEF ReportsOfOwners
<1>9. \E r \in reports' : r.of = o
  <2>1. PICK c \in Containers[o] : TRUE
        BY <1>2, ConstantsAssumption
  <2>2. PICK r \in write(c) : TRUE
        BY <1>5
  <2> QED BY <1>1, <1>3, <2>2
<1>10. \A r \in reports' : r.owner = o \/ \E q \in reports : r.owner = q.owner
      BY <1>1, <1>3
<1> QED BY <1>1, <1>8, <1>9, <1>10

\* A job is processed for the object that it was made for.
LEMMA ProcessJobWrites ==
  ASSUME IInv, NEW j \in jobs, ProcessJob(j)
  PROVE  \/ UNCHANGED <<reports, events>>
         \/ \E o \in Objects : IsOwner(o) /\ Known(o) /\ WriteReports(o) /\ EventsOfWrite(o)
<1>1. PICK o \in Objects : Reconciled(o) /\ Known(o) /\ j = ObjectToObjectMeta(o)
      BY DEF IInv, JobsOfReconciled
<1>2. IsOwner(o)
      BY <1>1, ReconciledOwner
<1>3. \A q \in ObjectRefFromObjectMeta(j) : q = o
      BY <1>1, ReferredObject DEF IInv
<1> QED BY <1>1, <1>2, <1>3 DEF ProcessJob

\* What is reconciled depends on the configuration alone.
LEMMA SameReconciled ==
  ASSUME config' = config
  PROVE  /\ \A o : Reconciled(o)' = Reconciled(o) /\ Watched(o)' = Watched(o)
         /\ \A o : ObjectToObjectMeta(o)' = ObjectToObjectMeta(o)
BY DEF Reconciled, Watched, Workloads, IsCached, CachedNamespaces,
       ResolveInstallMode, TargetNamespaces, InstallModePredicate,
       IsBuiltInWorkload, ControlledBy, BuiltInWorkload,
       ObjectToObjectMeta, Labels, IsValidLabelValue, Hash

\* What was known stays known.
LEMMA StillKnown ==
  ASSUME config' = config, scanned \subseteq scanned'
  PROVE  \A o : Known(o) => Known(o)'
BY SameReconciled DEF Known

\* An event of a report leads to an owner that a report has.
LEMMA WriteEvents ==
  ASSUME IInv, NEW o \in Objects, IsOwner(o), WriteReports(o), EventsOfWrite(o), Known(o)',
         config' = config, scanned \subseteq scanned', scanned' \subseteq Objects
  PROVE  EventsOfKnown'
<1>1. \A r \in reports' : Known(r.owner)' /\ r.owner \in Objects
  <2>1. \A r \in reports' : r.owner = o \/ \E q \in reports : r.owner = q.owner
        BY WriteKeeps
  <2>2. \A q \in reports : Known(q.owner)' /\ q.owner \in Objects
        BY StillKnown DEF IInv, EventsOfKnown, ReportsOfOwners, StoredReports
  <2> QED BY <2>1, <2>2
<1>2. \A q \in events' : q \in events \/ \E r \in reports' : q = r.owner
      BY DEF EventsOfWrite, OwnersToEnqueue
<1>3. \A q \in events : Known(q)' /\ q \in Objects
      BY StillKnown DEF IInv, EventsOfKnown
<1> QED BY <1>1, <1>2, <1>3 DEF EventsOfKnown

\* Every step changes the reports by writing those of an owner or by deleting.
LEMMA InvStep ==
  ASSUME IInv, [Next]_vars
  PROVE  IInv'
<1>1. ASSUME config' = config, scanned \subseteq scanned', jobs' \subseteq jobs
      PROVE  JobsOfReconciled'
      BY <1>1, SameReconciled, StillKnown DEF IInv, JobsOfReconciled
<1>2. ASSUME reports' \subseteq reports PROVE ReportsOfOwners'
  <2>1. /\ reports' \subseteq StoredReports /\ \A r \in reports' : Consistent(r)
        /\ \A r, q \in reports' : r.name = q.name => r = q
        BY <1>2 DEF IInv, ReportsOfOwners
  <2> QED BY <2>1, SameOwners DEF ReportsOfOwners
<1>3. MaxScans \in Nat /\ MaxDeletes \in Nat
      BY ConstantsAssumption
<1>k. ASSUME config' = config, scanned' = scanned, reports' \subseteq reports,
             \A o \in events' : o \in events \/ \E r \in reports : o = r.owner
      PROVE  EventsOfKnown'
  <2>1. \A r \in reports : r.owner \in Objects
        BY DEF IInv, ReportsOfOwners, StoredReports
  <2> QED BY <1>k, <2>1, StillKnown DEF IInv, EventsOfKnown
<1>4. ASSUME NEW o \in Objects, Reconcile(o) PROVE IInv'
  <2>1. JobsOfReconciled'
    <3>1. /\ Known(o) /\ config' = config /\ scanned' = scanned
          /\ jobs' = jobs \/ (Reconciled(o) /\ jobs' = jobs \cup {ObjectToObjectMeta(o)})
          BY <1>4 DEF Reconcile, Known, IInv, EventsOfKnown
    <3>2. \A j \in jobs' : \E q \in Objects : Reconciled(q) /\ Known(q) /\ j = ObjectToObjectMeta(q)
          BY <3>1 DEF IInv, JobsOfReconciled
    <3> QED BY <3>1, <3>2, SameReconciled, StillKnown DEF JobsOfReconciled
  <2>2. EventsOfKnown'
        BY <1>4, <1>k DEF Reconcile
  <2> QED BY <1>2, <1>4, <2>1, <2>2 DEF IInv, Reconcile
<1>5. ASSUME NEW o \in Objects, Scan(o) PROVE IInv'
  <2>1. ReportsOfOwners'
        BY <1>5, ScannedOwner, WriteKeeps DEF Scan
  <2>2. EventsOfKnown'
    <3>1. IsOwner(ReportOwner(o)) /\ ReportOwner(o) \in Objects
          BY <1>5, ScannedOwner DEF Scan, IsOwner
    <3>2. /\ config' = config /\ scanned' = scanned \cup {ReportOwner(o)}
          /\ WriteReports(ReportOwner(o)) /\ EventsOfWrite(ReportOwner(o))
          BY <1>5 DEF Scan
    <3>3. scanned' \subseteq Objects
          BY <3>1, <3>2 DEF IInv, EventsOfKnown
    <3>4. ReportOwner(o) \in scanned'
          BY <3>2
    <3> DEFINE w == ReportOwner(o)
    <3>5. Known(w)'
          BY <3>4 DEF Known, ReportOwner, JobOwner, ControlledBy
    <3>6. w \in Objects /\ IsOwner(w) /\ WriteReports(w) /\ EventsOfWrite(w)
          BY <3>1, <3>2
    <3>7. scanned \subseteq scanned'
          BY <3>2
    <3> QED BY <3>2, <3>3, <3>5, <3>6, <3>7, WriteEvents
  <2> QED BY <1>1, <1>3, <1>5, <2>1, <2>2 DEF IInv, Scan
<1>6. ASSUME NEW o \in Objects, DeleteObject(o) PROVE IInv'
  <2>1. EventsOfKnown'
        BY <1>6, <1>k DEF DeleteObject
  <2> QED BY <1>1, <1>2, <1>3, <1>6, <2>1 DEF IInv, DeleteObject
<1>7. ASSUME NEW j \in jobs, ProcessJob(j) PROVE IInv'
  <2>0. config' = config /\ scanned' = scanned
        BY <1>7 DEF ProcessJob
  <2>1. ReportsOfOwners'
        BY <1>2, <1>7, ProcessJobWrites, WriteKeeps
  <2>2. EventsOfKnown'
    <3>1. CASE UNCHANGED <<reports, events>>
          BY <1>k, <2>0, <3>1
    <3>2. CASE \E o \in Objects : IsOwner(o) /\ Known(o) /\ WriteReports(o) /\ EventsOfWrite(o)
      <4>1. PICK o \in Objects : IsOwner(o) /\ Known(o) /\ WriteReports(o) /\ EventsOfWrite(o)
            BY <3>2
      <4>2. Known(o)' /\ scanned' \subseteq Objects
            BY <2>0, <4>1, StillKnown DEF IInv, EventsOfKnown
      <4> QED BY <2>0, <4>1, <4>2, WriteEvents
    <3> QED BY <1>7, <3>1, <3>2, ProcessJobWrites
  <2> QED BY <1>1, <1>7, <2>1, <2>2 DEF IInv, ProcessJob
<1>8. ASSUME NEW r \in reports, DeleteReport(r) PROVE IInv'
  <2>1. EventsOfKnown'
        BY <1>8, <1>k DEF DeleteReport, OwnersToEnqueue
  <2> QED BY <1>1, <1>2, <1>3, <1>8, <2>1 DEF IInv, DeleteReport
<1>9. CASE Get
  <2>1. EventsOfKnown'
        BY <1>9, <1>k DEF Get
  <2> QED BY <1>1, <1>2, <1>9, <2>1 DEF IInv, Get
<1>10. CASE UNCHANGED vars
  <2>1. EventsOfKnown'
        BY <1>10, <1>k DEF vars
  <2> QED BY <1>1, <1>2, <1>10, <2>1 DEF IInv, vars
<1> QED BY <1>4, <1>5, <1>6, <1>7, <1>8, <1>9, <1>10 DEF Next

\* Initially there are no jobs and no reports.
LEMMA InitIInv == ASSUME Init PROVE IInv
BY ConstantsAssumption DEF Init, IInv, JobsOfReconciled, ReportsOfOwners, EventsOfKnown

\* Every step keeps the invariant.
LEMMA Inductive == Spec => []IInv
<1>1. Init => IInv
      BY InitIInv
<1>2. IInv /\ [Next]_vars => IInv'
      BY InvStep
<1> QED BY <1>1, <1>2, PTL DEF Spec

\* The state of owners, jobs and reports is well typed, and a name is stored once.
THEOREM TypeCorrect == Spec => []TypeOK
<1>1. ASSUME IInv PROVE TypeOK
  <2>1. ASSUME NEW j \in jobs PROVE j.labels.name # None \/ j.name # None
    <3>1. PICK o \in Objects : j = ObjectToObjectMeta(o)
          BY <1>1, <2>1 DEF IInv, JobsOfReconciled
    <3>2. Name[o] # None
          BY ConstantsAssumption
    <3> QED BY <3>1, <3>2 DEF ObjectToObjectMeta, Labels
  <2>2. \A r \in reports : r.of \in Objects /\ r.owner \in Objects /\ r.container \in Containers[r.of]
        BY <1>1 DEF IInv, ReportsOfOwners, StoredReports, Consistent
  <2> QED BY <1>1, <2>1, <2>2 DEF IInv, ReportsOfOwners, EventsOfKnown, TypeOK
<1> QED BY <1>1, Inductive, PTL

\* Of an object and its controller one is its own report owner, but for the
\* controllers that ReportOwner does not know.
LEMMA OwnerOrController ==
  ASSUME NEW p, IsOwner(p), Controller[p] # None, IsOwner(Controller[p])
  PROVE  \/ p = Controller[p]
         \/ ControlledBy(p, {"StatefulSet", "DaemonSet", "ReplicationController"})
<1> DEFINE k == Kind[Controller[p]]
<1>1. p \in Objects /\ k \in Workloads
      BY DEF IsOwner
<1>2. CASE k = "Pod"
      BY <1>1, <1>2, ConstantsAssumption DEF Controls
<1>3. CASE k = "CronJob"
  <2>1. Kind[p] = "Job"
        BY <1>1, <1>3, ConstantsAssumption DEF Controls
  <2>2. ReportOwner(p) = Controller[p]
        BY <1>3, <2>1 DEF ReportOwner, JobOwner, ControlledBy
  <2> QED BY <2>2 DEF IsOwner
<1>4. CASE k = "ReplicaSet"
  <2>1. Kind[p] = "Pod"
        BY <1>1, <1>4, ConstantsAssumption DEF Controls
  <2>2. ReportOwner(p) = Controller[p]
        BY <1>4, <2>1 DEF ReportOwner, ControlledBy
  <2> QED BY <2>2 DEF IsOwner
<1>5. CASE k = "Job"
  <2>1. Kind[p] = "Pod"
        BY <1>1, <1>5, ConstantsAssumption DEF Controls
  <2>2. ReportOwner(p) = JobOwner(Controller[p])
        BY <1>5, <2>1 DEF ReportOwner, ControlledBy
  <2>3. ReportOwner(Controller[p]) = JobOwner(Controller[p])
        BY <1>5 DEF ReportOwner
  <2> QED BY <2>2, <2>3 DEF IsOwner
<1>6. CASE k \in {"StatefulSet", "DaemonSet", "ReplicationController"}
      BY <1>6 DEF ControlledBy
<1> QED BY <1>1, <1>2, <1>3, <1>4, <1>5, <1>6 DEF Workloads

\* The same for the controller of the controller.
LEMMA OwnerOrGrandController ==
  ASSUME NEW p, IsOwner(p), Controller[p] # None,
         Controller[Controller[p]] # None, IsOwner(Controller[Controller[p]])
  PROVE  p = Controller[Controller[p]]
<1> DEFINE m == Controller[p]
           k == Kind[Controller[m]]
<1>1. p \in Objects /\ m \in Objects /\ k \in Workloads
      BY ConstantsAssumption DEF IsOwner
<1>2. k = "CronJob" /\ Kind[m] = "Job"
  <2>1. Kind[m] # "Pod"
        BY <1>1, ConstantsAssumption DEF Controls
  <2>2. k # "Pod"
        BY <1>1, ConstantsAssumption DEF Controls
  <2>3. k \notin {"ReplicaSet", "ReplicationController", "StatefulSet", "DaemonSet", "Job"}
        BY <1>1, <2>1, ConstantsAssumption DEF Controls
  <2>4. k = "CronJob"
        BY <1>1, <2>2, <2>3 DEF Workloads
  <2> QED BY <1>1, <2>4, ConstantsAssumption DEF Controls
<1>3. Kind[p] = "Pod"
      BY <1>1, <1>2, ConstantsAssumption DEF Controls
<1>4. ReportOwner(p) = Controller[m]
      BY <1>2, <1>3 DEF ReportOwner, JobOwner, ControlledBy
<1> QED BY <1>4 DEF IsOwner

\* No pod has its containers reported on two objects of its hierarchy, whatever
\* operator and CLI scan: what either writes for is its own report owner.
THEOREM OneOwnerEach == Spec => []OneOwner
<1>1. ASSUME IInv PROVE OneOwner
  <2> DEFINE others == {"StatefulSet", "DaemonSet", "ReplicationController"}
  <2> SUFFICES ASSUME NEW p \in Objects,
                      NEW o \in {r.of : r \in reports} \cap Chain(p),
                      NEW q \in {r.of : r \in reports} \cap Chain(p)
               PROVE  o = q \/ ControlledBy(p, others)
      BY DEF OneOwner
  <2>1. IsOwner(o) /\ IsOwner(q)
        BY <1>1 DEF IInv, ReportsOfOwners, Consistent
  <2>2. CASE Controller[p] = None
        BY <2>2 DEF Chain
  <2>3. CASE Controller[p] # None
    <3> DEFINE m == Controller[p]
    <3>1. ASSUME NEW x \in {o, q}
          PROVE  x = p \/ x = m \/ (Controller[m] # None /\ x = Controller[m])
          BY <2>3 DEF Chain
    <3>2. IsOwner(p) /\ IsOwner(m) => p = m \/ ControlledBy(p, others)
          BY <2>3, OwnerOrController
    <3>3. IsOwner(p) /\ Controller[m] # None /\ IsOwner(Controller[m]) => p = Controller[m]
          BY <2>3, OwnerOrGrandController
    <3>4. IsOwner(m) /\ Controller[m] # None /\ IsOwner(Controller[m]) => m = Controller[m]
      <4> SUFFICES ASSUME IsOwner(m), Controller[m] # None, IsOwner(Controller[m])
                   PROVE  m = Controller[m]
          OBVIOUS
      <4>1. m = Controller[m] \/ ControlledBy(m, others)
            BY OwnerOrController
      <4>2. ControlledBy(m, others) => Kind[m] = "Pod"
            BY ConstantsAssumption DEF ControlledBy, Controls, IsOwner
      <4>3. Kind[m] # "Pod"
            BY <2>3, ConstantsAssumption DEF Controls
      <4> QED BY <4>1, <4>2, <4>3
    <3> QED BY <2>1, <3>1, <3>2, <3>3, <3>4
  <2> QED BY <2>2, <2>3
<1> QED BY <1>1, Inductive, PTL

\* The operator submits scan jobs for the namespaces of its install mode only, and
\* for objects that the CLI stored reports of.
THEOREM JobsInScope == Spec => []ScopeRespected
<1>1. ASSUME IInv PROVE ScopeRespected
  <2> DEFINE n(j) == j.labels.namespace
  <2> SUFFICES ASSUME NEW j \in jobs, ~\E o \in scanned : j = ObjectToObjectMeta(o)
               PROVE  IF config.targets = <<>> THEN n(j) \notin config.excluded
                      ELSE n(j) \in TargetNamespaces
      BY DEF ScopeRespected, InScope
  <2>1. PICK o \in Objects : Watched(o) /\ j = ObjectToObjectMeta(o)
        BY <1>1 DEF IInv, JobsOfReconciled, Known
  <2>2. n(j) = Namespace[o]
        BY <2>1 DEF ObjectToObjectMeta, Labels
  <2>3. config.targets \in Seq(STRING) /\ config.ns # ClusterScope
        BY <1>1, ConstantsAssumption DEF IInv
  <2>4. InstallModePredicate(o) /\ IsCached(o)
        BY <2>1 DEF Watched
  <2>5. CASE config.targets = <<>>
    <3>1. ResolveInstallMode = "AllNamespaces"
          BY <2>5 DEF ResolveInstallMode
    <3> QED BY <2>2, <2>4, <2>5, <3>1 DEF InstallModePredicate
  <2>6. CASE Len(config.targets) = 1 /\ config.targets[1] = config.ns
    <3>1. ResolveInstallMode = "OwnNamespace"
          BY <2>6 DEF ResolveInstallMode
    <3>2. TargetNamespaces = {config.ns}
          BY <2>3, <2>6 DEF TargetNamespaces
    <3>3. CachedNamespaces = {config.ns}
          BY <3>1, <3>2 DEF CachedNamespaces
    <3> QED BY <2>2, <2>3, <2>4, <2>6, <3>2, <3>3 DEF IsCached
  <2>7. CASE Len(config.targets) = 1 /\ config.targets[1] # config.ns
    <3>1. ResolveInstallMode = "SingleNamespace"
          BY <2>7 DEF ResolveInstallMode
    <3> QED BY <2>2, <2>3, <2>4, <2>7, <3>1 DEF InstallModePredicate, TargetNamespaces
  <2>8. CASE Len(config.targets) > 1
    <3>1. ResolveInstallMode = "MultiNamespace"
          BY <2>8 DEF ResolveInstallMode
    <3> QED BY <2>2, <2>4, <2>8, <3>1 DEF InstallModePredicate
  <2>9. config.targets = <<>> \/ Len(config.targets) = 1 \/ Len(config.targets) > 1
    <3> DEFINE len == Len(config.targets)
    <3>1. len \in Nat /\ (len = 0 => config.targets = <<>>)
          BY <2>3
    <3> HIDE DEF len
    <3>2. config.targets = <<>> \/ len = 1 \/ len > 1
          BY <3>1
    <3> QED BY <3>2 DEF len
  <2> QED BY <2>5, <2>6, <2>7, <2>8, <2>9
<1> QED BY <1>1, Inductive, PTL

-----------------------------------------------------------------------------
(* What scan stores, get finds, unless names collide (NoCollision): of two  *)
(* workloads with one report name the second to be written takes the        *)
(* labels of the first away.                                                *)

\* The object that was scanned keeps a report, and get finds one of it.
ScannedHasReport ==
  cli # None /\ deletes = 0 =>
    /\ cli = [of |-> cli.of, found |-> cli.found, pc |-> cli.pc]
    /\ cli.of \in Objects /\ Kind[cli.of] \in Workloads \cup {"Deployment"}
    /\ cli.pc = "scanned" => \E r \in reports : r.of = ReportOwner(cli.of)
    /\ cli.pc = "got" => cli.found # {} \/ Kind[ReportOwner(cli.of)] \in {"Job", "CronJob"}

\* The labels of a report lead to it.
LEMMA FoundByOwner ==
  ASSUME IInv, NEW r \in reports
  PROVE  r \in FindByOwner(r.of)
<1>1. r.name = ReportName(r.of, r.container) /\ r.meta.labels = Labels(r.of)
      BY DEF IInv, ReportsOfOwners, Consistent
<1>2. r.name[1] = Namespace[r.of]
      BY <1>1 DEF ReportName
<1> QED BY <1>1, <1>2 DEF FindByOwner, MatchingLabels

\* Whoever writes, an object that has a report keeps one.
LEMMA WriteLeavesReports ==
  ASSUME NoCollision, IInv, NEW q, IsOwner(q), WriteReports(q),
         NEW o, \E r \in reports : r.of = o
  PROVE  \E r \in reports' : r.of = o
<1>1. PICK r \in reports : r.of = o
      OBVIOUS
<1>2. CASE r \in reports'
      BY <1>1, <1>2
<1>3. CASE r \notin reports'
  <2>1. PICK c \in Containers[q] : r.name = ReportName(q, c)
        BY <1>3, WriteKeeps
  <2>2. r.name = ReportName(o, r.container) /\ o \in Objects /\ r.container \in Containers[o]
        BY <1>1 DEF IInv, ReportsOfOwners, Consistent, IsOwner
  <2>3. o = q
        BY <2>1, <2>2 DEF NoCollision, IsOwner
  <2> QED BY <2>3, WriteKeeps
<1> QED BY <1>2, <1>3

\* The hierarchy that get follows leads to the owner that scan wrote for.
LEMMA GetFinds ==
  ASSUME IInv, NEW o \in Objects, Kind[o] \in Workloads \cup {"Deployment"},
         \E r \in reports : r.of = ReportOwner(o)
  PROVE  FindByOwnerInHierarchy(o) # {} \/ Kind[ReportOwner(o)] \in {"Job", "CronJob"}
<1> DEFINE w == ReportOwner(o)
<1>1. FindByOwner(w) # {}
      BY FoundByOwner
<1>2. ASSUME RelatedReplicaSet(o) = {w} PROVE FindByOwnerInHierarchy(o) # {}
      BY <1>1, <1>2 DEF FindByOwnerInHierarchy
<1>3. CASE w = o
      BY <1>1, <1>3 DEF FindByOwnerInHierarchy
<1>4. CASE Kind[o] = "Deployment"
      BY <1>2, <1>4 DEF ReportOwner, RelatedReplicaSet
<1>5. CASE Kind[o] = "Pod" /\ ControlledBy(o, {"ReplicaSet"})
  <2>1. ~ControlledBy(o, {"Job"})
        BY <1>5 DEF ControlledBy
  <2> QED BY <1>2, <1>5, <2>1 DEF ReportOwner, RelatedReplicaSet
<1>6. ASSUME NEW j, Kind[j] = "Job" PROVE Kind[JobOwner(j)] \in {"Job", "CronJob"}
      BY <1>6 DEF JobOwner, ControlledBy
<1>7. CASE Kind[o] = "Pod" /\ ControlledBy(o, {"Job"})
  <2>1. ~ControlledBy(o, {"ReplicaSet"}) /\ Kind[Controller[o]] = "Job"
        BY <1>7 DEF ControlledBy
  <2> QED BY <1>6, <1>7, <2>1 DEF ReportOwner
<1>8. CASE Kind[o] = "Job"
      BY <1>6, <1>8 DEF ReportOwner
<1>9. CASE /\ Kind[o] \notin {"Deployment", "Job"}
           /\ Kind[o] = "Pod" => ~ControlledBy(o, {"ReplicaSet"}) /\ ~ControlledBy(o, {"Job"})
      BY <1>3, <1>9 DEF ReportOwner
<1> QED BY <1>4, <1>5, <1>7, <1>8, <1>9

\* Every step keeps what get relies on.
LEMMA ScannedStep ==
  ASSUME NoCollision, IInv, ScannedHasReport, [Next]_vars
  PROVE  ScannedHasReport'
<1>0. \A o : /\ ReportOwner(o)' = ReportOwner(o) /\ Workloads' = Workloads
      BY DEF ReportOwner, JobOwner, ControlledBy, Workloads
<1>1. ASSUME UNCHANGED <<cli, deletes>>,
             \A o : (\E r \in reports : r.of = o) => \E r \in reports' : r.of = o
      PROVE  ScannedHasReport'
      BY <1>0, <1>1 DEF ScannedHasReport
<1>2. ASSUME NEW o \in Objects, Reconcile(o) PROVE ScannedHasReport'
      BY <1>1, <1>2 DEF Reconcile
<1>3. ASSUME NEW o \in Objects, Scan(o) PROVE ScannedHasReport'
  <2>1. IsOwner(ReportOwner(o)) /\ WriteReports(ReportOwner(o))
        BY <1>3, ScannedOwner DEF Scan
  <2>2. \E r \in reports' : r.of = ReportOwner(o)
        BY <2>1, WriteKeeps
  <2>3. cli' = [of |-> o, found |-> {}, pc |-> "scanned"] /\ Kind[o] \in Workloads \cup {"Deployment"}
        BY <1>3 DEF Scan
  <2> QED BY <1>0, <2>2, <2>3 DEF ScannedHasReport
<1>4. ASSUME deletes' = deletes + 1 PROVE ScannedHasReport'
      BY <1>4 DEF ScannedHasReport, IInv
<1>5. ASSUME NEW j \in jobs, ProcessJob(j) PROVE ScannedHasReport'
  <2>1. UNCHANGED <<cli, deletes>>
        BY <1>5 DEF ProcessJob
  <2>2. CASE UNCHANGED <<reports, events>>
        BY <1>1, <2>1, <2>2
  <2>3. CASE \E o \in Objects : IsOwner(o) /\ WriteReports(o)
        BY <1>1, <2>1, <2>3, WriteLeavesReports
  <2> QED BY <1>5, <2>2, <2>3, ProcessJobWrites
<1>6. CASE Get
  <2>1. CASE deletes = 0
    <3>1. /\ cli = [of |-> cli.of, found |-> cli.found, pc |-> cli.pc] /\ cli.of \in Objects
          /\ Kind[cli.of] \in Workloads \cup {"Deployment"}
          /\ \E r \in reports : r.of = ReportOwner(cli.of)
          BY <1>6, <2>1 DEF Get, ScannedHasReport
    <3>2. cli' = [of |-> cli.of, found |-> FindByOwnerInHierarchy(cli.of), pc |-> "got"]
          BY <1>6, <3>1 DEF Get
    <3>3. FindByOwnerInHierarchy(cli.of) # {} \/ Kind[ReportOwner(cli.of)] \in {"Job", "CronJob"}
          BY <3>1, GetFinds
    <3> QED BY <1>0, <3>1, <3>2, <3>3 DEF ScannedHasReport
  <2>2. CASE deletes # 0
        BY <1>6, <2>2 DEF Get, ScannedHasReport
  <2> QED BY <2>1, <2>2
<1>7. CASE UNCHANGED vars
      BY <1>1, <1>7 DEF vars
<1> QED BY <1>2, <1>3, <1>4, <1>5, <1>6, <1>7 DEF Next, DeleteObject, DeleteReport

\* When the names of reports tell workloads apart, get finds a report of what scan
\* has stored, whatever the operator wrote in between.
THEOREM ScannedIsFound ==
  ASSUME NoCollision
  PROVE  Spec => []ScanThenGet
<1>1. Init => ScannedHasReport
      BY DEF Init, ScannedHasReport
<1>2. IInv /\ ScannedHasReport /\ [Next]_vars => ScannedHasReport'
      BY ScannedStep
<1>3. ScannedHasReport => ScanThenGet
      BY DEF ScannedHasReport, ScanThenGet
<1> QED BY <1>1, <1>2, <1>3, Inductive, PTL DEF Spec

-----------------------------------------------------------------------------
(***************************************************************************)
(* The TTL controller, for any number of reports, writes, faults and any   *)
(* TTLs: the expiry of a stored report is always scheduled.  That needs    *)
(* one more fact, CacheFollows: what the worker reads is current unless an *)
(* event is still to come, so the delay it computes is that of the stored  *)
(* report.                                                                 *)
(***************************************************************************)
CONSTANTS Reports, TTLs, NoReport, Idle, MaxTime, MaxWrites, MaxFaults

VARIABLES now, ttl, report, cReport, lag, queue, due, work, writes, faults

TTL == INSTANCE ReportTTL

\* Without a pending event the informer cache shows the stored report.
CacheFollows == \A r \in Reports : r \notin lag => cReport[r] = report[r]

TTLInv == TTL!TypeOK /\ CacheFollows /\ TTL!ExpiryScheduled

-----------------------------------------------------------------------------
\* Initially nothing is stored and nothing is scheduled.
LEMMA TTLInit == ASSUME TTL!ConstantsAssumption PROVE TTL!Init => TTLInv
<1> SUFFICES ASSUME TTL!Init PROVE TTLInv
    OBVIOUS
<1>1. TTL!TypeOK
      BY DEF TTL!Init, TTL!TypeOK, TTL!Stamps, TTL!ConstantsAssumption
<1>2. CacheFollows
      BY DEF TTL!Init, CacheFollows
<1>3. TTL!ExpiryScheduled
      BY DEF TTL!Init, TTL!ExpiryScheduled
<1> QED BY <1>1, <1>2, <1>3 DEF TTLInv

\* What the scanner writes is a report.
LEMMA WrittenType ==
  ASSUME TTL!TypeOK, NEW r \in Reports
  PROVE  [stamp |-> now, ttl |-> IF report[r] = NoReport THEN ttl ELSE report[r].ttl] \in TTL!Report
BY DEF TTL!TypeOK, TTL!Report

\* Time stamps and TTLs are numbers.
LEMMA ReportFields ==
  ASSUME TTL!ConstantsAssumption, NEW v \in TTL!Report
  PROVE  v.stamp \in TTL!Stamps /\ v.stamp \in Nat /\ v.ttl \in Nat
<1>1. v.stamp \in TTL!Stamps /\ v.ttl \in TTLs
      BY DEF TTL!Report
<1>2. v.stamp \in Nat
      BY <1>1 DEF TTL!Stamps, TTL!ConstantsAssumption
<1> QED BY <1>1, <1>2 DEF TTL!ConstantsAssumption

\* Every action keeps the types.
LEMMA TTLTypeStep ==
  ASSUME TTL!ConstantsAssumption
  PROVE  TTL!TypeOK /\ [TTL!Next]_TTL!vars => TTL!TypeOK'
<1> SUFFICES ASSUME TTL!TypeOK, [TTL!Next]_TTL!vars PROVE TTL!TypeOK'
    OBVIOUS
<1> USE DEF TTL!ConstantsAssumption
<1>1. CASE TTL!Tick
      BY <1>1 DEF TTL!Tick, TTL!TypeOK, TTL!Stamps, TTL!Report, TTL!Task, TTL!reportVars, TTL!workVars
<1>2. CASE TTL!Restart
      BY <1>2 DEF TTL!Restart, TTL!Fault, TTL!TypeOK
<1>3. CASE TTL!DeleteError
  <2>1. work.key \in Reports
        BY <1>3 DEF TTL!DeleteError, TTL!TypeOK, TTL!Task
  <2> QED BY <1>3, <2>1 DEF TTL!DeleteError, TTL!Fault, TTL!TypeOK, TTL!reportVars
<1>4. ASSUME NEW r \in Reports, TTL!Reconcile(r) PROVE TTL!TypeOK'
  <2>1. CASE cReport[r] = NoReport \/ cReport[r].ttl = 0
        BY <1>4, <2>1 DEF TTL!Reconcile, TTL!TypeOK, TTL!reportVars
  <2>2. CASE ~(cReport[r] = NoReport \/ cReport[r].ttl = 0)
    <3>1. /\ cReport[r] \in TTL!Report /\ cReport[r].stamp \in Nat /\ cReport[r].ttl \in Nat
          /\ cReport[r].stamp \in TTL!Stamps /\ now \in Nat
      <4>1. cReport[r] \in TTL!Report
            BY <2>2 DEF TTL!TypeOK
      <4>2. now \in Nat
            BY DEF TTL!TypeOK, TTL!Stamps
      <4> QED BY <4>1, <4>2, ReportFields
    <3> DEFINE d == TTL!TimeToExpiration(cReport[r].stamp, cReport[r].ttl)
    <3>2. d \in Int
          BY <3>1 DEF TTL!TimeToExpiration
    <3>3. CASE TTL!DurationExceeded(d)
      <4>1. work' = [key |-> r, stamp |-> cReport[r].stamp] /\ UNCHANGED due
            BY <1>4, <2>2, <3>3 DEF TTL!Reconcile
      <4>2. work' \in TTL!Task
            BY <4>1, <3>1 DEF TTL!Task
      <4> QED BY <1>4, <4>1, <4>2 DEF TTL!Reconcile, TTL!TypeOK, TTL!reportVars
    <3>4. CASE ~TTL!DurationExceeded(d)
      <4>1. TTL!RequeueAfter(r, d) /\ UNCHANGED work
            BY <1>4, <2>2, <3>4 DEF TTL!Reconcile
      <4>2. d > 0
            BY <3>2, <3>4 DEF TTL!DurationExceeded
      <4> HIDE DEF d
      <4>3. due' \in [Reports -> Int] /\ \A q \in Reports : due'[q] = -1 \/ due'[q] > 0
            BY <4>1, <4>2, <3>1, <3>2 DEF TTL!RequeueAfter, TTL!TypeOK
      <4> QED BY <1>4, <4>1, <4>3 DEF TTL!Reconcile, TTL!TypeOK, TTL!reportVars
    <3> QED BY <3>3, <3>4
  <2> QED BY <2>1, <2>2
<1>5. CASE TTL!DeleteReport
  <2>1. work.key \in Reports
        BY <1>5 DEF TTL!DeleteReport, TTL!TypeOK, TTL!Task
  <2> QED BY <1>5, <2>1 DEF TTL!DeleteReport, TTL!SetReport, TTL!TypeOK, TTL!reportVars
<1>6. ASSUME NEW r \in Reports, TTL!WriteReport(r) PROVE TTL!TypeOK'
      BY <1>6, WrittenType DEF TTL!WriteReport, TTL!SetReport, TTL!TypeOK, TTL!workVars
<1>7. ASSUME NEW r \in Reports, TTL!SyncReport(r) PROVE TTL!TypeOK'
      BY <1>7 DEF TTL!SyncReport, TTL!TypeOK
<1>8. ASSUME NEW r \in Reports, TTL!FireDelayed(r) PROVE TTL!TypeOK'
      BY <1>8 DEF TTL!FireDelayed, TTL!TypeOK, TTL!reportVars
<1>9. CASE UNCHANGED TTL!vars
      BY <1>9 DEF TTL!vars, TTL!TypeOK
<1> QED BY <1>1, <1>2, <1>3, <1>4, <1>5, <1>6, <1>7, <1>8, <1>9 DEF TTL!Next, TTL!Controller

\* A write brings an event with it, and the event brings the cache up to date.
LEMMA CacheStep == TTL!TypeOK /\ CacheFollows /\ [TTL!Next]_TTL!vars => CacheFollows'
<1> SUFFICES ASSUME TTL!TypeOK, CacheFollows, [TTL!Next]_TTL!vars PROVE CacheFollows'
    OBVIOUS
<1>1. CASE TTL!Restart
      BY <1>1 DEF TTL!Restart, CacheFollows
<1>2. CASE TTL!DeleteReport
  <2>1. work.key \in Reports
        BY <1>2 DEF TTL!DeleteReport, TTL!TypeOK, TTL!Task
  <2> QED BY <1>2, <2>1 DEF TTL!DeleteReport, TTL!SetReport, TTL!TypeOK, CacheFollows, TTL!reportVars
<1>3. ASSUME NEW r \in Reports, TTL!WriteReport(r) PROVE CacheFollows'
      BY <1>3 DEF TTL!WriteReport, TTL!SetReport, TTL!TypeOK, CacheFollows
<1>4. ASSUME NEW r \in Reports, TTL!SyncReport(r) PROVE CacheFollows'
      BY <1>4 DEF TTL!SyncReport, TTL!TypeOK, CacheFollows
<1>5. CASE UNCHANGED TTL!reportVars
      BY <1>5 DEF CacheFollows, TTL!reportVars
<1>6. ASSUME NEW r \in Reports, TTL!Reconcile(r) \/ TTL!FireDelayed(r) PROVE UNCHANGED TTL!reportVars
      BY <1>6 DEF TTL!Reconcile, TTL!FireDelayed
<1>7. TTL!Tick \/ TTL!DeleteError \/ UNCHANGED TTL!vars => UNCHANGED TTL!reportVars
      BY DEF TTL!Tick, TTL!DeleteError, TTL!vars, TTL!reportVars
<1> QED BY <1>1, <1>2, <1>3, <1>4, <1>5, <1>6, <1>7 DEF TTL!Next, TTL!Controller

\* One look at a report: the worker takes it, or its key is delayed until no
\* later than its expiry.
LEMMA ReconcileKeeps ==
  ASSUME TTL!ConstantsAssumption, TTL!TypeOK, CacheFollows, TTL!ExpiryScheduled,
         NEW r \in Reports, TTL!Reconcile(r)
  PROVE  TTL!ExpiryScheduled'
<1> SUFFICES ASSUME NEW q \in Reports, report[q] # NoReport, report[q].ttl > 0, q \notin lag \cup queue'
             PROVE  \/ work' # Idle /\ work'.key = q
                    \/ due'[q] >= 0 /\ due'[q] <= report[q].stamp + report[q].ttl
    BY DEF TTL!Reconcile, TTL!ExpiryScheduled, TTL!reportVars
<1> USE DEF TTL!ConstantsAssumption
<1>1. report[q] \in TTL!Report /\ report[q].stamp \in Nat /\ report[q].ttl \in Nat /\ now \in Nat /\ due[q] \in Int
  <2>1. report[q] \in TTL!Report
        BY DEF TTL!TypeOK
  <2>2. now \in Nat /\ due[q] \in Int
        BY DEF TTL!TypeOK, TTL!Stamps
  <2> QED BY <2>1, <2>2, ReportFields
<1>2. CASE q = r
  <2>1. cReport[r] = report[q]
        BY <1>2 DEF CacheFollows
  <2> DEFINE d == TTL!TimeToExpiration(report[q].stamp, report[q].ttl)
  <2>2. d \in Int /\ now + d = report[q].stamp + report[q].ttl
        BY <1>1 DEF TTL!TimeToExpiration
  <2>3. CASE TTL!DurationExceeded(d)
        BY <1>1, <1>2, <2>1, <2>3, Idle \notin TTL!Task DEF TTL!Reconcile, TTL!TypeOK, TTL!Task,
           TTL!Report
  <2>4. CASE ~TTL!DurationExceeded(d)
    <3>1. TTL!RequeueAfter(r, d)
          BY <1>1, <2>1, <2>4 DEF TTL!Reconcile
    <3>2. d > 0
          BY <2>2, <2>4 DEF TTL!DurationExceeded
    <3> HIDE DEF d
    <3> QED BY <1>1, <1>2, <2>2, <3>1, <3>2 DEF TTL!RequeueAfter, TTL!TypeOK
  <2> QED BY <2>3, <2>4
<1>3. CASE q # r
  <2>1. q \notin queue /\ work = Idle
        BY <1>3 DEF TTL!Reconcile
  <2>2. due[q] >= 0 /\ due[q] <= report[q].stamp + report[q].ttl
        BY <2>1 DEF TTL!ExpiryScheduled
  <2>3. due'[q] = due[q]
        BY <1>3 DEF TTL!Reconcile, TTL!RequeueAfter, TTL!TypeOK
  <2> QED BY <2>2, <2>3
<1> QED BY <1>2, <1>3

\* Every action keeps the expiry of every stored report scheduled.
LEMMA ExpiryStep ==
  ASSUME TTL!ConstantsAssumption
  PROVE  TTL!TypeOK /\ CacheFollows /\ TTL!ExpiryScheduled /\ [TTL!Next]_TTL!vars => TTL!ExpiryScheduled'
<1> SUFFICES ASSUME TTL!TypeOK, CacheFollows, TTL!ExpiryScheduled, [TTL!Next]_TTL!vars
             PROVE  TTL!ExpiryScheduled'
    OBVIOUS
<1>1. CASE TTL!Tick
      BY <1>1 DEF TTL!Tick, TTL!ExpiryScheduled, TTL!reportVars, TTL!workVars
<1>2. CASE TTL!Restart
      BY <1>2 DEF TTL!Restart, TTL!ExpiryScheduled
<1>3. CASE TTL!DeleteError
      BY <1>3 DEF TTL!DeleteError, TTL!ExpiryScheduled, TTL!reportVars
<1>4. ASSUME NEW r \in Reports, TTL!Reconcile(r) PROVE TTL!ExpiryScheduled'
      BY <1>4, ReconcileKeeps
<1>5. CASE TTL!DeleteReport
  <2>1. work.key \in Reports
        BY <1>5 DEF TTL!DeleteReport, TTL!TypeOK, TTL!Task
  <2> QED BY <1>5, <2>1 DEF TTL!DeleteReport, TTL!SetReport, TTL!TypeOK, TTL!ExpiryScheduled,
             TTL!reportVars
<1>6. ASSUME NEW r \in Reports, TTL!WriteReport(r) PROVE TTL!ExpiryScheduled'
      BY <1>6 DEF TTL!WriteReport, TTL!SetReport, TTL!TypeOK, TTL!ExpiryScheduled, TTL!workVars
<1>7. ASSUME NEW r \in Reports, TTL!SyncReport(r) PROVE TTL!ExpiryScheduled'
      BY <1>7 DEF TTL!SyncReport, TTL!ExpiryScheduled
<1>8. ASSUME NEW r \in Reports, TTL!FireDelayed(r) PROVE TTL!ExpiryScheduled'
      BY <1>8 DEF TTL!FireDelayed, TTL!TypeOK, TTL!ExpiryScheduled, TTL!reportVars
<1>9. CASE UNCHANGED TTL!vars
      BY <1>9 DEF TTL!vars, TTL!ExpiryScheduled
<1> QED BY <1>1, <1>2, <1>3, <1>4, <1>5, <1>6, <1>7, <1>8, <1>9 DEF TTL!Next, TTL!Controller

-----------------------------------------------------------------------------
\* Every step keeps the invariant.
LEMMA TTLInductive == ASSUME TTL!ConstantsAssumption PROVE TTL!Spec => []TTLInv
<1>1. TTLInv /\ [TTL!Next]_TTL!vars => TTLInv'
      BY TTLTypeStep, CacheStep, ExpiryStep DEF TTLInv
<1> QED BY TTLInit, <1>1, PTL DEF TTL!Spec

\* The clock, the reports, the queue and the worker of the TTL controller
\* (ttl_report.go) stay in their types.
THEOREM TTLTypeCorrect == ASSUME TTL!ConstantsAssumption PROVE TTL!Spec => []TTL!TypeOK
<1>1. TTLInv => TTL!TypeOK
      BY DEF TTLInv
<1> QED BY TTLInductive, <1>1, PTL

\* reconcileReport never forgets a stored report with a TTL: not by a renewal
\* between its read of the cache and its deletion, nor by a requeue after zero,
\* a failed deletion or a restart.
THEOREM TTLNeverForgets == ASSUME TTL!ConstantsAssumption PROVE TTL!Spec => []TTL!ExpiryScheduled
<1>1. TTLInv => TTL!ExpiryScheduled
      BY DEF TTLInv
<1> QED BY TTLInductive, <1>1, PTL
=============================================================================
