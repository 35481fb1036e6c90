---------------------------- MODULE CLIScanProofs ----------------------------
(***************************************************************************)
(* Proofs about scans by the command line, for any number of scans and     *)
(* targets and any number of faults and deletions by users: types, the     *)
(* credentials of every job, the origin of every result, and that CLIScan  *)
(* implements ExclusiveScan.                                               *)
(***************************************************************************)
EXTENDS CLIScan, TLAPS

-----------------------------------------------------------------------------
(* The inductive invariant                                                  *)

Busy == {"secret", "job", "owner", "informers", "receive", "send"}

\* How far a command is determines its outcome and what its goroutines may do.
ProgressOf(p) ==
  /\ main[p] \in {"start", "select", "logs"} => outcome[p] = "pending"
  /\ main[p] = "delete" => outcome[p] \in {"collected", "error"}
  /\ main[p] = "write" => outcome[p] = "collected"
  /\ main[p] = "returned" => outcome[p] \in {"ok", "error", "killed"}
  /\ main[p] = "start" =>
       task[p] = "none" /\ cached[p] = "off" /\ \A h \in Handlers : sending[p][h] = "no"
  /\ task[p] \in Busy => main[p] = "select" \/ (main[p] = "returned" /\ outcome[p] = "error")
Progress == \A p \in Scans : ProgressOf(p)

\* A job was created for its target.
OfTarget == \A t \in Targets : job[t] # NoJob => TargetOf[job[t].by] = t

\* The scan that created the secret of a private target, and has not yet made the
\* job its owner, is alone: the target has no job but its own.
SecretOf(p) ==
  TargetOf[p] \in Private /\ task[p] \in {"job", "owner"} =>
    /\ secret[TargetOf[p]] = "orphan"
    /\ job[TargetOf[p]] # NoJob => task[p] = "owner" /\ Mine(p)
    /\ \A q \in Scans : TargetOf[q] = TargetOf[p] /\ task[q] \in {"job", "owner"} => q = p
Secrets == \A p \in Scans : SecretOf(p)

\* The end of p's job is on its way from the informer to the command.
EndSeen(p) ==
  \/ cached[p] = "complete"
  \/ \E h \in Handlers : sending[p][h] = "nil"
  \/ task[p] = "send" /\ result[p] = "nil"

\* Unless users delete jobs, a command that has seen the end of a job, or that is
\* going to, still has the job that it created.
ResultsOf(p) ==
  /\ main[p] \in {"logs", "delete"} \/ (main[p] = "select" /\ EndSeen(p)) =>
       Mine(p) /\ job[TargetOf[p]].cond = "complete"
  /\ got[p] \in {p, Nobody}
  /\ outcome[p] \in {"collected", "ok"} => got[p] = p
Results == userDeletes = 0 => \A p \in Scans : ResultsOf(p)

IInv == TypeOK /\ Progress /\ OfTarget /\ JobHasSecret /\ Secrets /\ Results

-----------------------------------------------------------------------------
\* Initially nothing has started.
LEMMA InitIInv == Init => IInv
<1> SUFFICES ASSUME Init PROVE IInv
    OBVIOUS
<1> USE ConstantsAssumption
<1>1. TypeOK
      BY DEF Init, TypeOK
<1>2. Progress
      BY DEF Init, Progress, ProgressOf, Busy
<1>3. OfTarget /\ JobHasSecret
      BY DEF Init, OfTarget, JobHasSecret
<1>4. Secrets
      BY DEF Init, Secrets, SecretOf
<1>5. Results
      BY DEF Init, Results, ResultsOf, EndSeen, Mine
<1> QED BY <1>1, <1>2, <1>3, <1>4, <1>5 DEF IInv

-----------------------------------------------------------------------------
(* Types, in the four groups of variables                                   *)

ApiType ==
  /\ job \in [Targets -> [by : Scans, cond : {"none", "complete", "failed"}] \cup {NoJob}]
  /\ secret \in [Targets -> {"none", "orphan", "owned", "garbage"}]
  /\ report \in [Targets -> Scans \cup {Nobody}]
CommandType ==
  /\ main \in [Scans -> {"start", "select", "logs", "delete", "write", "returned"}]
  /\ outcome \in [Scans -> {"pending", "collected", "ok", "error", "killed"}]
  /\ got \in [Scans -> Scans \cup {Nobody}]
TaskType ==
  /\ task \in [Scans -> {"none", "secret", "job", "owner", "informers", "receive",
                         "send", "ended"}]
  /\ result \in [Scans -> {"nil", "error"}]
  /\ cached \in [Scans -> {"off", "none", "complete", "failed", "gone"}]
SendingType == sending \in [Scans -> [Handlers -> {"no", "nil", "error"}]]
BoundType == faults \in 0..MaxFaults /\ userDeletes \in 0..MaxUserDeletes

\* Together they are the type invariant.
LEMMA TypeParts == TypeOK <=> ApiType /\ CommandType /\ TaskType /\ SendingType /\ BoundType
BY DEF TypeOK, ApiType, CommandType, TaskType, SendingType, BoundType

\* Objects of the API server keep their types.
LEMMA ApiStep ==
  ASSUME ApiType, CommandType, [Next]_vars
  PROVE  ApiType'
<1> USE ConstantsAssumption
<1>1. ASSUME NEW t \in Targets, FinishJob(t) PROVE ApiType'
      BY <1>1 DEF FinishJob, Fault, mainVars, taskVars, boundVars, ApiType, CommandType
<1>2. ASSUME NEW t \in Targets, UserDeletesJob(t) PROVE ApiType'
      BY <1>2 DEF UserDeletesJob, JobDeleted, mainVars, taskVars, ApiType, CommandType
<1>3. ASSUME NEW t \in Targets, CollectSecret(t) PROVE ApiType'
      BY <1>3 DEF CollectSecret, mainVars, taskVars, boundVars, ApiType, CommandType
<1>4. ASSUME NEW p \in Scans, CreateSecret(p) PROVE ApiType'
      BY <1>4 DEF CreateSecret, Fault, TaskGoTo, TaskReturns, mainVars, boundVars, ApiType, CommandType
<1>5. ASSUME NEW p \in Scans, CreateJob(p) PROVE ApiType'
      BY <1>5 DEF CreateJob, Fault, TaskGoTo, TaskReturns, mainVars, boundVars, ApiType, CommandType
<1>6. ASSUME NEW p \in Scans, SetOwnerReference(p) PROVE ApiType'
      BY <1>6 DEF SetOwnerReference, Fault, TaskGoTo, TaskReturns, mainVars, boundVars, ApiType, CommandType
<1>7. ASSUME NEW p \in Scans, StartInformers(p) PROVE ApiType'
      BY <1>7 DEF StartInformers, TaskGoTo, apiVars, mainVars, boundVars, ApiType, CommandType
<1>8. ASSUME NEW p \in Scans, Receive(p) PROVE ApiType'
      BY <1>8 DEF Receive, TaskReturns, apiVars, mainVars, boundVars, ApiType, CommandType
<1>9. ASSUME NEW p \in Scans, JobUpdate(p) PROVE ApiType'
      BY <1>9 DEF JobUpdate, Call, apiVars, mainVars, boundVars, ApiType, CommandType
<1>10. ASSUME NEW p \in Scans, JobGone(p) PROVE ApiType'
      BY <1>10 DEF JobGone, apiVars, mainVars, boundVars, ApiType, CommandType
<1>11. ASSUME NEW p \in Scans, JobResync(p) PROVE ApiType'
      BY <1>11 DEF JobResync, Call, apiVars, mainVars, boundVars, ApiType, CommandType
<1>12. ASSUME NEW p \in Scans, Start(p) PROVE ApiType'
      BY <1>12 DEF Start, Fault, apiVars, boundVars, ApiType, CommandType
<1>13. ASSUME NEW p \in Scans, RunReturns(p) PROVE ApiType'
      BY <1>13 DEF RunReturns, apiVars, boundVars, ApiType, CommandType
<1>14. ASSUME NEW p \in Scans, GetLogs(p) PROVE ApiType'
      BY <1>14 DEF GetLogs, Fault, apiVars, taskVars, boundVars, ApiType, CommandType
<1>15. ASSUME NEW p \in Scans, DeleteJob(p) PROVE ApiType'
      BY <1>15 DEF DeleteJob, Fault, JobDeleted, taskVars, boundVars, ApiType, CommandType
<1>16. ASSUME NEW p \in Scans, WriteReport(p) PROVE ApiType'
      BY <1>16 DEF WriteReport, Fault, taskVars, boundVars, ApiType, CommandType
<1>17. ASSUME NEW p \in Scans, RunTimesOut(p) PROVE ApiType'
      BY <1>17 DEF RunTimesOut, apiVars, taskVars, boundVars, ApiType, CommandType
<1>18. ASSUME NEW p \in Scans, WarningEvent(p) PROVE ApiType'
      BY <1>18 DEF WarningEvent, Fault, Call, apiVars, mainVars, ApiType, CommandType
<1>19. ASSUME NEW p \in Scans, Interrupt(p) PROVE ApiType'
      BY <1>19 DEF Interrupt, Fault, apiVars, ApiType, CommandType
<1>20. CASE UNCHANGED vars
      BY <1>20 DEF vars, ApiType, CommandType
<1> QED
  BY <1>1, <1>2, <1>3, <1>4, <1>5, <1>6, <1>7, <1>8, <1>9, <1>10,
     <1>11, <1>12, <1>13, <1>14, <1>15, <1>16, <1>17, <1>18, <1>19, <1>20
  DEF Next, TaskNext, InformerNext, MainNext

\* The state of a command keeps its type.
LEMMA CommandStep ==
  ASSUME ApiType, CommandType, [Next]_vars
  PROVE  CommandType'
<1> USE ConstantsAssumption
<1>1. ASSUME NEW t \in Targets, FinishJob(t) PROVE CommandType'
      BY <1>1 DEF FinishJob, Fault, mainVars, taskVars, boundVars, ApiType, CommandType
<1>2. ASSUME NEW t \in Targets, UserDeletesJob(t) PROVE CommandType'
      BY <1>2 DEF UserDeletesJob, JobDeleted, mainVars, taskVars, ApiType, CommandType
<1>3. ASSUME NEW t \in Targets, CollectSecret(t) PROVE CommandType'
      BY <1>3 DEF CollectSecret, mainVars, taskVars, boundVars, ApiType, CommandType
<1>4. ASSUME NEW p \in Scans, CreateSecret(p) PROVE CommandType'
      BY <1>4 DEF CreateSecret, Fault, TaskGoTo, TaskReturns, mainVars, boundVars, ApiType, CommandType
<1>5. ASSUME NEW p \in Scans, CreateJob(p) PROVE CommandType'
      BY <1>5 DEF CreateJob, Fault, TaskGoTo, TaskReturns, mainVars, boundVars, ApiType, CommandType
<1>6. ASSUME NEW p \in Scans, SetOwnerReference(p) PROVE CommandType'
      BY <1>6 DEF SetOwnerReference, Fault, TaskGoTo, TaskReturns, mainVars, boundVars, ApiType, CommandType
<1>7. ASSUME NEW p \in Scans, StartInformers(p) PROVE CommandType'
      BY <1>7 DEF StartInformers, TaskGoTo, apiVars, mainVars, boundVars, ApiType, CommandType
<1>8. ASSUME NEW p \in Scans, Receive(p) PROVE CommandType'
      BY <1>8 DEF Receive, TaskReturns, apiVars, mainVars, boundVars, ApiType, CommandType
<1>9. ASSUME NEW p \in Scans, JobUpdate(p) PROVE CommandType'
      BY <1>9 DEF JobUpdate, Call, apiVars, mainVars, boundVars, ApiType, CommandType
<1>10. ASSUME NEW p \in Scans, JobGone(p) PROVE CommandType'
      BY <1>10 DEF JobGone, apiVars, mainVars, boundVars, ApiType, CommandType
<1>11. ASSUME NEW p \in Scans, JobResync(p) PROVE CommandType'
      BY <1>11 DEF JobResync, Call, apiVars, mainVars, boundVars, ApiType, CommandType
<1>12. ASSUME NEW p \in Scans, Start(p) PROVE CommandType'
      BY <1>12 DEF Start, Fault, apiVars, boundVars, ApiType, CommandType
<1>13. ASSUME NEW p \in Scans, RunReturns(p) PROVE CommandType'
      BY <1>13 DEF RunReturns, apiVars, boundVars, ApiType, CommandType
<1>14. ASSUME NEW p \in Scans, GetLogs(p) PROVE CommandType'
      BY <1>14 DEF GetLogs, Fault, apiVars, taskVars, boundVars, ApiType, CommandType
<1>15. ASSUME NEW p \in Scans, DeleteJob(p) PROVE CommandType'
      BY <1>15 DEF DeleteJob, Fault, JobDeleted, taskVars, boundVars, ApiType, CommandType
<1>16. ASSUME NEW p \in Scans, WriteReport(p) PROVE CommandType'
      BY <1>16 DEF WriteReport, Fault, taskVars, boundVars, ApiType, CommandType
<1>17. ASSUME NEW p \in Scans, RunTimesOut(p) PROVE CommandType'
      BY <1>17 DEF RunTimesOut, apiVars, taskVars, boundVars, ApiType, CommandType
<1>18. ASSUME NEW p \in Scans, WarningEvent(p) PROVE CommandType'
      BY <1>18 DEF WarningEvent, Fault, Call, apiVars, mainVars, ApiType, CommandType
<1>19. ASSUME NEW p \in Scans, Interrupt(p) PROVE CommandType'
      BY <1>19 DEF Interrupt, Fault, apiVars, ApiType, CommandType
<1>20. CASE UNCHANGED vars
      BY <1>20 DEF vars, ApiType, CommandType
<1> QED
  BY <1>1, <1>2, <1>3, <1>4, <1>5, <1>6, <1>7, <1>8, <1>9, <1>10,
     <1>11, <1>12, <1>13, <1>14, <1>15, <1>16, <1>17, <1>18, <1>19, <1>20
  DEF Next, TaskNext, InformerNext, MainNext

\* So does that of its goroutine.
LEMMA TaskStep ==
  ASSUME ApiType, TaskType, SendingType, [Next]_vars
  PROVE  TaskType'
<1> USE ConstantsAssumption
<1>1. ASSUME NEW t \in Targets, FinishJob(t) PROVE TaskType'
      BY <1>1 DEF FinishJob, Fault, mainVars, taskVars, boundVars, ApiType, TaskType, SendingType, Mine, Handlers
<1>2. ASSUME NEW t \in Targets, UserDeletesJob(t) PROVE TaskType'
      BY <1>2 DEF UserDeletesJob, JobDeleted, mainVars, taskVars, ApiType, TaskType, SendingType, Mine, Handlers
<1>3. ASSUME NEW t \in Targets, CollectSecret(t) PROVE TaskType'
      BY <1>3 DEF CollectSecret, mainVars, taskVars, boundVars, ApiType, TaskType, SendingType, Mine, Handlers
<1>4. ASSUME NEW p \in Scans, CreateSecret(p) PROVE TaskType'
      BY <1>4 DEF CreateSecret, Fault, TaskGoTo, TaskReturns, mainVars, boundVars, ApiType, TaskType, SendingType, Mine, Handlers
<1>5. ASSUME NEW p \in Scans, CreateJob(p) PROVE TaskType'
      BY <1>5 DEF CreateJob, Fault, TaskGoTo, TaskReturns, mainVars, boundVars, ApiType, TaskType, SendingType, Mine, Handlers
<1>6. ASSUME NEW p \in Scans, SetOwnerReference(p) PROVE TaskType'
      BY <1>6 DEF SetOwnerReference, Fault, TaskGoTo, TaskReturns, mainVars, boundVars, ApiType, TaskType, SendingType, Mine, Handlers
<1>7. ASSUME NEW p \in Scans, StartInformers(p) PROVE TaskType'
      BY <1>7 DEF StartInformers, TaskGoTo, apiVars, mainVars, boundVars, ApiType, TaskType, SendingType, Mine, Handlers
<1>8. ASSUME NEW p \in Scans, Receive(p) PROVE TaskType'
      BY <1>8 DEF Receive, TaskReturns, apiVars, mainVars, boundVars, ApiType, TaskType, SendingType, Mine, Handlers
<1>9. ASSUME NEW p \in Scans, JobUpdate(p) PROVE TaskType'
      BY <1>9 DEF JobUpdate, Call, apiVars, mainVars, boundVars, ApiType, TaskType, SendingType, Mine, Handlers
<1>10. ASSUME NEW p \in Scans, JobGone(p) PROVE TaskType'
      BY <1>10 DEF JobGone, apiVars, mainVars, boundVars, ApiType, TaskType, SendingType, Mine, Handlers
<1>11. ASSUME NEW p \in Scans, JobResync(p) PROVE TaskType'
      BY <1>11 DEF JobResync, Call, apiVars, mainVars, boundVars, ApiType, TaskType, SendingType, Mine, Handlers
<1>12. ASSUME NEW p \in Scans, Start(p) PROVE TaskType'
      BY <1>12 DEF Start, Fault, apiVars, boundVars, ApiType, TaskType, SendingType, Mine, Handlers
<1>13. ASSUME NEW p \in Scans, RunReturns(p) PROVE TaskType'
      BY <1>13 DEF RunReturns, apiVars, boundVars, ApiType, TaskType, SendingType, Mine, Handlers
<1>14. ASSUME NEW p \in Scans, GetLogs(p) PROVE TaskType'
      BY <1>14 DEF GetLogs, Fault, apiVars, taskVars, boundVars, ApiType, TaskType, SendingType, Mine, Handlers
<1>15. ASSUME NEW p \in Scans, DeleteJob(p) PROVE TaskType'
      BY <1>15 DEF DeleteJob, Fault, JobDeleted, taskVars, boundVars, ApiType, TaskType, SendingType, Mine, Handlers
<1>16. ASSUME NEW p \in Scans, WriteReport(p) PROVE TaskType'
      BY <1>16 DEF WriteReport, Fault, taskVars, boundVars, ApiType, TaskType, SendingType, Mine, Handlers
<1>17. ASSUME NEW p \in Scans, RunTimesOut(p) PROVE TaskType'
      BY <1>17 DEF RunTimesOut, apiVars, taskVars, boundVars, ApiType, TaskType, SendingType, Mine, Handlers
<1>18. ASSUME NEW p \in Scans, WarningEvent(p) PROVE TaskType'
      BY <1>18 DEF WarningEvent, Fault, Call, apiVars, mainVars, ApiType, TaskType, SendingType, Mine, Handlers
<1>19. ASSUME NEW p \in Scans, Interrupt(p) PROVE TaskType'
      BY <1>19 DEF Interrupt, Fault, apiVars, ApiType, TaskType, SendingType, Mine, Handlers
<1>20. CASE UNCHANGED vars
      BY <1>20 DEF vars, ApiType, TaskType, SendingType, Mine, Handlers
<1> QED
  BY <1>1, <1>2, <1>3, <1>4, <1>5, <1>6, <1>7, <1>8, <1>9, <1>10,
     <1>11, <1>12, <1>13, <1>14, <1>15, <1>16, <1>17, <1>18, <1>19, <1>20
  DEF Next, TaskNext, InformerNext, MainNext

\* Handlers send errors.
LEMMA SendingStep ==
  ASSUME ApiType, TaskType, SendingType, [Next]_vars
  PROVE  SendingType'
<1> USE ConstantsAssumption
<1>1. ASSUME NEW t \in Targets, FinishJob(t) PROVE SendingType'
      BY <1>1 DEF FinishJob, Fault, mainVars, taskVars, boundVars, ApiType, TaskType, SendingType, ErrorOf, Handlers
<1>2. ASSUME NEW t \in Targets, UserDeletesJob(t) PROVE SendingType'
      BY <1>2 DEF UserDeletesJob, JobDeleted, mainVars, taskVars, ApiType, TaskType, SendingType, ErrorOf, Handlers
<1>3. ASSUME NEW t \in Targets, CollectSecret(t) PROVE SendingType'
      BY <1>3 DEF CollectSecret, mainVars, taskVars, boundVars, ApiType, TaskType, SendingType, ErrorOf, Handlers
<1>4. ASSUME NEW p \in Scans, CreateSecret(p) PROVE SendingType'
      BY <1>4 DEF CreateSecret, Fault, TaskGoTo, TaskReturns, mainVars, boundVars, ApiType, TaskType, SendingType, ErrorOf, Handlers
<1>5. ASSUME NEW p \in Scans, CreateJob(p) PROVE SendingType'
      BY <1>5 DEF CreateJob, Fault, TaskGoTo, TaskReturns, mainVars, boundVars, ApiType, TaskType, SendingType, ErrorOf, Handlers
<1>6. ASSUME NEW p \in Scans, SetOwnerReference(p) PROVE SendingType'
      BY <1>6 DEF SetOwnerReference, Fault, TaskGoTo, TaskReturns, mainVars, boundVars, ApiType, TaskType, SendingType, ErrorOf, Handlers
<1>7. ASSUME NEW p \in Scans, StartInformers(p) PROVE SendingType'
      BY <1>7 DEF StartInformers, TaskGoTo, apiVars, mainVars, boundVars, ApiType, TaskType, SendingType, ErrorOf, Handlers
<1>8. ASSUME NEW p \in Scans, Receive(p) PROVE SendingType'
      BY <1>8 DEF Receive, TaskReturns, apiVars, mainVars, boundVars, ApiType, TaskType, SendingType, ErrorOf, Handlers
<1>9. ASSUME NEW p \in Scans, JobUpdate(p) PROVE SendingType'
      BY <1>9 DEF JobUpdate, Call, apiVars, mainVars, boundVars, ApiType, TaskType, SendingType, ErrorOf, Handlers
<1>10. ASSUME NEW p \in Scans, JobGone(p) PROVE SendingType'
      BY <1>10 DEF JobGone, apiVars, mainVars, boundVars, ApiType, TaskType, SendingType, ErrorOf, Handlers
<1>11. ASSUME NEW p \in Scans, JobResync(p) PROVE SendingType'
      BY <1>11 DEF JobResync, Call, apiVars, mainVars, boundVars, ApiType, TaskType, SendingType, ErrorOf, Handlers
<1>12. ASSUME NEW p \in Scans, Start(p) PROVE SendingType'
      BY <1>12 DEF Start, Fault, apiVars, boundVars, ApiType, TaskType, SendingType, ErrorOf, Handlers
<1>13. ASSUME NEW p \in Scans, RunReturns(p) PROVE SendingType'
      BY <1>13 DEF RunReturns, apiVars, boundVars, ApiType, TaskType, SendingType, ErrorOf, Handlers
<1>14. ASSUME NEW p \in Scans, GetLogs(p) PROVE SendingType'
      BY <1>14 DEF GetLogs, Fault, apiVars, taskVars, boundVars, ApiType, TaskType, SendingType, ErrorOf, Handlers
<1>15. ASSUME NEW p \in Scans, DeleteJob(p) PROVE SendingType'
      BY <1>15 DEF DeleteJob, Fault, JobDeleted, taskVars, boundVars, ApiType, TaskType, SendingType, ErrorOf, Handlers
<1>16. ASSUME NEW p \in Scans, WriteReport(p) PROVE SendingType'
      BY <1>16 DEF WriteReport, Fault, taskVars, boundVars, ApiType, TaskType, SendingType, ErrorOf, Handlers
<1>17. ASSUME NEW p \in Scans, RunTimesOut(p) PROVE SendingType'
      BY <1>17 DEF RunTimesOut, apiVars, taskVars, boundVars, ApiType, TaskType, SendingType, ErrorOf, Handlers
<1>18. ASSUME NEW p \in Scans, WarningEvent(p) PROVE SendingType'
      BY <1>18 DEF WarningEvent, Fault, Call, apiVars, mainVars, ApiType, TaskType, SendingType, ErrorOf, Handlers
<1>19. ASSUME NEW p \in Scans, Interrupt(p) PROVE SendingType'
      BY <1>19 DEF Interrupt, Fault, apiVars, ApiType, TaskType, SendingType, ErrorOf, Handlers
<1>20. CASE UNCHANGED vars
      BY <1>20 DEF vars, ApiType, TaskType, SendingType, ErrorOf, Handlers
<1> QED
  BY <1>1, <1>2, <1>3, <1>4, <1>5, <1>6, <1>7, <1>8, <1>9, <1>10,
     <1>11, <1>12, <1>13, <1>14, <1>15, <1>16, <1>17, <1>18, <1>19, <1>20
  DEF Next, TaskNext, InformerNext, MainNext

\* Faults and deletions are bounded.
LEMMA BoundStep ==
  ASSUME BoundType, [Next]_vars
  PROVE  BoundType'
<1> USE ConstantsAssumption
<1>1. ASSUME NEW t \in Targets, FinishJob(t) PROVE BoundType'
      BY <1>1 DEF FinishJob, Fault, mainVars, taskVars, boundVars, BoundType
<1>2. ASSUME NEW t \in Targets, UserDeletesJob(t) PROVE BoundType'
      BY <1>2 DEF UserDeletesJob, JobDeleted, mainVars, taskVars, BoundType
<1>3. ASSUME NEW t \in Targets, CollectSecret(t) PROVE BoundType'
      BY <1>3 DEF CollectSecret, mainVars, taskVars, boundVars, BoundType
<1>4. ASSUME NEW p \in Scans, CreateSecret(p) PROVE BoundType'
      BY <1>4 DEF CreateSecret, Fault, TaskGoTo, TaskReturns, mainVars, boundVars, BoundType
<1>5. ASSUME NEW p \in Scans, CreateJob(p) PROVE BoundType'
      BY <1>5 DEF CreateJob, Fault, TaskGoTo, TaskReturns, mainVars, boundVars, BoundType
<1>6. ASSUME NEW p \in Scans, SetOwnerReference(p) PROVE BoundType'
      BY <1>6 DEF SetOwnerReference, Fault, TaskGoTo, TaskReturns, mainVars, boundVars, BoundType
<1>7. ASSUME NEW p \in Scans, StartInformers(p) PROVE BoundType'
      BY <1>7 DEF StartInformers, TaskGoTo, apiVars, mainVars, boundVars, BoundType
<1>8. ASSUME NEW p \in Scans, Receive(p) PROVE BoundType'
      BY <1>8 DEF Receive, TaskReturns, apiVars, mainVars, boundVars, BoundType
<1>9. ASSUME NEW p \in Scans, JobUpdate(p) PROVE BoundType'
      BY <1>9 DEF JobUpdate, Call, apiVars, mainVars, boundVars, BoundType
<1>10. ASSUME NEW p \in Scans, JobGone(p) PROVE BoundType'
      BY <1>10 DEF JobGone, apiVars, mainVars, boundVars, BoundType
<1>11. ASSUME NEW p \in Scans, JobResync(p) PROVE BoundType'
      BY <1>11 DEF JobResync, Call, apiVars, mainVars, boundVars, BoundType
<1>12. ASSUME NEW p \in Scans, Start(p) PROVE BoundType'
      BY <1>12 DEF Start, Fault, apiVars, boundVars, BoundType
<1>13. ASSUME NEW p \in Scans, RunReturns(p) PROVE BoundType'
      BY <1>13 DEF RunReturns, apiVars, boundVars, BoundType
<1>14. ASSUME NEW p \in Scans, GetLogs(p) PROVE BoundType'
      BY <1>14 DEF GetLogs, Fault, apiVars, taskVars, boundVars, BoundType
<1>15. ASSUME NEW p \in Scans, DeleteJob(p) PROVE BoundType'
      BY <1>15 DEF DeleteJob, Fault, JobDeleted, taskVars, boundVars, BoundType
<1>16. ASSUME NEW p \in Scans, WriteReport(p) PROVE BoundType'
      BY <1>16 DEF WriteReport, Fault, taskVars, boundVars, BoundType
<1>17. ASSUME NEW p \in Scans, RunTimesOut(p) PROVE BoundType'
      BY <1>17 DEF RunTimesOut, apiVars, taskVars, boundVars, BoundType
<1>18. ASSUME NEW p \in Scans, WarningEvent(p) PROVE BoundType'
      BY <1>18 DEF WarningEvent, Fault, Call, apiVars, mainVars, BoundType
<1>19. ASSUME NEW p \in Scans, Interrupt(p) PROVE BoundType'
      BY <1>19 DEF Interrupt, Fault, apiVars, BoundType
<1>20. CASE UNCHANGED vars
      BY <1>20 DEF vars, BoundType
<1> QED
  BY <1>1, <1>2, <1>3, <1>4, <1>5, <1>6, <1>7, <1>8, <1>9, <1>10,
     <1>11, <1>12, <1>13, <1>14, <1>15, <1>16, <1>17, <1>18, <1>19, <1>20
  DEF Next, TaskNext, InformerNext, MainNext

\* Every action keeps the types.
LEMMA TypeStep == TypeOK /\ [Next]_vars => TypeOK'
<1> SUFFICES ASSUME TypeOK, [Next]_vars PROVE TypeOK'
    OBVIOUS
<1>1. ApiType /\ CommandType /\ TaskType /\ SendingType /\ BoundType
      BY TypeParts
<1>2. ApiType' /\ CommandType' /\ TaskType' /\ SendingType' /\ BoundType'
      BY <1>1, ApiStep, CommandStep, TaskStep, SendingStep, BoundStep
<1> QED BY <1>2 DEF TypeOK, ApiType, CommandType, TaskType, SendingType, BoundType

-----------------------------------------------------------------------------
\* No action moves a command without its outcome.
LEMMA ProgressStep ==
  ASSUME TypeOK, Progress, [Next]_vars
  PROVE  Progress'
<1> USE DEF TypeOK, Progress, ProgressOf, Busy
<1>1. ASSUME NEW t \in Targets, FinishJob(t) PROVE Progress'
      BY <1>1 DEF FinishJob, Fault, mainVars, taskVars, boundVars
<1>2. ASSUME NEW t \in Targets, UserDeletesJob(t) PROVE Progress'
      BY <1>2 DEF UserDeletesJob, JobDeleted, mainVars, taskVars
<1>3. ASSUME NEW t \in Targets, CollectSecret(t) PROVE Progress'
      BY <1>3 DEF CollectSecret, mainVars, taskVars, boundVars
<1>4. ASSUME NEW p \in Scans, CreateSecret(p) PROVE Progress'
      BY <1>4 DEF CreateSecret, Fault, TaskGoTo, TaskReturns, mainVars, boundVars
<1>5. ASSUME NEW p \in Scans, CreateJob(p) PROVE Progress'
      BY <1>5 DEF CreateJob, Fault, TaskGoTo, TaskReturns, mainVars, boundVars
<1>6. ASSUME NEW p \in Scans, SetOwnerReference(p) PROVE Progress'
      BY <1>6 DEF SetOwnerReference, Fault, TaskGoTo, TaskReturns, mainVars, boundVars
<1>7. ASSUME NEW p \in Scans, StartInformers(p) PROVE Progress'
      BY <1>7 DEF StartInformers, TaskGoTo, apiVars, mainVars, boundVars
<1>8. ASSUME NEW p \in Scans, Receive(p) PROVE Progress'
      BY <1>8 DEF Receive, TaskReturns, apiVars, mainVars, boundVars
<1>9. ASSUME NEW p \in Scans, JobUpdate(p) PROVE Progress'
      BY <1>9 DEF JobUpdate, Call, apiVars, mainVars, boundVars
<1>10. ASSUME NEW p \in Scans, JobGone(p) PROVE Progress'
      BY <1>10 DEF JobGone, apiVars, mainVars, boundVars
<1>11. ASSUME NEW p \in Scans, JobResync(p) PROVE Progress'
      BY <1>11 DEF JobResync, Call, apiVars, mainVars, boundVars
<1>12. ASSUME NEW p \in Scans, Start(p) PROVE Progress'
      BY <1>12 DEF Start, Fault, apiVars, boundVars
<1>13. ASSUME NEW p \in Scans, RunReturns(p) PROVE Progress'
      BY <1>13 DEF RunReturns, apiVars, boundVars
<1>14. ASSUME NEW p \in Scans, GetLogs(p) PROVE Progress'
      BY <1>14 DEF GetLogs, Fault, apiVars, taskVars, boundVars
<1>15. ASSUME NEW p \in Scans, DeleteJob(p) PROVE Progress'
      BY <1>15 DEF DeleteJob, Fault, JobDeleted, taskVars, boundVars
<1>16. ASSUME NEW p \in Scans, WriteReport(p) PROVE Progress'
      BY <1>16 DEF WriteReport, Fault, taskVars, boundVars
<1>17. ASSUME NEW p \in Scans, RunTimesOut(p) PROVE Progress'
      BY <1>17 DEF RunTimesOut, apiVars, taskVars, boundVars
<1>18. ASSUME NEW p \in Scans, WarningEvent(p) PROVE Progress'
      BY <1>18 DEF WarningEvent, Fault, Call, apiVars, mainVars
<1>19. ASSUME NEW p \in Scans, Interrupt(p) PROVE Progress'
      BY <1>19 DEF Interrupt, Fault, apiVars
<1>20. CASE UNCHANGED vars
      BY <1>20 DEF vars
<1> QED
  BY <1>1, <1>2, <1>3, <1>4, <1>5, <1>6, <1>7, <1>8, <1>9, <1>10,
     <1>11, <1>12, <1>13, <1>14, <1>15, <1>16, <1>17, <1>18, <1>19, <1>20
  DEF Next, TaskNext, InformerNext, MainNext

\* The end of a job changes neither its creator nor a condition that it has.
LEMMA FinishKeeps ==
  ASSUME TypeOK, NEW t \in Targets, FinishJob(t), NEW u \in Targets
  PROVE  /\ job'[u] = NoJob <=> job[u] = NoJob
         /\ job[u] # NoJob => job'[u].by = job[u].by
         /\ job[u] # NoJob /\ job[u].cond # "none" => job'[u] = job[u]
<1>1. CASE u # t
      BY <1>1 DEF FinishJob, TypeOK
<1>2. CASE u = t
  <2>1. job[t] \in [by : Scans, cond : {"none", "complete", "failed"}] /\ job[t] # NoJob /\ job[t].cond = "none"
        BY DEF FinishJob, TypeOK
  <2>2. PICK c \in {"complete", "failed"} : job' = [job EXCEPT ![t].cond = c]
        BY DEF FinishJob
  <2>3. job'[t] = [job[t] EXCEPT !.cond = c]
        BY <2>2 DEF TypeOK
  <2>4. job'[t].by = job[t].by /\ job'[t] \in [by : Scans, cond : {"none", "complete", "failed"}]
        BY <2>1, <2>3
  <2> QED BY <1>2, <2>1, <2>4, ConstantsAssumption
<1> QED BY <1>1, <1>2

\* Jobs are created for the target of the scan.
LEMMA OfTargetStep ==
  ASSUME TypeOK, OfTarget, [Next]_vars
  PROVE  OfTarget'
<1> USE ConstantsAssumption DEF TypeOK, OfTarget
<1>1. ASSUME NEW t \in Targets, FinishJob(t) PROVE OfTarget'
  <2>1. \A u \in Targets : job'[u] # NoJob => job[u] # NoJob /\ job'[u].by = job[u].by
        BY <1>1, FinishKeeps
  <2> QED BY <2>1 DEF OfTarget
<1>2. ASSUME NEW t \in Targets, UserDeletesJob(t) PROVE OfTarget'
      BY <1>2 DEF UserDeletesJob, JobDeleted, mainVars, taskVars
<1>3. ASSUME NEW t \in Targets, CollectSecret(t) PROVE OfTarget'
      BY <1>3 DEF CollectSecret, mainVars, taskVars, boundVars
<1>4. ASSUME NEW p \in Scans, CreateSecret(p) PROVE OfTarget'
      BY <1>4 DEF CreateSecret, Fault, TaskGoTo, TaskReturns, mainVars, boundVars
<1>5. ASSUME NEW p \in Scans, CreateJob(p) PROVE OfTarget'
      BY <1>5 DEF CreateJob, Fault, TaskGoTo, TaskReturns, mainVars, boundVars
<1>6. ASSUME NEW p \in Scans, SetOwnerReference(p) PROVE OfTarget'
      BY <1>6 DEF SetOwnerReference, Fault, TaskGoTo, TaskReturns, mainVars, boundVars
<1>7. ASSUME NEW p \in Scans, StartInformers(p) PROVE OfTarget'
      BY <1>7 DEF StartInformers, TaskGoTo, apiVars, mainVars, boundVars
<1>8. ASSUME NEW p \in Scans, Receive(p) PROVE OfTarget'
      BY <1>8 DEF Receive, TaskReturns, apiVars, mainVars, boundVars
<1>9. ASSUME NEW p \in Scans, JobUpdate(p) PROVE OfTarget'
      BY <1>9 DEF JobUpdate, Call, apiVars, mainVars, boundVars
<1>10. ASSUME NEW p \in Scans, JobGone(p) PROVE OfTarget'
      BY <1>10 DEF JobGone, apiVars, mainVars, boundVars
<1>11. ASSUME NEW p \in Scans, JobResync(p) PROVE OfTarget'
      BY <1>11 DEF JobResync, Call, apiVars, mainVars, boundVars
<1>12. ASSUME NEW p \in Scans, Start(p) PROVE OfTarget'
      BY <1>12 DEF Start, Fault, apiVars, boundVars
<1>13. ASSUME NEW p \in Scans, RunReturns(p) PROVE OfTarget'
      BY <1>13 DEF RunReturns, apiVars, boundVars
<1>14. ASSUME NEW p \in Scans, GetLogs(p) PROVE OfTarget'
      BY <1>14 DEF GetLogs, Fault, apiVars, taskVars, boundVars
<1>15. ASSUME NEW p \in Scans, DeleteJob(p) PROVE OfTarget'
      BY <1>15 DEF DeleteJob, Fault, JobDeleted, taskVars, boundVars
<1>16. ASSUME NEW p \in Scans, WriteReport(p) PROVE OfTarget'
      BY <1>16 DEF WriteReport, Fault, taskVars, boundVars
<1>17. ASSUME NEW p \in Scans, RunTimesOut(p) PROVE OfTarget'
      BY <1>17 DEF RunTimesOut, apiVars, taskVars, boundVars
<1>18. ASSUME NEW p \in Scans, WarningEvent(p) PROVE OfTarget'
      BY <1>18 DEF WarningEvent, Fault, Call, apiVars, mainVars
<1>19. ASSUME NEW p \in Scans, Interrupt(p) PROVE OfTarget'
      BY <1>19 DEF Interrupt, Fault, apiVars
<1>20. CASE UNCHANGED vars
      BY <1>20 DEF vars
<1> QED
  BY <1>1, <1>2, <1>3, <1>4, <1>5, <1>6, <1>7, <1>8, <1>9, <1>10,
     <1>11, <1>12, <1>13, <1>14, <1>15, <1>16, <1>17, <1>18, <1>19, <1>20
  DEF Next, TaskNext, InformerNext, MainNext

\* No scan but the one that created the secret of a target goes on to create its job.
LEMMA SecretsStep ==
  ASSUME TypeOK, JobHasSecret, Secrets, [Next]_vars
  PROVE  (JobHasSecret /\ Secrets)'
<1> USE ConstantsAssumption DEF TypeOK, JobHasSecret, Secrets, SecretOf, Mine
<1>1. ASSUME NEW t \in Targets, FinishJob(t) PROVE (JobHasSecret /\ Secrets)'
  <2>1. \A u \in Targets : (job'[u] = NoJob <=> job[u] = NoJob) /\ (job[u] # NoJob => job'[u].by = job[u].by)
        BY <1>1, FinishKeeps
  <2> QED BY <1>1, <2>1 DEF FinishJob, mainVars, taskVars
<1>2. ASSUME NEW t \in Targets, UserDeletesJob(t) PROVE (JobHasSecret /\ Secrets)'
      BY <1>2 DEF UserDeletesJob, JobDeleted, mainVars, taskVars
<1>3. ASSUME NEW t \in Targets, CollectSecret(t) PROVE (JobHasSecret /\ Secrets)'
      BY <1>3 DEF CollectSecret, mainVars, taskVars, boundVars
<1>4. ASSUME NEW p \in Scans, CreateSecret(p) PROVE (JobHasSecret /\ Secrets)'
  <2> DEFINE t == TargetOf[p]
  <2>1. t \in Targets /\ task[p] = "secret" /\ UNCHANGED job
        BY <1>4 DEF CreateSecret
  <2>2. CASE /\ secret[t] = "none" /\ secret' = [secret EXCEPT ![t] = "orphan"]
             /\ task' = [task EXCEPT ![p] = "job"]
    <3>1. \A q \in Scans : TargetOf[q] = t /\ t \in Private => task[q] \notin {"job", "owner"}
          BY <2>2
    <3>2. t \in Private => job[t] = NoJob
          BY <2>2
    <3> HIDE DEF t
    <3>3. JobHasSecret'
          BY <2>1, <2>2
    <3>4. ASSUME NEW q \in Scans, TargetOf[q] \in Private, task'[q] \in {"job", "owner"} PROVE SecretOf(q)'
      <4>1. CASE TargetOf[q] = t
        <5>1. q = p
              BY <2>2, <3>1, <3>4, <4>1
        <5> QED BY <2>1, <2>2, <3>1, <3>2, <4>1, <5>1 DEF t
      <4>2. CASE TargetOf[q] # t
        <5>1. q # p /\ task'[q] = task[q] /\ secret'[TargetOf[q]] = secret[TargetOf[q]]
              BY <2>2, <4>2 DEF t
        <5> QED BY <2>1, <2>2, <3>4, <4>2, <5>1 DEF t
      <4> QED BY <4>1, <4>2
    <3>5. Secrets'
          BY <3>4
    <3> QED BY <3>3, <3>5
  <2>3. CASE UNCHANGED secret /\ task' = [task EXCEPT ![p] = "send"]
        BY <2>1, <2>3
  <2> QED BY <1>4, <2>2, <2>3 DEF CreateSecret, TaskGoTo, TaskReturns
<1>5. ASSUME NEW p \in Scans, CreateJob(p) PROVE (JobHasSecret /\ Secrets)'
      BY <1>5 DEF CreateJob, Fault, TaskGoTo, TaskReturns, mainVars, boundVars
<1>6. ASSUME NEW p \in Scans, SetOwnerReference(p) PROVE (JobHasSecret /\ Secrets)'
  <2> DEFINE t == TargetOf[p]
  <2>1. t \in Targets /\ task[p] = "owner" /\ UNCHANGED job
        BY <1>6 DEF SetOwnerReference
  <2>2. CASE /\ secret' = [secret EXCEPT ![t] = IF t \notin Private THEN @
                                               ELSE IF Mine(p) THEN "owned" ELSE "garbage"]
             /\ task' = [task EXCEPT ![p] = "informers"]
    <3>1. JobHasSecret'
          BY <2>1, <2>2
    <3>2. ASSUME NEW q \in Scans, TargetOf[q] \in Private, task'[q] \in {"job", "owner"} PROVE SecretOf(q)'
      <4>1. q # p /\ task[q] \in {"job", "owner"}
            BY <2>2, <3>2
      <4>2. TargetOf[q] # t
            BY <2>1, <3>2, <4>1
      <4> QED BY <2>1, <2>2, <3>2, <4>1, <4>2
    <3>3. Secrets'
          BY <3>2
    <3> QED BY <3>1, <3>3
  <2>3. CASE UNCHANGED secret /\ task' = [task EXCEPT ![p] = "send"]
        BY <2>1, <2>3
  <2> QED BY <1>6, <2>2, <2>3 DEF SetOwnerReference, TaskGoTo, TaskReturns
<1>7. ASSUME NEW p \in Scans, StartInformers(p) PROVE (JobHasSecret /\ Secrets)'
      BY <1>7 DEF StartInformers, TaskGoTo, apiVars, mainVars, boundVars
<1>8. ASSUME NEW p \in Scans, Receive(p) PROVE (JobHasSecret /\ Secrets)'
      BY <1>8 DEF Receive, TaskReturns, apiVars, mainVars, boundVars
<1>9. ASSUME NEW p \in Scans, JobUpdate(p) PROVE (JobHasSecret /\ Secrets)'
      BY <1>9 DEF JobUpdate, Call, apiVars, mainVars, boundVars
<1>10. ASSUME NEW p \in Scans, JobGone(p) PROVE (JobHasSecret /\ Secrets)'
      BY <1>10 DEF JobGone, apiVars, mainVars, boundVars
<1>11. ASSUME NEW p \in Scans, JobResync(p) PROVE (JobHasSecret /\ Secrets)'
      BY <1>11 DEF JobResync, Call, apiVars, mainVars, boundVars
<1>12. ASSUME NEW p \in Scans, Start(p) PROVE (JobHasSecret /\ Secrets)'
      BY <1>12 DEF Start, Fault, apiVars, boundVars
<1>13. ASSUME NEW p \in Scans, RunReturns(p) PROVE (JobHasSecret /\ Secrets)'
      BY <1>13 DEF RunReturns, apiVars, boundVars
<1>14. ASSUME NEW p \in Scans, GetLogs(p) PROVE (JobHasSecret /\ Secrets)'
      BY <1>14 DEF GetLogs, Fault, apiVars, taskVars, boundVars
<1>15. ASSUME NEW p \in Scans, DeleteJob(p) PROVE (JobHasSecret /\ Secrets)'
      BY <1>15 DEF DeleteJob, Fault, JobDeleted, taskVars, boundVars
<1>16. ASSUME NEW p \in Scans, WriteReport(p) PROVE (JobHasSecret /\ Secrets)'
      BY <1>16 DEF WriteReport, Fault, taskVars, boundVars
<1>17. ASSUME NEW p \in Scans, RunTimesOut(p) PROVE (JobHasSecret /\ Secrets)'
      BY <1>17 DEF RunTimesOut, apiVars, taskVars, boundVars
<1>18. ASSUME NEW p \in Scans, WarningEvent(p) PROVE (JobHasSecret /\ Secrets)'
      BY <1>18 DEF WarningEvent, Fault, Call, apiVars, mainVars
<1>19. ASSUME NEW p \in Scans, Interrupt(p) PROVE (JobHasSecret /\ Secrets)'
      BY <1>19 DEF Interrupt, Fault, apiVars
<1>20. CASE UNCHANGED vars
      BY <1>20 DEF vars
<1> QED
  BY <1>1, <1>2, <1>3, <1>4, <1>5, <1>6, <1>7, <1>8, <1>9, <1>10,
     <1>11, <1>12, <1>13, <1>14, <1>15, <1>16, <1>17, <1>18, <1>19, <1>20
  DEF Next, TaskNext, InformerNext, MainNext

\* A job that its scan is still to read is deleted by nobody else.
LEMMA ResultsStep ==
  ASSUME TypeOK, Progress, Results, [Next]_vars
  PROVE  Results'
<1> USE ConstantsAssumption DEF TypeOK, Progress, ProgressOf, Busy, Results, ResultsOf, EndSeen, Mine, Handlers, ErrorOf
<1>1. ASSUME NEW t \in Targets, FinishJob(t) PROVE Results'
  <2> SUFFICES ASSUME userDeletes = 0, NEW p \in Scans PROVE ResultsOf(p)'
      BY <1>1 DEF FinishJob, boundVars, Fault
  <2>1. \A u \in Targets : /\ job'[u] = NoJob <=> job[u] = NoJob
                           /\ job[u] # NoJob => job'[u].by = job[u].by
                           /\ job[u] # NoJob /\ job[u].cond # "none" => job'[u] = job[u]
        BY <1>1, FinishKeeps
  <2>2. ResultsOf(p) /\ TargetOf[p] \in Targets
        OBVIOUS
  <2> QED BY <1>1, <2>1, <2>2 DEF FinishJob, mainVars, taskVars
<1>2. ASSUME NEW t \in Targets, UserDeletesJob(t) PROVE Results'
      BY <1>2 DEF UserDeletesJob, JobDeleted, mainVars, taskVars
<1>3. ASSUME NEW t \in Targets, CollectSecret(t) PROVE Results'
      BY <1>3 DEF CollectSecret, mainVars, taskVars, boundVars
<1>4. ASSUME NEW p \in Scans, CreateSecret(p) PROVE Results'
      BY <1>4 DEF CreateSecret, Fault, TaskGoTo, TaskReturns, mainVars, boundVars
<1>5. ASSUME NEW p \in Scans, CreateJob(p) PROVE Results'
      BY <1>5 DEF CreateJob, Fault, TaskGoTo, TaskReturns, mainVars, boundVars
<1>6. ASSUME NEW p \in Scans, SetOwnerReference(p) PROVE Results'
      BY <1>6 DEF SetOwnerReference, Fault, TaskGoTo, TaskReturns, mainVars, boundVars
<1>7. ASSUME NEW p \in Scans, StartInformers(p) PROVE Results'
      BY <1>7 DEF StartInformers, TaskGoTo, apiVars, mainVars, boundVars
<1>8. ASSUME NEW p \in Scans, Receive(p) PROVE Results'
      BY <1>8 DEF Receive, TaskReturns, apiVars, mainVars, boundVars
<1>9. ASSUME NEW p \in Scans, JobUpdate(p) PROVE Results'
      BY <1>9 DEF JobUpdate, Call, apiVars, mainVars, boundVars
<1>10. ASSUME NEW p \in Scans, JobGone(p) PROVE Results'
      BY <1>10 DEF JobGone, apiVars, mainVars, boundVars
<1>11. ASSUME NEW p \in Scans, JobResync(p) PROVE Results'
      BY <1>11 DEF JobResync, Call, apiVars, mainVars, boundVars
<1>12. ASSUME NEW p \in Scans, Start(p) PROVE Results'
      BY <1>12 DEF Start, Fault, apiVars, boundVars
<1>13. ASSUME NEW p \in Scans, RunReturns(p) PROVE Results'
      BY <1>13 DEF RunReturns, apiVars, boundVars
<1>14. ASSUME NEW p \in Scans, GetLogs(p) PROVE Results'
      BY <1>14 DEF GetLogs, Fault, apiVars, taskVars, boundVars
<1>15. ASSUME NEW p \in Scans, DeleteJob(p) PROVE Results'
      BY <1>15 DEF DeleteJob, Fault, JobDeleted, taskVars, boundVars
<1>16. ASSUME NEW p \in Scans, WriteReport(p) PROVE Results'
      BY <1>16 DEF WriteReport, Fault, taskVars, boundVars
<1>17. ASSUME NEW p \in Scans, RunTimesOut(p) PROVE Results'
      BY <1>17 DEF RunTimesOut, apiVars, taskVars, boundVars
<1>18. ASSUME NEW p \in Scans, WarningEvent(p) PROVE Results'
      BY <1>18 DEF WarningEvent, Fault, Call, apiVars, mainVars
<1>19. ASSUME NEW p \in Scans, Interrupt(p) PROVE Results'
      BY <1>19 DEF Interrupt, Fault, apiVars
<1>20. CASE UNCHANGED vars
      BY <1>20 DEF vars
<1> QED
  BY <1>1, <1>2, <1>3, <1>4, <1>5, <1>6, <1>7, <1>8, <1>9, <1>10,
     <1>11, <1>12, <1>13, <1>14, <1>15, <1>16, <1>17, <1>18, <1>19, <1>20
  DEF Next, TaskNext, InformerNext, MainNext

-----------------------------------------------------------------------------
(* CLIScan implements ExclusiveScan.  Creating a job takes the target, the   *)
(* deferred deletion releases it, a deletion by a user is meddling; reading  *)
(* the logs collects, or gives up, writing the report finishes, and errors,  *)
(* timeouts and interrupts give up or finish.  Everything else stutters.     *)

\* Scans that have not started map to pending ones, and all targets are free.
LEMMA RefinesInit == Init => Abstract!Init
BY DEF Init, Abstract!Init, Holder, Verdict, Meddled

\* The holder of a target changes only with its job.
LEMMA HolderFacts ==
  ASSUME TypeOK
  PROVE  /\ \A t \in Targets : Holder[t] = IF job[t] = NoJob THEN Nobody ELSE job[t].by
         /\ Holder \in [Targets -> Scans \cup {Nobody}]
         /\ \A p \in Scans : Verdict[p] = IF outcome[p] = "killed" THEN "error" ELSE outcome[p]
         /\ Verdict \in [Scans -> {"pending", "collected", "ok", "error"}]
<1>1. \A t \in Targets : job[t] # NoJob => job[t].by \in Scans
      BY DEF TypeOK
<1> QED BY <1>1 DEF TypeOK, Holder, Verdict

\* A command that ends with an error gives up, finishes, or had failed before.
LEMMA EndsWithError ==
  ASSUME TypeOK, Progress, NEW p \in Scans, NEW e \in {"error", "killed"},
         main[p] # "returned",
         outcome' = [outcome EXCEPT ![p] = e], UNCHANGED <<job, userDeletes>>
  PROVE  Abstract!GiveUp(p) \/ Abstract!Finish(p) \/ UNCHANGED <<Holder, Verdict, Meddled>>
<1>1. UNCHANGED <<Holder, Meddled>>
      BY DEF Holder, Meddled
<1>2. Verdict' = [Verdict EXCEPT ![p] = "error"]
      BY DEF Verdict, TypeOK
<1>3. outcome[p] \in {"pending", "collected", "error"} /\ Verdict[p] = outcome[p]
      BY DEF Verdict, TypeOK, Progress, ProgressOf
<1>4. CASE outcome[p] = "pending"
      BY <1>1, <1>2, <1>3, <1>4 DEF Abstract!GiveUp
<1>5. CASE outcome[p] = "collected"
      BY <1>1, <1>2, <1>3, <1>5 DEF Abstract!Finish
<1>6. CASE outcome[p] = "error"
  <2>1. Verdict' = Verdict
        BY <1>2, <1>3, <1>6 DEF Verdict
  <2> QED BY <1>1, <2>1
<1> QED BY <1>3, <1>4, <1>5, <1>6

\* The deletion of the job of t frees t.
LEMMA DeletionFrees ==
  ASSUME TypeOK, NEW t \in Targets, JobDeleted(t)
  PROVE  Holder' = [Holder EXCEPT ![t] = Nobody]
BY DEF TypeOK, JobDeleted, Holder

\* Every step of the scans is a step of the exclusive scan, or none.
LEMMA RefinesNext ==
  ASSUME IInv, [Next]_vars
  PROVE  [Abstract!Next]_<<Holder, Verdict, Meddled>>
<1> USE DEF IInv
<1> DEFINE Still == UNCHANGED <<Holder, Verdict, Meddled>>
<1>0. UNCHANGED <<job, outcome, userDeletes>> => Still
      BY DEF Holder, Verdict, Meddled
<1>1. ASSUME NEW t \in Targets, FinishJob(t) PROVE Still
  <2>1. \A u \in Targets : (job'[u] = NoJob <=> job[u] = NoJob) /\ (job[u] # NoJob => job'[u].by = job[u].by)
        BY <1>1, FinishKeeps
  <2>2. Holder' = Holder
        BY <2>1 DEF Holder
  <2> QED BY <1>1, <2>2 DEF FinishJob, Fault, boundVars, mainVars, Verdict, Meddled
<1>2. ASSUME NEW t \in Targets, UserDeletesJob(t) PROVE Abstract!Meddle(t)
  <2>1. Holder' = [Holder EXCEPT ![t] = Nobody]
        BY <1>2, DeletionFrees DEF UserDeletesJob
  <2>2. Meddled' = TRUE
        BY <1>2 DEF UserDeletesJob, Meddled, TypeOK
  <2>3. UNCHANGED Verdict
        BY <1>2 DEF UserDeletesJob, mainVars, Verdict
  <2> QED BY <2>1, <2>2, <2>3 DEF Abstract!Meddle
<1>3. ASSUME NEW t \in Targets, CollectSecret(t) PROVE Still
      BY <1>0, <1>3 DEF CollectSecret, mainVars, boundVars
<1>4. ASSUME NEW p \in Scans, CreateSecret(p) \/ SetOwnerReference(p) \/ StartInformers(p) \/ Receive(p)
      PROVE  Still
      BY <1>0, <1>4 DEF CreateSecret, SetOwnerReference, StartInformers, Receive, Fault, mainVars, boundVars, apiVars
<1>5. ASSUME NEW p \in Scans, CreateJob(p) PROVE Abstract!Take(p) \/ Still
  <2> DEFINE t == TargetOf[p]
  <2>1. t \in Targets
        BY ConstantsAssumption
  <2>2. CASE job[t] = NoJob /\ job' = [job EXCEPT ![t] = [by |-> p, cond |-> "none"]]
    <3>1. Holder[t] = Nobody
          BY <2>1, <2>2 DEF Holder
    <3>2. Holder' = [Holder EXCEPT ![t] = p]
      <4>1. job'[t].by = p /\ job'[t] # NoJob
            BY <2>1, <2>2, ConstantsAssumption DEF TypeOK
      <4>2. \A u \in Targets : u # t => job'[u] = job[u]
            BY <2>2 DEF TypeOK
      <4> QED BY <2>1, <4>1, <4>2 DEF Holder
    <3>3. outcome[p] \in {"pending", "error"} /\ Verdict[p] = outcome[p]
          BY <1>5 DEF CreateJob, Progress, ProgressOf, Busy, TypeOK, Verdict
    <3>4. UNCHANGED <<Verdict, Meddled>>
          BY <1>5 DEF CreateJob, Fault, mainVars, boundVars, Verdict, Meddled
    <3> QED BY <3>1, <3>2, <3>3, <3>4 DEF Abstract!Take
  <2>3. CASE UNCHANGED job
        BY <1>0, <1>5, <2>3 DEF CreateJob, Fault, mainVars, boundVars
  <2> QED BY <1>5, <2>2, <2>3 DEF CreateJob
<1>6. ASSUME NEW p \in Scans, JobUpdate(p) \/ JobGone(p) \/ JobResync(p) \/ WarningEvent(p)
      PROVE  Still
      BY <1>0, <1>6 DEF JobUpdate, JobGone, JobResync, WarningEvent, Call, Fault, mainVars, boundVars, apiVars
<1>7. ASSUME NEW p \in Scans, Start(p) PROVE Abstract!GiveUp(p) \/ Abstract!Finish(p) \/ Still
  <2>1. CASE UNCHANGED outcome
        BY <1>0, <1>7, <2>1 DEF Start, Fault, boundVars, apiVars
  <2>2. CASE outcome' = [outcome EXCEPT ![p] = "error"]
        BY <1>7, <2>2, EndsWithError DEF Start, Fault, boundVars, apiVars
  <2> QED BY <1>7, <2>1, <2>2 DEF Start
<1>8. ASSUME NEW p \in Scans, RunReturns(p) \/ RunTimesOut(p)
      PROVE  Abstract!GiveUp(p) \/ Abstract!Finish(p) \/ Still
  <2>1. CASE UNCHANGED outcome
        BY <1>0, <1>8, <2>1 DEF RunReturns, RunTimesOut, boundVars, apiVars
  <2>2. CASE outcome' = [outcome EXCEPT ![p] = "error"]
        BY <1>8, <2>2, EndsWithError DEF RunReturns, RunTimesOut, boundVars, apiVars
  <2> QED BY <1>8, <2>1, <2>2 DEF RunReturns, RunTimesOut
<1>9. ASSUME NEW p \in Scans, GetLogs(p)
      PROVE  Abstract!Collect(p) \/ Abstract!GiveUp(p) \/ Abstract!Finish(p) \/ Still
  <2>1. UNCHANGED <<job, userDeletes>> /\ main[p] = "logs"
        BY <1>9 DEF GetLogs, Fault, boundVars, apiVars
  <2>2. CASE outcome' = [outcome EXCEPT ![p] = "collected"]
    <3>1. UNCHANGED <<Holder, Meddled>>
          BY <2>1 DEF Holder, Meddled
    <3>2. outcome[p] = "pending" /\ Verdict[p] = "pending"
          BY <2>1 DEF Progress, ProgressOf, Verdict, TypeOK
    <3>3. Verdict' = [Verdict EXCEPT ![p] = "collected"]
          BY <2>2 DEF Verdict, TypeOK
    <3>4. Holder[TargetOf[p]] = p \/ Meddled
          BY <2>1, ConstantsAssumption DEF Results, ResultsOf, Mine, Holder, Meddled, TypeOK
    <3> QED BY <3>1, <3>2, <3>3, <3>4 DEF Abstract!Collect
  <2>3. CASE outcome' = [outcome EXCEPT ![p] = "error"]
        BY <2>1, <2>3, EndsWithError
  <2> QED BY <1>9, <2>2, <2>3 DEF GetLogs
<1>10. ASSUME NEW p \in Scans, DeleteJob(p)
       PROVE  Still \/ \E q \in Scans : Abstract!Release(q)
  <2> DEFINE t == TargetOf[p]
  <2>1. t \in Targets /\ UNCHANGED <<outcome, userDeletes>>
        BY <1>10, ConstantsAssumption DEF DeleteJob, Fault, boundVars
  <2>2. CASE JobDeleted(t) /\ job[t] # NoJob
    <3> DEFINE q == job[t].by
    <3>1. q \in Scans /\ TargetOf[q] = t
          BY <2>1, <2>2 DEF OfTarget, TypeOK
    <3>2. Holder[t] = q
          BY <2>1, <2>2 DEF Holder
    <3>3. Holder' = [Holder EXCEPT ![t] = Nobody]
          BY <2>1, <2>2, DeletionFrees
    <3>4. UNCHANGED <<Verdict, Meddled>>
          BY <2>1 DEF Verdict, Meddled
    <3> QED BY <3>1, <3>2, <3>3, <3>4 DEF Abstract!Release
  <2>3. CASE JobDeleted(t) /\ job[t] = NoJob
    <3>1. job' = job
          BY <2>1, <2>3 DEF JobDeleted, TypeOK
    <3> QED BY <1>0, <2>1, <3>1
  <2>4. CASE UNCHANGED job
        BY <1>0, <2>1, <2>4
  <2> QED BY <1>10, <2>2, <2>3, <2>4 DEF DeleteJob
<1>11. ASSUME NEW p \in Scans, WriteReport(p)
       PROVE  Abstract!GiveUp(p) \/ Abstract!Finish(p) \/ Still
  <2>1. UNCHANGED <<job, userDeletes>> /\ main[p] = "write"
        BY <1>11 DEF WriteReport, Fault, boundVars
  <2>2. CASE outcome' = [outcome EXCEPT ![p] = "ok"]
    <3>1. UNCHANGED <<Holder, Meddled>>
          BY <2>1 DEF Holder, Meddled
    <3>2. outcome[p] = "collected" /\ Verdict[p] = "collected"
          BY <2>1 DEF Progress, ProgressOf, Verdict, TypeOK
    <3>3. Verdict' = [Verdict EXCEPT ![p] = "ok"]
          BY <2>2 DEF Verdict, TypeOK
    <3> QED BY <3>1, <3>2, <3>3 DEF Abstract!Finish
  <2>3. CASE outcome' = [outcome EXCEPT ![p] = "error"]
        BY <2>1, <2>3, EndsWithError
  <2> QED BY <1>11, <2>2, <2>3 DEF WriteReport
<1>12. ASSUME NEW p \in Scans, Interrupt(p)
       PROVE  Abstract!GiveUp(p) \/ Abstract!Finish(p) \/ Still
       BY <1>12, EndsWithError DEF Interrupt, Fault, apiVars
<1>13. CASE UNCHANGED vars
       BY <1>0, <1>13 DEF vars
<1> QED
  BY <1>1, <1>2, <1>3, <1>4, <1>5, <1>6, <1>7, <1>8, <1>9, <1>10, <1>11, <1>12, <1>13
  DEF Next, TaskNext, InformerNext, MainNext, Abstract!Next

-----------------------------------------------------------------------------
\* Every step keeps the invariant.
LEMMA Inductive == Spec => []IInv
<1>1. IInv /\ [Next]_vars => IInv'
      BY TypeStep, ProgressStep, OfTargetStep, SecretsStep, ResultsStep DEF IInv
<1> QED BY InitIInv, <1>1, PTL DEF Spec

\* The state of commands, goroutines, informers and jobs keeps its type, for
\* every number of scans (runner.go, runnable_job.go).
THEOREM TypeCorrect == Spec => []TypeOK
<1>1. IInv => TypeOK
      BY DEF IInv
<1> QED BY Inductive, <1>1, PTL

\* No job of a private target is without its credentials, or runs with those of
\* another scan's job: runnableJob.Run treats an existing secret as an error.
THEOREM CredentialsStay == Spec => []JobHasSecret
<1>1. IInv => JobHasSecret
      BY DEF IInv
<1> QED BY Inductive, <1>1, PTL

\* Unless users delete jobs, Scanner.Scan reads the logs of a completed job that
\* it created itself, and what a successful command stored came from that job.
THEOREM OwnResultsOnly == Spec => []OwnResults
<1>1. IInv => OwnResults
      BY DEF IInv, OwnResults, Results, ResultsOf
<1> QED BY Inductive, <1>1, PTL

\* Scans of the same target exclude one another by the name of their job.
THEOREM Exclusive == Spec => ExclusiveAccess
<1>1. IInv /\ [Next]_vars => [Abstract!Next]_<<Holder, Verdict, Meddled>>
      BY RefinesNext
<1> QED BY RefinesInit, Inductive, <1>1, PTL DEF Spec, ExclusiveAccess, Abstract!Spec
=============================================================================
