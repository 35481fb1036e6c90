---------------------------- MODULE ExclusiveScan ----------------------------
(***************************************************************************)
(* What the command line scanners promise: scans of one target exclude one *)
(* another, and only a scan that had the target to itself ends well, as    *)
(* long as nobody meddles with the jobs.                                   *)
(***************************************************************************)
CONSTANTS Scans, Targets, TargetOf, Nobody

VARIABLES
  holder,   \* holder[t]: the scan that has target t to itself, or Nobody
  outcome,  \* outcome[p]: "pending", "collected" (the results are at hand),
            \* "ok" or "error"
  meddled   \* whether somebody else has released a target

Init ==
  /\ holder = [t \in Targets |-> Nobody]
  /\ outcome = [p \in Scans |-> "pending"]
  /\ meddled = FALSE

\* A scan that timed out may still take the target.
Take(p) ==
  /\ holder[TargetOf[p]] = Nobody
  /\ outcome[p] \in {"pending", "error"}
  /\ holder' = [holder EXCEPT ![TargetOf[p]] = p]
  /\ UNCHANGED <<outcome, meddled>>

\* The results are read, or the attempt to do so fails, while the target is held.
Collect(p) ==
  /\ holder[TargetOf[p]] = p \/ meddled
  /\ outcome[p] = "pending"
  /\ outcome' \in {[outcome EXCEPT ![p] = o] : o \in {"collected", "error"}}
  /\ UNCHANGED <<holder, meddled>>

Release(p) ==
  /\ holder[TargetOf[p]] = p
  /\ holder' = [holder EXCEPT ![TargetOf[p]] = Nobody]
  /\ UNCHANGED <<outcome, meddled>>

Finish(p) ==
  /\ outcome[p] = "collected"
  /\ outcome' \in {[outcome EXCEPT ![p] = o] : o \in {"ok", "error"}}
  /\ UNCHANGED <<holder, meddled>>

\* A scan gives up; the target may stay taken.
GiveUp(p) ==
  /\ outcome[p] = "pending"
  /\ outcome' = [outcome EXCEPT ![p] = "error"]
  /\ UNCHANGED <<holder, meddled>>

\* A user releases a target that a scan holds.
Meddle(t) ==
  /\ holder' = [holder EXCEPT ![t] = Nobody]
  /\ meddled' = TRUE
  /\ UNCHANGED outcome

Next ==
  \/ \E p \in Scans : Take(p) \/ Collect(p) \/ Release(p) \/ Finish(p) \/ GiveUp(p)
  \/ \E t \in Targets : Meddle(t)

Spec == Init /\ [][Next]_<<holder, outcome, meddled>>
=============================================================================
