---------------------------- MODULE ScanProtocol ----------------------------
(***************************************************************************)
(* What the controllers that scan with Kubernetes jobs have in common and  *)
(* promise of every target: vulnerability scans of workloads, audits of    *)
(* resources by a plugin, benchmarks of nodes.                             *)
(*                                                                         *)
(* A target has at most one scan.  Reports are stored only when a scan has *)
(* completed, and labelled as that scan; the contents of a report are not  *)
(* part of the protocol.  A scan is discarded only after one of the same   *)
(* target has ended and, unless users change things or something fails,    *)
(* only with the wanted reports stored.                                    *)
(***************************************************************************)
CONSTANTS
  Targets,
  Labels,     \* what identifies the version of a target that is scanned
  Parts,      \* a target has at most one report for each part
  PartsOf,    \* [Labels -> SUBSET Parts]
  NoReport

VARIABLES
  wanted,     \* the label of the current version of every target; not in
              \* Labels when the target is gone
  scan,       \* scan[t]: {}, or {<<label, condition>>} of the scan of t
  ended,      \* ended[t]: <<label, condition>> of the scans of t that have
              \* ended, as far as anyone can still act on them
  reports,    \* reports[t][p]: the label of the report on part p, or NoReport
  edited,     \* whether users have changed targets, scans or reports
  failed      \* whether a scan, a call or the operator has failed

Stored(t) ==
  wanted[t] \in Labels => \A p \in PartsOf[wanted[t]] : reports[t][p] = wanted[t]

Init ==
  /\ scan = [t \in Targets |-> {}]
  /\ ended = [t \in Targets |-> {}]
  /\ reports = [t \in Targets |-> [p \in Parts |-> NoReport]]
  /\ ~edited /\ ~failed

\* What has ended is never made up, but it may be forgotten.
Forgetting == \A t \in Targets : ended'[t] \subseteq ended[t]

\* As long as users change nothing, a target is only scanned as it is.
Submit(t, l) ==
  /\ scan[t] = {}
  /\ edited \/ l = wanted[t]
  /\ scan' = [scan EXCEPT ![t] = {<<l, "none">>}]
  /\ UNCHANGED <<wanted, ended, reports, edited>>

\* A scan ends; only a failure makes it fail, or that its target is gone.
End(t, l, cond) ==
  /\ scan[t] = {<<l, "none">>}
  /\ cond = "complete" \/ failed' \/ edited
  /\ scan' = [scan EXCEPT ![t] = {<<l, cond>>}]
  /\ ended' = [ended EXCEPT ![t] = ended[t] \cup {<<l, cond>>}]
  /\ UNCHANGED <<wanted, reports, edited>>

\* The label is that of a scan that completed; whose output is stored under it is
\* not said, as logs are found by the name of the job.
Store(t, p, l) ==
  /\ <<l, "complete">> \in ended[t]
  /\ p \in PartsOf[l]
  /\ reports' = [reports EXCEPT ![t] = [reports[t] EXCEPT ![p] = l]]
  /\ UNCHANGED <<wanted, scan, ended, edited>>

\* The scan that is discarded need not be the one that ended.
Discard(t) ==
  /\ scan[t] # {}
  /\ ended[t] # {}
  /\ Stored(t) \/ edited \/ failed
  /\ scan' = [scan EXCEPT ![t] = {}]
  /\ Forgetting
  /\ UNCHANGED <<wanted, reports, edited>>

\* A report of a target that is gone is collected, an outdated one deleted.
Remove(t, p) ==
  /\ edited \/ wanted[t] \notin Labels
  /\ reports' = [reports EXCEPT ![t] = [reports[t] EXCEPT ![p] = NoReport]]
  /\ UNCHANGED <<wanted, scan, ended, edited>>

\* Passes end, caches are brought up to date, the operator restarts.
Forget ==
  /\ Forgetting
  /\ UNCHANGED <<wanted, scan, reports, edited>>

\* Users change targets and delete scans and reports.
Edit ==
  /\ edited'
  /\ \A t \in Targets :
       /\ scan'[t] \in {scan[t], {}}
       /\ \A p \in Parts : reports'[t][p] \in {reports[t][p], NoReport}
  /\ Forgetting

Next ==
  /\ failed => failed'
  /\ \/ Forget
     \/ \E t \in Targets :
          \/ Discard(t)
          \/ \E l \in Labels :
               \/ Submit(t, l)
               \/ \E cond \in {"complete", "failed"} : End(t, l, cond)
               \/ \E p \in Parts : Store(t, p, l)
          \/ \E p \in Parts : Remove(t, p)
     \/ Edit

Spec == Init /\ [][Next]_<<wanted, scan, ended, reports, edited, failed>>
=============================================================================
