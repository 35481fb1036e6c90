----------------------------- MODULE MCReportTTL -----------------------------
(* Finite instances of ReportTTL for TLC.                                   *)
EXTENDS ReportTTL

CONSTANTS r1, r2
=============================================================================
