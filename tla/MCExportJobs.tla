---------------------------- MODULE MCExportJobs ----------------------------
(* Instances of ExportJobs for TLC. *)
EXTENDS ExportJobs

CONSTANTS j1, w1, w2
============================================================================
