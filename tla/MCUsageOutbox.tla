--------------------------- MODULE MCUsageOutbox ---------------------------
(* Instances of UsageOutbox for TLC. *)
EXTENDS UsageOutbox

CONSTANTS w1, w2, e1, e2
============================================================================
