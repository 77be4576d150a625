------------------------- MODULE MCAlertEvaluation -------------------------
(* Instances of AlertEvaluation for TLC. *)
EXTENDS AlertEvaluation

CONSTANTS e1, e2, g1
============================================================================
