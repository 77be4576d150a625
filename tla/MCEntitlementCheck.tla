------------------------- MODULE MCEntitlementCheck -------------------------
(* Instances of EntitlementCheck for TLC. *)
EXTENDS EntitlementCheck

CONSTANTS w1, w2
=============================================================================
