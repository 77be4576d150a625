-------------------------------- MODULE Sums --------------------------------
(***************************************************************************)
(* The total of a function to numbers, in which the statements that a      *)
(* counter agrees with the rows it counts are written.                     *)
(***************************************************************************)
EXTENDS Integers, FiniteSetsExt

SumOver(g, S) == MapThenSumSet(LAMBDA x : g[x], S)
Total(g) == SumOver(g, DOMAIN g)
============================================================================
