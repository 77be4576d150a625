---------------------------- MODULE MCIngestion ----------------------------
(* Instances of Ingestion for TLC. *)
EXTENDS Ingestion, TLC

CONSTANTS c1, c2, c3, k1, k2, b1, b2

\* batches that overlap, single writes, and events without a key in both
MixedRequests == {[bulk |-> b1, keys |-> {k1, k2}, loose |-> 1],
                  [bulk |-> b2, keys |-> {k2}, loose |-> 0],
                  [bulk |-> NoBulk, keys |-> {k1}, loose |-> 0],
                  [bulk |-> NoBulk, keys |-> {}, loose |-> 1]}

ClientSymmetry == Permutations(Client)
============================================================================
