---------------------------- MODULE MCDataBatch ----------------------------
(* A small instance of DataBatchMoves for TLC. *)
EXTENDS DataBatchMoves, TLC

CONSTANTS b1, b2, h1, h2, t1, t2, s1, s2, r1

Perms == Permutations({h1, h2}) \cup Permutations({t1, t2}) \cup Permutations({s1, s2})
=============================================================================
