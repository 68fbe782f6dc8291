-------------------------- MODULE MCDataRepository --------------------------
(* Small instances of DataRepository for TLC. *)
EXTENDS DataRepository, TLC

CONSTANTS b1, b2, h1, t1, t2, t3, s1, r1, r2

Perms == Permutations({b1, b2}) \cup Permutations({t1, t2})
=============================================================================
