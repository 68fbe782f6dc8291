--------------------------- MODULE MCHostResource ---------------------------
(* Small instances of HostResource for TLC. *)
EXTENDS HostResource, TLC

CONSTANTS a1, a2, x1, x2

Perms == Permutations({a1, a2}) \cup Permutations({x1, x2})
=============================================================================
