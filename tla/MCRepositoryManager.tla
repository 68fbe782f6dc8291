-------------------------- MODULE MCRepositoryManager --------------------------
(* Small instances of RepositoryManager for TLC. *)
EXTENDS RepositoryManager

CONSTANTS b1, b2, h1, t1, t2, t3, s1, r1, r2

=============================================================================
