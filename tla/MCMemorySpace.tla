---------------------------- MODULE MCMemorySpace ----------------------------
(* Small instances of MemorySpace for TLC. *)
EXTENDS MemorySpace, TLC

CONSTANTS t1, t2, t3, r1, r2, r3

MCSpace(tier, id, capacity, limit) ==
  [tier |-> tier, id |-> id, capacity |-> capacity, limit |-> limit]

\* A GPU whose limit is below its capacity, and a disk.
MCConfigs == <<MCSpace("GPU", 0, 5, 4), MCSpace("DISK", 0, 2, 2)>>

MCRequests ==
  {AnyMemorySpaceInTier("GPU"), SpecificMemorySpace("DISK", 0), AnyMemorySpaceToDowngrade}

TwoGpus == <<MCSpace("GPU", 0, 3, 3), MCSpace("GPU", 1, 3, 3)>>

TierRequests == {AnyMemorySpaceInTier("GPU")}
=============================================================================
