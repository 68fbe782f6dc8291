SPECIFICATION Spec
CONSTANTS
  a1 = a1  a2 = a2  x1 = x1  x2 = x2
  Arenas = {a1, a2}
  Allocs = {x1, x2}
  NoArena = NoArena  NoAlloc = NoAlloc
  Sizes = {1, 3}
  MemoryLimit = 5
  Capacity = 8
  BlockSize = 2
  PoolSize = 2
  InitialPools = 1
  MaxPools = 3
  SizeMod = 32
SYMMETRY Perms
INVARIANTS BlocksDisjoint NeverUndercounted ExactUntilDrift
