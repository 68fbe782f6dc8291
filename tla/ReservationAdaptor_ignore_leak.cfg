SPECIFICATION DriftSpec
CONSTANTS
  s1 = s1  s2 = s2  a1 = a1  a2 = a2  p1 = p1  p2 = p2  t1 = t1  t2 = t2
  Streams = {s1, s2}
  Arenas = {a1, a2}
  Ptrs = {p1, p2}
  Threads = {t1, t2}
  NoArena = NoArena
  Sizes = {1, 3}
  MemoryLimit = 4
  Capacity = 5
  SizeMod = 16
  Align = 2
  Policies = {"ignore"}
  PadQuarters = 5
  MaxCharge = 8
  MaxEvents = 1
SYMMETRY Perms
INVARIANTS AllFreedIsZero
