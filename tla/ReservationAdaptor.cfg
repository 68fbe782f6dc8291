SPECIFICATION DriftSpec
CONSTANTS
  s1 = s1  s2 = s2  a1 = a1  a2 = a2  p1 = p1  p2 = p2  t1 = t1  t2 = t2
  Streams = {s1, s2}
  Arenas = {a1, a2}
  Ptrs = {p1, p2}
  Threads = {t1, t2}
  NoArena = NoArena
  Sizes = {1}
  MemoryLimit = 3
  Capacity = 4
  SizeMod = 6
  Align = 3
  Policies = {"ignore", "fail", "increase"}
  PadQuarters = 5
  MaxCharge = 3
  MaxEvents = 0
SYMMETRY Perms
INVARIANTS TypeOK ArenaExact CoversUntilTorn TotalExactUntilDrift CapacityUntilTorn WithinReservation
