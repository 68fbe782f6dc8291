SPECIFICATION MovesSpec
CONSTANTS
  b1 = b1  b2 = b2  h1 = h1  h2 = h2  t1 = t1  t2 = t2  s1 = s1  s2 = s2  r1 = r1
  Batches = {b1, b2}
  Handles = {h1, h2}
  Threads = {t1, t2}
  Spaces = {s1, s2}
  Repos = {r1}
  NoBatch = NoBatch  NoData = NoData  NoCv = NoCv
  MaxTasks = 2
  Discipline = "pending"
SYMMETRY Perms
INVARIANTS TypeOK HandlesCounted PinnedUntilMoved StateMatchesCounts ReleaseNeverThrows TransitExclusive
PROPERTIES StateChangeNotifies ImplementsPinLock
