SPECIFICATION Spec
CONSTANTS
  t1 = t1  t2 = t2  t3 = t3  r1 = r1  r2 = r2  r3 = r3
  Threads = {t1, t2}
  Slots = {r1, r2}
  Configs <- MCConfigs
  Requests <- MCRequests
  Sizes = {1, 3}
  SizeMod = 16
INVARIANTS PeakExact CountExact
PROPERTIES ImplementsLedger EndsUnlessContended
CHECK_DEADLOCK FALSE
