SPECIFICATION Spec
CONSTANTS
  t1 = t1  t2 = t2  t3 = t3  r1 = r1  r2 = r2  r3 = r3
  Threads = {t1}
  Slots = {r1, r2}
  Configs <- TwoGpus
  Requests <- TierRequests
  Sizes = {2}
  SizeMod = 16
INVARIANTS RefusedOnlyWhenNoneFits
CHECK_DEADLOCK FALSE
