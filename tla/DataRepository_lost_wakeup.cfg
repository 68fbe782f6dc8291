SPECIFICATION FairRepoSpec
CONSTANTS
  b1 = b1  b2 = b2  h1 = h1  t1 = t1  t2 = t2  t3 = t3  s1 = s1  r1 = r1  r2 = r2
  Batches = {b1}
  Handles = {h1}
  Threads = {t1, t2}
  Spaces = {s1}
  Repos = {r1}
  NoBatch = NoBatch  NoData = NoData  NoCv = NoCv  NoThread = NoThread
  MaxTasks = 2
  MaxPartitions = 1
  Targets = {"task_created", "in_transit"}
  Discipline = "pending"
PROPERTIES PopByIdUnblocks
