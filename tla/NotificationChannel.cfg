SPECIFICATION FairSpec
CONSTANTS
  w1 = w1  w2 = w2  n1 = n1  n2 = n2
  Waiters = {w1, w2}
  Notifiers = {n1, n2}
  SizeMod = 4
  MaxPosts = 3
INVARIANTS PostIsSeen PostTakenOnce ShutdownWakes
PROPERTIES PostIsTaken
