\* The three counters and three swappers of main, with exclusive locks and with read locks.
CONSTANTS
  Counter = {asc, desc, eq}
  Swapper = {s1, s2, s3}
  STORAGE_SIZE = 5
  LockKinds = {"exclusive", "rwlock"}
SPECIFICATION FairSpec
INVARIANTS
  ListIntact
  SeenUpToPosition
PROPERTIES
  SomePassEnds
