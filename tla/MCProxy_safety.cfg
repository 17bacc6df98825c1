\* Three threads race for one url, every failure allowed.
CONSTANTS
  NULL = NULL
  Thread = {t1, t2, t3}
  Entry = {e1, e2}
  Url = {u1}
  NumBuckets = 1
  hash_url <- OneBucket
  SizeMod = 1
  MaxResp = 1
  BUFFER_SIZE = 1
  ContentLength <- AnyLength
  MallocMayFail = TRUE
SPECIFICATION Spec
SYMMETRY Symmetry
INVARIANTS
  TypeOK
  RefcountExact
  NoDanglingEntry
  ReturnsClean
  NoUseAfterShutdown
  OneUsableEntryPerUrl
  AppendNotCancelled
  SleeperHasNothingToRead
PROPERTIES
  FinalStatesAreFinal
