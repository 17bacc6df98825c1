\* Readers are always scheduled; the rest unless something stalls.
CONSTANTS
  NULL = NULL
  Thread = {t1, t2}
  Entry = {e1}
  Url = {u1}
  NumBuckets = 1
  hash_url <- OneBucket
  SizeMod = 1
  MaxResp = 1
  BUFFER_SIZE = 1
  ContentLength <- AnyLength
  MallocMayFail = FALSE
SPECIFICATION ReaderSpec
PROPERTIES
  ReadersReturn
  RequestsFinish
  CancelledCollected
  ShutdownCompletes
