\* Responses of one or two chunks, read while they are written; cancelled
\* entries pile up to an LRU list of three.
CONSTANTS
  MaxChunks = 3
  NULL = NULL
  Thread = {t1, t2}
  Entry = {e1, e2, e3}
  Url = {u1}
  NumBuckets = 2
  hash_url <- OneBucket
  SizeMod = 1
  MaxResp = 2
  BUFFER_SIZE = 2
  ContentLength <- KnownLength
  MallocMayFail = FALSE
SPECIFICATION Spec
SYMMETRY Symmetry
INVARIANTS
  ReadWalksChunks
  LruMatchesBuckets
  ReaderStream
  CompleteHoldsWholeResponse
