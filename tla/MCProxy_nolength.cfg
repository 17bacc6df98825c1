\* Responses without a Content-Length.
CONSTANTS
  NULL = NULL
  Thread = {t1, t2}
  Entry = {e1}
  Url = {u1}
  NumBuckets = 1
  hash_url <- OneBucket
  SizeMod = 1
  MaxResp = 2
  BUFFER_SIZE = 1
  ContentLength <- WithoutLength
  MallocMayFail = FALSE
SPECIFICATION Spec
SYMMETRY Symmetry
INVARIANTS
  CompleteHoldsWholeResponse
