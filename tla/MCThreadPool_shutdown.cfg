\* A shutdown while a worker is about to wait.
CONSTANTS
  None = None
  Fd = {f1}
  Conn = {c1}
  MAX_WORKER_THREADS = 2
  MAX_CLIENTS_PER_THREAD = 1
SPECIFICATION FairSpec
PROPERTIES
  ShutdownEnds
