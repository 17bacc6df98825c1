\* One slot each, and a descriptor that is closed twice.
CONSTANTS
  None = None
  Fd = {f1, f2}
  Conn = {c1, c2}
  MAX_WORKER_THREADS = 2
  MAX_CLIENTS_PER_THREAD = 1
SPECIFICATION Spec
SYMMETRY Symmetry
INVARIANTS
  PollsOpenSockets
