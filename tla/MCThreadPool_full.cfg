\* One client more than the workers have slots.
CONSTANTS
  None = None
  Fd = {f1, f2, f3}
  Conn = {c1, c2, c3}
  MAX_WORKER_THREADS = 2
  MAX_CLIENTS_PER_THREAD = 1
SPECIFICATION Spec
SYMMETRY Symmetry
PROPERTIES
  RejectsOnlyWhenFull
