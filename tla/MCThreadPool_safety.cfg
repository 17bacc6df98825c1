\* Two workers with two slots each, descriptors that are reused.
CONSTANTS
  None = None
  Fd = {f1, f2, f3}
  Conn = {c1, c2, c3}
  MAX_WORKER_THREADS = 2
  MAX_CLIENTS_PER_THREAD = 2
SPECIFICATION Spec
SYMMETRY Symmetry
INVARIANTS
  OneSlotPerClient
  PollsOwnClients
  SleeperHasNoClients
  NothingLeftBehind
