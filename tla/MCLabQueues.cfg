\* Two readers and two writers on a queue of two; every thread can hold a node
\* beside the ones in the queue.
CONSTANTS
  NULL = NULL
  Reader = {r1, r2}
  Writer = {w1, w2}
  Node = {n1, n2, n3, n4, n5, n6}
  max_count = 2
  IntMod = 3
SPECIFICATION Spec
SYMMETRY Symmetry
INVARIANTS
  QueueIntact
  NoLostWakeup
  SemaphoresCountPlaces
PROPERTIES
  ImplementsFifo
