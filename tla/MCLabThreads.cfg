\* The sizes of main.c in lab 1.7, three threads in lab 1.6, four values and a
\* queue of two in lab 2.1.
CONSTANTS
  THREADS = 5
  ITERATIONS = 3
  Early = {1}
  Clones = 3
  NULL = NULL
  Node = {n1, n2, n3, n4}
  max_count = 2
  MaxAdds = 4
SPECIFICATION FairSpec
INVARIANTS
  SwitchesKeepWork
  CountInRange
  ReaderSafe
  HandoverSafe
PROPERTIES
  UserThreadsEnd
  JoinEnds
  CancelledJoins
