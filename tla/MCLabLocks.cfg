\* Three threads, two sections each: a thread sleeps, another one waits for the
\* word, the third one unlocks.
CONSTANTS
  NULL = NULL
  Thread = {t1, t2, t3}
  COUNT_ITERATION = 2
SPECIFICATION LocksSpec
INVARIANTS
  MutualExclusion
  NoLostWakeup
PROPERTIES
  ImplementsMutex
  Termination
