---------------------------- MODULE CondvarQueue -----------------------------
(***************************************************************************)
(* The queue of 2/2.2/condvar: one mutex and two condition variables.  A   *)
(* critical section is a step; a thread in pthread_cond_wait has given the *)
(* mutex back.                                                             *)
(***************************************************************************)
EXTENDS QueueNodes

VARIABLES
  cond_not_empty,  \* the readers blocked in pthread_cond_wait
  cond_not_full    \* the writers blocked in pthread_cond_wait

condVars == <<cond_not_empty, cond_not_full>>
vars == <<queueVars, condVars>>

Init ==
  /\ queue_init
  /\ cond_not_empty = {} /\ cond_not_full = {}

\* pthread_cond_signal wakes one waiter, if there is one.
SignalNotEmpty ==
  IF cond_not_empty = {} THEN UNCHANGED cond_not_empty
  ELSE \E r \in cond_not_empty : cond_not_empty' = cond_not_empty \ {r}
SignalNotFull ==
  IF cond_not_full = {} THEN UNCHANGED cond_not_full
  ELSE \E w \in cond_not_full : cond_not_full' = cond_not_full \ {w}

queue_add_wait(w) ==
  /\ w \notin cond_not_full
  /\ count = max_count
  /\ cond_not_full' = cond_not_full \cup {w}
  /\ UNCHANGED <<queueVars, cond_not_empty>>

\* Fault: the wrong condition is signalled.
queue_add_wrong_signal(w) ==
  /\ w \notin cond_not_full
  /\ count # max_count
  /\ \E n \in Node \ allocated : /\ allocated' = allocated \cup {n}
                                 /\ LinkNode(n, i[w])
  /\ NextValue(w)
  /\ SignalNotFull
  /\ UNCHANGED <<new, tmp, cond_not_empty>>

queue_add(w) ==
  /\ w \notin cond_not_full
  /\ count # max_count
  /\ \E n \in Node \ allocated : /\ allocated' = allocated \cup {n}
                                 /\ LinkNode(n, i[w])
  /\ NextValue(w)
  /\ SignalNotEmpty
  /\ UNCHANGED <<new, tmp, cond_not_full>>

queue_get_wait(r) ==
  /\ r \notin cond_not_empty /\ tmp[r] = NULL
  /\ count = 0
  /\ cond_not_empty' = cond_not_empty \cup {r}
  /\ UNCHANGED <<queueVars, cond_not_full>>

\* queue_get up to the release of the mutex.
queue_get(r) ==
  /\ r \notin cond_not_empty /\ tmp[r] = NULL
  /\ count # 0
  /\ tmp' = [tmp EXCEPT ![r] = first]
  /\ UnlinkNode
  /\ SignalNotFull
  /\ UNCHANGED <<allocated, last, next, val, i, new, cond_not_empty>>

\* free(tmp), without the mutex.
queue_get_free(r) ==
  /\ tmp[r] # NULL
  /\ FreeNode(tmp[r])
  /\ tmp' = [tmp EXCEPT ![r] = NULL]
  /\ UNCHANGED <<first, last, count, i, new, condVars>>

\* pthread_cond_wait may return without a signal.
spurious_wakeup ==
  /\ \/ /\ \E r \in cond_not_empty : cond_not_empty' = cond_not_empty \ {r}
        /\ UNCHANGED cond_not_full
     \/ /\ \E w \in cond_not_full : cond_not_full' = cond_not_full \ {w}
        /\ UNCHANGED cond_not_empty
  /\ UNCHANGED queueVars

WriterNext(w) == queue_add_wait(w) \/ queue_add(w)
ReaderNext(r) == queue_get_wait(r) \/ queue_get(r) \/ queue_get_free(r)

Next ==
  \/ \E w \in Writer : WriterNext(w)
  \/ \E r \in Reader : ReaderNext(r)
  \/ spurious_wakeup

Spec == Init /\ [][Next]_vars

-----------------------------------------------------------------------------
\* One signal per change is enough, also for several readers and writers: no
\* value waits for readers that all sleep, no free slot for writers that all
\* sleep.
NoLostWakeup ==
  /\ count # 0 => cond_not_empty # Reader
  /\ count # max_count => cond_not_full # Writer
=============================================================================
