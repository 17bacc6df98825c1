------------------------------ MODULE LockQueue ------------------------------
(***************************************************************************)
(* The queue of 2/2.2/mutex and of 2/2.2/spinlock: one lock, and a call    *)
(* that finds the queue full or empty returns 0 and is tried again.  The   *)
(* node is allocated before the lock is taken and freed after it is given  *)
(* back.  That init_spin_lock of 2.2/spinlock returns nothing on success,  *)
(* a value that queue-threads.c reads, is left out.                        *)
(***************************************************************************)
EXTENDS QueueNodes

Init == queue_init

-----------------------------------------------------------------------------
(* queue_add *)

queue_add_alloc(w) ==
  /\ new[w] = NULL
  /\ \E n \in Node \ allocated : /\ allocated' = allocated \cup {n}
                                 /\ new' = [new EXCEPT ![w] = n]
  /\ UNCHANGED <<first, last, next, val, count, i, tmp>>

queue_add(w) ==
  /\ new[w] # NULL
  /\ count # max_count
  /\ LinkNode(new[w], i[w])
  /\ NextValue(w)
  /\ new' = [new EXCEPT ![w] = NULL]
  /\ UNCHANGED <<allocated, tmp>>

\* The queue is full: free(new), return 0.  Nobody else knows the node, so its
\* free, after the unlock, is part of the step.
queue_add_full(w) ==
  /\ new[w] # NULL
  /\ count = max_count
  /\ FreeNode(new[w])
  /\ new' = [new EXCEPT ![w] = NULL]
  /\ UNCHANGED <<first, last, count, i, tmp>>

-----------------------------------------------------------------------------
(* queue_get *)

\* The critical section; an empty queue returns 0 and changes nothing.
queue_get(r) ==
  /\ tmp[r] = NULL
  /\ count # 0
  /\ tmp' = [tmp EXCEPT ![r] = first]
  /\ UnlinkNode
  /\ UNCHANGED <<allocated, last, next, val, i, new>>

\* The value is read and the node freed without the lock.
queue_get_free(r) ==
  /\ tmp[r] # NULL
  /\ FreeNode(tmp[r])
  /\ tmp' = [tmp EXCEPT ![r] = NULL]
  /\ UNCHANGED <<first, last, count, i, new>>

-----------------------------------------------------------------------------
WriterNext(w) == queue_add_alloc(w) \/ queue_add(w) \/ queue_add_full(w)
ReaderNext(r) == queue_get(r) \/ queue_get_free(r)

Next ==
  \/ \E w \in Writer : WriterNext(w)
  \/ \E r \in Reader : ReaderNext(r)

Spec == Init /\ [][Next]_queueVars
=============================================================================
