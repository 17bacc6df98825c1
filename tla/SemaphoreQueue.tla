--------------------------- MODULE SemaphoreQueue ----------------------------
(***************************************************************************)
(* The queue of 2/2.2/semaphor: sem_emptiness counts the free places,      *)
(* sem_fullness the values, and mutex_full guards the list.  The assertion *)
(* at the top of each function reads count without the mutex.              *)
(***************************************************************************)
EXTENDS QueueNodes

VARIABLES
  sem_emptiness, sem_fullness,
  pc

semVars == <<sem_emptiness, sem_fullness>>
vars == <<queueVars, semVars, pc>>

Pc == {"assert", "sem_wait", "lock", "aborted"}

SemTypeOK ==
  /\ sem_emptiness \in 0 .. max_count
  /\ sem_fullness \in 0 .. max_count
  /\ pc \in [Reader \cup Writer -> Pc]

\* queue_init and init_sem
Init ==
  /\ queue_init
  /\ sem_emptiness = max_count
  /\ sem_fullness = 0
  /\ pc = [t \in Reader \cup Writer |-> "assert"]

At(t, p) == pc[t] = p
Goto(t, p) == pc' = [pc EXCEPT ![t] = p]

-----------------------------------------------------------------------------
(* queue_add *)

queue_add_assert(w) ==
  /\ At(w, "assert")
  /\ Goto(w, IF count <= max_count THEN "sem_wait" ELSE "aborted")
  /\ UNCHANGED <<queueVars, semVars>>

queue_add_sem_wait(w) ==
  /\ At(w, "sem_wait")
  /\ sem_emptiness > 0
  /\ sem_emptiness' = sem_emptiness - 1
  /\ Goto(w, "lock")
  /\ UNCHANGED <<queueVars, sem_fullness>>

\* Fault: the value is announced with the wrong semaphore.
queue_add_wrong_post(w) ==
  /\ At(w, "lock")
  /\ \E n \in Node \ allocated : /\ allocated' = allocated \cup {n}
                                 /\ LinkNode(n, i[w])
  /\ NextValue(w)
  /\ sem_emptiness' = sem_emptiness + 1
  /\ Goto(w, "assert")
  /\ UNCHANGED <<new, tmp, sem_fullness>>

\* The critical section, with sem_post before the mutex is given back.
queue_add(w) ==
  /\ At(w, "lock")
  /\ \E n \in Node \ allocated : /\ allocated' = allocated \cup {n}
                                 /\ LinkNode(n, i[w])
  /\ NextValue(w)
  /\ sem_fullness' = sem_fullness + 1
  /\ Goto(w, "assert")
  /\ UNCHANGED <<new, tmp, sem_emptiness>>

-----------------------------------------------------------------------------
(* queue_get *)

queue_get_assert(r) ==
  /\ At(r, "assert")
  /\ Goto(r, IF count >= 0 THEN "sem_wait" ELSE "aborted")
  /\ UNCHANGED <<queueVars, semVars>>

queue_get_sem_wait(r) ==
  /\ At(r, "sem_wait")
  /\ sem_fullness > 0
  /\ sem_fullness' = sem_fullness - 1
  /\ Goto(r, "lock")
  /\ UNCHANGED <<queueVars, sem_emptiness>>

queue_get(r) ==
  /\ At(r, "lock")
  /\ UnlinkNode
  /\ FreeNode(first)
  /\ sem_emptiness' = sem_emptiness + 1
  /\ Goto(r, "assert")
  /\ UNCHANGED <<last, i, new, tmp, sem_fullness>>

-----------------------------------------------------------------------------
WriterNext(w) ==
  queue_add_assert(w) \/ queue_add_sem_wait(w) \/ queue_add(w)
ReaderNext(r) ==
  queue_get_assert(r) \/ queue_get_sem_wait(r) \/ queue_get(r)

Next ==
  \/ \E w \in Writer : WriterNext(w)
  \/ \E r \in Reader : ReaderNext(r)

Spec == Init /\ [][Next]_vars

-----------------------------------------------------------------------------
Locking(T) == Cardinality({t \in T : At(t, "lock")})

\* A reader that got past sem_fullness finds a node, however many readers and
\* writers are between their semaphore and the mutex: q->first->next
\* (queue.c:132) never follows NULL.
GetsFindNodes == Locking(Reader) > 0 => first # NULL

\* The semaphores account for every place of the queue: it is free, or holds a
\* value, or is in the hands of a thread on its way to the mutex.
PlacesConserved ==
  /\ sem_emptiness + Locking(Writer) + count = max_count
  /\ sem_fullness + Locking(Reader) = count

\* The assertions on count (queue.c:90 and 124) hold although they read it
\* without the mutex.
AssertsHold == \A t \in Reader \cup Writer : ~At(t, "aborted")
=============================================================================
