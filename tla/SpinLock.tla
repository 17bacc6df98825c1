------------------------------ MODULE SpinLock -------------------------------
(***************************************************************************)
(* The spin lock of 2/2.4/speen.c and the threads of its main.  Module     *)
(* LabLocks runs it and says what it guarantees.                           *)
(***************************************************************************)
EXTENDS Integers

CONSTANTS
  Thread,           \* the threads started by main
  COUNT_ITERATION   \* sections per thread

STATUS_LOCK == 0
STATUS_UNLOCK == 1

VARIABLES
  lock,  \* s->lock
  pc,
  i,     \* the loop counter of thread1
  reg,   \* the value that ++counter has loaded
  counter

vars == <<lock, pc, i, reg, counter>>

\* main has created its threads; that a creation fails and main returns is left
\* out.
Init ==
  /\ lock = STATUS_UNLOCK
  /\ pc = [t \in Thread |-> "cas"]
  /\ i = [t \in Thread |-> 0]
  /\ reg = [t \in Thread |-> 0]
  /\ counter = 0

At(t, p) == pc[t] = p
Goto(t, p) == pc' = [pc EXCEPT ![t] = p]

\* Fault: expected is not reset after a failed exchange, so that the next one
\* compares with the value that it read: LOCK matches LOCK.
spinlock_lock_no_reset(t) ==
  /\ At(t, "cas")
  /\ lock' = STATUS_LOCK
  /\ Goto(t, "load")
  /\ UNCHANGED <<i, reg, counter>>

\* atomic_compare_exchange_weak succeeds.
spinlock_lock(t) ==
  /\ At(t, "cas")
  /\ lock = STATUS_UNLOCK
  /\ lock' = STATUS_LOCK
  /\ Goto(t, "load")
  /\ UNCHANGED <<i, reg, counter>>

\* It fails, because the lock is held or spuriously, and changes nothing but
\* expected, which is reset.
spinlock_spin(t) == At(t, "cas") /\ UNCHANGED vars

\* ++counter, a load and a store.
load(t) ==
  /\ At(t, "load")
  /\ reg' = [reg EXCEPT ![t] = counter]
  /\ Goto(t, "store")
  /\ UNCHANGED <<lock, i, counter>>

store(t) ==
  /\ At(t, "store")
  /\ counter' = reg[t] + 1
  /\ Goto(t, "unlock")
  /\ UNCHANGED <<lock, i, reg>>

\* The loop of thread1 goes on.
NextIteration(t) ==
  /\ i' = [i EXCEPT ![t] = @ + 1]
  /\ Goto(t, IF i[t] + 1 < COUNT_ITERATION THEN "cas" ELSE "done")

\* Fault: expected is STATUS_UNLOCK, and the exchange does nothing.
spinlock_unlock_fails(t) ==
  /\ At(t, "unlock")
  /\ NextIteration(t)
  /\ UNCHANGED <<lock, reg, counter>>

\* atomic_compare_exchange_strong(&s->lock, LOCK -> UNLOCK)
spinlock_unlock(t) ==
  /\ At(t, "unlock")
  /\ lock' = IF lock = STATUS_LOCK THEN STATUS_UNLOCK ELSE lock
  /\ NextIteration(t)
  /\ UNCHANGED <<reg, counter>>

\* main has joined every thread.
Joined == \A t \in Thread : At(t, "done")
Terminated == Joined /\ UNCHANGED vars

ThreadNext(t) ==
  \/ spinlock_lock(t)
  \/ spinlock_spin(t)
  \/ load(t)
  \/ store(t)
  \/ spinlock_unlock(t)

Next == (\E t \in Thread : ThreadNext(t)) \/ Terminated

Spec == Init /\ [][Next]_vars
=============================================================================
