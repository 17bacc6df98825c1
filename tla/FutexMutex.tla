----------------------------- MODULE FutexMutex ------------------------------
(***************************************************************************)
(* The futex based mutex of 2/2.4/mutex.c and the threads of its main.     *)
(*                                                                         *)
(* The futex system call is external: FUTEX_WAIT compares the lock word    *)
(* and queues the caller in one step of the kernel, FUTEX_WAKE with the    *)
(* argument STATUS_UNLOCK (1) takes one thread off the queue.  No signal   *)
(* is handled by this program, so FUTEX_WAIT does not return EINTR.        *)
(***************************************************************************)
EXTENDS Integers, FiniteSets, FiniteSetsExt

CONSTANTS
  Thread,           \* the threads started by main
  COUNT_ITERATION,  \* sections per thread
  NULL

ASSUME FutexMutexAssumption ==
  /\ IsFiniteSet(Thread)
  /\ COUNT_ITERATION \in Nat \ {0}
  /\ NULL \notin Thread

STATUS_LOCK == 0
STATUS_UNLOCK == 1

VARIABLES
  lock,     \* m->lock
  waiters,  \* the threads queued on the futex
  pc,
  i,        \* the loop counter of thread1
  reg,      \* the value that ++counter has loaded
  counter

vars == <<lock, waiters, pc, i, reg, counter>>

Section == {"load", "store", "unlock"}
Pc == {"cas", "futex_wait", "asleep", "wake", "done"} \cup Section

TypeOK ==
  /\ lock \in {STATUS_LOCK, STATUS_UNLOCK}
  /\ waiters \in SUBSET Thread
  /\ pc \in [Thread -> Pc]
  /\ i \in [Thread -> 0 .. COUNT_ITERATION]
  /\ reg \in [Thread -> Nat]
  /\ counter \in Nat

\* main has created its threads; that a creation fails and main returns is left
\* out.
Init ==
  /\ lock = STATUS_UNLOCK
  /\ waiters = {}
  /\ pc = [t \in Thread |-> "cas"]
  /\ i = [t \in Thread |-> 0]
  /\ reg = [t \in Thread |-> 0]
  /\ counter = 0

At(t, p) == pc[t] = p
Goto(t, p) == pc' = [pc EXCEPT ![t] = p]

-----------------------------------------------------------------------------
(* mutex_lock *)

\* Fault: the word is tested and set in two steps, so that the test is stale.
lock_cas_stale(t) ==
  /\ At(t, "cas")
  /\ lock' = STATUS_LOCK
  /\ Goto(t, "load")
  /\ UNCHANGED <<waiters, i, reg, counter>>

\* atomic_compare_exchange_strong(&m->lock, UNLOCK -> LOCK) succeeds.
lock_cas(t) ==
  /\ At(t, "cas")
  /\ lock = STATUS_UNLOCK
  /\ lock' = STATUS_LOCK
  /\ Goto(t, "load")
  /\ UNCHANGED <<waiters, i, reg, counter>>

lock_cas_fails(t) ==
  /\ At(t, "cas")
  /\ lock # STATUS_UNLOCK
  /\ Goto(t, "futex_wait")
  /\ UNCHANGED <<lock, waiters, i, reg, counter>>

\* Fault: the kernel is not told which value to expect, and always waits.
futex_wait_unchecked(t) ==
  /\ At(t, "futex_wait")
  /\ waiters' = waiters \cup {t}
  /\ Goto(t, "asleep")
  /\ UNCHANGED <<lock, i, reg, counter>>

\* FUTEX_WAIT: sleep while the word is LOCK, EAGAIN otherwise.
futex_wait(t) ==
  /\ At(t, "futex_wait")
  /\ \/ /\ lock = STATUS_LOCK
        /\ waiters' = waiters \cup {t}
        /\ Goto(t, "asleep")
     \/ /\ lock # STATUS_LOCK
        /\ Goto(t, "cas")
        /\ UNCHANGED waiters
  /\ UNCHANGED <<lock, i, reg, counter>>

\* FUTEX_WAIT returns to a thread that is off the queue.
futex_return(t) ==
  /\ At(t, "asleep")
  /\ t \notin waiters
  /\ Goto(t, "cas")
  /\ UNCHANGED <<lock, waiters, i, reg, counter>>

\* FUTEX_WAIT may also end without a FUTEX_WAKE.
futex_spurious(t) ==
  /\ At(t, "asleep")
  /\ t \in waiters
  /\ waiters' = waiters \ {t}
  /\ UNCHANGED <<lock, pc, i, reg, counter>>

-----------------------------------------------------------------------------
(* ++counter, a load and a store *)

load(t) ==
  /\ At(t, "load")
  /\ reg' = [reg EXCEPT ![t] = counter]
  /\ Goto(t, "store")
  /\ UNCHANGED <<lock, waiters, i, counter>>

store(t) ==
  /\ At(t, "store")
  /\ counter' = reg[t] + 1
  /\ Goto(t, "unlock")
  /\ UNCHANGED <<lock, waiters, i, reg>>

-----------------------------------------------------------------------------
(* mutex_unlock *)

\* atomic_compare_exchange_strong(&m->lock, LOCK -> UNLOCK); if it could fail
\* the thread would stop here, which the check for deadlock would report.
unlock_cas(t) ==
  /\ At(t, "unlock")
  /\ lock = STATUS_LOCK
  /\ lock' = STATUS_UNLOCK
  /\ Goto(t, "wake")
  /\ UNCHANGED <<waiters, i, reg, counter>>

\* The loop of thread1 goes on.
NextIteration(t) ==
  /\ i' = [i EXCEPT ![t] = @ + 1]
  /\ Goto(t, IF i[t] + 1 < COUNT_ITERATION THEN "cas" ELSE "done")

\* FUTEX_WAKE takes one waiter off the queue, if there is one.
futex_wake(t) ==
  /\ At(t, "wake")
  /\ \/ \E w \in waiters : waiters' = waiters \ {w}
     \/ waiters = {} /\ UNCHANGED waiters
  /\ NextIteration(t)
  /\ UNCHANGED <<lock, reg, counter>>

-----------------------------------------------------------------------------
\* main has joined every thread.
Joined == \A t \in Thread : At(t, "done")
Terminated == Joined /\ UNCHANGED vars

ThreadNext(t) ==
  \/ lock_cas(t)
  \/ lock_cas_fails(t)
  \/ futex_wait(t)
  \/ futex_return(t)
  \/ load(t)
  \/ store(t)
  \/ unlock_cas(t)
  \/ futex_wake(t)

Next ==
  \/ \E t \in Thread : ThreadNext(t) \/ futex_spurious(t)
  \/ Terminated

Spec == Init /\ [][Next]_vars

\* Every thread runs; nothing is assumed of spurious wakeups.
FairSpec == Spec /\ \A t \in Thread : WF_vars(ThreadNext(t))

-----------------------------------------------------------------------------
(* What the lock guarantees. *)

\* Two threads are never both between mutex_lock and mutex_unlock.
MutualExclusion ==
  \A t, w \in Thread : pc[t] \in Section /\ pc[w] \in Section => t = w

\* The threads that will look at the lock word again without being woken.
Awake(t) ==
  \/ pc[t] \in {"cas", "futex_wait", "wake"}
  \/ At(t, "asleep") /\ t \notin waiters

\* No lost wakeup: when the mutex is free and a thread sleeps on it, some other
\* thread is still on its way to the lock word or to FUTEX_WAKE.
NoLostWakeup ==
  lock = STATUS_UNLOCK /\ waiters # {} => \E t \in Thread : Awake(t)

\* Every thread gets through its iterations, and the counter that main prints is
\* their number: no ++counter is lost.
Termination ==
  <>(Joined /\ counter = Cardinality(Thread) * COUNT_ITERATION)

\* The lock implements the abstract mutex: the holder is the thread in the
\* section.
M == INSTANCE Mutex WITH
  holder <- IF \E t \in Thread : pc[t] \in Section
            THEN CHOOSE t \in Thread : pc[t] \in Section ELSE NULL,
  incremented <- \E t \in Thread : At(t, "unlock")

ImplementsMutex == M!Spec
=============================================================================
