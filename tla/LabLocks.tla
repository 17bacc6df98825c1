------------------------------ MODULE LabLocks -------------------------------
(***************************************************************************)
(* The two programs of lab 2.4 side by side: thread1 is the same in both,  *)
(* the lock is the futex mutex or the spin lock.  The promises of module   *)
(* FutexMutex are expected of both; the spin lock never sleeps.            *)
(***************************************************************************)
EXTENDS FutexMutex

VARIABLE program

Spin == INSTANCE SpinLock

locksVars == <<vars, program>>

LocksInit ==
  \/ program = "mutex" /\ Init
  \/ program = "speen" /\ Spin!Init /\ waiters = {}

LocksThread(t) ==
  /\ \/ program = "mutex" /\ ThreadNext(t)
     \/ program = "speen" /\ Spin!ThreadNext(t) /\ UNCHANGED waiters
  /\ UNCHANGED program

LocksNext ==
  \/ \E t \in Thread : LocksThread(t)
  \/ /\ program = "mutex"
     /\ \E t \in Thread : futex_spurious(t)
     /\ UNCHANGED program
  \/ Terminated /\ UNCHANGED program

\* Every thread that can change something does; nothing is assumed of spurious
\* wakeups, and a thread in the loop of spinlock_lock is not promised that it
\* ever finds the lock free: weak fairness.
LocksSpec ==
  /\ LocksInit /\ [][LocksNext]_locksVars
  /\ \A t \in Thread : WF_locksVars(LocksThread(t))
=============================================================================
