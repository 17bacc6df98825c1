--------------------------- MODULE LabLocksProof ----------------------------
(***************************************************************************)
(* The two locks of lab 2.4 for any number of threads and iterations:      *)
(* mutual exclusion, no lost wakeup, and the refinement of module Mutex.   *)
(*                                                                         *)
(* First the futex mutex by itself.  The steps of the spin lock keep the   *)
(* same invariant, so that it also holds of the two programs side by side  *)
(* (LocksSpec).                                                            *)
(***************************************************************************)
EXTENDS LabLocks, FiniteSetTheorems, TLAPS

\* The lock word is LOCK exactly while a thread is in the section.
WordIsLock ==
  lock = STATUS_LOCK <=> \E t \in Thread : pc[t] \in Section

\* What ++counter has loaded is still the counter when it is stored.
NoLostUpdate == \A t \in Thread : At(t, "store") => reg[t] = counter

\* A thread that is not done has an iteration left.
IterationLeft ==
  \A t \in Thread : ~At(t, "done") => i[t] < COUNT_ITERATION

\* The threads on the futex queue are inside FUTEX_WAIT.
QueueAsleep == \A t \in waiters : At(t, "asleep")

\* The inductive invariant.
IInv ==
  /\ TypeOK
  /\ MutualExclusion
  /\ WordIsLock
  /\ NoLostUpdate
  /\ IterationLeft
  /\ QueueAsleep
  /\ NoLostWakeup

\* The invariant holds when main has started the threads.
LEMMA InitIInv == Init => IInv
BY FutexMutexAssumption
   DEF Init, IInv, TypeOK, MutualExclusion, WordIsLock, NoLostUpdate,
       IterationLeft, QueueAsleep, NoLostWakeup, Section, Pc,
       STATUS_LOCK, STATUS_UNLOCK, At

\* Every step keeps the types.
LEMMA StepTypeOK == IInv /\ [Next]_vars => TypeOK'
<1> SUFFICES ASSUME IInv, [Next]_vars
             PROVE  TypeOK'
  OBVIOUS
<1> USE FutexMutexAssumption
        DEF IInv, TypeOK, Pc, Section, At, Goto, STATUS_LOCK, STATUS_UNLOCK
<1>1. ASSUME NEW t \in Thread, ThreadNext(t)
      PROVE  TypeOK'
  <2>1. CASE lock_cas(t) \/ lock_cas_fails(t) \/ load(t) \/ unlock_cas(t)
    BY <2>1 DEF lock_cas, lock_cas_fails, load, unlock_cas
  <2>2. CASE futex_wait(t) \/ futex_return(t)
    BY <2>2 DEF futex_wait, futex_return
  <2>3. CASE store(t)
    BY <2>3 DEF store
  <2>4. CASE futex_wake(t)
    BY <2>4 DEF futex_wake, NextIteration, IterationLeft
  <2> QED
    BY <1>1, <2>1, <2>2, <2>3, <2>4 DEF ThreadNext
<1>2. ASSUME NEW t \in Thread, futex_spurious(t)
      PROVE  TypeOK'
  BY <1>2 DEF futex_spurious
<1>3. CASE UNCHANGED vars
  BY <1>3 DEF vars
<1> QED
  BY <1>1, <1>2, <1>3 DEF Next, Terminated

\* Every step keeps mutual exclusion and what it rests on: only lock_cas
\* enters the section, and only when the word says that nobody is in it.
LEMMA StepExclusion ==
  IInv /\ [Next]_vars => (MutualExclusion /\ WordIsLock /\ NoLostUpdate)'
<1> SUFFICES ASSUME IInv, [Next]_vars
             PROVE  (MutualExclusion /\ WordIsLock /\ NoLostUpdate)'
  OBVIOUS
<1> USE DEF IInv, TypeOK, MutualExclusion, WordIsLock, NoLostUpdate, Section,
            Pc, At, Goto, STATUS_LOCK, STATUS_UNLOCK
<1>1. ASSUME NEW t \in Thread, ThreadNext(t)
      PROVE  (MutualExclusion /\ WordIsLock /\ NoLostUpdate)'
  <2>1. CASE lock_cas(t)
    BY <2>1 DEF lock_cas
  <2>2. CASE lock_cas_fails(t)
    BY <2>2 DEF lock_cas_fails
  <2>3. CASE futex_wait(t) \/ futex_return(t)
    BY <2>3 DEF futex_wait, futex_return
  <2>4. CASE load(t)
    BY <2>4 DEF load
  <2>5. CASE store(t)
    BY <2>5 DEF store
  <2>6. CASE unlock_cas(t)
    BY <2>6 DEF unlock_cas
  <2>7. CASE futex_wake(t)
    BY <2>7 DEF futex_wake, NextIteration
  <2> QED
    BY <1>1, <2>1, <2>2, <2>3, <2>4, <2>5, <2>6, <2>7 DEF ThreadNext
<1>2. ASSUME NEW t \in Thread, futex_spurious(t)
      PROVE  (MutualExclusion /\ WordIsLock /\ NoLostUpdate)'
  BY <1>2 DEF futex_spurious
<1>3. CASE UNCHANGED vars
  BY <1>3 DEF vars
<1> QED
  BY <1>1, <1>2, <1>3 DEF Next, Terminated

\* Every step keeps the loop counters below the bound, and only sleepers on
\* the queue.
LEMMA StepQueue == IInv /\ [Next]_vars => (IterationLeft /\ QueueAsleep)'
<1> SUFFICES ASSUME IInv, [Next]_vars
             PROVE  (IterationLeft /\ QueueAsleep)'
  OBVIOUS
<1> USE FutexMutexAssumption
        DEF IInv, TypeOK, IterationLeft, QueueAsleep, Pc, Section, At, Goto
<1>1. ASSUME NEW t \in Thread, ThreadNext(t)
      PROVE  (IterationLeft /\ QueueAsleep)'
  BY <1>1 DEF ThreadNext, lock_cas, lock_cas_fails, futex_wait, futex_return,
              load, store, unlock_cas, futex_wake, NextIteration
<1>2. ASSUME NEW t \in Thread, futex_spurious(t)
      PROVE  (IterationLeft /\ QueueAsleep)'
  BY <1>2 DEF futex_spurious
<1>3. CASE UNCHANGED vars
  BY <1>3 DEF vars
<1> QED
  BY <1>1, <1>2, <1>3 DEF Next, Terminated

\* Every step keeps an awake thread when the mutex is free: the last one to
\* leave either has made the word LOCK or has taken a sleeper off the queue.
LEMMA StepNoLostWakeup == IInv /\ [Next]_vars => NoLostWakeup'
<1> SUFFICES ASSUME IInv, [Next]_vars
             PROVE  NoLostWakeup'
  OBVIOUS
<1> USE DEF IInv, TypeOK, NoLostWakeup, Awake, Section, Pc, At, Goto,
            STATUS_LOCK, STATUS_UNLOCK
<1>1. ASSUME NEW t \in Thread, ThreadNext(t)
      PROVE  NoLostWakeup'
  <2>1. CASE lock_cas(t)
    BY <2>1 DEF lock_cas
  <2>2. CASE lock_cas_fails(t)
    BY <2>2 DEF lock_cas_fails
  <2>3. CASE futex_wait(t)
    BY <2>3 DEF futex_wait
  <2>4. CASE futex_return(t)
    BY <2>4 DEF futex_return
  <2>5. CASE load(t) \/ store(t)
    BY <2>5 DEF load, store, WordIsLock
  <2>6. CASE unlock_cas(t)
    BY <2>6 DEF unlock_cas
  <2>7. CASE futex_wake(t)
    <3>1. CASE waiters = {}
      BY <2>7, <3>1 DEF futex_wake
    <3>2. ASSUME NEW w \in waiters, waiters' = waiters \ {w}
          PROVE  Awake(w)'
      BY <2>7, <3>2 DEF futex_wake, NextIteration, QueueAsleep
    <3> QED
      BY <2>7, <3>1, <3>2 DEF futex_wake
  <2> QED
    BY <1>1, <2>1, <2>2, <2>3, <2>4, <2>5, <2>6, <2>7 DEF ThreadNext
<1>2. ASSUME NEW t \in Thread, futex_spurious(t)
      PROVE  NoLostWakeup'
  BY <1>2 DEF futex_spurious
<1>3. CASE UNCHANGED vars
  BY <1>3 DEF vars
<1> QED
  BY <1>1, <1>2, <1>3 DEF Next, Terminated

\* The invariant is inductive.
LEMMA StepIInv == IInv /\ [Next]_vars => IInv'
BY StepTypeOK, StepExclusion, StepQueue, StepNoLostWakeup DEF IInv

\* The invariant holds throughout.
THEOREM Invariance == Spec => []IInv
BY InitIInv, StepIInv, PTL DEF Spec

\* Type correctness of the model of 2/2.4/mutex.c.
THEOREM TypeCorrect == Spec => []TypeOK
<1>1. IInv => TypeOK
  BY DEF IInv
<1> QED
  BY <1>1, Invariance, PTL

\* mutex_lock and mutex_unlock exclude each other's sections, for any number
\* of threads.
THEOREM Exclusion == Spec => []MutualExclusion
<1>1. IInv => MutualExclusion
  BY DEF IInv
<1> QED
  BY <1>1, Invariance, PTL

\* The mutex is never free while everybody sleeps on it: waking one thread per
\* mutex_unlock is enough.
THEOREM WakeupsSuffice == Spec => []NoLostWakeup
<1>1. IInv => NoLostWakeup
  BY DEF IInv
<1> QED
  BY <1>1, Invariance, PTL

-----------------------------------------------------------------------------
(* Refinement *)

\* The holder of the abstract mutex.
Holder == IF \E t \in Thread : pc[t] \in Section
          THEN CHOOSE t \in Thread : pc[t] \in Section ELSE NULL

\* The thread in the section is the holder.
LEMMA HolderIs ==
  ASSUME MutualExclusion, NEW t \in Thread, pc[t] \in Section
  PROVE  Holder = t
BY DEF MutualExclusion, Holder

\* The same, of the next state.
LEMMA HolderIsNext ==
  ASSUME MutualExclusion', NEW t \in Thread, pc'[t] \in Section
  PROVE  Holder' = t
BY DEF MutualExclusion, Holder

\* Without a thread in the section nobody holds the mutex.
LEMMA NoHolder == (\A t \in Thread : pc[t] \notin Section) => Holder = NULL
BY DEF Holder

\* The same, of the next state.
LEMMA NoHolderNext ==
  (\A t \in Thread : pc'[t] \notin Section) => Holder' = NULL
BY DEF Holder

\* Every step of the futex mutex is a step of the abstract one or changes
\* nothing of it: lock_cas is Lock, store is Increment, unlock_cas is Unlock.
LEMMA StepSimulates ==
  IInv /\ IInv' /\ [Next]_vars => [M!Next]_(M!mutexVars)
<1> SUFFICES ASSUME IInv, IInv', [Next]_vars
             PROVE  [M!Next]_(M!mutexVars)
  OBVIOUS
<1> DEFINE Incremented == \E t \in Thread : At(t, "unlock")
<1> USE DEF IInv, TypeOK, Pc, At, Goto
<1>1. ASSUME NEW t \in Thread, lock_cas(t)
      PROVE  M!Lock(t)
  <2>1. \A w \in Thread : pc[w] \notin Section
    BY <1>1 DEF lock_cas, WordIsLock, STATUS_LOCK, STATUS_UNLOCK
  <2>2. Holder = NULL /\ Holder' = t
    BY <1>1, <2>1, NoHolder, HolderIsNext DEF lock_cas, Section
  <2>3. ~Incremented /\ ~Incremented'
    BY <1>1, <2>1 DEF lock_cas, Section
  <2> QED
    BY <1>1, <2>2, <2>3 DEF lock_cas, M!Lock, Holder
<1>2. ASSUME NEW t \in Thread, store(t)
      PROVE  M!Increment(t)
  <2>1. Holder = t /\ Holder' = t
    BY <1>2, HolderIs, HolderIsNext DEF store, Section
  <2>2. ~Incremented
    BY <1>2 DEF store, MutualExclusion, Section
  <2>3. Incremented'
    BY <1>2 DEF store
  <2>4. counter' = counter + 1
    BY <1>2 DEF store, NoLostUpdate
  <2> QED
    BY <2>1, <2>2, <2>3, <2>4 DEF M!Increment, Holder
<1>3. ASSUME NEW t \in Thread, unlock_cas(t)
      PROVE  M!Unlock(t)
  <2>1. \A w \in Thread : pc'[w] \notin Section
    BY <1>3 DEF unlock_cas, MutualExclusion, Section
  <2>2. Holder = t /\ Holder' = NULL
    BY <1>3, <2>1, HolderIs, NoHolderNext DEF unlock_cas, Section
  <2>3. Incremented /\ ~Incremented'
    BY <1>3, <2>1 DEF unlock_cas, Section
  <2> QED
    BY <1>3, <2>2, <2>3 DEF unlock_cas, M!Unlock, Holder
<1>4. ASSUME NEW t \in Thread, load(t)
      PROVE  UNCHANGED M!mutexVars
  <2>1. Holder = t /\ Holder' = t
    BY <1>4, HolderIs, HolderIsNext DEF load, Section
  <2>2. ~Incremented /\ ~Incremented'
    BY <1>4 DEF load, MutualExclusion, Section
  <2> QED
    BY <1>4, <2>1, <2>2 DEF load, M!mutexVars, Holder
<1>5. ASSUME NEW t \in Thread,
             \/ lock_cas_fails(t) \/ futex_wait(t) \/ futex_return(t)
             \/ futex_wake(t) \/ futex_spurious(t)
      PROVE  UNCHANGED M!mutexVars
  <2>1. \A w \in Thread : pc'[w] \in Section <=> pc[w] \in Section
    BY <1>5 DEF lock_cas_fails, futex_wait, futex_return, futex_wake,
                futex_spurious, NextIteration, Section
  <2>2. \A w \in Thread : pc[w] \in Section => pc'[w] = pc[w]
    BY <1>5 DEF lock_cas_fails, futex_wait, futex_return, futex_wake,
                futex_spurious, NextIteration, Section
  <2>3. Holder' = Holder
    <3>1. CASE \A w \in Thread : pc[w] \notin Section
      BY <2>1, <3>1, NoHolder, NoHolderNext
    <3>2. ASSUME NEW w \in Thread, pc[w] \in Section
          PROVE  Holder' = Holder
      BY <2>1, <3>2, HolderIs, HolderIsNext
    <3> QED
      BY <3>1, <3>2
  <2>4. Incremented' = Incremented
    BY <2>1, <2>2 DEF Section
  <2>5. counter' = counter
    BY <1>5 DEF lock_cas_fails, futex_wait, futex_return, futex_wake,
                futex_spurious
  <2> QED
    BY <2>3, <2>4, <2>5 DEF M!mutexVars, Holder
<1>6. CASE UNCHANGED vars
  BY <1>6 DEF vars, M!mutexVars
<1> QED
  BY <1>1, <1>2, <1>3, <1>4, <1>5, <1>6
     DEF Next, ThreadNext, Terminated, M!Next

\* The futex mutex implements the abstract one: the counter grows by one in
\* every section, and nobody else is in it.
THEOREM Refinement == Spec => ImplementsMutex
<1>1. Init => M!Init
  BY DEF Init, M!Init, Section, At
<1> QED
  BY <1>1, Invariance, StepSimulates, PTL DEF Spec, ImplementsMutex, M!Spec

-----------------------------------------------------------------------------
(* Both programs. *)

\* The invariant of the two programs: the spin lock has no queue.
LocksInv == IInv /\ (program = "speen" => waiters = {})

\* It holds when main has started the threads of either.
LEMMA InitLocksInv == LocksInit => LocksInv
<1>1. Spin!Init /\ waiters = {} => Init
  BY DEF Spin!Init, Init, STATUS_UNLOCK, Spin!STATUS_UNLOCK
<1> QED
  BY <1>1, InitIInv DEF LocksInit, LocksInv, Init

\* A step of the spin lock keeps it: spinlock_lock only succeeds on a free
\* word, and spinlock_unlock frees it for everybody at once.
LEMMA SpinStep ==
  ASSUME IInv, waiters = {}, NEW t \in Thread, Spin!ThreadNext(t),
         UNCHANGED waiters
  PROVE  IInv'
<1> USE FutexMutexAssumption
        DEF IInv, TypeOK, Pc, Section, Spin!At, Spin!Goto, At, STATUS_LOCK,
            STATUS_UNLOCK, Spin!STATUS_LOCK, Spin!STATUS_UNLOCK
<1>0. QueueAsleep' /\ NoLostWakeup'
  BY DEF QueueAsleep, NoLostWakeup
<1>1. CASE Spin!spinlock_lock(t)
  <2>1. TypeOK'
    BY <1>1 DEF Spin!spinlock_lock
  <2>2. (MutualExclusion /\ WordIsLock /\ NoLostUpdate /\ IterationLeft)'
    BY <1>1 DEF Spin!spinlock_lock, MutualExclusion, WordIsLock, NoLostUpdate,
                IterationLeft
  <2> QED
    BY <1>0, <2>1, <2>2
<1>2. CASE Spin!spinlock_spin(t)
  BY <1>0, <1>2 DEF Spin!spinlock_spin, Spin!vars, MutualExclusion, WordIsLock,
                    NoLostUpdate, IterationLeft
<1>3. CASE Spin!load(t)
  <2>1. TypeOK'
    BY <1>3 DEF Spin!load
  <2>2. (MutualExclusion /\ WordIsLock /\ NoLostUpdate /\ IterationLeft)'
    BY <1>3 DEF Spin!load, MutualExclusion, WordIsLock, NoLostUpdate,
                IterationLeft
  <2> QED
    BY <1>0, <2>1, <2>2
<1>4. CASE Spin!store(t)
  <2>1. TypeOK'
    BY <1>4 DEF Spin!store
  <2>2. (MutualExclusion /\ WordIsLock /\ NoLostUpdate /\ IterationLeft)'
    BY <1>4 DEF Spin!store, MutualExclusion, WordIsLock, NoLostUpdate,
                IterationLeft
  <2> QED
    BY <1>0, <2>1, <2>2
<1>5. CASE Spin!spinlock_unlock(t)
  <2>1. TypeOK'
    BY <1>5 DEF Spin!spinlock_unlock, Spin!NextIteration, IterationLeft
  <2>2. (MutualExclusion /\ WordIsLock /\ NoLostUpdate)'
    BY <1>5 DEF Spin!spinlock_unlock, Spin!NextIteration, MutualExclusion,
                WordIsLock, NoLostUpdate
  <2>3. IterationLeft'
    BY <1>5 DEF Spin!spinlock_unlock, Spin!NextIteration, IterationLeft
  <2> QED
    BY <1>0, <2>1, <2>2, <2>3
<1> QED
  BY <1>1, <1>2, <1>3, <1>4, <1>5 DEF Spin!ThreadNext

\* Every step of the spin lock is a step of the abstract mutex or changes
\* nothing of it.
LEMMA SpinSimulates ==
  ASSUME IInv, IInv', NEW t \in Thread, Spin!ThreadNext(t)
  PROVE  [M!Next]_(M!mutexVars)
<1> DEFINE Incremented == \E w \in Thread : At(w, "unlock")
<1> USE DEF IInv, TypeOK, Pc, At, Spin!At, Spin!Goto
<1>1. CASE Spin!spinlock_lock(t)
  <2>1. \A w \in Thread : pc[w] \notin Section
    BY <1>1 DEF Spin!spinlock_lock, WordIsLock, STATUS_LOCK, STATUS_UNLOCK,
                Spin!STATUS_UNLOCK
  <2>2. Holder = NULL /\ Holder' = t
    BY <1>1, <2>1, NoHolder, HolderIsNext DEF Spin!spinlock_lock, Section
  <2>3. ~Incremented /\ ~Incremented'
    BY <1>1, <2>1 DEF Spin!spinlock_lock, Section
  <2>4. M!Lock(t)
    BY <1>1, <2>2, <2>3 DEF Spin!spinlock_lock, M!Lock, Holder
  <2> QED
    BY <2>4 DEF M!Next
<1>2. CASE Spin!spinlock_spin(t)
  BY <1>2 DEF Spin!spinlock_spin, Spin!vars, M!mutexVars
<1>3. CASE Spin!load(t)
  <2>1. Holder = t /\ Holder' = t
    BY <1>3, HolderIs, HolderIsNext DEF Spin!load, Section
  <2>2. ~Incremented /\ ~Incremented'
    BY <1>3 DEF Spin!load, MutualExclusion, Section
  <2> QED
    BY <1>3, <2>1, <2>2 DEF Spin!load, M!mutexVars, Holder
<1>4. CASE Spin!store(t)
  <2>1. Holder = t /\ Holder' = t
    BY <1>4, HolderIs, HolderIsNext DEF Spin!store, Section
  <2>2. ~Incremented
    BY <1>4 DEF Spin!store, MutualExclusion, Section
  <2>3. Incremented'
    BY <1>4 DEF Spin!store
  <2>4. counter' = counter + 1
    BY <1>4 DEF Spin!store, NoLostUpdate
  <2>5. M!Increment(t)
    BY <2>1, <2>2, <2>3, <2>4 DEF M!Increment, Holder
  <2> QED
    BY <2>5 DEF M!Next
<1>5. CASE Spin!spinlock_unlock(t)
  <2>1. \A w \in Thread : pc'[w] \notin Section
    BY <1>5 DEF Spin!spinlock_unlock, Spin!NextIteration, MutualExclusion,
                Section
  <2>2. Holder = t /\ Holder' = NULL
    BY <1>5, <2>1, HolderIs, NoHolderNext DEF Spin!spinlock_unlock, Section
  <2>3. Incremented /\ ~Incremented'
    BY <1>5, <2>1 DEF Spin!spinlock_unlock, Section
  <2>4. M!Unlock(t)
    BY <1>5, <2>2, <2>3 DEF Spin!spinlock_unlock, M!Unlock, Holder
  <2> QED
    BY <2>4 DEF M!Next
<1> QED
  BY <1>1, <1>2, <1>3, <1>4, <1>5 DEF Spin!ThreadNext

\* A step of LocksNext is a step of the futex mutex, or one of the spin lock.
LEMMA LocksStep ==
  ASSUME LocksInv, [LocksNext]_locksVars
  PROVE  /\ program' = program
         /\ \/ [Next]_vars
            \/ /\ program = "speen" /\ UNCHANGED waiters
               /\ \E t \in Thread : Spin!ThreadNext(t)
         /\ program = "speen" => UNCHANGED waiters
BY DEF LocksNext, LocksThread, locksVars, Next, Terminated, vars

\* Every step of either program keeps the invariant, and is a step of the
\* abstract mutex.
LEMMA StepLocksInv ==
  LocksInv /\ [LocksNext]_locksVars => LocksInv' /\ [M!Next]_(M!mutexVars)
<1> SUFFICES ASSUME LocksInv, [LocksNext]_locksVars
             PROVE  LocksInv' /\ [M!Next]_(M!mutexVars)
  OBVIOUS
<1>1. program = "speen" => waiters = {} /\ waiters' = {}
  BY LocksStep DEF LocksInv
<1>2. CASE [Next]_vars
  <2>1. IInv'
    BY <1>2, StepIInv DEF LocksInv
  <2> QED
    BY <1>1, <1>2, <2>1, LocksStep, StepSimulates DEF LocksInv
<1>3. ASSUME program = "speen", UNCHANGED waiters, NEW t \in Thread,
             Spin!ThreadNext(t)
      PROVE  LocksInv' /\ [M!Next]_(M!mutexVars)
  <2>1. IInv'
    BY <1>1, <1>3, SpinStep DEF LocksInv
  <2> QED
    BY <1>1, <1>3, <2>1, SpinSimulates DEF LocksInv
<1> QED
  BY <1>2, <1>3, LocksStep

\* Both locks of lab 2.4 exclude, lose no wakeup and implement the abstract
\* mutex, in the programs of which one runs.
THEOREM LocksCorrect ==
  LocksSpec => []MutualExclusion /\ []NoLostWakeup /\ ImplementsMutex
<1> DEFINE Steps == LocksInit /\ [][LocksNext]_locksVars
<1>1. LocksSpec => Steps
  BY PTL DEF LocksSpec
<1>2. LocksInit => M!Init
  BY DEF LocksInit, Init, Spin!Init, M!Init, Section, At
<1>3. LocksInv => MutualExclusion /\ NoLostWakeup
  BY DEF LocksInv, IInv
<1>4. Steps => []MutualExclusion /\ []NoLostWakeup /\ ImplementsMutex
  BY <1>2, <1>3, InitLocksInv, StepLocksInv, PTL DEF ImplementsMutex, M!Spec
<1> HIDE DEF Steps
<1> QED
  BY <1>1, <1>4

-----------------------------------------------------------------------------
(* What main prints, and that it gets there. *)

\* The sections that have stored their ++counter: those of the iterations that
\* are over, and the one that the thread is about to leave.
Stored(t) == i[t] + (IF pc[t] \in {"unlock", "wake"} THEN 1 ELSE 0)
Increments == {w \in Thread \X (1 .. COUNT_ITERATION) : w[2] <= Stored(w[1])}

\* The counter is their number, and a thread ends with its last iteration.
CountExact ==
  /\ counter = Cardinality(Increments)
  /\ \A t \in Thread : At(t, "done") => i[t] = COUNT_ITERATION

\* When main has joined the threads, no ++counter of theirs is lost.
JoinedCounts ==
  Joined => counter = Cardinality(Thread) * COUNT_ITERATION

\* A thread that has to wait for another: one on the futex queue, or one whose
\* exchange in mutex_unlock does not find LOCK.
Blocked(t) ==
  \/ At(t, "asleep") /\ t \in waiters
  \/ At(t, "unlock") /\ lock # STATUS_LOCK

\* Until every thread is done, one of them can go on without being woken.
NeverStuck == Joined \/ \E t \in Thread : ~At(t, "done") /\ ~Blocked(t)

\* No ++counter is stored when main has started the threads.
LEMMA InitCount == LocksInit => CountExact
<1> SUFFICES ASSUME LocksInit
             PROVE  CountExact
  OBVIOUS
<1>1. /\ counter = 0
      /\ \A t \in Thread : i[t] = 0 /\ pc[t] = "cas"
  BY DEF LocksInit, Init, Spin!Init
<1>2. \A w \in Thread \X (1 .. COUNT_ITERATION) : ~(w[2] <= Stored(w[1]))
  BY <1>1, FutexMutexAssumption DEF Stored
<1>3. Increments = {}
  BY <1>2 DEF Increments
<1> QED
  BY <1>1, <1>3, FS_EmptySet DEF CountExact, At

\* A step that leaves the counter and every Stored(t) alone.
LEMMA SameCount ==
  ASSUME CountExact, counter' = counter,
         \A t \in Thread : Stored(t)' = Stored(t)
  PROVE  counter' = Cardinality(Increments)'
<1>1. Increments' = Increments
  BY DEF Increments
<1> QED
  BY <1>1 DEF CountExact

\* A store adds the section of the thread that it belongs to.
LEMMA StoreCount ==
  ASSUME IInv, CountExact, NEW t \in Thread, pc[t] = "store",
         pc' = [pc EXCEPT ![t] = "unlock"], i' = i, counter' = reg[t] + 1
  PROVE  counter' = Cardinality(Increments)'
<1> DEFINE w == <<t, i[t] + 1>>
           All == Thread \X (1 .. COUNT_ITERATION)
<1>1. /\ i \in [Thread -> 0 .. COUNT_ITERATION] /\ pc \in [Thread -> Pc]
      /\ i[t] < COUNT_ITERATION /\ counter' = counter + 1
  BY DEF IInv, TypeOK, IterationLeft, NoLostUpdate, At
<1>2. w \in All
  BY <1>1, FutexMutexAssumption
<1>3. Stored(t) = i[t] /\ Stored(t)' = i[t] + 1
  BY <1>1 DEF Stored
<1>4. \A u \in Thread : u # t => Stored(u)' = Stored(u)
  BY <1>1 DEF Stored
<1>5. w \notin Increments
  BY <1>1, <1>3 DEF Increments
<1>6. Increments' = Increments \cup {w}
  <2>1. ASSUME NEW v \in All
        PROVE  (v[2] <= Stored(v[1]))' <=> (v[2] <= Stored(v[1]) \/ v = w)
    <3>1. v[1] \in Thread /\ v[2] \in 1 .. COUNT_ITERATION /\ v = <<v[1], v[2]>>
      OBVIOUS
    <3>2. CASE v[1] = t
      BY <1>1, <1>3, <3>1, <3>2
    <3>3. CASE v[1] # t
      BY <1>4, <3>1, <3>3
    <3> QED
      BY <3>2, <3>3
  <2> QED
    BY <1>2, <2>1 DEF Increments
<1>7. IsFiniteSet(Increments)
  <2>1. IsFiniteSet(1 .. COUNT_ITERATION)
    BY FutexMutexAssumption, FS_Interval
  <2>2. IsFiniteSet(All)
    BY <2>1, FutexMutexAssumption, FS_Product
  <2>3. Increments \in SUBSET All
    BY DEF Increments
  <2> QED
    BY <2>2, <2>3, FS_Subset
<1>8. Cardinality(Increments \cup {w}) = Cardinality(Increments) + 1
  BY <1>5, <1>7, FS_AddElement
<1> QED
  BY <1>1, <1>6, <1>8 DEF CountExact

\* The end of an iteration, in either program: it was stored before.
LEMMA IterationCount ==
  ASSUME IInv, NEW t \in Thread, pc[t] \in {"unlock", "wake"},
         i' = [i EXCEPT ![t] = @ + 1],
         pc' = [pc EXCEPT ![t] = IF i[t] + 1 < COUNT_ITERATION
                                 THEN "cas" ELSE "done"]
  PROVE  /\ \A u \in Thread : Stored(u)' = Stored(u)
         /\ pc'[t] = "done" => i'[t] = COUNT_ITERATION
<1>1. /\ i \in [Thread -> 0 .. COUNT_ITERATION] /\ pc \in [Thread -> Pc]
      /\ i[t] < COUNT_ITERATION
  BY DEF IInv, TypeOK, IterationLeft, At
<1>2. ASSUME NEW u \in Thread
      PROVE  Stored(u)' = Stored(u)
  <2>1. CASE u = t
    <3>1. i'[t] = i[t] + 1 /\ pc'[t] \in {"cas", "done"}
      BY <1>1
    <3>2. Stored(t) = i[t] + 1
      BY DEF Stored
    <3>3. Stored(t)' = i'[t] + 0
      BY <3>1 DEF Stored
    <3> QED
      BY <1>1, <2>1, <3>1, <3>2, <3>3
  <2>2. CASE u # t
    BY <1>1, <2>2 DEF Stored
  <2> QED
    BY <2>1, <2>2
<1>3. pc'[t] = "done" => i'[t] = COUNT_ITERATION
  <2>1. CASE i[t] + 1 < COUNT_ITERATION
    BY <1>1, <2>1
  <2>2. CASE ~(i[t] + 1 < COUNT_ITERATION)
    BY <1>1, <2>2, FutexMutexAssumption
  <2> QED
    BY <2>1, <2>2
<1> QED
  BY <1>2, <1>3

\* Every step of either program keeps the count exact.
LEMMA StepCount ==
  ASSUME LocksInv, CountExact, [LocksNext]_locksVars
  PROVE  CountExact'
<1> USE DEF LocksInv
<1>1. pc \in [Thread -> Pc] /\ i \in [Thread -> 0 .. COUNT_ITERATION]
  BY DEF IInv, TypeOK
<1> DEFINE Ends(t) == /\ pc[t] \in {"unlock", "wake"}
                      /\ i' = [i EXCEPT ![t] = @ + 1]
                      /\ pc' = [pc EXCEPT ![t] = IF i[t] + 1 < COUNT_ITERATION
                                                 THEN "cas" ELSE "done"]
                      /\ counter' = counter
           Stores(t) == /\ pc[t] = "store" /\ counter' = reg[t] + 1 /\ i' = i
                        /\ pc' = [pc EXCEPT ![t] = "unlock"]
           Quiet == /\ counter' = counter /\ i' = i
                    /\ \A t \in Thread :
                         /\ pc'[t] = "done" <=> pc[t] = "done"
                         /\ pc'[t] \in {"unlock", "wake"} <=>
                              pc[t] \in {"unlock", "wake"}
<1>2. Quiet \/ \E t \in Thread : Stores(t) \/ Ends(t)
  <2>1. ASSUME NEW t \in Thread, ThreadNext(t)
        PROVE  Quiet \/ Stores(t) \/ Ends(t)
    <3>1. CASE lock_cas(t) \/ lock_cas_fails(t) \/ load(t) \/ unlock_cas(t)
      BY <1>1, <3>1 DEF lock_cas, lock_cas_fails, load, unlock_cas, At, Goto
    <3>2. CASE futex_wait(t) \/ futex_return(t)
      BY <1>1, <3>2 DEF futex_wait, futex_return, At, Goto
    <3>3. CASE store(t)
      BY <3>3 DEF store, At, Goto
    <3>4. CASE futex_wake(t)
      BY <3>4 DEF futex_wake, NextIteration, At, Goto
    <3> QED
      BY <2>1, <3>1, <3>2, <3>3, <3>4 DEF ThreadNext
  <2>2. ASSUME NEW t \in Thread, Spin!ThreadNext(t)
        PROVE  Quiet \/ Stores(t) \/ Ends(t)
    <3> USE DEF Spin!At, Spin!Goto
    <3>1. CASE Spin!spinlock_lock(t) \/ Spin!load(t) \/ Spin!spinlock_spin(t)
      BY <1>1, <3>1 DEF Spin!spinlock_lock, Spin!load, Spin!spinlock_spin,
                        Spin!vars
    <3>2. CASE Spin!store(t)
      BY <3>2 DEF Spin!store
    <3>3. CASE Spin!spinlock_unlock(t)
      BY <3>3 DEF Spin!spinlock_unlock, Spin!NextIteration
    <3> QED
      BY <2>2, <3>1, <3>2, <3>3 DEF Spin!ThreadNext
  <2>3. ASSUME NEW t \in Thread, futex_spurious(t)
        PROVE  Quiet
    BY <2>3 DEF futex_spurious
  <2>4. CASE UNCHANGED vars
    BY <2>4 DEF vars
  <2> HIDE DEF Quiet, Stores, Ends
  <2> QED
    BY <2>1, <2>2, <2>3, <2>4, LocksStep DEF Next, Terminated
<1>3. CASE Quiet
  <2>1. \A t \in Thread : Stored(t)' = Stored(t)
    BY <1>3 DEF Stored
  <2> QED
    BY <1>3, <2>1, SameCount DEF CountExact, At
<1>4. ASSUME NEW t \in Thread, Stores(t)
      PROVE  CountExact'
  <2>1. \A u \in Thread : pc'[u] = "done" => pc[u] = "done"
    BY <1>1, <1>4
  <2>2. counter' = Cardinality(Increments)'
    BY <1>4, StoreCount
  <2> QED
    BY <1>4, <2>1, <2>2 DEF CountExact, At
<1>5. ASSUME NEW t \in Thread, Ends(t)
      PROVE  CountExact'
  <2>1. /\ \A u \in Thread : Stored(u)' = Stored(u)
        /\ pc'[t] = "done" => i'[t] = COUNT_ITERATION
    BY <1>5, IterationCount
  <2>2. counter' = Cardinality(Increments)'
    BY <1>5, <2>1, SameCount
  <2>3. \A u \in Thread : u # t => pc'[u] = pc[u] /\ i'[u] = i[u]
    BY <1>1, <1>5
  <2> QED
    BY <2>1, <2>2, <2>3 DEF CountExact, At
<1> HIDE DEF Quiet, Stores, Ends
<1> QED
  BY <1>2, <1>3, <1>4, <1>5

\* At the end every thread has stored each of its sections.
LEMMA CountAtEnd == CountExact => JoinedCounts
<1> SUFFICES ASSUME CountExact, Joined
             PROVE  counter = Cardinality(Thread) * COUNT_ITERATION
  BY DEF JoinedCounts
<1> DEFINE All == Thread \X (1 .. COUNT_ITERATION)
<1>1. \A t \in Thread : Stored(t) = COUNT_ITERATION + 0
  BY DEF CountExact, Joined, At, Stored
<1>2. \A w \in All : w[2] <= Stored(w[1])
  BY <1>1, FutexMutexAssumption
<1>3. Increments = All
  BY <1>2 DEF Increments
<1>4. IsFiniteSet(1 .. COUNT_ITERATION) /\ Cardinality(1 .. COUNT_ITERATION) = COUNT_ITERATION
  BY FutexMutexAssumption, FS_Interval
<1>5. Cardinality(All) = Cardinality(Thread) * Cardinality(1 .. COUNT_ITERATION)
  BY <1>4, FutexMutexAssumption, FS_Product
<1> QED
  BY <1>3, <1>4, <1>5 DEF CountExact

\* When all that are left sleep, the mutex is free, and somebody is awake.
LEMMA InvNotStuck == IInv => NeverStuck
<1> SUFFICES ASSUME IInv, \A t \in Thread : At(t, "done") \/ Blocked(t)
             PROVE  Joined
  BY DEF NeverStuck
<1>1. \A t \in Thread : pc[t] \notin Section
  BY DEF IInv, Blocked, At, Section, WordIsLock
<1>2. lock = STATUS_UNLOCK
  BY <1>1 DEF IInv, TypeOK, WordIsLock
<1>3. \A t \in Thread : ~Awake(t)
  BY DEF Blocked, Awake, At
<1>4. waiters = {}
  BY <1>2, <1>3 DEF IInv, NoLostWakeup
<1> QED
  BY <1>1, <1>4 DEF Joined, Blocked, At, Section

\* Whichever of the two locks it uses, the program of lab 2.4 prints the number
\* of all the iterations, if it gets to the end.
THEOREM CounterCorrect == LocksSpec => []JoinedCounts
<1> DEFINE Steps == LocksInit /\ [][LocksNext]_locksVars
<1>1. LocksSpec => Steps
  BY PTL DEF LocksSpec
<1>2. LocksInv /\ CountExact /\ [LocksNext]_locksVars => (LocksInv /\ CountExact)'
  BY StepLocksInv, StepCount
<1>3. Steps => []JoinedCounts
  BY <1>2, InitLocksInv, InitCount, CountAtEnd, PTL
<1> HIDE DEF Steps
<1> QED
  BY <1>1, <1>3

\* The threads never all wait for each other, with either lock.
THEOREM NoDeadlock == LocksSpec => []NeverStuck
<1> DEFINE Steps == LocksInit /\ [][LocksNext]_locksVars
<1>1. LocksSpec => Steps
  BY PTL DEF LocksSpec
<1>2. LocksInv => NeverStuck
  BY InvNotStuck DEF LocksInv
<1>3. Steps => []NeverStuck
  BY <1>2, InitLocksInv, StepLocksInv, PTL
<1> HIDE DEF Steps
<1> QED
  BY <1>1, <1>3
=============================================================================
