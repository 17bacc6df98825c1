------------------------------ MODULE LabQueues ------------------------------
(***************************************************************************)
(* The programs of lab 2.2 side by side: one of them runs, and the same    *)
(* promises are expected of each.                                          *)
(***************************************************************************)
EXTENDS QueueNodes

VARIABLES
  program,                        \* the program that runs
  cond_not_empty, cond_not_full,  \* of module CondvarQueue
  sem_emptiness, sem_fullness, pc \* of module SemaphoreQueue

condVars == <<cond_not_empty, cond_not_full>>
semVars == <<sem_emptiness, sem_fullness, pc>>
vars == <<queueVars, program, condVars, semVars>>

Condvar == INSTANCE CondvarQueue
Semaphore == INSTANCE SemaphoreQueue
Lock == INSTANCE LockQueue

Init ==
  /\ program \in {"condvar", "semaphor", "lock"}
  /\ Condvar!Init
  /\ Semaphore!Init
  /\ Lock!Init

Next ==
  /\ \/ program = "condvar" /\ Condvar!Next /\ UNCHANGED semVars
     \/ program = "semaphor" /\ Semaphore!Next /\ UNCHANGED condVars
     \/ program = "lock" /\ Lock!Next /\ UNCHANGED <<condVars, semVars>>
  /\ UNCHANGED program

Spec == Init /\ [][Next]_vars

-----------------------------------------------------------------------------
\* condvar/queue.c signals once per change, and that is enough for several
\* readers and writers: no value waits for readers that all sleep, no free
\* place for writers that all sleep.
NoLostWakeup == Condvar!NoLostWakeup

\* semaphor/queue.c: the semaphores account for every place of the queue.  It
\* is free, or holds a value, or is in the hands of a thread on its way to the
\* mutex.  So a reader that got past sem_fullness finds a node, however many
\* threads are between semaphore and mutex (q->first->next at 132 never follows
\* NULL), and the assertions on count (90 and 124) hold although they read it
\* without the mutex.
SemaphoresCountPlaces ==
  program = "semaphor" =>
    /\ Semaphore!SemTypeOK
    /\ Semaphore!PlacesConserved
    /\ Semaphore!GetsFindNodes
    /\ Semaphore!AssertsHold
=============================================================================
