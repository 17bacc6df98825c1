-------------------------------- MODULE Mutex --------------------------------
(***************************************************************************)
(* What the two hand made locks of 2/2.4 promise to thread1: one thread at *)
(* a time is between lock and unlock, and each such section adds one to    *)
(* the shared counter.                                                     *)
(***************************************************************************)
EXTENDS Integers

CONSTANTS Thread, NULL

VARIABLES
  holder,       \* the thread between lock and unlock, or NULL
  incremented,  \* whether it has done its ++counter
  counter

mutexVars == <<holder, incremented, counter>>

Init ==
  /\ holder = NULL
  /\ incremented = FALSE
  /\ counter = 0

Lock(t) ==
  /\ holder = NULL
  /\ holder' = t
  /\ UNCHANGED <<incremented, counter>>

Increment(t) ==
  /\ holder = t
  /\ ~incremented
  /\ incremented' = TRUE
  /\ counter' = counter + 1
  /\ UNCHANGED holder

Unlock(t) ==
  /\ holder = t
  /\ incremented
  /\ holder' = NULL
  /\ incremented' = FALSE
  /\ UNCHANGED counter

Next == \E t \in Thread : Lock(t) \/ Increment(t) \/ Unlock(t)

Spec == Init /\ [][Next]_mutexVars
=============================================================================
