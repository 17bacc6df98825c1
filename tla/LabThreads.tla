------------------------------ MODULE LabThreads -----------------------------
(***************************************************************************)
(* The programs of labs 1.2 to 2.1 that make, switch, cancel or join       *)
(* threads by hand, side by side: one of them runs.                        *)
(***************************************************************************)
EXTENDS UserThreads, CloneThreads, RacyQueue, Cancellation, HeapHandover

VARIABLE program  \* the program that runs

labVars == <<userVars, cloneVars, racyVars, cancelVars, handoverVars>>
vars == <<program, labVars>>

Init ==
  /\ program \in {"1.2", "1.4", "1.6", "1.7", "2.1"}
  /\ UserInit
  /\ CloneInit /\ (program # "1.6" => ~errno)
  /\ RacyInit
  /\ CancelInit /\ (program # "1.4" => variant = "a")
  /\ HandoverInit /\ (program # "1.2" => exercise = "1.2b")

Handover ==
  /\ program = "1.2" /\ HandoverNext
  /\ UNCHANGED <<userVars, cloneVars, racyVars, cancelVars>>

Cancel ==
  /\ program = "1.4" /\ CancelNext
  /\ UNCHANGED <<userVars, cloneVars, racyVars, handoverVars>>

Clone ==
  /\ program = "1.6" /\ CloneNext
  /\ UNCHANGED <<userVars, racyVars, cancelVars, handoverVars>>

User ==
  /\ program = "1.7" /\ UserNext
  /\ UNCHANGED <<cloneVars, racyVars, cancelVars, handoverVars>>

Racy ==
  /\ program = "2.1" /\ RacyNext
  /\ UNCHANGED <<userVars, cloneVars, cancelVars, handoverVars>>

\* The program has ended, or spins for ever: b.c of lab 1.4 never gets to a
\* cancellation point again.
Ended ==
  /\ CASE program = "1.2" -> hend \in HandoverEnd
       [] program = "1.4" -> \/ canc_main \in CancelEnd
                             \/ variant = "b" /\ victim = "loop"
       [] program = "1.6" -> cmain \in CloneEnd
       [] program = "1.7" -> umain \in UserEnd
       [] program = "2.1" -> racy = "undefined"
  /\ UNCHANGED vars

Next ==
  \/ (Handover \/ Cancel \/ Clone \/ User \/ Racy) /\ UNCHANGED program
  \/ Ended

Spec == Init /\ [][Next]_vars

\* Every thread runs; a printf in a loop writes now and then, and lets a
\* cancellation through.
Fairness ==
  /\ WF_vars(User /\ UNCHANGED program)
  /\ WF_vars(Cancel /\ UNCHANGED program)
  /\ WF_vars(Clone /\ CloneMain /\ UNCHANGED program)
  /\ \A t \in CThread : WF_vars(Clone /\ CloneStep(t) /\ UNCHANGED program)

FairSpec == Spec /\ Fairness

-----------------------------------------------------------------------------
\* uschedule gives every thread its turn, whatever it reads as main's
\* is_finished: main sees all of them finished and returns, if every thread
\* could be created and nobody overwrites a frame or a structure.
UserThreadsEnd ==
  [](program = "1.7" /\ umain # "undefined" /\ smashed = {})
    => <>(umain = "done")

\* my_thread_join of a thread ends, and with the right result: whichever
\* creations failed, and for whatever errno, a handle that was set at all is a
\* thread that runs, reaches exited and has stored its value before it loses its
\* stack.  Only if every creation failed main joins a handle that was never set
\* (join_uninitialised), of which nothing is said.
JoinEnds ==
  (program = "1.6" /\ cmain = "join" /\ my_tid # 0)
    ~> (cmain \in {"done", "unmapped"} /\ JoinGetsResult)

\* A cancelled thread can be joined, unless it is the one of 1.4/b.c or the call
\* itself fails, and the buffer of 1.4/c.c is freed by then.
CancelledJoins ==
  (program = "1.4" /\ canc_main = "join" /\ variant # "b")
    ~> \/ canc_main = "failed"
       \/ canc_main = "done" /\ CancelReleasesBuffer
=============================================================================
