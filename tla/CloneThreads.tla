----------------------------- MODULE CloneThreads ----------------------------
(***************************************************************************)
(* Lab 1.6: threads made with clone on stacks mapped by main: src/1/1.6.   *)
(*                                                                         *)
(* A thread's structure lies on its stack, which my_thread_join unmaps.    *)
(* The threads share main's thread-local storage (no CLONE_SETTLS), errno  *)
(* included, and my_thread_create takes any errno that is not zero for its *)
(* own failure; printf, too, may leave it set.  The routine is taken to    *)
(* return its thread's number, so that results differ (the my_thread of    *)
(* the lab returns NULL); 0 is the NULL that my_thread_create stores.      *)
(***************************************************************************)
EXTENDS Integers

CONSTANT Clones  \* bound: how often main calls my_thread_create (100)

ASSUME CloneAssumption == Clones \in Nat \ {0}

VARIABLES
  thread_num,  \* static in my_thread_create
  my_tid,      \* main's handle, 0 while it is uninitialised
  errno,       \* errno is not zero
  mapped,      \* the stacks that are mapped
  ret_val,     \* of every thread's structure
  exited,
  joined,
  cpc,         \* where each thread is in my_thread_start_up
  cmain,       \* where main is
  result       \* main's ret_val

structVars == <<ret_val, exited, joined>>
cloneVars == <<thread_num, my_tid, errno, mapped, structVars, cpc, cmain, result>>

CThread == 1 .. Clones
CloneEnd == {"done", "crashed", "unmapped", "undefined"}

\* main has printed its greeting.
CloneInit ==
  /\ thread_num = 0
  /\ my_tid = 0
  /\ errno \in BOOLEAN
  /\ mapped = {}
  /\ ret_val = [t \in CThread |-> 0]
  /\ exited = [t \in CThread |-> FALSE]
  /\ joined = [t \in CThread |-> FALSE]
  /\ cpc = [t \in CThread |-> "none"]
  /\ cmain = "create"
  /\ result = 0

-----------------------------------------------------------------------------
(* my_thread_create *)

\* create_stack, mprotect and memset; without a mapping memset is a fault.
create_stack ==
  /\ cmain = "create" /\ thread_num < Clones
  /\ thread_num' = thread_num + 1
  /\ \/ mapped' = mapped \cup {thread_num + 1} /\ cmain' = "created"
     \/ UNCHANGED mapped /\ cmain' = "crashed"
  /\ UNCHANGED <<my_tid, errno, structVars, cpc, result>>

\* The test of errno, whoever has set it: the new stack is left mapped.
my_thread_create_errno ==
  /\ cmain = "created" /\ errno
  /\ cmain' = "create"
  /\ UNCHANGED <<thread_num, my_tid, errno, mapped, structVars, cpc, result>>

\* Fault: the handle is set before clone has succeeded.
my_thread_create_eager ==
  /\ cmain = "created" /\ ~errno
  /\ my_tid' = thread_num
  /\ \/ cpc' = [cpc EXCEPT ![thread_num] = "run"] /\ UNCHANGED errno
     \/ errno' = TRUE /\ UNCHANGED cpc
  /\ cmain' = "create"
  /\ UNCHANGED <<thread_num, mapped, structVars, result>>

\* The structure is filled in and clone starts the thread; a failure of clone
\* returns 1, which main does not look at.
my_thread_create ==
  /\ cmain = "created" /\ ~errno
  /\ \/ /\ cpc' = [cpc EXCEPT ![thread_num] = "run"]
        /\ my_tid' = thread_num
        /\ errno' \in {errno, TRUE}
     \/ errno' = TRUE /\ UNCHANGED <<cpc, my_tid>>
  /\ cmain' = "create"
  /\ UNCHANGED <<thread_num, mapped, structVars, result>>

main_created ==
  /\ cmain = "create" /\ thread_num = Clones
  /\ cmain' = "join"
  /\ UNCHANGED <<thread_num, my_tid, errno, mapped, structVars, cpc, result>>

-----------------------------------------------------------------------------
(* my_thread_start_up; a thread needs its stack for every step. *)

Running(t, p) == cpc[t] = p /\ t \in mapped /\ cmain \notin CloneEnd

\* The routine returns; its calls may have set errno.
start_routine(t) ==
  /\ Running(t, "run")
  /\ ret_val' = [ret_val EXCEPT ![t] = t]
  /\ cpc' = [cpc EXCEPT ![t] = "returned"]
  /\ errno' \in {errno, TRUE}
  /\ UNCHANGED <<thread_num, my_tid, mapped, exited, joined, cmain, result>>

set_exited(t) ==
  /\ Running(t, "returned")
  /\ exited' = [exited EXCEPT ![t] = TRUE]
  /\ cpc' = [cpc EXCEPT ![t] = "loop"]
  /\ UNCHANGED <<thread_num, my_tid, errno, mapped, ret_val, joined, cmain,
                 result>>

see_joined(t) ==
  /\ Running(t, "loop") /\ joined[t]
  /\ cpc' = [cpc EXCEPT ![t] = "leave"]
  /\ UNCHANGED <<thread_num, my_tid, errno, mapped, structVars, cmain, result>>

leave(t) ==
  /\ Running(t, "leave")
  /\ cpc' = [cpc EXCEPT ![t] = "gone"]
  /\ UNCHANGED <<thread_num, my_tid, errno, mapped, structVars, cmain, result>>

\* The thread runs on, or sleeps and wakes, on a stack that is gone.
touch_unmapped(t) ==
  /\ cpc[t] \notin {"none", "gone"} /\ t \notin mapped
  /\ cmain \notin CloneEnd
  /\ cmain' = "unmapped"
  /\ UNCHANGED <<thread_num, my_tid, errno, mapped, structVars, cpc, result>>

-----------------------------------------------------------------------------
(* my_thread_join *)

join_wait ==
  /\ cmain = "join"
  /\ my_tid # 0 /\ exited[my_tid]
  /\ cmain' = "take"
  /\ UNCHANGED <<thread_num, my_tid, errno, mapped, structVars, cpc, result>>

\* No thread was ever created: the handle is followed all the same.
join_uninitialised ==
  /\ cmain = "join" /\ my_tid = 0
  /\ cmain' = "undefined"
  /\ UNCHANGED <<thread_num, my_tid, errno, mapped, structVars, cpc, result>>

join_take ==
  /\ cmain = "take"
  /\ result' = ret_val[my_tid]
  /\ cmain' = "mark"
  /\ UNCHANGED <<thread_num, my_tid, errno, mapped, structVars, cpc>>

join_mark ==
  /\ cmain = "mark"
  /\ joined' = [joined EXCEPT ![my_tid] = TRUE]
  /\ cmain' = "unmap"
  /\ UNCHANGED <<thread_num, my_tid, errno, mapped, ret_val, exited, cpc, result>>

\* munmap, whether the thread has seen joined or not.
join_unmap ==
  /\ cmain = "unmap"
  /\ mapped' = mapped \ {my_tid}
  /\ cmain' = "return"
  /\ UNCHANGED <<thread_num, my_tid, errno, structVars, cpc, result>>

\* main returns, and the threads end with the process.
main_returns ==
  /\ cmain = "return"
  /\ cmain' = "done"
  /\ UNCHANGED <<thread_num, my_tid, errno, mapped, structVars, cpc, result>>

CloneMain ==
  \/ create_stack
  \/ my_thread_create_errno
  \/ my_thread_create
  \/ main_created
  \/ join_wait
  \/ join_uninitialised
  \/ join_take
  \/ join_mark
  \/ join_unmap
  \/ main_returns

CloneStep(t) ==
  \/ start_routine(t)
  \/ set_exited(t)
  \/ see_joined(t)
  \/ leave(t)
  \/ touch_unmapped(t)

CloneNext == CloneMain \/ \E t \in CThread : CloneStep(t)

-----------------------------------------------------------------------------
\* my_thread_join hands out what the thread's routine returned, and it has it
\* before the stack goes: also a process that dies because the thread is still
\* on its unmapped stack (mythread_create.c:52) dies with the right result.
JoinGetsResult ==
  cmain \in {"mark", "unmap", "return", "done", "unmapped"} =>
    /\ my_tid # 0
    /\ result = my_tid
=============================================================================
