----------------------------- MODULE UserThreads -----------------------------
(***************************************************************************)
(* Lab 1.7: threads of the user, switched by swapcontext: src/1/1.7.       *)
(*                                                                         *)
(* One thread has the processor until it calls uschedule or ends.  A       *)
(* context is the thread whose registers it holds and the value of its     *)
(* loop counter: resuming an old one would repeat iterations.  main is     *)
(* thread 0.  Its uthread_struct_t is the address of a local pointer       *)
(* (main.c:34), so what uschedule reads as its is_finished is arbitrary at *)
(* every read, and the context that is saved there runs over main's frame. *)
(* A thread's structure lies at the top of its own stack, and only a       *)
(* pointer's size is kept free for it (uthread.c:79): the frames of the    *)
(* thread run over it.  smashed records who has overwritten something.     *)
(*                                                                         *)
(* When a thread ends, uc_link resumes main while uthread_cur              *)
(* still names the thread that ended, and main's next uschedule saves      *)
(* main's context in that thread's structure.                              *)
(***************************************************************************)
EXTENDS Integers

CONSTANTS
  THREADS,     \* main and the threads it creates
  ITERATIONS,  \* of the loop of threadFunc
  Early        \* the threads that return in their first iteration

UThread == 1 .. THREADS - 1

ASSUME UserThreadsAssumption ==
  /\ THREADS \in Nat \ {0}
  /\ ITERATIONS \in Nat \ {0}
  /\ Early \subseteq UThread

VARIABLES
  uthread_count,
  uthread_cur,
  is_finished,  \* of every thread but main
  uctx,         \* the saved context of every thread
  cpu,          \* the context that runs
  ran,          \* history: the iterations each thread has run
  smashed,      \* history: whose frame or structure was overwritten
  umain         \* where main is

userVars ==
  <<uthread_count, uthread_cur, is_finished, uctx, cpu, ran, smashed, umain>>

Nobody == -1
Context == [thread : UThread \cup {0, Nobody}, iter : 0 .. ITERATIONS]
NoContext == [thread |-> Nobody, iter |-> 0]
MainContext == [thread |-> 0, iter |-> 0]
UserEnd == {"done", "undefined"}

UserTypeOK ==
  /\ uthread_count \in 1 .. THREADS
  /\ uthread_cur \in 0 .. THREADS - 1
  /\ is_finished \in [UThread -> BOOLEAN]
  /\ uctx \in [UThread \cup {0} -> Context]
  /\ cpu \in Context
  /\ ran \in [UThread -> 0 .. ITERATIONS]
  /\ smashed \subseteq UThread \cup {0}
  /\ umain \in {"create", "loop"} \cup UserEnd

\* uthread_manager_init
UserInit ==
  /\ uthread_count = 1
  /\ uthread_cur = 0
  /\ is_finished = [k \in UThread |-> FALSE]
  /\ uctx = [k \in UThread \cup {0} |-> NoContext]
  /\ cpu = MainContext
  /\ ran = [k \in UThread |-> 0]
  /\ smashed = {}
  /\ umain = "create"

-----------------------------------------------------------------------------
(* main creates the threads. *)

uthread_create ==
  /\ umain = "create" /\ uthread_count < THREADS
  /\ uctx' = [uctx EXCEPT ![uthread_count] =
                [thread |-> uthread_count, iter |-> 0]]
  /\ is_finished' = [is_finished EXCEPT ![uthread_count] = FALSE]
  /\ uthread_count' = uthread_count + 1
  /\ UNCHANGED <<uthread_cur, cpu, ran, smashed, umain>>

\* mmap or getcontext fails: mythreads[i] stays uninitialised, and the loop of
\* main follows it.
uthread_create_fails ==
  /\ umain = "create" /\ uthread_count < THREADS
  /\ umain' = "undefined"
  /\ UNCHANGED <<uthread_count, uthread_cur, is_finished, uctx, cpu, ran,
                 smashed>>

create_end ==
  /\ umain = "create" /\ uthread_count = THREADS
  /\ umain' = "loop"
  /\ UNCHANGED <<uthread_count, uthread_cur, is_finished, uctx, cpu, ran,
                 smashed>>

-----------------------------------------------------------------------------
(* uschedule *)

\* What the search may stop at: z is what it reads as main's is_finished.
Runnable(z) ==
  {k \in 1 .. uthread_count - 1 : ~is_finished[k]} \cup (IF z THEN {} ELSE {0})

\* The turns of the loop from uthread_cur to k, round and round.
Distance(k) == IF k > uthread_cur THEN k - uthread_cur
               ELSE k - uthread_cur + uthread_count

\* Fault: the search works on a copy of uthread_cur.
uschedule_forgets(saved) ==
  \E z \in BOOLEAN : \E next \in Runnable(z) :
    /\ \A k \in Runnable(z) : Distance(next) <= Distance(k)
    /\ uthread_cur' = uthread_cur
    /\ cpu' = IF next = uthread_cur THEN saved ELSE uctx[next]
    /\ uctx' = IF next = uthread_cur THEN uctx
               ELSE [uctx EXCEPT ![uthread_cur] = saved]

\* The caller's context is saved in the structure of uthread_cur, whoever that
\* is, and the next thread that is not finished is resumed.
uschedule(saved) ==
  \E z \in BOOLEAN : \E next \in Runnable(z) :
    /\ \A k \in Runnable(z) : Distance(next) <= Distance(k)
    /\ uthread_cur' = next
    /\ cpu' = IF next = uthread_cur THEN saved ELSE uctx[next]
    /\ uctx' = IF next = uthread_cur THEN uctx
               ELSE [uctx EXCEPT ![uthread_cur] = saved]

-----------------------------------------------------------------------------
(* threadFunc and uthread_startup *)

\* An iteration that ends in uschedule.
threadFunc(k) ==
  /\ umain = "loop" /\ cpu.thread = k
  /\ cpu.iter < ITERATIONS /\ k \notin Early
  /\ ran' = [ran EXCEPT ![k] = @ + 1]
  /\ uschedule([cpu EXCEPT !.iter = @ + 1])
  /\ UNCHANGED <<uthread_count, is_finished, smashed, umain>>

\* Fault: is_finished is never set.
uthread_startup_unmarked(k) ==
  /\ umain = "loop" /\ cpu.thread = k
  /\ cpu.iter = ITERATIONS \/ k \in Early
  /\ ran' = IF k \in Early THEN [ran EXCEPT ![k] = @ + 1] ELSE ran
  /\ cpu' = uctx[0]
  /\ UNCHANGED <<uthread_count, uthread_cur, is_finished, uctx, smashed, umain>>

\* threadFunc returns, after its loop or inside the first iteration; uc_link
\* resumes main.
uthread_startup(k) ==
  /\ umain = "loop" /\ cpu.thread = k
  /\ cpu.iter = ITERATIONS \/ k \in Early
  /\ ran' = IF k \in Early THEN [ran EXCEPT ![k] = @ + 1] ELSE ran
  /\ is_finished' = [is_finished EXCEPT ![k] = TRUE]
  /\ cpu' = uctx[0]
  /\ UNCHANGED <<uthread_count, uthread_cur, uctx, smashed, umain>>

\* The frames of the thread that runs lie over its structure: is_finished may
\* become anything but zero, or thread_func, arg, the context or the frames
\* that the context lies over are lost.
stack_overruns(k) ==
  /\ umain = "loop" /\ cpu.thread = k
  /\ smashed' = smashed \cup {k}
  /\ \/ /\ ~is_finished[k]
        /\ is_finished' = [is_finished EXCEPT ![k] = TRUE]
        /\ UNCHANGED umain
     \/ umain' = "undefined" /\ UNCHANGED is_finished
  /\ UNCHANGED <<uthread_count, uthread_cur, uctx, cpu, ran>>

-----------------------------------------------------------------------------
(* The loop of main. *)

main_schedules ==
  /\ umain = "loop" /\ cpu.thread = 0
  /\ \E k \in UThread : ~is_finished[k]
  /\ uschedule(cpu)
  /\ UNCHANGED <<uthread_count, is_finished, ran, smashed, umain>>

\* main has been saved in its structure, a local of eight bytes, and what it
\* had on its stack is gone.
main_overrun ==
  /\ umain = "loop" /\ cpu.thread = 0 /\ uctx[0] = MainContext
  /\ smashed' = smashed \cup {0}
  /\ umain' = "undefined"
  /\ UNCHANGED <<uthread_count, uthread_cur, is_finished, uctx, cpu, ran>>

\* Every thread is finished: main returns after uthread_manager_destroy, which
\* unmaps the stacks, and for main whatever address its eight bytes lie before.
main_ends ==
  /\ umain = "loop" /\ cpu.thread = 0
  /\ \A k \in UThread : is_finished[k]
  /\ umain' \in UserEnd
  /\ UNCHANGED <<uthread_count, uthread_cur, is_finished, uctx, cpu, ran,
                 smashed>>

UserNext ==
  \/ uthread_create
  \/ uthread_create_fails
  \/ create_end
  \/ \E k \in UThread : threadFunc(k) \/ uthread_startup(k) \/ stack_overruns(k)
  \/ main_schedules
  \/ main_overrun
  \/ main_ends

UserSpec == UserInit /\ [][UserNext]_userVars

-----------------------------------------------------------------------------
\* A switch neither loses nor repeats work: the thread that runs is the one
\* uthread_cur names, and every other thread that is not finished has its own
\* context in its own structure, at the iteration it has reached, although
\* main saves itself in the structures of threads that ended, and although a
\* thread that overwrote its own structure may look finished.
ContextsOwn ==
  /\ cpu.thread \in UThread =>
       /\ cpu.thread = uthread_cur
       /\ cpu.thread \notin smashed => ~is_finished[cpu.thread]
       /\ cpu.iter = ran[cpu.thread]
  /\ \A k \in 1 .. uthread_count - 1 : ~is_finished[k] /\ cpu.thread # k =>
       uctx[k] = [thread |-> k, iter |-> ran[k]]

\* uc_link always has somewhere to go: whenever a thread runs, main has been
\* saved in its own structure, and nothing else ever is.
MainCanResume ==
  /\ cpu.thread \in UThread \cup {0}
  /\ cpu.thread # 0 => uctx[0] = MainContext

\* A thread that is_finished says is finished has run its whole function, and
\* just once, unless it has overwritten is_finished itself.
FinishedRanAll ==
  \A k \in UThread \ smashed : is_finished[k] =>
    ran[k] = IF k \in Early THEN 1 ELSE ITERATIONS

\* uschedule and uc_link never lose or repeat the work of a thread that keeps
\* off its structure, whatever the others do to theirs.
SwitchesKeepWork == ContextsOwn /\ MainCanResume /\ FinishedRanAll
=============================================================================
