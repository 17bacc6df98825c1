--------------------------- MODULE LabThreadsProof ---------------------------
(***************************************************************************)
(* The programs of labs 1.2 to 2.1, for any number of threads, iterations, *)
(* clones, nodes and values.                                               *)
(*                                                                         *)
(* Each program has an inductive invariant of its own, proved of its own   *)
(* specification; the last part carries the results over to LabThreads,    *)
(* where one of the programs runs.                                         *)
(***************************************************************************)
EXTENDS LabThreads, TLAPS

-----------------------------------------------------------------------------
(* Lab 1.7.  No switch loses or repeats work, uc_link always finds main,   *)
(* and a thread that is_finished names has run all of its function, unless *)
(* it has overwritten its own structure.  What makes this inductive is     *)
(* where main's context can be: when main runs under the name of another   *)
(* thread, that thread has ended and main is still saved in its own        *)
(* structure.                                                              *)

\* When main runs, what it will overwrite in uschedule is its own structure or
\* that of a thread that has ended.
MainSaved ==
  cpu.thread = 0 =>
    /\ cpu = MainContext
    /\ uthread_cur # 0 => is_finished[uthread_cur] /\ uctx[0] = MainContext

\* Only main runs before and after its loop, and the loop has all the threads.
MainAlone ==
  /\ umain \in {"create", "done"} => cpu.thread = 0
  /\ umain = "create" => uthread_cur = 0
  /\ umain = "loop" => uthread_count = THREADS
  /\ uthread_cur < uthread_count

\* What a thread has not run yet.
NotRun ==
  /\ \A k \in UThread : k >= uthread_count => ran[k] = 0 /\ ~is_finished[k]
  /\ \A k \in Early : ~is_finished[k] \/ cpu.thread = k => ran[k] = 0

\* The inductive invariant.
UserInv ==
  /\ UserTypeOK
  /\ MainSaved
  /\ MainAlone
  /\ NotRun
  /\ ContextsOwn
  /\ MainCanResume
  /\ FinishedRanAll

\* The invariant holds after uthread_manager_init.
LEMMA InitUserInv == UserInit => UserInv
BY UserThreadsAssumption
   DEF UserInit, UserInv, UserTypeOK, MainSaved, MainAlone, NotRun,
       ContextsOwn, MainCanResume, FinishedRanAll, UThread, Context, NoContext,
       MainContext, Nobody, UserEnd

\* What uschedule does to the processor and to the saved contexts.
LEMMA Switch ==
  ASSUME UserInv, NEW saved, uschedule(saved)
  PROVE  \E n \in UThread \cup {0} :
           /\ n < uthread_count
           /\ n # 0 => ~is_finished[n]
           /\ uthread_cur' = n
           /\ cpu' = IF n = uthread_cur THEN saved ELSE uctx[n]
           /\ uctx' = IF n = uthread_cur THEN uctx
                      ELSE [uctx EXCEPT ![uthread_cur] = saved]
<1>0. PICK z \in BOOLEAN :
        \E n \in Runnable(z) :
          /\ uthread_cur' = n
          /\ cpu' = IF n = uthread_cur THEN saved ELSE uctx[n]
          /\ uctx' = IF n = uthread_cur THEN uctx
                     ELSE [uctx EXCEPT ![uthread_cur] = saved]
  BY DEF uschedule
<1>1. PICK n \in Runnable(z) :
        /\ uthread_cur' = n
        /\ cpu' = IF n = uthread_cur THEN saved ELSE uctx[n]
        /\ uctx' = IF n = uthread_cur THEN uctx
                   ELSE [uctx EXCEPT ![uthread_cur] = saved]
  BY <1>0
<1>2. n = 0 \/ (n \in 1 .. uthread_count - 1 /\ ~is_finished[n])
  BY DEF Runnable
<1>3. n \in UThread \cup {0} /\ n < uthread_count
  BY <1>2, UserThreadsAssumption DEF UserInv, UserTypeOK, UThread
<1> QED
  BY <1>1, <1>2, <1>3

\* The creation of the threads keeps the invariant.
LEMMA CreateUserInv ==
  UserInv /\ (uthread_create \/ uthread_create_fails \/ create_end) => UserInv'
<1> SUFFICES ASSUME UserInv, uthread_create \/ uthread_create_fails \/ create_end
             PROVE  UserInv'
  OBVIOUS
<1> USE UserThreadsAssumption
        DEF UserInv, UserTypeOK, MainSaved, MainAlone, NotRun, ContextsOwn,
            MainCanResume, FinishedRanAll, UThread, UserEnd
<1>1. CASE uthread_create
  <2>1. /\ uthread_count \in UThread
        /\ uthread_count' = uthread_count + 1
        /\ cpu = MainContext /\ uthread_cur = 0
        /\ is_finished' = is_finished
    BY <1>1 DEF uthread_create
  <2>2. /\ uctx' \in [UThread \cup {0} -> Context]
        /\ uctx'[uthread_count] = [thread |-> uthread_count, iter |-> ran[uthread_count]]
        /\ \A k \in UThread \cup {0} : k # uthread_count => uctx'[k] = uctx[k]
    BY <1>1, <2>1 DEF uthread_create, Context
  <2> QED
    BY <1>1, <2>1, <2>2 DEF uthread_create, MainContext
<1>2. CASE uthread_create_fails
  BY <1>2 DEF uthread_create_fails
<1>3. CASE create_end
  BY <1>3 DEF create_end
<1> QED
  BY <1>1, <1>2, <1>3

\* An iteration of a thread, with its switch, keeps the invariant.
LEMMA IterationUserInv ==
  ASSUME UserInv, NEW k \in UThread, threadFunc(k)
  PROVE  UserInv'
<1> USE UserThreadsAssumption
<1> DEFINE saved == [cpu EXCEPT !.iter = @ + 1]
<1>1. PICK n \in UThread \cup {0} :
        /\ n < uthread_count
        /\ n # 0 => ~is_finished[n]
        /\ uthread_cur' = n
        /\ cpu' = IF n = uthread_cur THEN saved ELSE uctx[n]
        /\ uctx' = IF n = uthread_cur THEN uctx
                   ELSE [uctx EXCEPT ![uthread_cur] = saved]
  BY Switch DEF threadFunc
<1>2. /\ cpu.thread = k /\ cpu.iter < ITERATIONS /\ k \notin Early
      /\ ran' = [ran EXCEPT ![k] = ran[k] + 1]
      /\ UNCHANGED <<uthread_count, is_finished, smashed, umain>>
  BY DEF threadFunc
<1>3. /\ umain = "loop" /\ uthread_count = THREADS
      /\ uthread_cur = k /\ cpu.iter = ran[k]
      /\ is_finished[k] => k \in smashed
      /\ uctx[0] = MainContext
  BY <1>2 DEF threadFunc, UserInv, UserTypeOK, MainAlone, ContextsOwn, MainCanResume, UThread
<1>4. /\ saved = [thread |-> k, iter |-> ran[k] + 1]
      /\ saved \in Context
      /\ ran[k] + 1 \in 0 .. ITERATIONS
  BY <1>2, <1>3 DEF UserInv, UserTypeOK, Context
<1> HIDE DEF saved
<1>5. /\ ran' \in [UThread -> 0 .. ITERATIONS]
      /\ ran'[k] = ran[k] + 1
      /\ \A j \in UThread : j # k => ran'[j] = ran[j]
  BY <1>2, <1>4 DEF UserInv, UserTypeOK
<1>6. CASE n = k
  <2>1. cpu' = saved /\ uctx' = uctx /\ uthread_cur' = k
    BY <1>1, <1>3, <1>6
  <2>2. UserTypeOK'
    BY <1>1, <1>2, <1>4, <1>5, <2>1 DEF UserInv, UserTypeOK, UThread
  <2> QED
    BY <1>2, <1>3, <1>4, <1>5, <2>1, <2>2
       DEF UserInv, UserTypeOK, MainSaved, MainAlone, NotRun, ContextsOwn,
           MainCanResume, FinishedRanAll, UThread
<1>7. CASE n # k
  <2>1. /\ cpu' = uctx[n]
        /\ uctx' \in [UThread \cup {0} -> Context]
        /\ uctx'[k] = saved
        /\ \A j \in UThread \cup {0} : j # k => uctx'[j] = uctx[j]
    BY <1>1, <1>3, <1>4, <1>7 DEF UserInv, UserTypeOK
  <2>2. /\ n = 0 => cpu' = MainContext
        /\ n # 0 => cpu' = [thread |-> n, iter |-> ran[n]]
    BY <1>1, <1>2, <1>3, <1>7, <2>1 DEF UserInv, UserTypeOK, ContextsOwn, UThread
  <2>3. UserTypeOK'
    BY <1>1, <1>2, <1>5, <2>1 DEF UserInv, UserTypeOK, UThread
  <2>4. cpu'.thread = n /\ uctx'[0] = MainContext
    BY <1>3, <2>1, <2>2 DEF MainContext, UThread
  <2>5. MainSaved' /\ MainAlone' /\ MainCanResume'
    BY <1>1, <1>2, <1>3, <2>2, <2>4
       DEF UserInv, MainSaved, MainAlone, MainCanResume
  <2>6. ContextsOwn'
    BY <1>1, <1>2, <1>3, <1>4, <1>5, <1>7, <2>1, <2>2, <2>4
       DEF UserInv, UserTypeOK, ContextsOwn, UThread
  <2> QED
    BY <1>1, <1>2, <1>3, <1>5, <1>7, <2>3, <2>4, <2>5, <2>6
       DEF UserInv, UserTypeOK, NotRun, FinishedRanAll, UThread
<1> QED
  BY <1>6, <1>7

\* The end of a thread, with the switch of uc_link, keeps the invariant.
LEMMA ReturnUserInv ==
  ASSUME UserInv, NEW k \in UThread, uthread_startup(k)
  PROVE  UserInv'
<1> USE UserThreadsAssumption
<1>1. /\ umain = "loop" /\ uthread_count = THREADS
      /\ uthread_cur = k /\ cpu.thread = k /\ cpu.iter = ran[k]
      /\ uctx[0] = MainContext
  BY DEF uthread_startup, UserInv, UserTypeOK, MainAlone, ContextsOwn,
         MainCanResume, UThread
<1>2. /\ cpu' = MainContext
      /\ is_finished' = [is_finished EXCEPT ![k] = TRUE]
      /\ UNCHANGED <<uthread_count, uthread_cur, uctx, smashed, umain>>
  BY <1>1 DEF uthread_startup
<1>3. /\ ran' \in [UThread -> 0 .. ITERATIONS]
      /\ ran'[k] = IF k \in Early THEN 1 ELSE ITERATIONS
      /\ \A j \in UThread : j # k => ran'[j] = ran[j]
  BY <1>1 DEF uthread_startup, UserInv, UserTypeOK, NotRun
<1>4. UserTypeOK'
  <2>1. MainContext \in Context
    BY DEF Context, MainContext
  <2>2. is_finished' \in [UThread -> BOOLEAN]
    BY <1>2 DEF UserInv, UserTypeOK
  <2> QED
    BY <1>2, <1>3, <2>1, <2>2 DEF UserInv, UserTypeOK
<1>5. cpu'.thread = 0
  BY <1>2 DEF MainContext
<1>6. /\ is_finished'[k]
      /\ \A j \in UThread : j # k => is_finished'[j] = is_finished[j]
  BY <1>2 DEF UserInv, UserTypeOK
<1>7. MainSaved' /\ MainAlone' /\ MainCanResume'
  BY <1>1, <1>2, <1>5, <1>6
     DEF UserInv, UserTypeOK, MainSaved, MainAlone, MainCanResume, UThread
<1>8. ContextsOwn'
  BY <1>1, <1>2, <1>3, <1>5, <1>6
     DEF uthread_startup, UserInv, UserTypeOK, ContextsOwn, UThread
<1>9. NotRun' /\ FinishedRanAll'
  BY <1>1, <1>2, <1>3, <1>5, <1>6
     DEF UserInv, UserTypeOK, NotRun, FinishedRanAll, UThread
<1> QED
  BY <1>4, <1>7, <1>8, <1>9 DEF UserInv

\* A switch by main keeps the invariant.
LEMMA MainUserInv ==
  ASSUME UserInv, main_schedules
  PROVE  UserInv'
<1> USE UserThreadsAssumption
<1>1. PICK n \in UThread \cup {0} :
        /\ n < uthread_count
        /\ n # 0 => ~is_finished[n]
        /\ uthread_cur' = n
        /\ cpu' = IF n = uthread_cur THEN cpu ELSE uctx[n]
        /\ uctx' = IF n = uthread_cur THEN uctx
                   ELSE [uctx EXCEPT ![uthread_cur] = cpu]
  BY Switch DEF main_schedules
<1>2. /\ umain = "loop" /\ cpu = MainContext /\ uthread_count = THREADS
      /\ UNCHANGED <<uthread_count, is_finished, ran, smashed, umain>>
      /\ uthread_cur # 0 => is_finished[uthread_cur] /\ uctx[0] = MainContext
  BY DEF main_schedules, UserInv, MainSaved, MainAlone
<1>3. CASE n = uthread_cur
  BY <1>1, <1>2, <1>3
     DEF UserInv, UserTypeOK, MainSaved, MainAlone, NotRun, ContextsOwn,
         MainCanResume, FinishedRanAll
<1>4. CASE n # uthread_cur
  <2>1. /\ cpu' = uctx[n]
        /\ uthread_cur \in UThread \cup {0}
        /\ uctx' \in [UThread \cup {0} -> Context]
        /\ uctx'[uthread_cur] = MainContext
        /\ \A j \in UThread \cup {0} : j # uthread_cur => uctx'[j] = uctx[j]
    BY <1>1, <1>2, <1>4 DEF UserInv, UserTypeOK, UThread
  <2>2. uctx'[0] = MainContext
    BY <1>2, <2>1
  <2>3. /\ n = 0 => cpu' = MainContext
        /\ n # 0 => cpu' = [thread |-> n, iter |-> ran[n]]
    BY <1>1, <1>2, <1>4, <2>1
       DEF UserInv, UserTypeOK, ContextsOwn, UThread, MainContext
  <2>4. cpu'.thread = n
    BY <2>3 DEF MainContext
  <2>5. UserTypeOK'
    BY <1>1, <1>2, <2>1 DEF UserInv, UserTypeOK, UThread
  <2>6. MainSaved' /\ MainAlone' /\ MainCanResume'
    BY <1>1, <1>2, <2>2, <2>3, <2>4
       DEF UserInv, MainSaved, MainAlone, MainCanResume
  <2>7. ContextsOwn'
    BY <1>1, <1>2, <1>4, <2>1, <2>3, <2>4
       DEF UserInv, UserTypeOK, ContextsOwn, UThread, MainContext
  <2> QED
    BY <1>1, <1>2, <2>4, <2>5, <2>6, <2>7
       DEF UserInv, NotRun, FinishedRanAll, UThread
<1> QED
  BY <1>3, <1>4

\* A thread or main that overwrites what it must not keeps the invariant.
LEMMA OverrunUserInv ==
  UserInv /\ (main_overrun \/ \E k \in UThread : stack_overruns(k)) => UserInv'
<1> SUFFICES ASSUME UserInv
             PROVE  /\ main_overrun => UserInv'
                    /\ \A k \in UThread : stack_overruns(k) => UserInv'
  OBVIOUS
<1> USE DEF UserInv, UserTypeOK, MainSaved, MainAlone, NotRun, ContextsOwn,
            MainCanResume, FinishedRanAll, UserEnd
<1>1. main_overrun => UserInv'
  BY DEF main_overrun
<1>2. ASSUME NEW k \in UThread, stack_overruns(k) PROVE UserInv'
  <2>1. /\ umain = "loop" /\ cpu.thread = k /\ uthread_cur = k /\ k # 0
        /\ smashed' = smashed \cup {k}
        /\ UNCHANGED <<uthread_count, uthread_cur, uctx, cpu, ran>>
    BY <1>2, UserThreadsAssumption DEF stack_overruns, UThread
  <2>2. CASE umain' = "undefined" /\ UNCHANGED is_finished
    BY <2>1, <2>2
  <2>3. CASE UNCHANGED umain /\ is_finished' = [is_finished EXCEPT ![k] = TRUE]
    <3>1. /\ is_finished' \in [UThread -> BOOLEAN] /\ is_finished'[k]
          /\ \A j \in UThread : j # k => is_finished'[j] = is_finished[j]
      BY <2>3
    <3>2. uthread_count = THREADS /\ k < THREADS /\ uthread_count \in 1 .. THREADS
      BY <2>1, UserThreadsAssumption DEF UThread
    <3>3. \A j \in 1 .. uthread_count - 1 : j \in UThread
      BY <3>2 DEF UThread
    <3>4. NotRun'
      BY <2>1, <3>1, <3>2, UserThreadsAssumption DEF UThread
    <3> QED
      BY <2>1, <2>3, <3>1, <3>3, <3>4
  <2> QED
    BY <1>2, <2>2, <2>3 DEF stack_overruns
<1> QED
  BY <1>1, <1>2

\* Every step keeps the invariant.
LEMMA StepUserInv == UserInv /\ [UserNext]_userVars => UserInv'
<1> SUFFICES ASSUME UserInv, [UserNext]_userVars
             PROVE  UserInv'
  OBVIOUS
<1>1. CASE main_ends
  BY <1>1 DEF main_ends, UserInv, UserTypeOK, MainSaved, MainAlone, NotRun,
     ContextsOwn, MainCanResume, FinishedRanAll, UserEnd
<1>2. CASE UNCHANGED userVars
  BY <1>2 DEF userVars, UserInv, UserTypeOK, MainSaved, MainAlone, NotRun,
     ContextsOwn, MainCanResume, FinishedRanAll
<1> QED
  BY <1>1, <1>2, CreateUserInv, IterationUserInv, ReturnUserInv, MainUserInv,
     OverrunUserInv DEF UserNext

\* The inductive invariant holds in every state of lab 1.7.
THEOREM UserInvariant == UserSpec => []UserInv
BY InitUserInv, StepUserInv, PTL DEF UserSpec

\* For any number of threads and iterations uschedule and uc_link lose and
\* repeat no work: contexts are own and newest although main is saved in the
\* structures of ended threads, uc_link finds main, and is_finished is only set
\* for a thread that has run its function to the end, once, or that has run over
\* its own structure, which leaves the others alone.
THEOREM SwitchesCorrect == UserSpec => []SwitchesKeepWork
<1>1. UserInv => SwitchesKeepWork
  BY DEF UserInv, SwitchesKeepWork
<1> QED
  BY <1>1, UserInvariant, PTL

-----------------------------------------------------------------------------
(* Lab 2.1, the count.  The two threads race on count++ and count--, but   *)
(* each of them tests count on its way in, and the other one can only make *)
(* the test truer: the reader only lowers count below max_count, the       *)
(* writer only raises it above 0.  What a thread has loaded is in range    *)
(* for the same reason.                                                    *)

\* The tests of count still hold when the threads come to change it.
CountTested ==
  /\ wr.pc \in Adding => count < max_count
  /\ wr.pc = "store_count" => count < max_count /\ wr.count \in 0 .. max_count - 1
  /\ rd.pc \in Getting => count > 0
  /\ rd.pc = "store_count" => count > 0 /\ rd.count \in 1 .. max_count

\* The inductive invariant.
CountInv ==
  /\ RacyTypeOK
  /\ wr.pc = "advance" => last \in Node
  /\ CountInRange
  /\ CountTested

\* The invariant holds of the empty queue.
LEMMA InitCountInv == RacyInit => CountInv
BY RacyAssumption
   DEF RacyInit, CountInv, RacyTypeOK, CountInRange, CountTested, Pointer,
       Adding, Getting, WriterType, ReaderType

\* The steps of queue_add keep the invariant.
LEMMA WriterCountInv == CountInv /\ RacyWriter => CountInv'
<1> SUFFICES ASSUME CountInv, RacyWriter
             PROVE  CountInv'
  OBVIOUS
<1> USE RacyAssumption
        DEF CountInv, RacyTypeOK, CountInRange, CountTested, Pointer, Adding,
            Getting, WriterAt, WriterTo, Undefined, listVars
<1>1. CASE add_test
  <2> PICK n \in Node \ allocated :
         /\ allocated' = allocated \cup {n}
         /\ node_val' = [node_val EXCEPT ![n] = wr.i]
         /\ node_next' = [node_next EXCEPT ![n] = NULL]
         /\ wr' = [wr EXCEPT !.pc = "load_first", !.new = n]
    BY <1>1 DEF add_test
  <2>1. /\ wr.pc = "test" /\ count < max_count
        /\ UNCHANGED <<first, last, count, rd, racy>>
    BY <1>1 DEF add_test
  <2>2. /\ wr'.pc = "load_first"
        /\ wr' \in WriterType
    BY DEF WriterType
  <2>3. /\ allocated' \in SUBSET Node
        /\ node_val' \in [Node -> Nat]
        /\ node_next' \in [Node -> Pointer]
    BY DEF WriterType
  <2> HIDE DEF Adding, Pointer
  <2> QED
    BY <2>1, <2>2, <2>3
<1>2. CASE add_full
  BY <1>2 DEF add_full, racyVars
<1>3. CASE add_load_first
  BY <1>3 DEF add_load_first, WriterType
<1>4. CASE add_store_first \/ add_store_last
  BY <1>4 DEF add_store_first, add_store_last, WriterType
<1>5. CASE add_link
  BY <1>5 DEF add_link, WriterType
<1>6. CASE add_advance
  BY <1>6 DEF add_advance, WriterType
<1>7. CASE add_load_count
  <2>1. /\ wr.pc = "load_count"
        /\ wr'.pc = "store_count" /\ wr'.count = count
        /\ wr' \in WriterType
    BY <1>7 DEF add_load_count, WriterType
  <2> QED
    BY <1>7, <2>1 DEF add_load_count
<1>8. CASE add_store_count
  <2>0. wr.i + 1 \in Nat
    BY DEF WriterType
  <2>1. /\ wr.pc = "store_count" /\ wr.count \in 0 .. max_count - 1
        /\ wr'.pc = "test"
        /\ wr' \in WriterType
    BY <1>8, <2>0 DEF add_store_count, WriterType
  <2> QED
    BY <1>8, <2>1 DEF add_store_count
<1> QED
  BY <1>1, <1>2, <1>3, <1>4, <1>5, <1>6, <1>7, <1>8 DEF RacyWriter

\* The steps of queue_get keep the invariant.
LEMMA ReaderCountInv == CountInv /\ RacyReader => CountInv'
<1> SUFFICES ASSUME CountInv, RacyReader
             PROVE  CountInv'
  OBVIOUS
<1> USE RacyAssumption
        DEF CountInv, RacyTypeOK, CountInRange, CountTested, Pointer, Adding,
            Getting, ReaderAt, ReaderTo, Undefined, listVars
<1>1. CASE get_test
  BY <1>1 DEF get_test, ReaderType
<1>2. CASE get_empty
  BY <1>2 DEF get_empty, racyVars
<1>3. CASE get_load_first
  BY <1>3 DEF get_load_first, ReaderType
<1>4. CASE get_load_val
  <2>1. CASE Undefined
    BY <2>1
  <2>2. CASE ~Undefined
    <3>0. /\ rd.pc = "load_val"
          /\ rd.tmp \in Node
          /\ rd' = [rd EXCEPT !.pc = "load_next", !.val = node_val[rd.tmp]]
          /\ UNCHANGED <<listVars, count, wr, racy>>
      BY <1>4, <2>2 DEF get_load_val
    <3>1. /\ rd'.pc = "load_next"
          /\ rd' \in ReaderType
      BY <3>0 DEF ReaderType
    <3> QED
      BY <3>0, <3>1
  <2> QED
    BY <2>1, <2>2
<1>5. CASE get_load_next
  <2>1. CASE Undefined
    BY <2>1
  <2>2. CASE ~Undefined
    <3>0. /\ rd.pc = "load_next"
          /\ first \in Node
          /\ rd' = [rd EXCEPT !.pc = "pop", !.next = node_next[first]]
          /\ UNCHANGED <<listVars, count, wr, racy>>
      BY <1>5, <2>2 DEF get_load_next
    <3>1. /\ rd'.pc = "pop"
          /\ rd' \in ReaderType
      BY <3>0 DEF ReaderType
    <3> QED
      BY <3>0, <3>1
  <2> QED
    BY <2>1, <2>2
<1>6. CASE get_pop
  BY <1>6 DEF get_pop, ReaderType
<1>7. CASE get_free
  <2>1. CASE Undefined
    BY <2>1
  <2>2. CASE ~Undefined
    <3>1. /\ rd.pc = "free" /\ rd'.pc = "load_count"
          /\ rd' \in ReaderType
          /\ UNCHANGED <<first, last, count, node_val, node_next, wr, racy>>
      BY <1>7, <2>2 DEF get_free, ReaderType
    <3> QED
      BY <1>7, <3>1 DEF get_free
  <2> QED
    BY <2>1, <2>2
<1>8. CASE get_load_count
  <2>1. /\ rd.pc = "load_count"
        /\ rd'.pc = "store_count" /\ rd'.count = count
        /\ rd' \in ReaderType
    BY <1>8 DEF get_load_count, ReaderType
  <2> QED
    BY <1>8, <2>1 DEF get_load_count
<1>9. CASE get_store_count
  <2>0. rd.val + 1 \in Nat
    BY DEF ReaderType
  <2>1. /\ rd.pc = "store_count" /\ rd.count \in 1 .. max_count
        /\ rd'.pc = "test"
        /\ rd' \in ReaderType
    BY <1>9, <2>0 DEF get_store_count, ReaderType
  <2> QED
    BY <1>9, <2>1 DEF get_store_count
<1> QED
  BY <1>1, <1>2, <1>3, <1>4, <1>5, <1>6, <1>7, <1>8, <1>9 DEF RacyReader

\* queue_add and queue_get, racing without a lock, never carry count out of
\* 0 .. max_count: the assertions of queue.c hold.
THEOREM CountCorrect == RacySpec => []CountInRange
<1>1. CountInv /\ [RacyNext]_racyVars => CountInv'
  <2> SUFFICES ASSUME CountInv, UNCHANGED racyVars
               PROVE  CountInv'
    BY WriterCountInv, ReaderCountInv DEF RacyNext
  <2> QED
    BY DEF CountInv, RacyTypeOK, CountInRange, CountTested, racyVars, listVars
<1>2. CountInv => CountInRange
  BY DEF CountInv
<1> QED
  BY <1>1, <1>2, InitCountInv, PTL DEF RacySpec


-----------------------------------------------------------------------------
(* Lab 2.1, the nodes.  The chain behind first is not described as such:   *)
(* it is enough that a live node's successor is live and younger, that no  *)
(* node has two predecessors and that first has none.  last may be stale   *)
(* or garbage; it is trusted only while there is a first node.             *)

\* Where the writer is: its node is not in the queue yet, or it has been.
Unpublished == {"load_first", "store_both", "store_first", "link"}
Published == {"store_last", "advance", "load_count", "store_count"}

\* The values in the queue: every node is older than the one the writer is
\* adding, and a node's successor is live and younger.
NodesInOrder ==
  /\ \A n \in allocated :
       node_val[n] < wr.i \/ (wr.pc # "test" /\ n = wr.new /\ node_val[n] = wr.i)
  /\ \A n \in allocated : node_next[n] # NULL =>
       /\ node_next[n] \in allocated
       /\ node_val[n] < node_val[node_next[n]]

\* No node has two predecessors, and first has none, but for the node that the
\* reader has taken out and not freed yet.
OnePredecessor ==
  /\ \A m, n \in allocated :
       node_next[m] # NULL /\ node_next[m] = node_next[n] => m = n
  /\ \A n \in allocated : first # NULL /\ node_next[n] = first =>
       rd.pc = "free" /\ n = rd.tmp

\* The node that the reader is at.
ReaderNode ==
  /\ first # NULL => first \in allocated
  /\ rd.pc = "load_val" => rd.tmp \in {NULL, first}
  /\ rd.pc \in {"load_next", "pop"} => rd.tmp = first /\ rd.tmp \in allocated
  /\ rd.pc = "pop" => rd.next \in {NULL, node_next[rd.tmp]}
  /\ rd.pc = "free" => /\ rd.tmp \in allocated
                       /\ rd.tmp # first
                       /\ \A n \in allocated : node_next[n] # rd.tmp

\* The node that the writer is adding is its own until it stores a pointer.
WriterNode ==
  /\ wr.pc \in Unpublished =>
       /\ wr.new \in allocated
       /\ node_val[wr.new] = wr.i
       /\ node_next[wr.new] = NULL
       /\ first # wr.new
       /\ \A n \in allocated : node_next[n] # wr.new
       /\ rd.pc = "free" => rd.tmp # wr.new
  /\ wr.pc \in {"store_both", "store_first"} => first = NULL
  /\ wr.pc = "store_first" => last = wr.new
  /\ wr.pc = "advance" => last \in Node /\ node_next[last] = wr.new
  /\ wr.pc \in {"store_last", "advance"} =>
       /\ wr.new \in Node
       /\ first # NULL =>
            /\ wr.new \in allocated /\ node_next[wr.new] = NULL
            /\ rd.pc = "free" => rd.tmp # wr.new

\* What last is worth: as long as there is a first node, last is lost or it is
\* a node without a successor that the reader will not free before it.
LastNode ==
  /\ wr.pc \in {"test", "load_first", "load_count", "store_count"}
       /\ first # NULL /\ last # Garbage =>
         /\ last \in allocated /\ node_next[last] = NULL
         /\ wr.pc = "load_first" => last # wr.new
         /\ rd.pc = "free" => rd.tmp # last
  /\ wr.pc = "link" =>
       /\ last # wr.new
       /\ last \in allocated => node_next[last] = NULL
       /\ first # NULL /\ last # Garbage => last \in allocated
       /\ first # NULL /\ rd.pc = "free" => rd.tmp # last

\* What the reader expects next is what first has, or younger.
Expected ==
  /\ rd.pc \in {"test", "load_first", "load_val"} /\ first # NULL =>
       node_val[first] >= rd.expected
  /\ rd.pc \in {"load_next", "pop"} => rd.val = node_val[rd.tmp]
  /\ rd.pc \in {"load_next", "pop", "free", "load_count", "store_count"} =>
       /\ rd.val >= rd.expected
       /\ IF wr.pc \in Published THEN rd.val <= wr.i ELSE rd.val < wr.i
  /\ rd.pc \in {"free", "load_count", "store_count"} /\ first # NULL =>
       node_val[first] > rd.val
  /\ rd.expected <= IF wr.pc \in Published THEN wr.i + 1 ELSE wr.i

\* The inductive invariant of the nodes.
ReaderInv ==
  /\ NodesInOrder /\ OnePredecessor /\ ReaderNode
  /\ WriterNode /\ LastNode /\ Expected

\* The invariant holds of the empty queue.
LEMMA InitReaderInv == RacyInit => ReaderInv
BY DEF RacyInit, ReaderInv, NodesInOrder, OnePredecessor, ReaderNode, WriterNode,
       LastNode, Expected, Unpublished, Published

\* What the proofs below use of the types.
LEMMA RacyTypes ==
  RacyTypeOK =>
    /\ wr.i \in Nat /\ wr.new \in Node \cup {NULL}
    /\ rd.val \in Nat /\ rd.expected \in Nat /\ rd.tmp \in Node \cup {NULL}
    /\ rd.next \in Node \cup {NULL} /\ first \in Node \cup {NULL}
    /\ \A n \in Node : node_val[n] \in Nat /\ node_next[n] \in Node \cup {NULL}
    /\ allocated \subseteq Node
BY DEF RacyTypeOK, WriterType, ReaderType, Pointer

\* Stores of the writer: none, one or both.
LEMMA AddTestReaderInv == CountInv /\ ReaderInv /\ add_test => ReaderInv'
<1> SUFFICES ASSUME CountInv, ReaderInv, add_test PROVE ReaderInv'
  OBVIOUS
<1>1. PICK n \in Node \ allocated :
        /\ allocated' = allocated \cup {n}
        /\ node_val' = [node_val EXCEPT ![n] = wr.i]
        /\ node_next' = [node_next EXCEPT ![n] = NULL]
        /\ wr' = [wr EXCEPT !.pc = "load_first", !.new = n]
  BY DEF add_test
<1>2. /\ wr.pc = "test" /\ first' = first /\ last' = last /\ rd' = rd
      /\ wr'.pc = "load_first" /\ wr'.new = n /\ wr'.i = wr.i
  BY <1>1 DEF add_test, WriterAt, CountInv, RacyTypeOK, WriterType
<1>3. /\ \A m \in Node : node_val'[m] = IF m = n THEN wr.i ELSE node_val[m]
      /\ \A m \in Node : node_next'[m] = IF m = n THEN NULL ELSE node_next[m]
  BY <1>1 DEF CountInv, RacyTypeOK
<1>4. /\ wr.i \in Nat /\ rd.expected \in Nat /\ rd.val \in Nat
      /\ rd.tmp \in Node \cup {NULL}
      /\ first \in Node \cup {NULL} /\ allocated \subseteq Node
      /\ NULL \notin Node
      /\ \A m \in Node : node_val[m] \in Nat /\ node_next[m] \in Node \cup {NULL}
  BY RacyTypes, RacyAssumption DEF CountInv
<1>5. first # NULL => first \in allocated
  BY DEF ReaderInv, ReaderNode
<1>6. \A m \in allocated : node_next[m] # n /\ m # n /\ m \in Node
  BY <1>4 DEF ReaderInv, NodesInOrder
<1>7. NodesInOrder'
  BY <1>1, <1>2, <1>3, <1>4, <1>6 DEF ReaderInv, NodesInOrder
<1>8. OnePredecessor'
  BY <1>1, <1>2, <1>3, <1>4, <1>5, <1>6 DEF ReaderInv, OnePredecessor
<1>9. ReaderNode'
  BY <1>1, <1>2, <1>3, <1>4, <1>5, <1>6 DEF ReaderInv, ReaderNode
<1>10. WriterNode'
  <2>1. rd.pc = "free" => rd.tmp # n
    BY DEF ReaderInv, ReaderNode
  <2> QED
    BY <1>1, <1>2, <1>3, <1>4, <1>5, <1>6, <2>1
    DEF WriterNode, Unpublished
<1>11. LastNode'
  BY <1>1, <1>2, <1>3, <1>4, <1>6 DEF ReaderInv, LastNode
<1>12. Expected'
  BY <1>1, <1>2, <1>3, <1>4, <1>5, <1>6 DEF ReaderInv, ReaderNode, Expected, Published
<1> QED
  BY <1>7, <1>8, <1>9, <1>10, <1>11, <1>12 DEF ReaderInv

\* The steps of the writer that only change first, last or its own place.
LEMMA AddStoreReaderInv ==
  CountInv /\ ReaderInv /\ (add_load_first \/ add_store_first \/ add_store_last
    \/ add_advance \/ add_load_count \/ add_store_count) => ReaderInv'
<1> SUFFICES ASSUME CountInv, ReaderInv,
                    add_load_first \/ add_store_first \/ add_store_last
                      \/ add_advance \/ add_load_count \/ add_store_count
             PROVE  ReaderInv'
  OBVIOUS
<1> USE DEF WriterAt, WriterTo, listVars
<1>1. /\ allocated' = allocated /\ node_val' = node_val
      /\ node_next' = node_next /\ rd' = rd
  BY DEF add_load_first, add_store_first, add_store_last, add_advance,
         add_load_count, add_store_count
<1>2. /\ wr.i \in Nat /\ wr.new \in Node \cup {NULL}
      /\ rd.expected \in Nat /\ rd.val \in Nat
      /\ rd.tmp \in Node \cup {NULL}
      /\ first \in Node \cup {NULL} /\ allocated \subseteq Node
      /\ NULL \notin Node
      /\ \A m \in Node : node_val[m] \in Nat /\ node_next[m] \in Node \cup {NULL}
  BY RacyTypes, RacyAssumption DEF CountInv
<1> HIDE DEF listVars
<1>4. CASE add_load_first
  <2>1. /\ wr.pc = "load_first" /\ first' = first /\ last' = last
        /\ wr'.pc = IF first = NULL THEN "store_both" ELSE "link"
        /\ wr'.new = wr.new /\ wr'.i = wr.i
    BY <1>4 DEF add_load_first, CountInv, RacyTypeOK, WriterType, listVars
  <2>2. NodesInOrder' /\ OnePredecessor' /\ ReaderNode'
    BY <1>1, <2>1 DEF ReaderInv, NodesInOrder, OnePredecessor, ReaderNode
  <2>3. WriterNode'
    BY <1>1, <2>1 DEF ReaderInv, WriterNode, Unpublished
  <2>4. LastNode'
    BY <1>1, <1>2, <2>1, RacyAssumption
    DEF ReaderInv, LastNode, WriterNode, ReaderNode, Unpublished
  <2>5. Expected'
    BY <1>1, <2>1 DEF ReaderInv, Expected, Published
  <2> QED
    BY <2>2, <2>3, <2>4, <2>5 DEF ReaderInv
<1>5. CASE add_store_first
  <2>1. /\ wr.pc \in {"store_both", "store_first"} /\ first' = wr.new
        /\ last' = last
        /\ wr'.pc = IF wr.pc = "store_both" THEN "store_last" ELSE "load_count"
        /\ wr'.new = wr.new /\ wr'.i = wr.i
    BY <1>5 DEF add_store_first, CountInv, RacyTypeOK, WriterType
  <2>2. /\ wr.new \in allocated /\ node_val[wr.new] = wr.i
        /\ node_next[wr.new] = NULL /\ first = NULL
        /\ \A n \in allocated : node_next[n] # wr.new
        /\ rd.pc = "free" => rd.tmp # wr.new
    BY <2>1 DEF ReaderInv, WriterNode, Unpublished
  <2>3. NodesInOrder' /\ OnePredecessor'
    BY <1>1, <2>1, <2>2 DEF ReaderInv, NodesInOrder, OnePredecessor
  <2>4. ReaderNode'
    BY <1>1, <1>2, <2>1, <2>2 DEF ReaderInv, ReaderNode
  <2>5. WriterNode'
    BY <1>1, <1>2, <2>1, <2>2 DEF WriterNode, Unpublished
  <2>6. LastNode'
    BY <1>1, <1>2, <2>1, <2>2 DEF LastNode, WriterNode, ReaderInv
  <2>7. Expected'
    BY <1>1, <1>2, <2>1, <2>2 DEF ReaderInv, Expected, ReaderNode, Published
  <2> QED
    BY <2>3, <2>4, <2>5, <2>6, <2>7 DEF ReaderInv
<1>6. CASE add_store_last
  <2>1. /\ wr.pc \in {"store_both", "store_last"} /\ first' = first
        /\ last' = wr.new
        /\ wr'.pc = IF wr.pc = "store_both" THEN "store_first" ELSE "load_count"
        /\ wr'.new = wr.new /\ wr'.i = wr.i
    BY <1>6 DEF add_store_last, CountInv, RacyTypeOK, WriterType
  <2>2. NodesInOrder' /\ OnePredecessor' /\ ReaderNode'
    BY <1>1, <2>1 DEF ReaderInv, NodesInOrder, OnePredecessor, ReaderNode
  <2>3. WriterNode'
    BY <1>1, <2>1 DEF ReaderInv, WriterNode, Unpublished
  <2>4. LastNode'
    BY <1>1, <1>2, <2>1 DEF ReaderInv, LastNode, WriterNode
  <2>5. Expected'
    BY <1>1, <2>1 DEF ReaderInv, Expected, Published
  <2> QED
    BY <2>2, <2>3, <2>4, <2>5 DEF ReaderInv
<1>7. CASE add_advance
  <2>1. /\ wr.pc = "advance" /\ first' = first
        /\ last' \in {node_next[last], Garbage}
        /\ wr'.pc = "load_count" /\ wr'.new = wr.new /\ wr'.i = wr.i
    BY <1>7 DEF add_advance, CountInv, RacyTypeOK, WriterType
  <2>2. NodesInOrder' /\ OnePredecessor' /\ ReaderNode'
    BY <1>1, <2>1 DEF ReaderInv, NodesInOrder, OnePredecessor, ReaderNode
  <2>3. WriterNode'
    BY <1>1, <2>1 DEF WriterNode, Unpublished
  <2>4. LastNode'
    BY <1>1, <2>1 DEF ReaderInv, LastNode, WriterNode
  <2>5. Expected'
    BY <1>1, <2>1 DEF ReaderInv, Expected, Published
  <2> QED
    BY <2>2, <2>3, <2>4, <2>5 DEF ReaderInv
<1>8. CASE add_load_count
  <2>1. /\ wr.pc = "load_count" /\ first' = first /\ last' = last
        /\ wr'.pc = "store_count" /\ wr'.new = wr.new /\ wr'.i = wr.i
    BY <1>8 DEF add_load_count, CountInv, RacyTypeOK, WriterType, listVars
  <2>2. NodesInOrder' /\ OnePredecessor' /\ ReaderNode'
    BY <1>1, <2>1 DEF ReaderInv, NodesInOrder, OnePredecessor, ReaderNode
  <2>3. WriterNode' /\ LastNode'
    BY <1>1, <2>1 DEF ReaderInv, WriterNode, LastNode, Unpublished
  <2>4. Expected'
    BY <1>1, <2>1 DEF ReaderInv, Expected, Published
  <2> QED
    BY <2>2, <2>3, <2>4 DEF ReaderInv
<1>9. CASE add_store_count
  <2>1. /\ wr.pc = "store_count" /\ first' = first /\ last' = last
        /\ wr'.pc = "test" /\ wr'.new = wr.new /\ wr'.i = wr.i + 1
    BY <1>9 DEF add_store_count, CountInv, RacyTypeOK, WriterType, listVars
  <2>2. OnePredecessor' /\ ReaderNode'
    BY <1>1, <2>1 DEF ReaderInv, OnePredecessor, ReaderNode
  <2>3. NodesInOrder'
    BY <1>1, <1>2, <2>1 DEF ReaderInv, NodesInOrder
  <2>4. WriterNode' /\ LastNode'
    BY <1>1, <2>1 DEF ReaderInv, WriterNode, LastNode, Unpublished
  <2>5. Expected'
    BY <1>1, <1>2, <2>1 DEF ReaderInv, Expected, Published
  <2> QED
    BY <2>2, <2>3, <2>4, <2>5 DEF ReaderInv
<1> QED
  BY <1>4, <1>5, <1>6, <1>7, <1>8, <1>9

\* q->last->next = new: last has no successor, so no pointer is lost, and the
\* new node gets its only predecessor.
LEMMA AddLinkReaderInv == CountInv /\ ReaderInv /\ add_link => ReaderInv'
<1> SUFFICES ASSUME CountInv, ReaderInv, add_link, last \in allocated
             PROVE  ReaderInv'
  BY DEF add_link, Undefined, listVars, ReaderInv, NodesInOrder, OnePredecessor,
         ReaderNode, WriterNode, LastNode, Expected
<1>1. /\ wr.pc = "link" /\ first' = first /\ last' = last
      /\ allocated' = allocated /\ node_val' = node_val /\ rd' = rd
      /\ node_next' = [node_next EXCEPT ![last] = wr.new]
      /\ wr'.pc = "advance" /\ wr'.new = wr.new /\ wr'.i = wr.i
  BY DEF add_link, WriterAt, WriterTo, CountInv, RacyTypeOK, WriterType
<1>2. /\ wr.i \in Nat /\ wr.new \in Node \cup {NULL}
      /\ rd.expected \in Nat /\ rd.val \in Nat
      /\ rd.tmp \in Node \cup {NULL}
      /\ first \in Node \cup {NULL} /\ allocated \subseteq Node
      /\ NULL \notin Node
      /\ \A m \in Node : node_val[m] \in Nat /\ node_next[m] \in Node \cup {NULL}
  BY RacyTypes, RacyAssumption DEF CountInv
<1>3. \A m \in Node : node_next'[m] = IF m = last THEN wr.new ELSE node_next[m]
  BY <1>1 DEF CountInv, RacyTypeOK
<1>4. /\ wr.new \in allocated /\ node_val[wr.new] = wr.i
      /\ node_next[wr.new] = NULL /\ first # wr.new
      /\ \A n \in allocated : node_next[n] # wr.new
      /\ rd.pc = "free" => rd.tmp # wr.new
      /\ last # wr.new /\ node_next[last] = NULL
  BY <1>1 DEF ReaderInv, WriterNode, LastNode, Unpublished
<1>5. NodesInOrder'
  BY <1>1, <1>2, <1>3, <1>4 DEF ReaderInv, NodesInOrder
<1>6. OnePredecessor'
  BY <1>1, <1>2, <1>3, <1>4 DEF ReaderInv, OnePredecessor
<1>7. ReaderNode'
  BY <1>1, <1>2, <1>3, <1>4 DEF ReaderInv, ReaderNode
<1>8. WriterNode'
  BY <1>1, <1>2, <1>3, <1>4 DEF ReaderInv, WriterNode, Unpublished
<1>9. LastNode'
  BY <1>1 DEF LastNode
<1>10. Expected'
  BY <1>1, <1>2 DEF ReaderInv, Expected, Published
<1> QED
  BY <1>5, <1>6, <1>7, <1>8, <1>9, <1>10 DEF ReaderInv

\* The steps of the reader that only read, or change the count.
LEMMA GetLoadReaderInv ==
  CountInv /\ ReaderInv /\ (get_test \/ get_load_first \/ get_load_val
    \/ get_load_next \/ get_load_count \/ get_store_count) => ReaderInv'
<1> SUFFICES ASSUME CountInv, ReaderInv,
                    get_test \/ get_load_first \/ get_load_val
                      \/ get_load_next \/ get_load_count \/ get_store_count
             PROVE  ReaderInv'
  OBVIOUS
<1> USE DEF ReaderAt, ReaderTo
<1>1. /\ allocated' = allocated /\ node_val' = node_val /\ wr' = wr
      /\ node_next' = node_next /\ first' = first /\ last' = last
  BY DEF get_test, get_load_first, get_load_val, get_load_next, get_load_count,
         get_store_count, Undefined, listVars
<1>2. /\ wr.i \in Nat /\ wr.new \in Node \cup {NULL}
      /\ rd.expected \in Nat /\ rd.val \in Nat
      /\ rd.tmp \in Node \cup {NULL}
      /\ first \in Node \cup {NULL} /\ allocated \subseteq Node
      /\ NULL \notin Node
      /\ \A m \in Node : node_val[m] \in Nat /\ node_next[m] \in Node \cup {NULL}
  BY RacyTypes, RacyAssumption DEF CountInv
<1>3. rd.pc # "free" /\ (rd' = rd \/ rd'.pc # "free")
  BY DEF get_test, get_load_first, get_load_val, get_load_next, get_load_count,
         get_store_count, Undefined, CountInv, RacyTypeOK, ReaderType
<1>4. NodesInOrder' /\ OnePredecessor' /\ WriterNode' /\ LastNode'
  <2>1. NodesInOrder'
    BY <1>1 DEF ReaderInv, NodesInOrder
  <2>2. OnePredecessor'
    BY <1>1, <1>3 DEF ReaderInv, OnePredecessor
  <2>3. WriterNode'
    BY <1>1, <1>3 DEF ReaderInv, WriterNode
  <2>4. LastNode'
    BY <1>1, <1>3 DEF ReaderInv, LastNode
  <2> QED
    BY <2>1, <2>2, <2>3, <2>4
<1>5. CASE rd' = rd
  BY <1>1, <1>4, <1>5 DEF ReaderInv, ReaderNode, Expected
<1>6. CASE get_test
  <2>1. /\ rd.pc = "test" /\ rd'.pc = "load_first" /\ rd'.expected = rd.expected
    BY <1>6 DEF get_test, CountInv, RacyTypeOK, ReaderType
  <2> QED
    BY <1>1, <1>4, <2>1 DEF ReaderInv, ReaderNode, Expected
<1>7. CASE get_load_first
  <2>1. /\ rd.pc = "load_first" /\ rd'.pc = "load_val"
        /\ rd'.expected = rd.expected /\ rd'.tmp = first
    BY <1>7 DEF get_load_first, CountInv, RacyTypeOK, ReaderType
  <2> QED
    BY <1>1, <1>4, <2>1 DEF ReaderInv, ReaderNode, Expected
<1>8. CASE get_load_val /\ rd' # rd
  <2>1. /\ rd.pc = "load_val" /\ rd'.pc = "load_next" /\ rd.tmp \in allocated
        /\ rd'.expected = rd.expected /\ rd'.tmp = rd.tmp
        /\ rd'.val = node_val[rd.tmp]
    BY <1>8 DEF get_load_val, Undefined, CountInv, RacyTypeOK, ReaderType
  <2>2. ReaderNode'
    BY <1>1, <1>2, <2>1 DEF ReaderInv, ReaderNode
  <2>3. rd.tmp = first /\ first # NULL
    BY <1>2, <2>1 DEF ReaderInv, ReaderNode
  <2>4. IF wr.pc \in Published THEN node_val[first] <= wr.i
        ELSE node_val[first] < wr.i
    <3>1. node_val[first] < wr.i \/ (wr.pc # "test" /\ first = wr.new
                                      /\ node_val[first] = wr.i)
      BY <2>1, <2>3 DEF ReaderInv, NodesInOrder
    <3>2. wr.pc \in Unpublished => first # wr.new
      BY DEF ReaderInv, WriterNode
    <3>3. wr.pc \in Unpublished \cup Published \cup {"test"}
      BY DEF Unpublished, Published, CountInv, RacyTypeOK, WriterType, Adding
    <3> QED
      BY <1>2, <2>1, <2>3, <3>1, <3>2, <3>3
  <2>5. Expected'
    BY <1>1, <2>1, <2>3, <2>4 DEF ReaderInv, Expected
  <2> QED
    BY <1>4, <2>2, <2>5 DEF ReaderInv
<1>9. CASE get_load_next /\ rd' # rd
  <2>1. /\ rd.pc = "load_next" /\ rd'.pc = "pop"
        /\ rd'.expected = rd.expected /\ rd'.tmp = rd.tmp
        /\ rd'.val = rd.val /\ rd'.next = node_next[first]
    BY <1>9 DEF get_load_next, Undefined, CountInv, RacyTypeOK, ReaderType
  <2> QED
    BY <1>1, <1>4, <2>1 DEF ReaderInv, ReaderNode, Expected
<1>10. CASE get_load_count
  <2>1. /\ rd.pc = "load_count" /\ rd'.pc = "store_count"
        /\ rd'.expected = rd.expected /\ rd'.val = rd.val
    BY <1>10 DEF get_load_count, CountInv, RacyTypeOK, ReaderType
  <2> QED
    BY <1>1, <1>4, <2>1 DEF ReaderInv, ReaderNode, Expected
<1>11. CASE get_store_count
  <2>1. /\ rd.pc = "store_count" /\ rd'.pc = "test"
        /\ rd'.expected = rd.val + 1
    BY <1>11 DEF get_store_count, CountInv, RacyTypeOK, ReaderType
  <2>2. ReaderNode'
    BY <1>1, <2>1 DEF ReaderInv, ReaderNode
  <2>3. Expected'
    BY <1>1, <1>2, <2>1 DEF ReaderInv, ReaderNode, Expected
  <2> QED
    BY <1>4, <2>2, <2>3 DEF ReaderInv
<1> QED
  BY <1>5, <1>6, <1>7, <1>8, <1>9, <1>10, <1>11

\* q->first moves on to the successor that was read, which may be out of date
\* only in being NULL.
LEMMA GetPopReaderInv == CountInv /\ ReaderInv /\ get_pop => ReaderInv'
<1> SUFFICES ASSUME CountInv, ReaderInv, get_pop PROVE ReaderInv'
  OBVIOUS
<1>1. /\ rd.pc = "pop" /\ first' = rd.next /\ last' = last
      /\ allocated' = allocated /\ node_val' = node_val /\ wr' = wr
      /\ node_next' = node_next
      /\ rd'.pc = "free" /\ rd'.tmp = rd.tmp /\ rd'.val = rd.val
      /\ rd'.expected = rd.expected
  BY DEF get_pop, ReaderAt, ReaderTo, CountInv, RacyTypeOK, ReaderType
<1>2. /\ wr.i \in Nat /\ wr.new \in Node \cup {NULL}
      /\ rd.expected \in Nat /\ rd.val \in Nat
      /\ rd.tmp \in Node \cup {NULL} /\ rd.next \in Node \cup {NULL}
      /\ first \in Node \cup {NULL} /\ allocated \subseteq Node
      /\ NULL \notin Node
      /\ \A m \in Node : node_val[m] \in Nat /\ node_next[m] \in Node \cup {NULL}
  BY RacyTypes, RacyAssumption DEF CountInv
<1>3. /\ rd.tmp = first /\ first \in allocated /\ first # NULL
      /\ rd.next \in {NULL, node_next[first]}
      /\ rd.val = node_val[first]
  BY <1>1, <1>2 DEF ReaderInv, ReaderNode, Expected
<1>4. rd.next # NULL => rd.next \in allocated /\ node_val[first] < node_val[rd.next]
  BY <1>3 DEF ReaderInv, NodesInOrder
<1>5. \A n \in allocated : node_next[n] # first
  BY <1>1, <1>3 DEF ReaderInv, OnePredecessor
<1>6. NodesInOrder'
  BY <1>1 DEF ReaderInv, NodesInOrder
<1>7. OnePredecessor'
  BY <1>1, <1>3 DEF ReaderInv, OnePredecessor
<1>8. ReaderNode'
  BY <1>1, <1>2, <1>3, <1>4, <1>5 DEF ReaderNode
<1>9. WriterNode'
  BY <1>1, <1>2, <1>3, <1>4 DEF ReaderInv, WriterNode, Unpublished
<1>10. LastNode'
  BY <1>1, <1>2, <1>3, <1>4 DEF ReaderInv, LastNode
<1>11. Expected'
  BY <1>1, <1>3, <1>4 DEF ReaderInv, Expected
<1> QED
  BY <1>6, <1>7, <1>8, <1>9, <1>10, <1>11 DEF ReaderInv

\* free(tmp): no live node and neither first nor a trusted last points to it.
LEMMA GetFreeReaderInv == CountInv /\ ReaderInv /\ get_free => ReaderInv'
<1> SUFFICES ASSUME CountInv, ReaderInv, get_free PROVE ReaderInv'
  OBVIOUS
<1>1. rd.pc = "free"
  BY DEF get_free, ReaderAt
<1>2. /\ rd.tmp \in allocated /\ rd.tmp # first
      /\ \A n \in allocated : node_next[n] # rd.tmp
  BY <1>1 DEF ReaderInv, ReaderNode
<1>3. /\ first' = first /\ last' = last
      /\ allocated' = allocated \ {rd.tmp} /\ node_val' = node_val /\ wr' = wr
      /\ node_next' = node_next
      /\ rd'.pc = "load_count" /\ rd'.val = rd.val
      /\ rd'.expected = rd.expected
  BY <1>2 DEF get_free, ReaderAt, ReaderTo, CountInv, RacyTypeOK, ReaderType
<1>4. /\ first \in Node \cup {NULL} /\ allocated \subseteq Node
      /\ NULL \notin Node
  BY RacyTypes, RacyAssumption DEF CountInv
<1>5. NodesInOrder'
  BY <1>2, <1>3 DEF ReaderInv, NodesInOrder
<1>6. OnePredecessor'
  BY <1>1, <1>2, <1>3 DEF ReaderInv, OnePredecessor
<1>7. ReaderNode'
  BY <1>2, <1>3 DEF ReaderInv, ReaderNode
<1>8. WriterNode'
  BY <1>1, <1>2, <1>3 DEF ReaderInv, WriterNode, Unpublished
<1>9. LastNode'
  BY <1>1, <1>2, <1>3 DEF ReaderInv, LastNode
<1>10. Expected'
  BY <1>1, <1>3 DEF ReaderInv, Expected
<1> QED
  BY <1>5, <1>6, <1>7, <1>8, <1>9, <1>10 DEF ReaderInv

\* Without any lock the reader takes values in order, each at most once, and
\* only ever from nodes that are live.
THEOREM ReaderCorrect == RacySpec => []ReaderSafe
<1>1. RacyInit => CountInv /\ ReaderInv
  BY InitCountInv, InitReaderInv
<1>2. CountInv /\ ReaderInv /\ [RacyNext]_racyVars => (CountInv /\ ReaderInv)'
  <2> SUFFICES ASSUME CountInv, ReaderInv, [RacyNext]_racyVars
               PROVE  CountInv' /\ ReaderInv'
    OBVIOUS
  <2>1. CASE UNCHANGED racyVars
    <3>1. CountInv'
      BY <2>1 DEF CountInv, RacyTypeOK, CountInRange, CountTested, racyVars,
                  listVars
    <3>2. ReaderInv'
      BY <2>1 DEF ReaderInv, NodesInOrder, OnePredecessor, ReaderNode,
                  WriterNode, LastNode, Expected, racyVars, listVars
    <3> QED
      BY <3>1, <3>2
  <2>2. CASE RacyWriter /\ ~UNCHANGED racyVars
    BY <2>2, WriterCountInv, AddTestReaderInv, AddStoreReaderInv,
       AddLinkReaderInv DEF RacyWriter, add_full
  <2>3. CASE RacyReader /\ ~UNCHANGED racyVars
    BY <2>3, ReaderCountInv, GetLoadReaderInv, GetPopReaderInv,
       GetFreeReaderInv DEF RacyReader, get_empty
  <2> QED
    BY <2>1, <2>2, <2>3 DEF RacyNext
<1>3. CountInv /\ ReaderInv => ReaderSafe
  <2> SUFFICES ASSUME CountInv, ReaderInv PROVE ReaderSafe
    OBVIOUS
  <2>1. GetsInOrder
    BY DEF ReaderInv, Expected, GetsInOrder
  <2>2. ReaderOnLiveNodes
    BY DEF ReaderInv, ReaderNode, ReaderOnLiveNodes
  <2> QED
    BY <2>1, <2>2 DEF ReaderSafe
<1> QED
  BY <1>1, <1>2, <1>3, PTL DEF RacySpec

-----------------------------------------------------------------------------
(* Labs 1.2 and 1.3: who has the block at each place of main. *)

\* In 1.2 the thread has it until the join; in 1.3/b.c my_thread2 has it, unless
\* main gives up.
HandoverPhase ==
  /\ exercise # "1.3b" =>
       /\ hmain \in {"create", "join", "print", "free"}
       /\ giver \in {"none", "start", "ended"} /\ looker = "none" /\ frame
       /\ giver = "none" => hmain = "create" /\ block = "none"
       /\ giver = "start" => hmain = "join" /\ block = "none"
       /\ hmain = "create" => giver = "none"
  /\ exercise = "1.3b" =>
       /\ hmain \in {"malloc", "create", "create2", "give_up", "return",
                     "pthread_exit", "gone"}
       /\ hmain = "malloc" => giver = "none"
       /\ hmain = "create" => giver = "none" /\ block = "allocated"
       /\ giver \in {"start", "use"} =>
            \/ block = "allocated"
            \/ hmain = "return" /\ failed = "create2"
       /\ hmain = "give_up" =>
            \/ failed = "create2"
            \/ giver = "none" /\ block = "allocated"
       /\ giver = "ended" => block = "freed"
       /\ hmain = "return" => block = "freed"
       /\ ~frame => hmain = "gone"
       /\ block = "none" => hmain = "malloc"

\* The inductive invariant.
HandoverInv ==
  /\ hend = "running" => HandoverPhase
  /\ HandoverSafe

\* The programs of labs 1.2 and 1.3 by themselves.
HandoverSpec == HandoverInit /\ [][HandoverNext]_handoverVars

\* The block is freed by the thread that is left with it and never used or freed
\* afterwards, unless a join fails or main takes the block back from my_thread2.
THEOREM HandoverCorrect == HandoverSpec => []HandoverSafe
<1> USE DEF HandoverSafe, HandoverFrees, BlockUsedInTime, HandoverPhase,
            HandoverInv
<1>1. HandoverInit => HandoverInv
  BY DEF HandoverInit
<1>2. HandoverInv /\ [HandoverNext]_handoverVars => HandoverInv'
  <2> SUFFICES ASSUME HandoverInv, [HandoverNext]_handoverVars
               PROVE  HandoverInv'
    OBVIOUS
  <2> USE DEF MainIs, Undefine
  <2>1. CASE handover_create \/ return_block \/ handover_join \/ print_block
               \/ free_result \/ handover_join_fails
    BY <2>1 DEF handover_create, return_block, handover_join, print_block,
                free_result, handover_join_fails
  <2>2. CASE malloc_test1 \/ create_my_thread2 \/ create_my_thread
               \/ main_fails \/ main_pthread_exit
    BY <2>2 DEF malloc_test1, create_my_thread2, create_my_thread,
                main_fails, main_pthread_exit
  <2>3. CASE give_up
    BY <2>3 DEF give_up
  <2>6. CASE my_thread2_prints
    BY <2>6 DEF my_thread2_prints
  <2>7. CASE my_thread2_frees
    BY <2>7 DEF my_thread2_frees
  <2>4. CASE my_thread_prints \/ last_thread_ends
    BY <2>4 DEF my_thread_prints, last_thread_ends
  <2>5. CASE UNCHANGED handoverVars
    BY <2>5 DEF handoverVars
  <2> QED
    BY <2>1, <2>2, <2>3, <2>4, <2>5, <2>6, <2>7 DEF HandoverNext
<1>3. HandoverInv => HandoverSafe
  OBVIOUS
<1> HIDE DEF HandoverInv, HandoverSafe
<1> QED
  BY <1>1, <1>2, <1>3, PTL DEF HandoverSpec

-----------------------------------------------------------------------------
(* Lab 1.6: the value of a thread is there when exited says so. *)

\* A thread that has exited has stored its value; only a stack that main has
\* joined is unmapped; the thread that is being created is the last one.
CloneInv ==
  /\ thread_num \in 0 .. Clones
  /\ my_tid \in 0 .. Clones
  /\ cpc \in [CThread -> {"none", "run", "returned", "loop", "leave", "gone"}]
  /\ ret_val \in [CThread -> 0 .. Clones]
  /\ exited \in [CThread -> BOOLEAN]
  /\ cmain = "created" => thread_num # 0 /\ thread_num \in mapped
  /\ \A t \in CThread :
       /\ cpc[t] # "none" =>
            t <= thread_num /\ (cmain = "created" => t < thread_num)
       /\ cpc[t] # "none" /\ t \notin mapped =>
            cmain \in {"return", "done", "unmapped"}
       /\ cpc[t] \in {"returned", "loop", "leave", "gone"} => ret_val[t] = t
       /\ exited[t] => cpc[t] \in {"loop", "leave", "gone"}
  /\ cmain = "take" => my_tid # 0 /\ exited[my_tid]
  /\ JoinGetsResult

\* The program of lab 1.6 by itself.
CloneSpec == CloneInit /\ [][CloneNext]_cloneVars

\* my_thread_join delivers the value of the thread that it joins, whichever
\* creations failed, and also when the process dies on the unmapped stack.
THEOREM JoinCorrect == CloneSpec => []JoinGetsResult
<1> USE CloneAssumption DEF CThread, JoinGetsResult
<1>1. CloneInit => CloneInv
  BY DEF CloneInit, CloneInv
<1>2. CloneInv /\ [CloneNext]_cloneVars => CloneInv'
  <2> SUFFICES ASSUME CloneInv, [CloneNext]_cloneVars
               PROVE  CloneInv'
    OBVIOUS
  <2> USE DEF CloneInv, structVars
  <2>1. CASE create_stack
    BY <2>1 DEF create_stack
  <2>2. CASE my_thread_create
    <3>1. /\ cmain = "created" /\ cmain' = "create" /\ thread_num' = thread_num
          /\ mapped' = mapped /\ ret_val' = ret_val /\ exited' = exited
          /\ thread_num \in CThread /\ cpc[thread_num] = "none"
      BY <2>2 DEF my_thread_create
    <3>2. CASE cpc' = [cpc EXCEPT ![thread_num] = "run"] /\ my_tid' = thread_num
      BY <3>1, <3>2
    <3>3. CASE UNCHANGED <<cpc, my_tid>>
      BY <3>1, <3>3
    <3> QED
      BY <2>2, <3>2, <3>3 DEF my_thread_create
  <2>3. CASE my_thread_create_errno \/ main_created \/ join_wait
               \/ join_uninitialised \/ main_returns
    BY <2>3 DEF my_thread_create_errno, main_created, join_wait,
                join_uninitialised, main_returns
  <2>4. CASE join_take
    BY <2>4 DEF join_take
  <2>5. CASE join_mark
    BY <2>5 DEF join_mark
  <2>6. CASE join_unmap
    BY <2>6 DEF join_unmap
  <2>7. ASSUME NEW t \in CThread, CloneStep(t) PROVE CloneInv'
    <3>1. CASE start_routine(t)
      <4>1. /\ cmain' = cmain /\ thread_num' = thread_num /\ my_tid' = my_tid
            /\ mapped' = mapped /\ exited' = exited /\ result' = result
            /\ cpc[t] = "run" /\ t \in mapped /\ t \in 0 .. Clones
            /\ ret_val' = [ret_val EXCEPT ![t] = t]
            /\ cpc' = [cpc EXCEPT ![t] = "returned"]
        BY <2>7, <3>1 DEF start_routine, Running
      <4> QED
        BY <2>7, <4>1
    <3>2. CASE set_exited(t)
      <4>1. /\ cmain' = cmain /\ thread_num' = thread_num /\ my_tid' = my_tid
            /\ mapped' = mapped /\ ret_val' = ret_val /\ result' = result
            /\ cpc[t] = "returned" /\ t \in mapped
            /\ exited' = [exited EXCEPT ![t] = TRUE]
            /\ cpc' = [cpc EXCEPT ![t] = "loop"]
        BY <3>2 DEF set_exited, Running
      <4> QED
        BY <2>7, <4>1
    <3>3. CASE see_joined(t) \/ leave(t)
      <4>1. /\ cmain' = cmain /\ thread_num' = thread_num /\ my_tid' = my_tid
            /\ mapped' = mapped /\ ret_val' = ret_val /\ result' = result
            /\ exited' = exited /\ cpc[t] \in {"loop", "leave"} /\ t \in mapped
            /\ \/ cpc' = [cpc EXCEPT ![t] = "leave"]
               \/ cpc' = [cpc EXCEPT ![t] = "gone"]
        BY <3>3 DEF see_joined, leave, Running
      <4> QED
        BY <2>7, <4>1
    <3>4. CASE touch_unmapped(t)
      BY <3>4 DEF touch_unmapped, CloneEnd
    <3> QED
      BY <2>7, <3>1, <3>2, <3>3, <3>4 DEF CloneStep
  <2>8. CASE UNCHANGED cloneVars
    BY <2>8 DEF cloneVars
  <2> QED
    BY <2>1, <2>2, <2>3, <2>4, <2>5, <2>6, <2>7, <2>8 DEF CloneNext, CloneMain
<1>3. CloneInv => JoinGetsResult
  BY DEF CloneInv
<1> HIDE DEF JoinGetsResult
<1> QED
  BY <1>1, <1>2, <1>3, PTL DEF CloneSpec

-----------------------------------------------------------------------------
(* Lab 1.4: the handler is pushed wherever a cancellation can act. *)

\* The inductive invariant.
CancelInv ==
  /\ canc_main = "create" => victim = "none"
  /\ victim \in {"none", "start", "no_memory"} => hello = "none" /\ ~cleanup
  /\ victim = "push" => hello = "allocated"
  /\ victim = "loop" /\ hello = "allocated" => cleanup
  /\ victim = "loop" /\ hello # "allocated" => hello = "none" /\ ~cleanup
  /\ victim = "handler" => canc_ret = "PTHREAD_CANCELED"
  /\ CancelReleasesBuffer

\* The programs of lab 1.4 by themselves.
CancelSpec == CancelInit /\ [][CancelNext]_cancelVars

\* Wherever the cancellation catches the thread, its buffer is freed when it has
\* ended.
THEOREM CancelCorrect == CancelSpec => []CancelReleasesBuffer
<1> USE DEF CancelReleasesBuffer
<1>1. CancelInit => CancelInv
  BY DEF CancelInit, CancelInv
<1>2. CancelInv /\ [CancelNext]_cancelVars => CancelInv'
  <2> SUFFICES ASSUME CancelInv, [CancelNext]_cancelVars
               PROVE  CancelInv'
    OBVIOUS
  <2> USE DEF CancelInv, VictimTo, heapVars
  <2>1. CASE cancel_create \/ pthread_cancel \/ cancel_join \/ cancel_join_fails
    BY <2>1 DEF cancel_create, pthread_cancel, cancel_join, cancel_join_fails
  <2>2. CASE Victim
    <3>1. CASE start_loop \/ start_malloc \/ exit_no_memory
      BY <3>1 DEF start_loop, start_malloc, exit_no_memory
    <3>2. CASE pthread_cleanup_push \/ free_handler
      BY <3>2 DEF pthread_cleanup_push, free_handler
    <3>3. CASE act_on_cancel
      <4>1. /\ hello' = hello /\ cleanup' = cleanup /\ canc_main' = canc_main
            /\ canc_ret' = "PTHREAD_CANCELED"
            /\ victim' = IF cleanup THEN "handler" ELSE "exited"
            /\ victim \in {"loop", "start", "no_memory"}
            /\ victim # "none"
        BY <3>3 DEF act_on_cancel, AtCancellationPoint
      <4> QED
        BY <4>1
    <3> QED
      BY <2>2, <3>1, <3>2, <3>3 DEF Victim
  <2>3. CASE UNCHANGED cancelVars
    BY <2>3 DEF cancelVars
  <2> QED
    BY <2>1, <2>2, <2>3 DEF CancelNext
<1>3. CancelInv => CancelReleasesBuffer
  BY DEF CancelInv
<1> HIDE DEF CancelReleasesBuffer
<1> QED
  BY <1>1, <1>2, <1>3, PTL DEF CancelSpec

-----------------------------------------------------------------------------
(* One of the programs runs. *)

\* A step of LabThreads is a step of the program that runs, and leaves the
\* variables of the others alone.
THEOREM ProgramsRun ==
  Spec => UserSpec /\ RacySpec /\ HandoverSpec /\ CloneSpec /\ CancelSpec
<1>1. Init => UserInit /\ RacyInit /\ HandoverInit /\ CloneInit /\ CancelInit
  BY DEF Init
<1>2. [Next]_vars => /\ [UserNext]_userVars /\ [RacyNext]_racyVars
                     /\ [HandoverNext]_handoverVars
                     /\ [CloneNext]_cloneVars /\ [CancelNext]_cancelVars
  BY DEF Next, Handover, Cancel, Clone, User, Racy, Ended, vars, labVars
<1> QED
  BY <1>1, <1>2, PTL
  DEF Spec, UserSpec, RacySpec, HandoverSpec, CloneSpec, CancelSpec

\* So whichever program runs, what its threads were promised holds.
THEOREM ThreadsCorrect ==
  Spec => /\ []SwitchesKeepWork /\ []CountInRange /\ []ReaderSafe
          /\ []HandoverSafe /\ []JoinGetsResult /\ []CancelReleasesBuffer
BY ProgramsRun, SwitchesCorrect, CountCorrect, ReaderCorrect, HandoverCorrect,
   JoinCorrect, CancelCorrect, PTL
=============================================================================
