---------------------------- MODULE HeapHandover -----------------------------
(***************************************************************************)
(* Labs 1.2 and 1.3: memory handed from one thread to another.  In 1.2/b.c *)
(* and 1.2/c.c the thread returns a block that main frees after the join;  *)
(* in 1.3/b.c main hands a block to one detached thread, that frees it,    *)
(* and the address of a local variable to another.                         *)
(*                                                                         *)
(* failed records the call that did not succeed: what the programs promise *)
(* depends on it.                                                          *)
(***************************************************************************)
VARIABLES
  exercise,  \* the program
  hmain,     \* where main is
  giver,     \* the thread of 1.2, and my_thread2 of 1.3
  looker,    \* my_thread of 1.3
  block,     \* the malloced block: "none", "allocated" or "freed"
  frame,     \* main has not left its stack frame
  failed,    \* history: the pthread call that failed
  hend       \* how the process is

handoverVars == <<exercise, hmain, giver, looker, block, frame, failed, hend>>

\* The process ended, dereferenced NULL, misused the heap, or read a frame that
\* is gone.
HandoverEnd == {"exited", "crashed", "undefined", "no_frame"}

HandoverInit ==
  /\ exercise \in {"1.2b", "1.2c", "1.3b"}
  /\ hmain = IF exercise = "1.3b" THEN "malloc" ELSE "create"
  /\ giver = "none"
  /\ looker = "none"
  /\ block = "none"
  /\ frame = TRUE
  /\ failed = "none"
  /\ hend = "running"

MainIs(p) == hend = "running" /\ hmain = p
Undefine == hend' = "undefined" /\ UNCHANGED <<exercise, hmain, giver, looker,
                                               block, frame, failed>>

-----------------------------------------------------------------------------
(* 1.2/b.c and 1.2/c.c *)

\* The thread is created, or main returns.
handover_create ==
  /\ MainIs("create") /\ exercise # "1.3b"
  /\ \/ giver' = "start" /\ hmain' = "join" /\ UNCHANGED <<failed, hend>>
     \/ hend' = "exited" /\ failed' = "create" /\ UNCHANGED <<giver, hmain>>
  /\ UNCHANGED <<exercise, looker, block, frame>>

\* The thread ends with its block, or with NULL when malloc failed.
return_block ==
  /\ hend = "running" /\ giver = "start" /\ exercise # "1.3b"
  /\ block' \in {"allocated", "none"}
  /\ giver' = "ended"
  /\ UNCHANGED <<exercise, hmain, looker, frame, failed, hend>>

handover_join ==
  /\ MainIs("join") /\ giver = "ended"
  /\ hmain' = "print"
  /\ UNCHANGED <<exercise, giver, looker, block, frame, failed, hend>>

\* pthread_join fails, wherever the thread is: main returns and leaves the
\* block to the system; 1.2/c.c first frees the pointer that the join has not
\* set.
handover_join_fails ==
  /\ MainIs("join")
  /\ failed' = "join"
  /\ hend' \in {"exited"} \cup IF exercise = "1.2c" THEN {"undefined"} ELSE {}
  /\ UNCHANGED <<exercise, hmain, giver, looker, block, frame>>

\* main follows the pointer it was given: 1.2/b.c does not survive NULL, in
\* 1.2/c.c printf takes it for "(null)".
print_block ==
  /\ MainIs("print")
  /\ \/ /\ block = "allocated" \/ exercise = "1.2c"
        /\ hmain' = "free"
        /\ UNCHANGED hend
     \/ /\ block = "none" /\ exercise = "1.2b"
        /\ hend' = "crashed"
        /\ UNCHANGED hmain
  /\ UNCHANGED <<exercise, giver, looker, block, frame, failed>>

\* free, also of NULL; main returns.
free_result ==
  /\ MainIs("free")
  /\ block' = IF block = "allocated" THEN "freed" ELSE block
  /\ hend' = "exited"
  /\ UNCHANGED <<exercise, hmain, giver, looker, frame, failed>>

-----------------------------------------------------------------------------
(* 1.3/b.c *)

\* test1 is filled in without a test for NULL.
malloc_test1 ==
  /\ MainIs("malloc")
  /\ \/ block' = "allocated" /\ hmain' = "create" /\ UNCHANGED hend
     \/ hend' = "crashed" /\ UNCHANGED <<block, hmain>>
  /\ UNCHANGED <<exercise, giver, looker, frame, failed>>

\* my_thread2 gets the block; when the attributes or the thread fail, main
\* gives up.
create_my_thread2 ==
  /\ MainIs("create") /\ exercise = "1.3b"
  /\ \/ giver' = "start" /\ hmain' = "create2" /\ UNCHANGED failed
     \/ failed' = "create" /\ hmain' = "give_up" /\ UNCHANGED giver
  /\ UNCHANGED <<exercise, looker, block, frame, hend>>

\* my_thread gets the address of test2, in main's frame.
create_my_thread ==
  /\ MainIs("create2")
  /\ \/ looker' = "start" /\ hmain' = "pthread_exit" /\ UNCHANGED failed
     \/ failed' = "create2" /\ hmain' = "give_up" /\ UNCHANGED looker
  /\ UNCHANGED <<exercise, giver, block, frame, hend>>

\* main frees test1, which my_thread2 may be using or have freed.
give_up ==
  /\ MainIs("give_up")
  /\ \/ /\ block = "allocated"
        /\ block' = "freed"
        /\ hmain' = "return"
        /\ UNCHANGED <<exercise, giver, looker, frame, failed, hend>>
     \/ block = "freed" /\ Undefine

\* main returns, and the threads end with the process.
main_fails ==
  /\ MainIs("return")
  /\ hend' = "exited"
  /\ UNCHANGED <<exercise, hmain, giver, looker, block, frame, failed>>

\* Fault: the free that 1.3/b.c:70 has commented out.
main_pthread_exit_frees ==
  /\ MainIs("pthread_exit")
  /\ hmain' = "gone"
  /\ frame' = FALSE
  /\ block' = "freed"
  /\ UNCHANGED <<exercise, giver, looker, failed, hend>>

\* pthread_exit(NULL) ends main's frame; the threads go on.
main_pthread_exit ==
  /\ MainIs("pthread_exit")
  /\ hmain' = "gone"
  /\ frame' = FALSE
  /\ UNCHANGED <<exercise, giver, looker, block, failed, hend>>

\* my_thread2 prints what is in the block, then frees it.
my_thread2_prints ==
  /\ hend = "running" /\ giver = "start" /\ exercise = "1.3b"
  /\ \/ /\ block = "allocated"
        /\ giver' = "use"
        /\ UNCHANGED <<exercise, hmain, looker, block, frame, failed, hend>>
     \/ block = "freed" /\ Undefine

my_thread2_frees ==
  /\ hend = "running" /\ giver = "use"
  /\ \/ /\ block = "allocated"
        /\ block' = "freed"
        /\ giver' = "ended"
        /\ UNCHANGED <<exercise, hmain, looker, frame, failed, hend>>
     \/ block = "freed" /\ Undefine

\* my_thread prints test2; main's frame may be gone by then.
my_thread_prints ==
  /\ hend = "running" /\ looker = "start"
  /\ looker' = "ended"
  /\ hend' \in IF frame THEN {"running"} ELSE {"running", "no_frame"}
  /\ UNCHANGED <<exercise, hmain, giver, block, frame, failed>>

\* The last thread has ended, and the process with it.
last_thread_ends ==
  /\ MainIs("gone") /\ giver = "ended" /\ looker = "ended"
  /\ hend' = "exited"
  /\ UNCHANGED <<exercise, hmain, giver, looker, block, frame, failed>>

HandoverNext ==
  \/ handover_create
  \/ return_block
  \/ handover_join
  \/ handover_join_fails
  \/ print_block
  \/ free_result
  \/ malloc_test1
  \/ create_my_thread2
  \/ create_my_thread
  \/ give_up
  \/ main_fails
  \/ main_pthread_exit
  \/ my_thread2_prints
  \/ my_thread2_frees
  \/ my_thread_prints
  \/ last_thread_ends

-----------------------------------------------------------------------------
\* A program that ends of its own accord has freed the block, by whichever
\* thread was left with it, also after a creation that failed; only a join that
\* failed leaves it (1.2/b.c:30, 1.2/c.c:30).
HandoverFrees ==
  hend = "exited" /\ failed # "join" => block # "allocated"

\* With a join, or a hand over for good, between the last use of one thread and
\* the first of the other the block is never used or freed after it is gone.
\* That takes a call that failed: the join of 1.2/c.c, whose line 31 frees what
\* the join has not set, or the second creation of 1.3/b.c, whose line 63 frees
\* what my_thread2 has.
BlockUsedInTime ==
  hend = "undefined" => \/ exercise = "1.2c" /\ failed = "join"
                        \/ exercise = "1.3b" /\ failed = "create2"

\* The block is freed once, and not while it is used, unless a join fails or
\* main takes it back from a thread that runs.
HandoverSafe == HandoverFrees /\ BlockUsedInTime
=============================================================================
