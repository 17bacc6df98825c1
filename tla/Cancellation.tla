---------------------------- MODULE Cancellation -----------------------------
(***************************************************************************)
(* Lab 1.4: main cancels a thread and joins it.  In a.c the thread prints  *)
(* in a loop, in b.c it prints once and then only counts, in c.c it owns a *)
(* buffer that a cleanup handler frees.                                    *)
(*                                                                         *)
(* Cancellation is deferred: it acts inside a call that is a cancellation  *)
(* point, here printf when it writes; while stdout only buffers, it does   *)
(* not.                                                                    *)
(***************************************************************************)
VARIABLES
  variant,    \* "a", "b" or "c": the program
  canc_main,  \* where main is
  victim,     \* where the thread is
  pending,    \* pthread_cancel has been called
  hello,      \* the buffer of c.c: "none", "allocated" or "freed"
  cleanup,    \* free_handler is pushed
  canc_ret    \* what pthread_join delivers

cancelVars == <<variant, canc_main, victim, pending, hello, cleanup, canc_ret>>
heapVars == <<hello, cleanup>>

CancelEnd == {"done", "failed"}

CancelInit ==
  /\ variant \in {"a", "b", "c"}
  /\ canc_main = "create"
  /\ victim = "none"
  /\ pending = FALSE
  /\ hello = "none"
  /\ cleanup = FALSE
  /\ canc_ret = "none"

-----------------------------------------------------------------------------
(* main *)

cancel_create ==
  /\ canc_main = "create"
  /\ \/ victim' = "start" /\ canc_main' = "cancel"
     \/ victim' = "none" /\ canc_main' = "failed"
  /\ UNCHANGED <<variant, pending, heapVars, canc_ret>>

\* sleep is no guarantee: the thread may not have run at all, or have ended,
\* which some versions of the library report as ESRCH.
pthread_cancel ==
  /\ canc_main = "cancel"
  /\ pending' = TRUE
  /\ canc_main' \in {"join"} \cup IF victim = "exited" THEN {"failed"} ELSE {}
  /\ UNCHANGED <<variant, victim, heapVars, canc_ret>>

cancel_join ==
  /\ canc_main = "join" /\ victim = "exited"
  /\ canc_main' = "done"
  /\ UNCHANGED <<variant, victim, pending, heapVars, canc_ret>>

\* pthread_join fails, wherever the thread is, and main returns.
cancel_join_fails ==
  /\ canc_main = "join"
  /\ canc_main' = "failed"
  /\ UNCHANGED <<variant, victim, pending, heapVars, canc_ret>>

-----------------------------------------------------------------------------
(* my_thread *)

Alive == canc_main \notin CancelEnd
VictimTo(p) == victim' = p /\ UNCHANGED <<variant, canc_main, pending>>

\* a.c goes straight to its loop; the first printf of b.c lets a pending
\* cancellation through.
start_loop ==
  /\ Alive /\ victim = "start" /\ variant # "c"
  /\ VictimTo("loop")
  /\ UNCHANGED <<heapVars, canc_ret>>

\* c.c: malloc and strcpy are no cancellation points.
start_malloc ==
  /\ Alive /\ victim = "start" /\ variant = "c"
  /\ \/ VictimTo("push") /\ hello' = "allocated"
     \/ VictimTo("no_memory") /\ UNCHANGED hello
  /\ UNCHANGED <<cleanup, canc_ret>>

\* pthread_exit(NULL) after a failed malloc.
exit_no_memory ==
  /\ Alive /\ victim = "no_memory"
  /\ VictimTo("exited")
  /\ canc_ret' = "NULL"
  /\ UNCHANGED heapVars

\* Fault: the handler is pushed after the first printf.
cleanup_push_late ==
  /\ Alive /\ victim = "push"
  /\ \/ VictimTo("loop") /\ cleanup' = TRUE /\ UNCHANGED canc_ret
     \/ /\ pending /\ VictimTo("exited") /\ canc_ret' = "PTHREAD_CANCELED"
        /\ UNCHANGED cleanup
  /\ UNCHANGED hello

pthread_cleanup_push ==
  /\ Alive /\ victim = "push"
  /\ VictimTo("loop")
  /\ cleanup' = TRUE
  /\ UNCHANGED <<hello, canc_ret>>

\* The calls at which a cancellation acts: the loops of a.c and c.c, the first
\* printf of b.c, the message of c.c about malloc.
AtCancellationPoint ==
  \/ victim = "loop" /\ variant # "b"
  \/ victim = "start" /\ variant = "b"
  \/ victim = "no_memory"

act_on_cancel ==
  /\ Alive /\ pending /\ AtCancellationPoint
  /\ VictimTo(IF cleanup THEN "handler" ELSE "exited")
  /\ canc_ret' = "PTHREAD_CANCELED"
  /\ UNCHANGED heapVars

free_handler ==
  /\ Alive /\ victim = "handler"
  /\ VictimTo("exited")
  /\ hello' = "freed"
  /\ cleanup' = FALSE
  /\ UNCHANGED canc_ret

Victim ==
  \/ start_loop
  \/ start_malloc
  \/ exit_no_memory
  \/ pthread_cleanup_push
  \/ act_on_cancel
  \/ free_handler

CancelNext ==
  cancel_create \/ pthread_cancel \/ cancel_join \/ cancel_join_fails \/ Victim

-----------------------------------------------------------------------------
\* Wherever the cancellation catches the thread, a buffer that was allocated is
\* freed when it has ended, and only a thread that got none can have ended by
\* itself.
CancelReleasesBuffer ==
  victim = "exited" => /\ hello # "allocated"
                       /\ canc_ret = "PTHREAD_CANCELED" \/ hello = "none"
=============================================================================
