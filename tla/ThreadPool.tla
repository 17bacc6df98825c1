----------------------------- MODULE ThreadPool ------------------------------
(***************************************************************************)
(* The pool of workers: threading/threadpool.c, with proxy_start           *)
(* (proxy/proxy.c) around it: the start, where every allocation and thread *)
(* creation may fail, the accept loop that feeds the pool, and the end.    *)
(*                                                                         *)
(* A worker's array of clients is shared with the main thread under        *)
(* worker->lock.  A critical section is one step, but for one: the test    *)
(* of the wait loop and pthread_cond_wait are two steps of a worker that   *)
(* holds its lock, because threadpool_shutdown sets is_shutdown and        *)
(* signals without the lock.  Descriptors are reused by accept as soon as  *)
(* they are closed, and resolve_and_connect closes one twice when it fails *)
(* (proxy.c:107 and 126): in between the number may have become a client's *)
(* (only main can get it: no other worker opens a socket meanwhile, for    *)
(* searchCreateMutex is held).  struck records that this has happened.     *)
(* That a descriptor closed under a worker may also come back as the       *)
(* socket of a remote is left out.                                         *)
(***************************************************************************)
EXTENDS Integers, Sequences, FiniteSets, SequencesExt

CONSTANTS
  Fd,                      \* descriptors of clients (bound: open at a time)
  Conn,                    \* heap cells for connection_ctx_t
  MAX_WORKER_THREADS,
  MAX_CLIENTS_PER_THREAD,
  None                     \* no descriptor (-1), no cell

ASSUME ThreadPoolAssumption ==
  /\ MAX_WORKER_THREADS \in Nat \ {0}
  /\ MAX_CLIENTS_PER_THREAD \in Nat \ {0}
  /\ None \notin Fd \cup Conn

VARIABLES
  open,         \* the open client descriptors
  sock_fd,      \* conn->sock_fd of every cell
  slots,        \* worker->fds and worker->connections, nfds long
  is_shutdown,  \* per worker
  wpc,          \* where each worker is
  local,        \* fds_local and conn_local
  revents,      \* what poll reported for each of them
  idx,          \* the index of the loop over them
  mpc,          \* where the main thread is
  client_fd,    \* the descriptor that accept returned
  scan,         \* pick_worker: [i, best, min_load]
  last_worker,  \* static in pick_worker
  room,         \* history: pick_worker saw a worker that was not full
  keep_running,
  shut,         \* the index of the first loop of threadpool_shutdown
  server,       \* server_sockfd is open
  pool,         \* tp and tp->worker_data are allocated
  cache,        \* http_cache_init has returned a cache
  stray,        \* closed by resolve_and_connect, which will close it again
  struck        \* history: that second close has closed a client

workerVars == <<wpc, local, revents, idx>>
mainVars == <<mpc, client_fd, scan, last_worker, room, shut>>
poolVars == <<open, sock_fd, slots, is_shutdown>>
startVars == <<server, pool, cache>>
strayVars == <<stray, struck>>
vars == <<poolVars, workerVars, mainVars, keep_running, startVars, strayVars>>

Worker == 0 .. MAX_WORKER_THREADS - 1
UINT_MAX == MAX_CLIENTS_PER_THREAD + 1  \* above every nfds
Slot == [fd : Fd, conn : Conn]
EndPc == {"done", "crashed", "undefined", "segfault"}  \* the process has ended
Event == {"none", "err", "nval", "in"}  \* "err" is POLLERR or only POLLHUP
WorkerPc == {"none", "top", "empty", "waiting", "poll", "process", "reclose",
             "disconnect", "mark", "clean_up", "exiting", "exited"}
StartPc == {"listen", "alloc_pool", "create_workers", "init_cache"}
MainPc == StartPc \cup {"loop_end", "call_accept", "accept", "pick", "add",
                        "close", "shutdown", "signal", "end"} \cup EndPc

TypeOK ==
  /\ open \in SUBSET Fd
  /\ sock_fd \in [Conn -> Fd \cup {None}]
  /\ slots \in [Worker -> Seq(Slot)]
  /\ \A w \in Worker : Len(slots[w]) <= MAX_CLIENTS_PER_THREAD
  /\ is_shutdown \in [Worker -> BOOLEAN]
  /\ wpc \in [Worker -> WorkerPc]
  /\ local \in [Worker -> Seq(Slot)]
  /\ revents \in [Worker -> Seq(Event)]
  /\ idx \in [Worker -> Nat]
  /\ mpc \in MainPc
  /\ client_fd \in Fd \cup {None}
  /\ scan \in [i : 0 .. MAX_WORKER_THREADS, best : Worker \cup {-1},
               min_load : 0 .. UINT_MAX]
  /\ last_worker \in Worker
  /\ room \in BOOLEAN
  /\ keep_running \in BOOLEAN
  /\ shut \in 0 .. MAX_WORKER_THREADS
  /\ server \in BOOLEAN
  /\ pool \in BOOLEAN
  /\ cache \in BOOLEAN
  /\ stray \in Fd \cup {None}
  /\ struck \in BOOLEAN

\* proxy_start is called; no worker has been created.
Init ==
  /\ open = {}
  /\ sock_fd = [c \in Conn |-> None]
  /\ slots = [w \in Worker |-> <<>>]
  /\ is_shutdown = [w \in Worker |-> FALSE]
  /\ wpc = [w \in Worker |-> "none"]
  /\ local = [w \in Worker |-> <<>>]
  /\ revents = [w \in Worker |-> <<>>]
  /\ idx = [w \in Worker |-> 1]
  /\ mpc = "listen"
  /\ client_fd = None
  /\ scan = [i |-> 0, best |-> -1, min_load |-> UINT_MAX]
  /\ last_worker = 0
  /\ room = FALSE
  /\ keep_running = TRUE
  /\ shut = 0
  /\ server = FALSE
  /\ pool = FALSE
  /\ cache = FALSE
  /\ stray = None
  /\ struck = FALSE

WorkerAt(w, p) == wpc[w] = p
WorkerTo(w, p) == wpc' = [wpc EXCEPT ![w] = p]

\* worker->lock is held from the test of the wait loop to the wait.
Locked(w) == WorkerAt(w, "empty")

\* pthread_cond_signal(&worker->worker_notify)
Signal(w) ==
  IF WorkerAt(w, "waiting") THEN WorkerTo(w, "top") ELSE UNCHANGED wpc

Conns(s) == {s[k].conn : k \in DOMAIN s}

-----------------------------------------------------------------------------
(* client_worker_main *)

\* With the lock taken: no client and no shutdown.
find_empty(w) ==
  /\ WorkerAt(w, "top")
  /\ slots[w] = <<>> /\ ~is_shutdown[w]
  /\ WorkerTo(w, "empty")
  /\ UNCHANGED <<poolVars, local, revents, idx, mainVars, keep_running,
                 startVars, strayVars>>

\* pthread_cond_wait gives the lock back and blocks.
cond_wait(w) ==
  /\ WorkerAt(w, "empty")
  /\ WorkerTo(w, "waiting")
  /\ UNCHANGED <<poolVars, local, revents, idx, mainVars, keep_running,
                 startVars, strayVars>>

\* pthread_cond_wait may return without a signal.
spurious_wakeup(w) ==
  /\ pool /\ mpc \notin EndPc /\ WorkerAt(w, "waiting")
  /\ WorkerTo(w, "top")
  /\ UNCHANGED <<poolVars, local, revents, idx, mainVars, keep_running,
                 startVars, strayVars>>

\* With the lock taken: the loop is left.
see_shutdown(w) ==
  /\ WorkerAt(w, "top")
  /\ is_shutdown[w]
  /\ WorkerTo(w, "exiting")
  /\ UNCHANGED <<poolVars, local, revents, idx, mainVars, keep_running,
                 startVars, strayVars>>

\* With the lock taken: the clients are copied.
copy_clients(w) ==
  /\ WorkerAt(w, "top")
  /\ slots[w] # <<>> /\ ~is_shutdown[w]
  /\ local' = [local EXCEPT ![w] = slots[w]]
  /\ WorkerTo(w, "poll")
  /\ UNCHANGED <<poolVars, revents, idx, mainVars, keep_running, startVars,
                 strayVars>>

\* poll reports a closed descriptor, and what it likes for an open one.
poll_events(w) ==
  /\ WorkerAt(w, "poll")
  /\ \E ev \in [DOMAIN local[w] -> Event] :
       /\ \E k \in DOMAIN ev : ev[k] # "none"
       /\ \A k \in DOMAIN ev : ev[k] = "nval" <=> local[w][k].fd \notin open
       /\ revents' = [revents EXCEPT ![w] = ev]
  /\ idx' = [idx EXCEPT ![w] = 1]
  /\ WorkerTo(w, "process")
  /\ UNCHANGED <<poolVars, local, mainVars, keep_running, startVars, strayVars>>

\* poll times out or fails.
poll_nothing(w) ==
  /\ WorkerAt(w, "poll")
  /\ WorkerTo(w, "top")
  /\ local' = [local EXCEPT ![w] = <<>>]
  /\ UNCHANGED <<poolVars, revents, idx, mainVars, keep_running, startVars,
                 strayVars>>

\* The loop over the copies has got to a client of which poll reported one of
\* the events E.
Reported(w, E) ==
  /\ WorkerAt(w, "process")
  /\ idx[w] \in DOMAIN local[w]
  /\ revents[w][idx[w]] \in E

\* The connection that the loop is at.
conn_at(w) == local[w][idx[w]].conn

no_events(w) ==
  /\ Reported(w, {"none"})
  /\ idx' = [idx EXCEPT ![w] = @ + 1]
  /\ UNCHANGED <<poolVars, wpc, local, revents, mainVars, keep_running,
                 startVars, strayVars>>

\* POLLNVAL: the client is dropped and nothing is closed.
drop_invalid(w) ==
  /\ Reported(w, {"nval"})
  /\ sock_fd' = [sock_fd EXCEPT ![conn_at(w)] = None]
  /\ idx' = [idx EXCEPT ![w] = @ + 1]
  /\ UNCHANGED <<open, slots, is_shutdown, wpc, local, revents, mainVars,
                 keep_running, startVars, strayVars>>

\* process_request, holding searchCreateMutex: the last connect of
\* resolve_and_connect fails, and its socket is closed.
connect_fails(w) ==
  /\ Reported(w, {"in"}) /\ stray = None
  /\ stray' \in Fd \ open
  /\ WorkerTo(w, "reclose")
  /\ UNCHANGED <<poolVars, local, revents, idx, mainVars, keep_running,
                 startVars, struck>>

\* The descriptor is closed again, whosever it is by now.
close_again(w) ==
  /\ WorkerAt(w, "reclose")
  /\ open' = open \ {stray}
  /\ struck' = (struck \/ stray \in open)
  /\ stray' = None
  /\ WorkerTo(w, "disconnect")
  /\ UNCHANGED <<sock_fd, slots, is_shutdown, local, revents, idx, mainVars,
                 keep_running, startVars>>

\* POLLIN: process_request disconnects the client on every path that returns;
\* POLLERR and POLLHUP: the worker closes it.
close_conn(w) ==
  /\ WorkerAt(w, "disconnect") \/ Reported(w, {"err", "in"})
  /\ open' = open \ {sock_fd[conn_at(w)]}
  /\ WorkerTo(w, "mark")
  /\ UNCHANGED <<sock_fd, slots, is_shutdown, local, revents, idx, mainVars,
                 keep_running, startVars, strayVars>>

\* Fault: the client is closed, but conn->sock_fd keeps the descriptor.
mark_closed_not(w) ==
  /\ WorkerAt(w, "mark")
  /\ idx' = [idx EXCEPT ![w] = @ + 1]
  /\ WorkerTo(w, "process")
  /\ UNCHANGED <<poolVars, local, revents, mainVars, keep_running, startVars,
                 strayVars>>

\* conn->sock_fd = -1
mark_closed(w) ==
  /\ WorkerAt(w, "mark")
  /\ sock_fd' = [sock_fd EXCEPT ![conn_at(w)] = None]
  /\ idx' = [idx EXCEPT ![w] = @ + 1]
  /\ WorkerTo(w, "process")
  /\ UNCHANGED <<open, slots, is_shutdown, local, revents, mainVars,
                 keep_running, startVars, strayVars>>

\* process_request follows the Host header that the request does not have.
no_host_header(w) ==
  /\ pool /\ mpc \notin EndPc
  /\ Reported(w, {"in"})
  /\ mpc' = "segfault"
  /\ UNCHANGED <<poolVars, workerVars, client_fd, scan, last_worker, room, shut,
                 keep_running, startVars, strayVars>>

process_end(w) ==
  /\ WorkerAt(w, "process")
  /\ idx[w] > Len(local[w])
  /\ WorkerTo(w, "clean_up")
  /\ UNCHANGED <<poolVars, local, revents, idx, mainVars, keep_running,
                 startVars, strayVars>>

\* The positions in s of the clients that are not closed.
Kept(s) == {k \in DOMAIN s : sock_fd[s[k].conn] # None}

\* The j-th number of the set K, and the elements of s at K, in order.
Nth(K, j) == CHOOSE k \in K : Cardinality({i \in K : i <= k}) = j
Shifted(s, K) == [j \in 1 .. Cardinality(K) |-> s[Nth(K, j)]]

\* Fault: nfds is written back too, over what main has added meanwhile.
CleanedUp_truncated(w) == Shifted(local[w], Kept(local[w]))

\* worker->fds and ->connections after the copies are written back over the
\* first nfds_local slots and the closed clients are shifted out.
CleanedUp(w) ==
  LET n == Len(local[w])
      written == local[w] \o SubSeq(slots[w], n + 1, Len(slots[w]))
  IN Shifted(written, Kept(written))

clean_up(w) ==
  /\ WorkerAt(w, "clean_up")
  /\ slots' = [slots EXCEPT ![w] = CleanedUp(w)]
  /\ local' = [local EXCEPT ![w] = <<>>]
  /\ revents' = [revents EXCEPT ![w] = <<>>]
  /\ idx' = [idx EXCEPT ![w] = 1]
  /\ WorkerTo(w, "top")
  /\ UNCHANGED <<open, sock_fd, is_shutdown, mainVars, keep_running, startVars,
                 strayVars>>

\* The worker closes and frees the clients it still has.
free_resources(w) ==
  /\ WorkerAt(w, "exiting")
  /\ open' = open \ {sock_fd[c] : c \in Conns(slots[w])}
  /\ sock_fd' = [c \in Conn |-> IF c \in Conns(slots[w]) THEN None
                               ELSE sock_fd[c]]
  /\ slots' = [slots EXCEPT ![w] = <<>>]
  /\ WorkerTo(w, "exited")
  /\ UNCHANGED <<is_shutdown, local, revents, idx, mainVars, keep_running,
                 startVars, strayVars>>

-----------------------------------------------------------------------------
(* The accept loop, threadpool_add_client and pick_worker. *)

\* main is in the system call.
call_accept ==
  /\ mpc = "call_accept"
  /\ mpc' = "accept"
  /\ UNCHANGED <<poolVars, workerVars, client_fd, scan, last_worker, room, shut,
                 keep_running, startVars, strayVars>>

accept_client ==
  /\ mpc = "accept"
  /\ \E fd \in Fd \ open : open' = open \cup {fd} /\ client_fd' = fd
  /\ scan' = [i |-> 0, best |-> -1, min_load |-> UINT_MAX]
  /\ room' = FALSE
  /\ mpc' = "pick"
  /\ UNCHANGED <<sock_fd, slots, is_shutdown, workerVars, last_worker, shut,
                 keep_running, startVars, strayVars>>

\* accept fails for another reason than EINTR: continue.
accept_error ==
  /\ mpc = "accept"
  /\ mpc' = "call_accept"
  /\ UNCHANGED <<poolVars, workerVars, client_fd, scan, last_worker, room, shut,
                 keep_running, startVars, strayVars>>

\* The worker whose load pick_worker reads next.
current_index == (last_worker + 1 + scan.i) % MAX_WORKER_THREADS

\* Fault: the load is compared the wrong way round after the first worker.
pick_worker_fullest ==
  LET w == current_index
      nfds == Len(slots[w])
  IN /\ mpc = "pick" /\ scan.i < MAX_WORKER_THREADS
     /\ ~Locked(w)
     /\ scan' = IF scan.best = -1 \/ nfds > scan.min_load
                THEN [i |-> scan.i + 1, best |-> w, min_load |-> nfds]
                ELSE [scan EXCEPT !.i = @ + 1]
     /\ room' = (room \/ nfds < MAX_CLIENTS_PER_THREAD)
     /\ UNCHANGED <<poolVars, workerVars, mpc, client_fd, last_worker, shut,
                    keep_running, startVars, strayVars>>

\* One turn of the loop, under the lock of that worker.
pick_worker ==
  LET w == current_index
      nfds == Len(slots[w])
  IN /\ mpc = "pick" /\ scan.i < MAX_WORKER_THREADS
     /\ ~Locked(w)
     /\ scan' = IF nfds < scan.min_load
                THEN [i |-> scan.i + 1, best |-> w, min_load |-> nfds]
                ELSE [scan EXCEPT !.i = @ + 1]
     /\ room' = (room \/ nfds < MAX_CLIENTS_PER_THREAD)
     /\ UNCHANGED <<poolVars, workerVars, mpc, client_fd, last_worker, shut,
                    keep_running, startVars, strayVars>>

pick_worker_return ==
  /\ mpc = "pick" /\ scan.i = MAX_WORKER_THREADS
  /\ last_worker' = scan.best
  /\ mpc' = "add"
  /\ UNCHANGED <<poolVars, workerVars, client_fd, scan, room, shut,
                 keep_running, startVars, strayVars>>

\* Fault: the new client is not announced.
add_client_silent ==
  LET w == scan.best
  IN /\ mpc = "add"
     /\ ~Locked(w)
     /\ Len(slots[w]) < MAX_CLIENTS_PER_THREAD
     /\ \E c \in Conn :
          /\ \A v \in Worker : c \notin Conns(slots[v])
          /\ sock_fd' = [sock_fd EXCEPT ![c] = client_fd]
          /\ slots' = [slots EXCEPT ![w] =
                         Append(@, [fd |-> client_fd, conn |-> c])]
     /\ client_fd' = None
     /\ mpc' = "loop_end"
     /\ UNCHANGED <<open, is_shutdown, workerVars, scan, last_worker, room,
                    shut, keep_running, startVars, strayVars>>

\* add_client_to_worker: the client gets a slot and the worker is signalled.
add_client ==
  LET w == scan.best
  IN /\ mpc = "add"
     /\ ~Locked(w)
     /\ Len(slots[w]) < MAX_CLIENTS_PER_THREAD
     /\ \E c \in Conn :
          /\ \A v \in Worker : c \notin Conns(slots[v])
          /\ sock_fd' = [sock_fd EXCEPT ![c] = client_fd]
          /\ slots' = [slots EXCEPT ![w] =
                         Append(@, [fd |-> client_fd, conn |-> c])]
     /\ Signal(w)
     /\ client_fd' = None
     /\ mpc' = "loop_end"
     /\ UNCHANGED <<open, is_shutdown, local, revents, idx, scan, last_worker,
                    room, shut, keep_running, startVars, strayVars>>

\* add_client_to_worker: the worker is at capacity.
add_client_full ==
  /\ mpc = "add"
  /\ ~Locked(scan.best)
  /\ Len(slots[scan.best]) >= MAX_CLIENTS_PER_THREAD
  /\ mpc' = "close"
  /\ UNCHANGED <<poolVars, workerVars, client_fd, scan, last_worker, room, shut,
                 keep_running, startVars, strayVars>>

\* add_client_to_worker: calloc fails, and nfds is reverted.
add_client_no_memory ==
  /\ mpc = "add"
  /\ ~Locked(scan.best)
  /\ Len(slots[scan.best]) < MAX_CLIENTS_PER_THREAD
  /\ mpc' = "close"
  /\ UNCHANGED <<poolVars, workerVars, client_fd, scan, last_worker, room, shut,
                 keep_running, startVars, strayVars>>

\* The client is turned away.
close_client ==
  /\ mpc = "close"
  /\ open' = open \ {client_fd}
  /\ client_fd' = None
  /\ mpc' = "loop_end"
  /\ UNCHANGED <<sock_fd, slots, is_shutdown, workerVars, scan, last_worker,
                 room, shut, keep_running, startVars, strayVars>>

loop_end ==
  /\ mpc = "loop_end"
  /\ mpc' = IF keep_running THEN "call_accept" ELSE "shutdown"
  /\ UNCHANGED <<poolVars, workerVars, client_fd, scan, last_worker, room, shut,
                 keep_running, startVars, strayVars>>

\* SIGINT, once the handler is installed: it clears keep_running; accept
\* returns EINTR if main is inside it and is the thread that takes the signal.
sigterm_handler ==
  /\ keep_running /\ mpc \notin {"listen"} \cup EndPc
  /\ keep_running' = FALSE
  /\ mpc' \in {mpc} \cup IF mpc = "accept" THEN {"loop_end"} ELSE {}
  /\ UNCHANGED <<poolVars, workerVars, client_fd, scan, last_worker, room, shut,
                 startVars, strayVars>>

-----------------------------------------------------------------------------
(* The start of proxy_start, threadpool_init and http_cache_init. *)

\* The handler is installed and the server listens, or proxy_start returns
\* with the socket closed.
listen_socket ==
  /\ mpc = "listen"
  /\ \E ok \in BOOLEAN : /\ server' = ok
                         /\ mpc' = IF ok THEN "alloc_pool" ELSE "done"
  /\ UNCHANGED <<poolVars, workerVars, client_fd, scan, last_worker, room, shut,
                 keep_running, pool, cache, strayVars>>

\* The two callocs of threadpool_init; when one fails the other is undone.
threadpool_init_alloc ==
  /\ mpc = "alloc_pool"
  /\ \E ok \in BOOLEAN : /\ pool' = ok
                         /\ mpc' = IF ok THEN "create_workers" ELSE "shutdown"
  /\ UNCHANGED <<poolVars, workerVars, client_fd, scan, last_worker, room, shut,
                 keep_running, server, cache, strayVars>>

\* The workers that do not exist yet; they are created in order.
Missing == {w \in Worker : WorkerAt(w, "none")}

threadpool_init_create ==
  /\ mpc = "create_workers"
  /\ \E w \in Missing : (\A v \in Missing : w <= v) /\ WorkerTo(w, "top")
  /\ UNCHANGED <<poolVars, local, revents, idx, mainVars, keep_running,
                 startVars, strayVars>>

\* pthread_create fails: worker_data is freed under the workers that already
\* run, and main goes to the end of proxy_start.
threadpool_init_fails ==
  /\ mpc = "create_workers" /\ Missing # {}
  /\ pool' = FALSE
  /\ mpc' = "shutdown"
  /\ UNCHANGED <<poolVars, workerVars, client_fd, scan, last_worker, room, shut,
                 keep_running, server, cache, strayVars>>

threadpool_init_return ==
  /\ mpc = "create_workers" /\ Missing = {}
  /\ mpc' = "init_cache"
  /\ UNCHANGED <<poolVars, workerVars, client_fd, scan, last_worker, room, shut,
                 keep_running, startVars, strayVars>>

\* A worker that was created touches worker_data after it was freed.
use_after_free(w) ==
  /\ ~pool /\ mpc \notin EndPc
  /\ wpc[w] \notin {"none", "exited"}
  /\ mpc' = "undefined"
  /\ UNCHANGED <<poolVars, workerVars, client_fd, scan, last_worker, room, shut,
                 keep_running, startVars, strayVars>>

\* The cache is there, or one of its two callocs failed.
http_cache_init ==
  /\ mpc = "init_cache"
  /\ \E ok \in BOOLEAN : /\ cache' = ok
                         /\ mpc' = IF ok THEN "call_accept" ELSE "shutdown"
  /\ UNCHANGED <<poolVars, workerVars, client_fd, scan, last_worker, room, shut,
                 keep_running, server, pool, strayVars>>

\* The collector cannot be created: http_cache_shutdown_no_collector frees the
\* cache and clears the pointer, whose collector_lock is then destroyed.
http_cache_init_no_collector ==
  /\ mpc = "init_cache"
  /\ mpc' = "crashed"
  /\ UNCHANGED <<poolVars, workerVars, client_fd, scan, last_worker, room, shut,
                 keep_running, startVars, strayVars>>

-----------------------------------------------------------------------------
(* threadpool_shutdown and the end of proxy_start *)

\* threadpool_shutdown returns at once if there is no pool.
shutdown_no_pool ==
  /\ mpc = "shutdown" /\ ~pool
  /\ mpc' = "end"
  /\ UNCHANGED <<poolVars, workerVars, client_fd, scan, last_worker, room, shut,
                 keep_running, startVars, strayVars>>

\* The store, without the lock.
shutdown_store ==
  /\ mpc = "shutdown" /\ pool /\ shut < MAX_WORKER_THREADS
  /\ is_shutdown' = [is_shutdown EXCEPT ![shut] = TRUE]
  /\ mpc' = "signal"
  /\ UNCHANGED <<open, sock_fd, slots, workerVars, client_fd, scan, last_worker,
                 room, shut, keep_running, startVars, strayVars>>

\* The signal, without the lock.
shutdown_signal ==
  /\ mpc = "signal"
  /\ Signal(shut)
  /\ shut' = shut + 1
  /\ mpc' = "shutdown"
  /\ UNCHANGED <<poolVars, local, revents, idx, client_fd, scan, last_worker,
                 room, keep_running, startVars, strayVars>>

\* Fault: the workers are not joined.
shutdown_join_detached ==
  /\ mpc = "shutdown" /\ pool /\ shut = MAX_WORKER_THREADS
  /\ pool' = FALSE
  /\ mpc' = "end"
  /\ UNCHANGED <<poolVars, workerVars, client_fd, scan, last_worker, room, shut,
                 keep_running, server, cache, strayVars>>

\* Every worker is joined and the pool is freed.
shutdown_join ==
  /\ mpc = "shutdown" /\ pool /\ shut = MAX_WORKER_THREADS
  /\ \A w \in Worker : WorkerAt(w, "exited")
  /\ pool' = FALSE
  /\ mpc' = "end"
  /\ UNCHANGED <<poolVars, workerVars, client_fd, scan, last_worker, room, shut,
                 keep_running, server, cache, strayVars>>

\* http_cache_shutdown, the close of the server's socket, and the process ends.
proxy_end ==
  /\ mpc = "end"
  /\ cache' = FALSE
  /\ server' = FALSE
  /\ mpc' = "done"
  /\ UNCHANGED <<poolVars, workerVars, client_fd, scan, last_worker, room, shut,
                 keep_running, pool, strayVars>>

Terminated == mpc \in EndPc /\ UNCHANGED vars

-----------------------------------------------------------------------------
WorkerNext(w) ==
  /\ pool /\ mpc \notin EndPc
  /\ \/ find_empty(w)
     \/ cond_wait(w)
     \/ see_shutdown(w)
     \/ copy_clients(w)
     \/ poll_events(w)
     \/ poll_nothing(w)
     \/ no_events(w)
     \/ drop_invalid(w)
     \/ connect_fails(w)
     \/ close_again(w)
     \/ close_conn(w)
     \/ mark_closed(w)
     \/ process_end(w)
     \/ clean_up(w)
     \/ free_resources(w)

StartNext ==
  \/ listen_socket
  \/ threadpool_init_alloc
  \/ threadpool_init_create
  \/ threadpool_init_fails
  \/ threadpool_init_return
  \/ http_cache_init
  \/ http_cache_init_no_collector

\* The steps of main that need no client and no signal.
MainNext ==
  \/ StartNext
  \/ call_accept
  \/ pick_worker
  \/ pick_worker_return
  \/ add_client
  \/ add_client_full
  \/ add_client_no_memory
  \/ close_client
  \/ loop_end
  \/ shutdown_no_pool
  \/ shutdown_store
  \/ shutdown_signal
  \/ shutdown_join
  \/ proxy_end

Next ==
  \/ \E w \in Worker : \/ WorkerNext(w)
                       \/ spurious_wakeup(w)
                       \/ no_host_header(w)
                       \/ use_after_free(w)
  \/ MainNext
  \/ accept_client
  \/ accept_error
  \/ sigterm_handler
  \/ Terminated

Spec == Init /\ [][Next]_vars

\* Every thread runs, and main gets a lock that is given back again and again;
\* clients, errors, signals and spurious wakeups may come or not.
FairSpec ==
  Spec /\ SF_vars(MainNext) /\ \A w \in Worker : WF_vars(WorkerNext(w))

-----------------------------------------------------------------------------
(* Safety. *)

\* The descriptor of a connection, None once its client is closed.
FdOf(c) ==
  IF \E w \in Worker : WorkerAt(w, "mark") /\ conn_at(w) = c THEN None
  ELSE sock_fd[c]

\* Where a client can be: in the main thread's hands or in a worker's slot.
SlotsOf(fd) ==
  {s \in Worker \X (1 .. MAX_CLIENTS_PER_THREAD) :
     /\ s[2] \in DOMAIN slots[s[1]]
     /\ FdOf(slots[s[1]][s[2]].conn) = fd}

\* The copy that a worker makes, works on without the lock and writes back
\* neither loses nor doubles a client that main adds meanwhile: every open
\* client has a slot, or is still with the main thread, also when some have been
\* closed by a resolve_and_connect; as long as none has, it has just one.
OneSlotPerClient ==
  \A fd \in Fd :
    /\ fd \in open /\ fd # client_fd => SlotsOf(fd) # {}
    /\ ~struck => Cardinality(SlotsOf(fd)) =
                    IF fd \in open /\ fd # client_fd THEN 1 ELSE 0

\* "why ... my poll was saying there was a closed socket" (proxy.c:294): poll is
\* never given a descriptor that is closed.
PollsOpenSockets ==
  \A w \in Worker : WorkerAt(w, "poll") =>
    \A k \in DOMAIN local[w] : local[w][k].fd \in open

\* As long as no resolve_and_connect has closed a client, poll is never given a
\* descriptor that is closed, or closed and reused for another client, although
\* close and conn->sock_fd = -1 are two steps and accept comes in between.
PollsOwnClients ==
  ~struck => /\ PollsOpenSockets
             /\ \A w \in Worker : WorkerAt(w, "poll") =>
                  \A k \in DOMAIN local[w] :
                    sock_fd[local[w][k].conn] = local[w][k].fd

\* No lost wakeup by add_client_to_worker: a worker only sleeps when it has no
\* clients.
SleeperHasNoClients ==
  \A w \in Worker : WorkerAt(w, "waiting") => slots[w] = <<>>

\* However proxy_start ends, at whichever step the start failed, and whatever
\* resolve_and_connect has closed, nothing is left behind: no client and no
\* server descriptor, no pool and no cache.  threadpool_shutdown frees
\* worker_data only when no worker can touch it any more; threadpool_init has no
\* such order (threadpool.c:221), of which only this is said: the freed array
\* is only ever used by the workers of a start that failed.
NothingLeftBehind ==
  /\ mpc = "done" => open = {} /\ ~server /\ ~pool /\ ~cache
  /\ ~pool /\ shut = MAX_WORKER_THREADS
       => \A w \in Worker : WorkerAt(w, "exited")
  /\ mpc = "undefined" => Missing # {}

\* "All workers are full" (proxy.c:594): a client is only turned away for want
\* of a slot if every worker was full when pick_worker looked at it, although
\* the workers go on while it looks; and none is ever stored beyond the slots of
\* a worker (TypeOK).
RejectsOnlyWhenFull == []TypeOK /\ [][add_client_full => ~room]_vars

-----------------------------------------------------------------------------
(* Liveness. *)

\* "wait for new ones or for a shutdown" (threadpool.c:18): once
\* threadpool_shutdown works on a pool, it ends, unless a request without a Host
\* header ends the process first.
ShutdownEnds == (mpc = "shutdown" /\ pool) ~> mpc \in {"done", "segfault"}
=============================================================================
