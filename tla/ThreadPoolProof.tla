--------------------------- MODULE ThreadPoolProof ---------------------------
(***************************************************************************)
(* The pool for any number of workers, slots, descriptors and cells: no    *)
(* client is lost or kept waiting by a sleeping worker, and when           *)
(* proxy_start has ended no descriptor, pool or cache is left; and as long *)
(* as no second close of resolve_and_connect has closed a client, none has *)
(* two slots or is polled after it is closed.                              *)
(*                                                                         *)
(* A worker works on a copy of its clients without the lock, while main    *)
(* appends to the array.  The argument is that the copy stays a prefix of  *)
(* the array (Copies), and that a closed client is always one that the     *)
(* copy holds and the loop has reached (ClosedAreCopied): the write-back   *)
(* changes nothing, and the shift drops exactly the closed clients.  Once  *)
(* a client has been closed by somebody else (struck), its number may be   *)
(* that of a newer client while poll still reports it as invalid; none is  *)
(* lost because the newer one has a slot of its own (NoneLost).            *)
(***************************************************************************)
EXTENDS ThreadPool, FiniteSetTheorems, SequenceTheorems, TLAPS

\* In the loop over the copies, and wherever a worker has copies.
LoopPc == {"process", "reclose", "disconnect", "mark"}
CopyPc == LoopPc \cup {"poll", "clean_up"}

\* The slots of worker w that are in use.
Used(w) == 1 .. Len(slots[w])

\* Slot k of worker w has been closed, and its cell does not say so yet.
Marking(w, k) == wpc[w] = "mark" /\ k = idx[w]

\* The descriptor behind a slot: None once it is closed.
FdAt(w, k) == IF Marking(w, k) THEN None ELSE sock_fd[slots[w][k].conn]

\* Slot k of worker w is going to be dropped, because poll found it closed.
Doomed(w, k) ==
  /\ wpc[w] \in LoopPc
  /\ k \in 1 .. Len(local[w]) /\ k >= idx[w]
  /\ revents[w][k] = "nval"

\* Every slot in use has a cell of its own.
OwnCells ==
  \A w, v \in Worker : \A k \in Used(w), j \in Used(v) :
    slots[w][k].conn = slots[v][j].conn => w = v /\ k = j

\* A slot polls the descriptor of its cell.
PollsCells ==
  \A w \in Worker : \A k \in Used(w) :
    FdAt(w, k) # None => FdAt(w, k) = slots[w][k].fd

\* Its client is open, and is not the one that main is about to hand over.
OwnClients ==
  ~struck => \A w \in Worker : \A k \in Used(w) :
               FdAt(w, k) # None => FdAt(w, k) \in open /\ FdAt(w, k) # client_fd

\* No client has two slots.
NoDoubles ==
  ~struck => \A w, v \in Worker : \A k \in Used(w), j \in Used(v) :
               FdAt(w, k) # None /\ FdAt(w, k) = FdAt(v, j) => w = v /\ k = j

\* No client is lost.
NoneLost ==
  \A fd \in open : fd = client_fd \/ \E w \in Worker : \E k \in Used(w) :
                                       FdAt(w, k) = fd /\ ~Doomed(w, k)

\* What a worker copied is still at the front of its array.
Copies ==
  \A w \in Worker : wpc[w] \in CopyPc =>
    /\ Len(local[w]) <= Len(slots[w])
    /\ \A k \in 1 .. Len(local[w]) : local[w][k] = slots[w][k]

\* A closed client that still has its slot is in the copy, and the loop over
\* the copy has passed it or is about to.
ClosedAreCopied ==
  \A w \in Worker : \A k \in Used(w) : FdAt(w, k) = None =>
    /\ wpc[w] \in LoopPc \cup {"clean_up"}
    /\ k <= Len(local[w])
    /\ wpc[w] \in LoopPc => k < idx[w] \/ Marking(w, k)

\* poll has an answer for each copy, and found none of them closed.
Answers ==
  \A w \in Worker : wpc[w] \in LoopPc =>
    /\ Len(revents[w]) = Len(local[w])
    /\ idx[w] \in 1 .. Len(local[w]) + 1
    /\ wpc[w] # "process" => idx[w] <= Len(local[w])
    /\ ~struck => \A k \in 1 .. Len(local[w]) : revents[w][k] # "nval"

\* Where a worker cannot have clients.
NoClients ==
  \A w \in Worker :
    wpc[w] \in {"none", "empty", "waiting", "exited"} => slots[w] = <<>>

\* pick_worker: the best worker so far has at most min_load clients, since only
\* main adds any, and there was room if min_load is below the capacity.
Scanned ==
  mpc \in {"pick", "add"} =>
    /\ scan.i = 0 => scan.min_load = UINT_MAX /\ ~room
    /\ scan.i > 0 => /\ scan.best \in Worker
                     /\ scan.min_load <= MAX_CLIENTS_PER_THREAD
                     /\ Len(slots[scan.best]) <= scan.min_load
    /\ room => scan.min_load < MAX_CLIENTS_PER_THREAD
    /\ mpc = "add" => scan.i = MAX_WORKER_THREADS

ServingPc == {"loop_end", "call_accept", "accept", "pick", "add", "close"}

\* What main has in its hands.
MainHands ==
  /\ mpc \in {"pick", "add", "close"} =>
       client_fd \in Fd /\ (~struck => client_fd \in open)
  /\ mpc \notin {"pick", "add", "close", "segfault"} => client_fd = None

\* Start, service and shutdown follow one another.
Phases ==
  /\ mpc \in StartPc => ~cache /\ \A w \in Worker : slots[w] = <<>>
  /\ mpc \in {"listen", "alloc_pool"} =>
       ~pool /\ \A w \in Worker : wpc[w] = "none"
  /\ mpc = "listen" => ~server
  /\ mpc \in {"create_workers", "init_cache", "signal"} \cup ServingPc => pool
  /\ mpc \in {"init_cache"} \cup ServingPc => Missing = {}
  /\ mpc \in StartPc \cup ServingPc =>
       shut = 0 /\ \A w \in Worker : ~is_shutdown[w]
  /\ mpc = "signal" => shut < MAX_WORKER_THREADS
  /\ mpc \in {"end", "done"} => ~pool
  /\ mpc = "done" => ~server /\ ~cache
  /\ mpc = "undefined" => Missing # {}
  /\ \A w \in Worker : wpc[w] \in {"exiting", "exited"} => is_shutdown[w]

\* Without a pool there are no clients, and no worker of a complete pool.
NoPool ==
  ~pool => /\ \A w \in Worker : slots[w] = <<>>
           /\ Missing # {} \/ \A w \in Worker : wpc[w] = "exited"
           /\ shut > 0 => \A w \in Worker : wpc[w] = "exited"

\* The inductive invariant: the clients, and the control around them.
Clients ==
  OwnCells /\ PollsCells /\ OwnClients /\ NoDoubles /\ NoneLost
Control ==
  Copies /\ ClosedAreCopied /\ Answers /\ NoClients /\ Scanned /\ MainHands
    /\ Phases /\ NoPool
IInv == TypeOK /\ Clients /\ Control

-----------------------------------------------------------------------------
(* Picking the elements of a set of positions in order. *)

\* Nth(K, _) numbers the positions K from 1 on, each once.
LEMMA NthNumbers ==
  ASSUME NEW n \in Nat, NEW K \in SUBSET (1 .. n)
  PROVE  /\ Cardinality(K) \in 0 .. n
         /\ \A j \in 1 .. Cardinality(K) : Nth(K, j) \in K
         /\ \A i, j \in 1 .. Cardinality(K) : Nth(K, i) = Nth(K, j) => i = j
         /\ \A k \in K : \E j \in 1 .. Cardinality(K) : Nth(K, j) = k
<1> DEFINE c == Cardinality(K)
           upto(k) == {i \in K : i <= k}
           rank == [k \in K |-> Cardinality(upto(k))]
<1>1. IsFiniteSet(K) /\ c \in Nat /\ c <= n
  <2>1. IsFiniteSet(1 .. n) /\ Cardinality(1 .. n) = n
    BY FS_Interval
  <2> QED
    BY <2>1, FS_Subset, FS_CardinalityType
<1>2. \A k \in K : /\ IsFiniteSet(upto(k))
                   /\ Cardinality(upto(k)) \in Nat
                   /\ Cardinality(upto(k)) <= c
                   /\ upto(k) # {}
  <2> TAKE k \in K
  <2>1. upto(k) \in SUBSET K /\ k \in upto(k)
    OBVIOUS
  <2> QED
    BY <1>1, <2>1, FS_Subset, FS_CardinalityType
<1>3. rank \in [K -> 1 .. c]
  <2> SUFFICES ASSUME NEW k \in K PROVE Cardinality(upto(k)) \in 1 .. c
    OBVIOUS
  <2>1. Cardinality(upto(k)) # 0
    BY <1>2, FS_EmptySet
  <2> HIDE DEF c, upto
  <2> QED
    BY <1>1, <1>2, <2>1
<1>4. \A k, l \in K : k < l => Cardinality(upto(k)) # Cardinality(upto(l))
  <2> SUFFICES ASSUME NEW k \in K, NEW l \in K, k < l
               PROVE  Cardinality(upto(k)) # Cardinality(upto(l))
    OBVIOUS
  <2>0. k \in Int /\ l \in Int /\ K \subseteq Int
    OBVIOUS
  <2>1. l \in upto(l) /\ l \notin upto(k)
    BY <2>0
  <2>2. \A i \in K : i <= k => i <= l
    BY <2>0
  <2>3. upto(k) \subseteq upto(l)
    BY <2>2
  <2> QED
    BY <1>2, <2>1, <2>3, FS_Subset
<1>5. rank \in Injection(K, 1 .. c)
  <2>1. \A k, l \in K : k # l => k < l \/ l < k
    OBVIOUS
  <2> QED
    BY <1>3, <1>4, <2>1 DEF Injection, IsInjective
<1>6. \A j \in 1 .. c : \E k \in K : Cardinality(upto(k)) = j
  <2>1. IsFiniteSet(1 .. c) /\ Cardinality(1 .. c) = c
    BY <1>1, FS_Interval
  <2>2. rank \in Surjection(K, 1 .. c)
    BY <1>5, <2>1, FS_Injection
  <2> QED
    BY <2>2 DEF Surjection
<1>7. \A j \in 1 .. c : Nth(K, j) \in K /\ Cardinality(upto(Nth(K, j))) = j
  BY <1>6 DEF Nth
<1>8. \A k \in K : \E j \in 1 .. c : Nth(K, j) = k
  <2> TAKE k \in K
  <2>1. rank[k] \in 1 .. c /\ rank[k] = Cardinality(upto(k))
    BY <1>3
  <2>2. /\ Nth(K, rank[k]) \in K
        /\ Cardinality(upto(Nth(K, rank[k]))) = Cardinality(upto(k))
    BY <1>7, <2>1
  <2>3. Nth(K, rank[k]) = k
    <3> DEFINE m == Nth(K, rank[k])
    <3>1. m \in K /\ Cardinality(upto(m)) = Cardinality(upto(k))
      BY <2>2
    <3> HIDE DEF m, upto
    <3>2. ~(m < k) /\ ~(k < m)
      BY <1>4, <3>1
    <3>3. m \in Int /\ k \in Int
      BY <3>1
    <3>4. m = k
      BY <3>2, <3>3
    <3> QED
      BY <3>4 DEF m
  <2> QED
    BY <2>1, <2>3
<1>9. \A i, j \in 1 .. c : Nth(K, i) = Nth(K, j) => i = j
  BY <1>7
<1>10. c \in 0 .. n
  <2> HIDE DEF c
  <2> QED
    BY <1>1
<1> QED
  BY <1>7, <1>8, <1>9, <1>10

\* What clean_up leaves: the clients that are open, each once.
LEMMA CleanedUpKeepsOpen ==
  ASSUME TypeOK, OwnCells, Copies, NEW w \in Worker, wpc[w] = "clean_up"
  PROVE  /\ CleanedUp(w) \in Seq(Slot)
         /\ Len(CleanedUp(w)) <= Len(slots[w])
         /\ \A j \in 1 .. Len(CleanedUp(w)) : \E k \in Used(w) :
              CleanedUp(w)[j] = slots[w][k] /\ FdAt(w, k) # None
         /\ \A i, j \in 1 .. Len(CleanedUp(w)) :
              CleanedUp(w)[i].conn = CleanedUp(w)[j].conn => i = j
         /\ \A k \in Used(w) : FdAt(w, k) # None =>
              \E j \in 1 .. Len(CleanedUp(w)) : CleanedUp(w)[j] = slots[w][k]
<1> DEFINE s == slots[w]
           l == local[w]
           rest == SubSeq(s, Len(l) + 1, Len(s))
           K == Kept(s)
           c == Cardinality(K)
<1>1. /\ s \in Seq(Slot) /\ Len(s) \in Nat /\ DOMAIN s = 1 .. Len(s)
      /\ l \in Seq(Slot) /\ Len(l) \in Nat /\ Len(l) <= Len(s)
      /\ \A k \in 1 .. Len(l) : l[k] = s[k]
      /\ \A k \in 1 .. Len(s) : s[k] \in Slot
  BY LenProperties, ElementOfSeq DEF TypeOK, Copies, CopyPc
<1> HIDE DEF s, l
<1>2. l \o rest = s
  <2>1. \A k \in Len(l) + 1 .. Len(s) : s[k] \in Slot
    BY <1>1
  <2>2. /\ rest \in Seq(Slot)
        /\ Len(rest) = Len(s) - Len(l)
        /\ \A k \in 1 .. Len(s) - Len(l) : rest[k] = s[Len(l) + k]
    BY <1>1, <2>1, SubSeqProperties
  <2> HIDE DEF rest
  <2>3. /\ l \o rest \in Seq(Slot)
        /\ Len(l \o rest) = Len(s)
        /\ \A k \in 1 .. Len(s) :
             (l \o rest)[k] = IF k <= Len(l) THEN l[k] ELSE rest[k - Len(l)]
    <3>1. Len(l) + Len(rest) = Len(s)
      BY <1>1, <2>2
    <3>2. /\ l \o rest \in Seq(Slot)
          /\ Len(l \o rest) = Len(l) + Len(rest)
          /\ \A k \in 1 .. Len(l) + Len(rest) :
               (l \o rest)[k] = IF k <= Len(l) THEN l[k] ELSE rest[k - Len(l)]
      BY <1>1, <2>2, ConcatProperties
    <3> QED
      BY <3>1, <3>2
  <2>4. \A k \in 1 .. Len(s) : (l \o rest)[k] = s[k]
    BY <1>1, <2>2, <2>3
  <2> QED
    BY <1>1, <2>3, <2>4, SeqEqual
<1>3. CleanedUp(w) = [j \in 1 .. c |-> s[Nth(K, j)]]
  BY <1>2 DEF CleanedUp, Shifted, s, l
<1>4. K \in SUBSET (1 .. Len(s))
  BY <1>1 DEF Kept
<1>5. /\ c \in 0 .. Len(s)
      /\ \A j \in 1 .. c : Nth(K, j) \in K
      /\ \A i, j \in 1 .. c : Nth(K, i) = Nth(K, j) => i = j
      /\ \A k \in K : \E j \in 1 .. c : Nth(K, j) = k
  BY <1>1, <1>4, NthNumbers
<1>6. \A k \in 1 .. Len(s) : k \in K <=> FdAt(w, k) # None
  BY <1>1 DEF Kept, FdAt, Marking, s
<1> HIDE DEF K, c
<1>7. /\ CleanedUp(w) \in [1 .. c -> Slot]
      /\ \A j \in 1 .. c : CleanedUp(w)[j] = s[Nth(K, j)]
  BY <1>1, <1>3, <1>4, <1>5
<1>8. CleanedUp(w) \in Seq(Slot) /\ Len(CleanedUp(w)) = c
  BY <1>5, <1>7
<1>9. \A i, j \in 1 .. Len(s) : s[i].conn = s[j].conn => i = j
  BY DEF OwnCells, Used, s
<1>10. \A i, j \in 1 .. c :
         CleanedUp(w)[i].conn = CleanedUp(w)[j].conn => i = j
  <2> TAKE i, j \in 1 .. c
  <2>1. Nth(K, i) \in 1 .. Len(s) /\ Nth(K, j) \in 1 .. Len(s)
    BY <1>4, <1>5
  <2> QED
    BY <1>5, <1>7, <1>9, <2>1
<1>11. \A j \in 1 .. c : \E k \in 1 .. Len(s) :
         CleanedUp(w)[j] = s[k] /\ FdAt(w, k) # None
  BY <1>4, <1>5, <1>6, <1>7
<1>12. \A k \in 1 .. Len(s) : FdAt(w, k) # None =>
         \E j \in 1 .. c : CleanedUp(w)[j] = s[k]
  BY <1>5, <1>6, <1>7
<1> QED
  BY <1>1, <1>5, <1>8, <1>10, <1>11, <1>12 DEF Used, s

-----------------------------------------------------------------------------
(* Init, and what only moves main or one worker. *)

\* The invariant holds when proxy_start is called.
LEMMA InitInv == Init => IInv
<1> SUFFICES ASSUME Init PROVE IInv
  OBVIOUS
<1> USE ThreadPoolAssumption DEF Init
<1>0. 0 \in Worker
  BY DEF Worker
<1>1. /\ Worker # {} /\ 0 \in Worker
      /\ \A w \in Worker : slots[w] = <<>> /\ wpc[w] = "none"
  BY <1>0
<1>2. TypeOK
  <2>1. <<>> \in Seq(Slot) /\ Len(<<>>) = 0 /\ <<>> \in Seq(Event)
    OBVIOUS
  <2> QED
    BY <1>1, <2>1 DEF TypeOK, WorkerPc, MainPc, StartPc, EndPc, UINT_MAX
<1>3. \A w \in Worker : Used(w) = {}
  BY <1>1 DEF Used
<1>4. Clients
  BY <1>1, <1>3 DEF Clients, OwnCells, PollsCells, OwnClients, NoDoubles,
                    NoneLost
<1>5. Copies /\ ClosedAreCopied /\ Answers /\ NoClients
  BY <1>1, <1>3 DEF Copies, ClosedAreCopied, Answers, NoClients, CopyPc, LoopPc
<1>6. Scanned /\ MainHands /\ Phases /\ NoPool
  BY <1>1 DEF Scanned, MainHands, Phases, NoPool, Missing, WorkerAt, StartPc,
              ServingPc, EndPc
<1> QED
  BY <1>2, <1>4, <1>5, <1>6 DEF IInv, Control

\* The clients do not change when neither the slots nor the descriptors behind
\* them do, and no open one is found closed.
LEMMA ClientsFrame ==
  ASSUME Clients, UNCHANGED <<slots, open, client_fd, struck>>,
         \A w \in Worker : \A k \in Used(w) :
           /\ FdAt(w, k)' = FdAt(w, k)
           /\ FdAt(w, k) \in open /\ Doomed(w, k)' => Doomed(w, k)
  PROVE  Clients'
<1>1. \A w \in Worker : Used(w)' = Used(w)
  BY DEF Used
<1>2. OwnCells' /\ PollsCells'
  BY <1>1 DEF Clients, OwnCells, PollsCells
<1>3. OwnClients' /\ NoDoubles'
  BY <1>1 DEF Clients, OwnClients, NoDoubles
<1>4. NoneLost'
  <2> SUFFICES ASSUME NEW fd \in open, fd # client_fd
               PROVE  \E w \in Worker : \E k \in Used(w) :
                        FdAt(w, k)' = fd /\ ~Doomed(w, k)'
    BY <1>1 DEF NoneLost
  <2>1. PICK w \in Worker : \E k \in Used(w) : FdAt(w, k) = fd /\ ~Doomed(w, k)
    BY DEF Clients, NoneLost
  <2> QED
    BY <2>1
<1> QED
  BY <1>2, <1>3, <1>4 DEF Clients

\* In particular when the workers do nothing.
LEMMA WorkersFrame ==
  ASSUME UNCHANGED <<slots, sock_fd, wpc, local, revents, idx>>
  PROVE  \A w, k : /\ FdAt(w, k)' = FdAt(w, k)
                   /\ Marking(w, k)' = Marking(w, k)
                   /\ Doomed(w, k)' = Doomed(w, k)
BY DEF FdAt, Marking, Doomed

\* A slot in use holds a descriptor and a cell.
LEMMA SlotTypes ==
  ASSUME TypeOK, NEW w \in Worker
  PROVE  /\ slots[w] \in Seq(Slot) /\ Len(slots[w]) \in Nat
         /\ DOMAIN slots[w] = Used(w)
         /\ \A k \in Used(w) : /\ slots[w][k] \in Slot
                               /\ slots[w][k].conn \in Conn
                               /\ slots[w][k].fd \in Fd
                               /\ FdAt(w, k) \in Fd \cup {None}
<1>1. slots[w] \in Seq(Slot)
  BY DEF TypeOK
<1>2. Len(slots[w]) \in Nat /\ DOMAIN slots[w] = Used(w)
  BY <1>1, LenProperties DEF Used
<1>3. \A k \in Used(w) : slots[w][k] \in Slot
  BY <1>1, ElementOfSeq DEF Used
<1>4. \A k \in Used(w) : slots[w][k].conn \in Conn /\ slots[w][k].fd \in Fd
  BY <1>3 DEF Slot
<1> QED
  BY <1>1, <1>2, <1>3, <1>4 DEF TypeOK, FdAt

\* The control of main: every step of main that leaves the workers and the
\* clients alone.
MainAlone ==
  \/ call_accept \/ accept_error \/ pick_worker \/ pick_worker_return
  \/ add_client_full \/ add_client_no_memory \/ loop_end \/ sigterm_handler
  \/ listen_socket \/ threadpool_init_alloc \/ threadpool_init_fails
  \/ threadpool_init_return \/ http_cache_init \/ http_cache_init_no_collector
  \/ shutdown_no_pool \/ shutdown_join \/ proxy_end
  \/ \E w \in Worker : use_after_free(w) \/ no_host_header(w)

LEMMA MainAloneFrame ==
  MainAlone => UNCHANGED <<poolVars, workerVars, client_fd, strayVars>>
BY DEF MainAlone, call_accept, accept_error, pick_worker, pick_worker_return,
       add_client_full, add_client_no_memory, loop_end, sigterm_handler,
       listen_socket, threadpool_init_alloc, threadpool_init_fails,
       threadpool_init_return, http_cache_init, http_cache_init_no_collector,
       shutdown_no_pool, shutdown_join, proxy_end, use_after_free, no_host_header

\* a % b is below b.
LEMMA ModRange == \A a \in Int, b \in Nat \ {0} : a % b \in 0 .. b - 1
OBVIOUS

\* pick_worker looks at a worker, and sees a load that fits.
LEMMA LoadRange ==
  TypeOK => /\ current_index \in Worker
            /\ Len(slots[current_index]) \in 0 .. MAX_CLIENTS_PER_THREAD
<1> SUFFICES ASSUME TypeOK PROVE /\ current_index \in Worker
            /\ Len(slots[current_index]) \in 0 .. MAX_CLIENTS_PER_THREAD
  OBVIOUS
<1>1. last_worker + 1 + scan.i \in Int
  BY ThreadPoolAssumption DEF TypeOK, Worker
<1>2. current_index \in Worker
  BY <1>1, ModRange, ThreadPoolAssumption DEF current_index, Worker
<1>3. slots[current_index] \in Seq(Slot)
      /\ Len(slots[current_index]) <= MAX_CLIENTS_PER_THREAD
  BY <1>2 DEF TypeOK
<1> QED
  BY <1>2, <1>3, LenProperties, ThreadPoolAssumption

\* The type of main's own variables is kept.
LEMMA MainAloneType == IInv /\ MainAlone => TypeOK'
<1> SUFFICES ASSUME IInv, MainAlone PROVE TypeOK'
  OBVIOUS
<1> USE DEF MainAlone, call_accept, accept_error, pick_worker_return,
       add_client_full, add_client_no_memory, loop_end, sigterm_handler,
       listen_socket, threadpool_init_alloc, threadpool_init_fails,
       threadpool_init_return, http_cache_init, http_cache_init_no_collector,
       shutdown_no_pool, shutdown_join, proxy_end, use_after_free, no_host_header
<1>1. UNCHANGED <<poolVars, workerVars, client_fd, strayVars>>
  BY MainAloneFrame
<1>2. mpc' \in MainPc /\ shut' = shut
  BY DEF pick_worker, MainPc, StartPc, EndPc, IInv, TypeOK
<1>3. /\ server' \in BOOLEAN /\ pool' \in BOOLEAN /\ cache' \in BOOLEAN
      /\ keep_running' \in BOOLEAN
  BY DEF pick_worker, startVars, IInv, TypeOK
<1>4. /\ scan' \in [i : 0 .. MAX_WORKER_THREADS, best : Worker \cup {-1},
                    min_load : 0 .. UINT_MAX]
      /\ last_worker' \in Worker
      /\ room' \in BOOLEAN
  <2>1. CASE pick_worker
    <3>1. /\ current_index \in Worker
          /\ Len(slots[current_index]) \in 0 .. UINT_MAX
      BY LoadRange, ThreadPoolAssumption DEF IInv, UINT_MAX
    <3>2. scan' \in [i : 0 .. MAX_WORKER_THREADS, best : Worker \cup {-1},
                     min_load : 0 .. UINT_MAX]
      <4>1. /\ scan.i + 1 \in 0 .. MAX_WORKER_THREADS
            /\ scan \in [i : 0 .. MAX_WORKER_THREADS, best : Worker \cup {-1},
                         min_load : 0 .. UINT_MAX]
        <5>1. scan \in [i : 0 .. MAX_WORKER_THREADS, best : Worker \cup {-1},
                         min_load : 0 .. UINT_MAX]
          BY DEF IInv, TypeOK
        <5>2. scan.i < MAX_WORKER_THREADS
          BY <2>1 DEF pick_worker
        <5>3. scan.i \in 0 .. MAX_WORKER_THREADS
          BY <5>1
        <5> QED
          BY <5>1, <5>2, <5>3, ThreadPoolAssumption
      <4>2. scan' = [i |-> scan.i + 1, best |-> current_index,
                     min_load |-> Len(slots[current_index])]
              \/ scan' = [scan EXCEPT !.i = scan.i + 1]
        BY <2>1 DEF pick_worker
      <4> QED
        BY <3>1, <4>1, <4>2
    <3>3. last_worker' \in Worker
      BY <2>1 DEF pick_worker, IInv, TypeOK
    <3>4. room' \in BOOLEAN
      BY <2>1 DEF pick_worker
    <3> QED
      BY <3>2, <3>3, <3>4
  <2>2. CASE pick_worker_return
    BY <2>2, ThreadPoolAssumption DEF IInv, TypeOK, Control, Scanned
  <2>3. CASE ~pick_worker /\ ~pick_worker_return
    <3>1. UNCHANGED <<scan, last_worker, room>>
      BY <2>3
    <3> QED
      BY <3>1 DEF IInv, TypeOK
  <2> QED
    BY <2>1, <2>2, <2>3
<1> HIDE DEF MainAlone
<1>5. open' = open /\ sock_fd' = sock_fd /\ slots' = slots
      /\ is_shutdown' = is_shutdown /\ wpc' = wpc /\ local' = local
      /\ revents' = revents /\ idx' = idx /\ client_fd' = client_fd
      /\ stray' = stray /\ struck' = struck
  BY <1>1 DEF poolVars, workerVars, strayVars
<1> QED
  BY <1>2, <1>3, <1>4, <1>5 DEF IInv, TypeOK

\* What main knows about its scan, its client and the phase is kept.
LEMMA MainAloneControl ==
  IInv /\ MainAlone => Scanned' /\ MainHands' /\ Phases' /\ NoPool'
<1> SUFFICES ASSUME IInv, MainAlone
             PROVE  Scanned' /\ MainHands' /\ Phases' /\ NoPool'
  OBVIOUS
<1>1. /\ open' = open /\ sock_fd' = sock_fd /\ slots' = slots
      /\ is_shutdown' = is_shutdown /\ wpc' = wpc /\ client_fd' = client_fd
      /\ Missing' = Missing /\ struck' = struck
  BY MainAloneFrame DEF poolVars, workerVars, strayVars, Missing, WorkerAt
<1> USE DEF MainAlone, call_accept, accept_error, pick_worker_return,
       add_client_full, add_client_no_memory, loop_end, sigterm_handler,
       listen_socket, threadpool_init_alloc, threadpool_init_fails,
       threadpool_init_return, http_cache_init, http_cache_init_no_collector,
       shutdown_no_pool, shutdown_join, proxy_end, use_after_free, no_host_header
<1>2. Scanned'
  <2>1. CASE pick_worker
    <3>1. /\ current_index \in Worker
          /\ Len(slots[current_index]) \in 0 .. MAX_CLIENTS_PER_THREAD
      BY LoadRange DEF IInv
    <3> QED
      <4> DEFINE nfds == Len(slots[current_index])
      <4>1. /\ scan.i \in Nat /\ scan.min_load \in Nat /\ nfds \in Nat
            /\ scan \in [i : 0 .. MAX_WORKER_THREADS, best : Worker \cup {-1},
                         min_load : 0 .. UINT_MAX]
            /\ nfds <= MAX_CLIENTS_PER_THREAD
        BY <3>1, ThreadPoolAssumption DEF IInv, TypeOK, UINT_MAX
      <4>2. /\ mpc' = "pick" /\ mpc = "pick"
            /\ room' => room \/ nfds < MAX_CLIENTS_PER_THREAD
        BY <2>1 DEF pick_worker
      <4>3. CASE /\ nfds < scan.min_load
                 /\ scan' = [i |-> scan.i + 1, best |-> current_index,
                             min_load |-> nfds]
        BY <1>1, <3>1, <4>1, <4>2, <4>3, ThreadPoolAssumption
        DEF IInv, Control, Scanned, UINT_MAX
      <4>4. CASE /\ ~(nfds < scan.min_load)
                 /\ scan' = [scan EXCEPT !.i = @ + 1]
        <5>1. /\ scan'.i = scan.i + 1 /\ scan'.best = scan.best
              /\ scan'.min_load = scan.min_load
          BY <4>1, <4>4
        <5> QED
          BY <1>1, <4>1, <4>2, <4>4, <5>1, ThreadPoolAssumption
          DEF IInv, Control, Scanned, UINT_MAX
      <4> QED
        BY <2>1, <4>3, <4>4 DEF pick_worker
  <2>2. CASE ~pick_worker
    <3>1. mpc' \in {"pick", "add"} =>
            /\ UNCHANGED <<scan, room>> /\ mpc \in {"pick", "add"}
            /\ mpc' = "add" => mpc = "add" \/ scan.i = MAX_WORKER_THREADS
      BY <2>2
    <3> QED
      BY <1>1, <3>1, ThreadPoolAssumption DEF IInv, Control, Scanned
  <2> QED
    BY <2>1, <2>2
<1>3. MainHands'
  BY <1>1 DEF pick_worker, IInv, Control, MainHands, Phases, EndPc, ServingPc
<1>4. Phases'
  BY <1>1 DEF pick_worker, IInv, Control, Phases, NoPool, MainHands, EndPc, StartPc, ServingPc,
     startVars
<1>5. NoPool'
  BY <1>1 DEF pick_worker, IInv, Control, Phases, NoPool, NoClients, startVars,
     ServingPc, StartPc, WorkerAt
<1> QED
  BY <1>2, <1>3, <1>4, <1>5

\* Together: these steps keep the invariant.
LEMMA MainAloneInv == IInv /\ MainAlone => IInv'
<1> SUFFICES ASSUME IInv, MainAlone PROVE IInv'
  OBVIOUS
<1>1. /\ open' = open /\ sock_fd' = sock_fd /\ slots' = slots /\ wpc' = wpc
      /\ local' = local /\ revents' = revents /\ idx' = idx
      /\ client_fd' = client_fd /\ struck' = struck
  BY MainAloneFrame DEF poolVars, workerVars, strayVars
<1>2. \A w, k : /\ FdAt(w, k)' = FdAt(w, k)
                /\ Marking(w, k)' = Marking(w, k)
                /\ Doomed(w, k)' = Doomed(w, k)
  BY <1>1, WorkersFrame
<1>3. Clients'
  BY <1>1, <1>2, ClientsFrame DEF IInv
<1>4. Copies' /\ ClosedAreCopied' /\ Answers' /\ NoClients'
  BY <1>1, <1>2 DEF IInv, Control, Copies, ClosedAreCopied, Answers, NoClients,
                    Used
<1> QED
  BY <1>3, <1>4, MainAloneType, MainAloneControl DEF IInv, Control

-----------------------------------------------------------------------------
(* The steps of a worker. *)

\* Main's knowledge survives a step of a worker that is running and does not
\* get a client by it.
LEMMA WorkerControl ==
  ASSUME IInv, pool, NEW w \in Worker, NEW p \in WorkerPc \ {"none"},
         wpc[w] # "none",
         wpc' = [wpc EXCEPT ![w] = p],
         p \in {"exiting", "exited"} => is_shutdown[w],
         UNCHANGED <<is_shutdown, mainVars, keep_running, startVars>>,
         \A v \in Worker : /\ Len(slots'[v]) \in Nat
                           /\ Len(slots'[v]) <= Len(slots[v])
                           /\ slots[v] = <<>> => slots'[v] = <<>>
  PROVE  Scanned' /\ Phases' /\ NoPool'
<1>1. /\ mpc' = mpc /\ scan' = scan /\ room' = room /\ shut' = shut
      /\ server' = server /\ pool' = pool /\ cache' = cache
      /\ is_shutdown' = is_shutdown
  BY DEF mainVars, startVars
<1>2. Missing' = Missing
  BY DEF Missing, WorkerAt, IInv, TypeOK
<1>3. Scanned'
  <2>1. \A v \in Worker : Len(slots[v]) \in Nat
    BY LenProperties DEF IInv, TypeOK
  <2> QED
    <3>1. scan.min_load \in Int
      BY ThreadPoolAssumption DEF IInv, TypeOK, UINT_MAX
    <3>2. \A v \in Worker : Len(slots[v]) <= scan.min_load =>
                             Len(slots'[v]) <= scan.min_load
      BY <2>1, <3>1
    <3> QED
      BY <1>1, <3>2 DEF IInv, Control, Scanned
<1>4. Phases'
  BY <1>1, <1>2 DEF IInv, TypeOK, Control, Phases, StartPc
<1>5. NoPool'
  BY <1>1 DEF NoPool
<1> QED
  BY <1>3, <1>4, <1>5

\* The steps of worker w that change neither clients nor slots.
Quiet(w) ==
  \/ find_empty(w) \/ cond_wait(w) \/ spurious_wakeup(w) \/ see_shutdown(w)
  \/ copy_clients(w) \/ poll_events(w) \/ poll_nothing(w) \/ no_events(w)
  \/ connect_fails(w) \/ process_end(w)

\* What all of them have in common.
LEMMA QuietFrame ==
  ASSUME IInv, NEW w \in Worker, Quiet(w)
  PROVE  /\ UNCHANGED <<poolVars, mainVars, keep_running, startVars, struck>>
         /\ stray' \in Fd \cup {None}
         /\ wpc' = [wpc EXCEPT ![w] = wpc'[w]]
         /\ wpc'[w] \in WorkerPc \ {"none"}
         /\ wpc'[w] \in {"exiting", "exited"} => is_shutdown[w]
         /\ wpc[w] \notin {"none", "reclose", "disconnect", "mark", "clean_up"}
         /\ wpc'[w] \notin {"disconnect", "mark"}
         /\ \A v \in Worker \ {w} :
              /\ wpc'[v] = wpc[v] /\ local'[v] = local[v]
              /\ revents'[v] = revents[v] /\ idx'[v] = idx[v]
<1> USE DEF Quiet, find_empty, cond_wait, spurious_wakeup, see_shutdown,
            copy_clients, poll_events, poll_nothing, no_events, connect_fails,
            process_end, Reported, WorkerAt, WorkerTo
<1>1. /\ UNCHANGED <<poolVars, mainVars, keep_running, startVars>>
      /\ wpc[w] \notin {"none", "reclose", "disconnect", "mark", "clean_up"}
  OBVIOUS
<1>2. struck' = struck /\ stray' \in Fd \cup {None}
  BY DEF strayVars, IInv, TypeOK
<1>3. /\ wpc' = [wpc EXCEPT ![w] = wpc'[w]]
      /\ wpc'[w] \in WorkerPc \ {"none", "disconnect", "mark"}
      /\ wpc'[w] \in {"exiting", "exited"} => is_shutdown[w]
  BY DEF IInv, TypeOK, WorkerPc
<1>4. \A v \in Worker \ {w} :
        /\ wpc'[v] = wpc[v] /\ local'[v] = local[v]
        /\ revents'[v] = revents[v] /\ idx'[v] = idx[v]
  BY DEF IInv, TypeOK
<1> QED
  BY <1>1, <1>2, <1>3, <1>4

\* They leave the clients as they are: what poll finds closed is not open.
LEMMA QuietClients ==
  ASSUME IInv, NEW w \in Worker, Quiet(w),
         NEW v \in Worker, NEW k \in Used(v)
  PROVE  /\ FdAt(v, k)' = FdAt(v, k)
         /\ FdAt(v, k) \in open /\ Doomed(v, k)' => Doomed(v, k)
<1>1. /\ slots' = slots /\ sock_fd' = sock_fd
      /\ wpc[w] # "mark" /\ wpc'[w] # "mark"
      /\ v # w => /\ wpc'[v] = wpc[v] /\ local'[v] = local[v]
                  /\ revents'[v] = revents[v] /\ idx'[v] = idx[v]
  BY QuietFrame DEF poolVars
<1>2. Marking(v, k)' = Marking(v, k)
  BY <1>1 DEF Marking
<1>3. FdAt(v, k)' = FdAt(v, k)
  BY <1>1, <1>2 DEF FdAt
<1>4. ASSUME v = w, FdAt(w, k) \in open, Doomed(w, k)' PROVE Doomed(w, k)
  <2>1. CASE poll_events(w)
    <3>1. PICK ev \in [DOMAIN local[w] -> Event] :
            /\ \A j \in DOMAIN ev : ev[j] = "nval" <=> local[w][j].fd \notin open
            /\ revents' = [revents EXCEPT ![w] = ev]
      BY <2>1 DEF poll_events
    <3>2. revents'[w] = ev /\ local' = local /\ wpc[w] = "poll"
      BY <2>1, <3>1 DEF poll_events, WorkerAt, IInv, TypeOK
    <3>3. k \in DOMAIN local[w] /\ ev[k] = "nval" /\ k \in 1 .. Len(local[w])
      BY <1>4, <3>2, LenProperties DEF Doomed, IInv, TypeOK
    <3>4. local[w][k] = slots[w][k]
      BY <3>2, <3>3 DEF IInv, Control, Copies, CopyPc
    <3>5. slots[w][k].fd \notin open
      BY <3>1, <3>3, <3>4
    <3>6. FdAt(w, k) # None
      BY <1>4, ThreadPoolAssumption DEF IInv, TypeOK
    <3> QED
      BY <1>4, <3>5, <3>6 DEF IInv, Clients, PollsCells
  <2>2. CASE no_events(w) \/ connect_fails(w)
    <3>1. /\ wpc[w] = "process" /\ local' = local /\ revents' = revents
          /\ idx' = idx \/ idx' = [idx EXCEPT ![w] = idx[w] + 1]
      BY <2>2 DEF no_events, connect_fails, Reported, WorkerAt
    <3>2. k \in Nat /\ idx \in [Worker -> Nat]
      BY DEF Used, IInv, TypeOK
    <3>3. idx'[w] = idx[w] \/ idx'[w] = idx[w] + 1
      BY <3>1, <3>2
    <3>4. k >= idx'[w] => k >= idx[w]
      BY <3>2, <3>3
    <3> QED
      BY <1>4, <3>1, <3>4 DEF Doomed, LoopPc
  <2>3. CASE ~poll_events(w) /\ ~no_events(w) /\ ~connect_fails(w)
    <3>1. wpc'[w] \notin LoopPc
      BY <2>3 DEF Quiet, find_empty, cond_wait, spurious_wakeup, see_shutdown,
           copy_clients, poll_nothing, process_end, WorkerAt, WorkerTo, LoopPc,
           IInv, TypeOK
    <3> QED
      BY <1>4, <3>1 DEF Doomed
  <2> QED
    BY <2>1, <2>2, <2>3
<1>5. v # w => Doomed(v, k)' = Doomed(v, k)
  BY <1>1 DEF Doomed
<1> QED
  BY <1>3, <1>4, <1>5

\* They keep the invariant.
LEMMA QuietInv ==
  ASSUME IInv, pool, NEW w \in Worker, Quiet(w)
  PROVE  IInv'
<1>1. /\ UNCHANGED <<poolVars, mainVars, keep_running, startVars, struck>>
      /\ stray' \in Fd \cup {None}
      /\ wpc' = [wpc EXCEPT ![w] = wpc'[w]]
      /\ wpc'[w] \in WorkerPc \ {"none"}
      /\ wpc'[w] \in {"exiting", "exited"} => is_shutdown[w]
      /\ wpc[w] \notin {"none", "reclose", "disconnect", "mark", "clean_up"}
      /\ wpc'[w] \notin {"disconnect", "mark"}
      /\ \A v \in Worker \ {w} :
           /\ wpc'[v] = wpc[v] /\ local'[v] = local[v]
           /\ revents'[v] = revents[v] /\ idx'[v] = idx[v]
  BY QuietFrame
<1>2. \A v \in Worker : \A k \in Used(v) :
        /\ FdAt(v, k)' = FdAt(v, k)
        /\ FdAt(v, k) \in open /\ Doomed(v, k)' => Doomed(v, k)
  BY QuietClients
<1>3. /\ open' = open /\ sock_fd' = sock_fd /\ slots' = slots
      /\ is_shutdown' = is_shutdown /\ mpc' = mpc /\ client_fd' = client_fd
      /\ scan' = scan /\ last_worker' = last_worker /\ room' = room
      /\ shut' = shut /\ keep_running' = keep_running /\ server' = server
      /\ pool' = pool /\ cache' = cache /\ struck' = struck
  BY <1>1 DEF poolVars, mainVars, startVars
<1>4. Clients'
  BY <1>2, <1>3, ClientsFrame DEF IInv
<1>5. MainHands'
  BY <1>3 DEF IInv, Control, MainHands
<1>6. \A v \in Worker : Len(slots'[v]) \in Nat /\ Len(slots'[v]) <= Len(slots[v])
  BY <1>3, LenProperties DEF IInv, TypeOK
<1>7. Scanned' /\ Phases' /\ NoPool'
  BY <1>1, <1>3, <1>6, WorkerControl
<1> USE DEF Quiet, find_empty, cond_wait, spurious_wakeup, see_shutdown,
            copy_clients, poll_nothing, no_events, connect_fails, process_end,
            Reported, WorkerAt, WorkerTo
<1>8. TypeOK'
  <2>1. wpc' \in [Worker -> WorkerPc]
    BY <1>1 DEF IInv, TypeOK
  <2>2. local' \in [Worker -> Seq(Slot)]
    <3>1. <<>> \in Seq(Slot)
      OBVIOUS
    <3> QED
      BY <3>1 DEF poll_events, IInv, TypeOK
  <2>3. revents' \in [Worker -> Seq(Event)]
    <3>1. \A ev \in [DOMAIN local[w] -> Event] : ev \in Seq(Event)
      <4>1. DOMAIN local[w] = 1 .. Len(local[w]) /\ Len(local[w]) \in Nat
        BY LenProperties DEF IInv, TypeOK
      <4> QED
        BY <4>1
    <3>2. \/ revents' = revents
          \/ \E ev \in [DOMAIN local[w] -> Event] :
               revents' = [revents EXCEPT ![w] = ev]
      BY DEF poll_events
    <3>3. revents \in [Worker -> Seq(Event)]
      BY DEF IInv, TypeOK
    <3> HIDE DEF Quiet
    <3> QED
      BY <3>1, <3>2, <3>3
  <2>4. idx' \in [Worker -> Nat]
    <3>1. \/ idx' = idx \/ idx' = [idx EXCEPT ![w] = 1]
          \/ idx' = [idx EXCEPT ![w] = idx[w] + 1]
      BY DEF poll_events
    <3>2. idx \in [Worker -> Nat]
      BY DEF IInv, TypeOK
    <3> HIDE DEF Quiet
    <3> QED
      BY <3>1, <3>2
  <2> QED
    BY <1>1, <1>3, <2>1, <2>2, <2>3, <2>4 DEF IInv, TypeOK
<1>9. Copies'
  <2>1. copy_clients(w) => local'[w] = slots[w]
    BY DEF IInv, TypeOK
  <2>2. ~copy_clients(w) /\ wpc'[w] \in CopyPc =>
          local'[w] = local[w] /\ wpc[w] \in CopyPc
    BY DEF poll_events, IInv, TypeOK, CopyPc, LoopPc
  <2>3. \A v \in Worker : Len(slots[v]) \in Nat
    BY LenProperties DEF IInv, TypeOK
  <2> QED
    BY <1>1, <1>3, <2>1, <2>2, <2>3 DEF IInv, Control, Copies
<1>10. ClosedAreCopied'
  <2> SUFFICES ASSUME NEW v \in Worker, NEW k \in Used(v), FdAt(v, k) = None
               PROVE  /\ wpc'[v] \in LoopPc \cup {"clean_up"}
                      /\ k <= Len(local'[v])
                      /\ wpc'[v] \in LoopPc => k < idx'[v] \/ Marking(v, k)'
    BY <1>2, <1>3 DEF ClosedAreCopied, Used
  <2>1. /\ wpc[v] \in LoopPc \cup {"clean_up"}
        /\ k <= Len(local[v])
        /\ wpc[v] \in LoopPc => k < idx[v] \/ Marking(v, k)
    BY DEF IInv, Control, ClosedAreCopied
  <2>2. CASE v = w
    <3>1. wpc[w] = "process" /\ k < idx[w]
      BY <1>1, <2>1, <2>2 DEF LoopPc, Marking
    <3>2. /\ wpc'[w] \in {"process", "reclose", "clean_up"} /\ local'[w] = local[w]
          /\ idx'[w] = idx[w] \/ idx'[w] = idx[w] + 1
      BY <3>1 DEF poll_events, IInv, TypeOK
    <3>3. k \in Nat /\ idx[w] \in Nat
      BY DEF IInv, TypeOK, Used
    <3>4. k < idx'[w]
      BY <3>1, <3>2, <3>3
    <3> QED
      BY <2>1, <2>2, <3>2, <3>4 DEF LoopPc
  <2>3. CASE v # w
    BY <1>1, <2>1, <2>3 DEF Marking
  <2> QED
    BY <2>2, <2>3
<1>11. Answers'
  <2>1. wpc'[w] \in LoopPc =>
          /\ Len(revents'[w]) = Len(local'[w])
          /\ idx'[w] \in 1 .. Len(local'[w]) + 1
          /\ wpc'[w] # "process" => idx'[w] <= Len(local'[w])
          /\ ~struck => \A k \in 1 .. Len(local'[w]) : revents'[w][k] # "nval"
    <3>1. CASE poll_events(w)
      <4>1. PICK ev \in [DOMAIN local[w] -> Event] :
              /\ \A k \in DOMAIN ev : ev[k] = "nval" <=> local[w][k].fd \notin open
              /\ revents' = [revents EXCEPT ![w] = ev]
        BY <3>1 DEF poll_events
      <4>2. /\ revents'[w] = ev /\ idx'[w] = 1 /\ local' = local
            /\ wpc[w] = "poll" /\ wpc'[w] = "process"
        BY <3>1, <4>1 DEF poll_events, IInv, TypeOK
      <4>3. local[w] \in Seq(Slot) /\ DOMAIN local[w] = 1 .. Len(local[w])
            /\ Len(local[w]) \in Nat
        BY LenProperties DEF IInv, TypeOK
      <4>4. Len(ev) = Len(local[w])
        BY <4>3
      <4>5. ~struck => \A k \in 1 .. Len(local[w]) : local[w][k].fd \in open
        <5> SUFFICES ASSUME ~struck, NEW k \in 1 .. Len(local[w])
                     PROVE  local[w][k].fd \in open
          OBVIOUS
        <5>1. local[w][k] = slots[w][k] /\ k \in Used(w)
          BY <4>2, <4>3, LenProperties
          DEF IInv, TypeOK, Control, Copies, CopyPc, Used
        <5>2. FdAt(w, k) # None
          BY <4>2, <5>1 DEF IInv, Control, ClosedAreCopied, LoopPc
        <5> QED
          BY <5>1, <5>2 DEF IInv, Clients, PollsCells, OwnClients
      <4> QED
        BY <4>1, <4>2, <4>3, <4>4, <4>5
    <3>2. CASE no_events(w) \/ connect_fails(w)
      <4>1. /\ wpc[w] = "process" /\ revents' = revents /\ local' = local
            /\ idx[w] \in DOMAIN local[w]
            /\ wpc'[w] = "process" \/ idx'[w] = idx[w]
            /\ idx'[w] = idx[w] \/ idx'[w] = idx[w] + 1
        BY <3>2 DEF IInv, TypeOK
      <4>2. idx[w] \in 1 .. Len(local[w]) /\ Len(local[w]) \in Nat
        BY <4>1, LenProperties DEF IInv, TypeOK
      <4>3. /\ Len(revents[w]) = Len(local[w])
            /\ ~struck => \A k \in 1 .. Len(local[w]) : revents[w][k] # "nval"
        BY <4>1 DEF IInv, Control, Answers, LoopPc
      <4> QED
        BY <4>1, <4>2, <4>3
    <3>3. CASE ~poll_events(w) /\ ~no_events(w) /\ ~connect_fails(w)
      BY <3>3 DEF IInv, TypeOK, LoopPc
    <3> QED
      BY <3>1, <3>2, <3>3
  <2> QED
    BY <1>1, <1>3, <2>1 DEF IInv, Control, Answers
<1>12. NoClients'
  <2>1. wpc'[w] \in {"none", "empty", "waiting", "exited"} => slots[w] = <<>>
    BY DEF poll_events, IInv, TypeOK, Control, NoClients
  <2> QED
    BY <1>1, <1>3, <2>1 DEF IInv, Control, NoClients
<1> QED
  BY <1>4, <1>5, <1>7, <1>8, <1>9, <1>10, <1>11, <1>12 DEF IInv, Control

\* The client that the loop of worker w is at is in the array too.
LEMMA AtHand ==
  ASSUME IInv, NEW w \in Worker, wpc[w] \in LoopPc,
         wpc[w] = "process" => idx[w] \in DOMAIN local[w]
  PROVE  /\ idx[w] \in 1 .. Len(local[w]) /\ Len(local[w]) \in Nat
         /\ idx[w] \in Used(w) /\ idx[w] \in Nat
         /\ conn_at(w) = slots[w][idx[w]].conn /\ conn_at(w) \in Conn
<1>1. Len(local[w]) \in Nat /\ Len(slots[w]) \in Nat /\ idx[w] \in Nat
      /\ DOMAIN local[w] = 1 .. Len(local[w])
  BY LenProperties DEF IInv, TypeOK
<1>2. idx[w] \in 1 .. Len(local[w])
  BY <1>1 DEF IInv, Control, Answers
<1>3. local[w][idx[w]] = slots[w][idx[w]] /\ Len(local[w]) <= Len(slots[w])
  BY <1>2 DEF IInv, Control, Copies, CopyPc
<1>4. idx[w] \in Used(w)
  BY <1>1, <1>2, <1>3 DEF Used
<1> QED
  BY <1>1, <1>2, <1>3, <1>4, SlotTypes DEF conn_at, IInv

\* Main's knowledge and the copies survive a step within the loop.
LEMMA LoopControl ==
  ASSUME IInv, pool, NEW w \in Worker, NEW p \in LoopPc, wpc[w] \in LoopPc,
         wpc' = [wpc EXCEPT ![w] = p],
         UNCHANGED <<slots, is_shutdown, local, mainVars, keep_running,
                     startVars>>
  PROVE  Scanned' /\ Phases' /\ NoPool' /\ Copies' /\ NoClients'
<1>1. \A v \in Worker : Len(slots'[v]) \in Nat /\ Len(slots'[v]) <= Len(slots[v])
  BY LenProperties DEF IInv, TypeOK
<1>2. p \in WorkerPc \ {"none"} /\ wpc[w] # "none"
      /\ p \notin {"exiting", "exited"}
  BY DEF LoopPc, WorkerPc
<1>3. Scanned' /\ Phases' /\ NoPool'
  BY <1>1, <1>2, WorkerControl
<1>4. \A v \in Worker : \/ wpc'[v] = wpc[v]
                        \/ wpc[v] \in LoopPc /\ wpc'[v] \in LoopPc
  BY DEF IInv, TypeOK
<1>5. Copies'
  BY <1>4 DEF IInv, Control, Copies, CopyPc
<1>6. NoClients'
  BY <1>4 DEF IInv, Control, NoClients, LoopPc
<1> QED
  BY <1>3, <1>5, <1>6

\* The second close: it takes no client from its slot, and if it closes one,
\* only what holds of struck states is left to show.
LEMMA CloseAgainInv ==
  ASSUME IInv, pool, NEW w \in Worker, close_again(w)
  PROVE  IInv'
<1>1. /\ wpc[w] = "reclose" /\ wpc' = [wpc EXCEPT ![w] = "disconnect"]
      /\ open' = open \ {stray} /\ struck' = (struck \/ stray \in open)
      /\ stray' = None
      /\ sock_fd' = sock_fd /\ slots' = slots /\ is_shutdown' = is_shutdown
      /\ local' = local /\ revents' = revents /\ idx' = idx
      /\ UNCHANGED <<mainVars, keep_running, startVars>>
  BY DEF close_again, WorkerAt, WorkerTo
<1>2. /\ mpc' = mpc /\ client_fd' = client_fd
      /\ scan' = scan /\ last_worker' = last_worker /\ room' = room
      /\ shut' = shut /\ keep_running' = keep_running /\ server' = server
      /\ pool' = pool /\ cache' = cache
  BY <1>1 DEF mainVars, startVars
<1>3. TypeOK'
  <2>1. wpc' \in [Worker -> WorkerPc] /\ open' \in SUBSET Fd
        /\ struck' \in BOOLEAN /\ stray' \in Fd \cup {None}
    BY <1>1 DEF IInv, TypeOK, WorkerPc
  <2> QED
    BY <1>1, <1>2, <2>1 DEF IInv, TypeOK
<1>4. Scanned' /\ Phases' /\ NoPool' /\ Copies' /\ NoClients'
  BY <1>1, LoopControl DEF LoopPc
<1>5. ~struck' => ~struck /\ open' = open
  BY <1>1
<1>6. \A v \in Worker : \/ wpc'[v] = wpc[v]
                        \/ wpc[v] = "reclose" /\ wpc'[v] = "disconnect"
  BY <1>1 DEF IInv, TypeOK
<1>7. \A v \in Worker : \A k : /\ FdAt(v, k)' = FdAt(v, k)
                               /\ Marking(v, k)' = Marking(v, k)
                               /\ Doomed(v, k)' = Doomed(v, k)
  BY <1>1, <1>6 DEF FdAt, Marking, Doomed, LoopPc
<1>8. \A v \in Worker : Used(v)' = Used(v)
  BY <1>1 DEF Used
<1>9. OwnCells' /\ PollsCells'
  BY <1>1, <1>7, <1>8 DEF IInv, Clients, OwnCells, PollsCells
<1>10. OwnClients' /\ NoDoubles'
  BY <1>1, <1>2, <1>5, <1>7, <1>8 DEF IInv, Clients, OwnClients, NoDoubles
<1>11. NoneLost'
  BY <1>1, <1>2, <1>7, <1>8 DEF IInv, Clients, NoneLost
<1>12. ClosedAreCopied'
  BY <1>1, <1>6, <1>7, <1>8 DEF IInv, Control, ClosedAreCopied, LoopPc
<1>13. Answers'
  BY <1>1, <1>5, <1>6 DEF IInv, Control, Answers, LoopPc
<1>14. MainHands'
  BY <1>2, <1>5 DEF IInv, Control, MainHands
<1> QED
  BY <1>3, <1>4, <1>9, <1>10, <1>11, <1>12, <1>13, <1>14
  DEF IInv, Clients, Control

\* The client at hand is closed: as long as no client was closed by another, no
\* other slot has its descriptor.
LEMMA CloseConnInv ==
  ASSUME IInv, pool, NEW w \in Worker, close_conn(w)
  PROVE  IInv'
<1> DEFINE i == idx[w]
<1>1. /\ wpc[w] \in {"disconnect", "process"}
      /\ wpc[w] = "process" => i \in DOMAIN local[w]
      /\ wpc' = [wpc EXCEPT ![w] = "mark"]
      /\ open' = open \ {sock_fd[conn_at(w)]}
      /\ sock_fd' = sock_fd /\ slots' = slots /\ is_shutdown' = is_shutdown
      /\ local' = local /\ revents' = revents /\ idx' = idx
      /\ UNCHANGED <<mainVars, keep_running, startVars, strayVars>>
  BY DEF close_conn, Reported, WorkerAt, WorkerTo
<1>2. /\ mpc' = mpc /\ client_fd' = client_fd
      /\ scan' = scan /\ last_worker' = last_worker /\ room' = room
      /\ shut' = shut /\ keep_running' = keep_running /\ server' = server
      /\ pool' = pool /\ cache' = cache /\ stray' = stray /\ struck' = struck
  BY <1>1 DEF mainVars, startVars, strayVars
<1>3. /\ i \in 1 .. Len(local[w]) /\ Len(local[w]) \in Nat
      /\ i \in Used(w) /\ i \in Nat /\ conn_at(w) = slots[w][i].conn
  BY <1>1, AtHand DEF LoopPc
<1> HIDE DEF i
<1>4. TypeOK'
  <2>1. wpc' \in [Worker -> WorkerPc] /\ open' \in SUBSET Fd
    BY <1>1 DEF IInv, TypeOK, WorkerPc
  <2> QED
    BY <1>1, <1>2, <2>1 DEF IInv, TypeOK
<1>5. Scanned' /\ Phases' /\ NoPool' /\ Copies' /\ NoClients'
  BY <1>1, LoopControl DEF LoopPc
<1>6. wpc'[w] = "mark" /\ \A v \in Worker \ {w} : wpc'[v] = wpc[v]
  BY <1>1 DEF IInv, TypeOK
<1>7. ~Marking(w, i) /\ FdAt(w, i) = sock_fd[slots[w][i].conn]
  BY <1>1 DEF Marking, FdAt
<1>8. open' = open \ {FdAt(w, i)}
  BY <1>1, <1>3, <1>7
<1>9. \A v \in Worker : \A k :
        /\ FdAt(v, k)' = IF v = w /\ k = i THEN None ELSE FdAt(v, k)
        /\ Doomed(v, k)' = Doomed(v, k)
  <2> TAKE v \in Worker
  <2> TAKE k
  <2>1. CASE v = w
    BY <1>1, <1>6, <2>1 DEF FdAt, Marking, Doomed, LoopPc, i
  <2>2. CASE v # w
    BY <1>1, <1>6, <2>2 DEF FdAt, Marking, Doomed
  <2> QED
    BY <2>1, <2>2
<1>10. FdAt(w, i) # None
  <2>1. ~(i < i)
    BY <1>3
  <2> QED
    BY <1>1, <1>3, <1>7, <2>1 DEF IInv, Control, ClosedAreCopied, LoopPc, i
<1>11. \A v \in Worker : Used(v)' = Used(v)
  BY <1>1 DEF Used
<1>12. OwnCells'
  BY <1>1, <1>11 DEF IInv, Clients, OwnCells
<1>13. PollsCells'
  BY <1>1, <1>9, <1>11 DEF IInv, Clients, PollsCells
<1>14. OwnClients' /\ NoDoubles'
  <2>1. OwnClients'
    <3> SUFFICES ASSUME ~struck, NEW v \in Worker, NEW k \in Used(v),
                        FdAt(v, k)' # None
                 PROVE  FdAt(v, k)' \in open' /\ FdAt(v, k)' # client_fd
      BY <1>2, <1>11 DEF OwnClients
    <3>1. ~(v = w /\ k = i) /\ FdAt(v, k)' = FdAt(v, k)
      BY <1>9
    <3>2. FdAt(v, k) # FdAt(w, i)
      BY <1>3, <1>10, <3>1 DEF IInv, Clients, NoDoubles
    <3> QED
      BY <1>8, <3>1, <3>2 DEF IInv, Clients, OwnClients
  <2>2. NoDoubles'
    BY <1>2, <1>9, <1>11 DEF IInv, Clients, NoDoubles
  <2> QED
    BY <2>1, <2>2
<1>15. NoneLost'
  BY <1>2, <1>8, <1>9, <1>11 DEF IInv, Clients, NoneLost
<1>16. ClosedAreCopied'
  <2> SUFFICES ASSUME NEW v \in Worker, NEW k \in Used(v), FdAt(v, k)' = None
               PROVE  /\ wpc'[v] \in LoopPc \cup {"clean_up"}
                      /\ k <= Len(local[v])
                      /\ wpc'[v] \in LoopPc => k < idx[v] \/ Marking(v, k)'
    BY <1>1, <1>11 DEF ClosedAreCopied
  <2>1. CASE v = w /\ k = i
    BY <1>1, <1>3, <1>6, <2>1 DEF Marking, LoopPc, i
  <2>2. CASE ~(v = w /\ k = i)
    <3>1. FdAt(v, k) = None
      BY <1>9, <2>2
    <3>2. /\ wpc[v] \in LoopPc \cup {"clean_up"}
          /\ k <= Len(local[v])
          /\ wpc[v] \in LoopPc => k < idx[v] \/ Marking(v, k)
      BY <3>1 DEF IInv, Control, ClosedAreCopied
    <3> QED
      BY <1>1, <1>6, <2>2, <3>2 DEF Marking, LoopPc
  <2> QED
    BY <2>1, <2>2
<1>17. Answers'
  BY <1>1, <1>2, <1>3, <1>6 DEF IInv, Control, Answers, LoopPc, i
<1>18. MainHands'
  BY <1>2, <1>3, <1>8, <1>10 DEF IInv, Control, MainHands, Clients, OwnClients
<1> QED
  BY <1>4, <1>5, <1>12, <1>13, <1>14, <1>15, <1>16, <1>17, <1>18
  DEF IInv, Clients, Control

\* The cell at hand says that its client is closed: it was already, or poll has
\* found it so, which it only does after a second close.
LEMMA CellClosedInv ==
  ASSUME IInv, pool, NEW w \in Worker, drop_invalid(w) \/ mark_closed(w)
  PROVE  IInv'
<1> DEFINE i == idx[w]
           c == conn_at(w)
<1>1. /\ wpc[w] \in {"process", "mark"}
      /\ wpc[w] = "process" => i \in DOMAIN local[w] /\ revents[w][i] = "nval"
      /\ wpc' = [wpc EXCEPT ![w] = "process"]
      /\ sock_fd' = [sock_fd EXCEPT ![c] = None]
      /\ idx' = [idx EXCEPT ![w] = i + 1]
      /\ open' = open /\ slots' = slots /\ is_shutdown' = is_shutdown
      /\ local' = local /\ revents' = revents
      /\ UNCHANGED <<mainVars, keep_running, startVars, strayVars>>
  <2>1. CASE drop_invalid(w)
    <3>1. wpc[w] = "process" /\ wpc' = wpc /\ wpc \in [Worker -> WorkerPc]
      BY <2>1 DEF drop_invalid, Reported, WorkerAt, IInv, TypeOK
    <3>2. wpc' = [wpc EXCEPT ![w] = "process"]
      BY <3>1
    <3> QED
      BY <2>1, <3>1, <3>2 DEF drop_invalid, Reported
  <2>2. CASE mark_closed(w)
    BY <2>2 DEF mark_closed, WorkerAt, WorkerTo
  <2> QED
    BY <2>1, <2>2
<1>2. /\ mpc' = mpc /\ client_fd' = client_fd
      /\ scan' = scan /\ last_worker' = last_worker /\ room' = room
      /\ shut' = shut /\ keep_running' = keep_running /\ server' = server
      /\ pool' = pool /\ cache' = cache /\ stray' = stray /\ struck' = struck
  BY <1>1 DEF mainVars, startVars, strayVars
<1>3. /\ i \in 1 .. Len(local[w]) /\ Len(local[w]) \in Nat
      /\ i \in Used(w) /\ i \in Nat /\ c = slots[w][i].conn /\ c \in Conn
  BY <1>1, AtHand DEF LoopPc
<1> HIDE DEF i, c
<1>4. TypeOK'
  <2>1. wpc' \in [Worker -> WorkerPc] /\ sock_fd' \in [Conn -> Fd \cup {None}]
    BY <1>1, <1>3 DEF IInv, TypeOK, WorkerPc
  <2>2. idx' \in [Worker -> Nat]
    <3>1. idx \in [Worker -> Nat] /\ i + 1 \in Nat
      BY <1>3 DEF IInv, TypeOK
    <3> QED
      BY <1>1, <3>1
  <2> QED
    BY <1>1, <1>2, <2>1, <2>2 DEF IInv, TypeOK
<1>5. Scanned' /\ Phases' /\ NoPool' /\ Copies' /\ NoClients'
  BY <1>1, LoopControl DEF LoopPc
<1>6. /\ wpc'[w] = "process" /\ idx'[w] = i + 1
      /\ \A v \in Worker \ {w} : wpc'[v] = wpc[v] /\ idx'[v] = idx[v]
  BY <1>1 DEF IInv, TypeOK
<1>7. \A v \in Worker : Used(v)' = Used(v)
  BY <1>1 DEF Used
<1>8. \A v \in Worker : \A k \in Used(v) :
        /\ FdAt(v, k)' = IF v = w /\ k = i THEN None ELSE FdAt(v, k)
        /\ Doomed(v, k)' => Doomed(v, k)
  <2> TAKE v \in Worker
  <2> TAKE k \in Used(v)
  <2>1. slots[v][k].conn \in Conn
    BY SlotTypes DEF IInv
  <2>2. slots[v][k].conn = c => v = w /\ k = i
    BY <1>3 DEF IInv, Clients, OwnCells
  <2>3. sock_fd'[slots[v][k].conn] = IF v = w /\ k = i THEN None
                                     ELSE sock_fd[slots[v][k].conn]
    BY <1>1, <1>3, <2>1, <2>2 DEF IInv, TypeOK
  <2>4. k \in Nat
    BY DEF Used
  <2>5. CASE v = w
    BY <1>1, <1>3, <1>6, <2>3, <2>4, <2>5 DEF FdAt, Marking, Doomed, LoopPc, i
  <2>6. CASE v # w
    BY <1>1, <1>6, <2>3, <2>6 DEF FdAt, Marking, Doomed
  <2> QED
    BY <2>5, <2>6
<1>9. FdAt(w, i) = None \/ (struck /\ Doomed(w, i))
  <2>1. CASE wpc[w] = "mark"
    BY <2>1 DEF FdAt, Marking, i
  <2>2. CASE wpc[w] = "process"
    <3>1. struck
      BY <1>1, <1>3, <2>2 DEF IInv, TypeOK, Control, Answers, LoopPc
    <3> QED
      BY <1>1, <1>3, <2>2, <3>1 DEF Doomed, LoopPc, i
  <2> QED
    BY <1>1, <2>1, <2>2
<1>10. OwnCells'
  BY <1>1, <1>7 DEF IInv, Clients, OwnCells
<1>11. PollsCells'
  BY <1>1, <1>7, <1>8 DEF IInv, Clients, PollsCells
<1>12. OwnClients' /\ NoDoubles'
  BY <1>1, <1>2, <1>7, <1>8 DEF IInv, Clients, OwnClients, NoDoubles
<1>13. NoneLost'
  <2> SUFFICES ASSUME NEW fd \in open, fd # client_fd
               PROVE  \E v \in Worker : \E k \in Used(v) :
                        FdAt(v, k)' = fd /\ ~Doomed(v, k)'
    BY <1>1, <1>2, <1>7 DEF NoneLost
  <2>1. PICK v \in Worker : \E k \in Used(v) : FdAt(v, k) = fd /\ ~Doomed(v, k)
    BY DEF IInv, Clients, NoneLost
  <2>2. PICK k \in Used(v) : FdAt(v, k) = fd /\ ~Doomed(v, k)
    BY <2>1
  <2>3. fd # None
    BY ThreadPoolAssumption DEF IInv, TypeOK
  <2>4. ~(v = w /\ k = i)
    BY <1>9, <2>2, <2>3
  <2> QED
    BY <1>8, <2>2, <2>4
<1>14. ClosedAreCopied'
  <2> SUFFICES ASSUME NEW v \in Worker, NEW k \in Used(v), FdAt(v, k)' = None
               PROVE  /\ wpc'[v] \in LoopPc \cup {"clean_up"}
                      /\ k <= Len(local[v])
                      /\ wpc'[v] \in LoopPc => k < idx'[v] \/ Marking(v, k)'
    BY <1>1, <1>7 DEF ClosedAreCopied
  <2>1. CASE v = w /\ k = i
    BY <1>3, <1>6, <2>1 DEF LoopPc
  <2>2. CASE ~(v = w /\ k = i)
    <3>1. FdAt(v, k) = None
      BY <1>8, <2>2
    <3>2. /\ wpc[v] \in LoopPc \cup {"clean_up"}
          /\ k <= Len(local[v])
          /\ wpc[v] \in LoopPc => k < idx[v] \/ Marking(v, k)
      BY <3>1 DEF IInv, Control, ClosedAreCopied
    <3>3. k \in Nat
      BY DEF Used
    <3>4. CASE v = w
      <4>1. k < i
        BY <1>1, <2>2, <3>2, <3>4 DEF Marking, LoopPc, i
      <4> QED
        BY <1>3, <1>6, <3>2, <3>3, <3>4, <4>1 DEF LoopPc
    <3>5. CASE v # w
      BY <1>6, <3>2, <3>5 DEF Marking
    <3> QED
      BY <3>4, <3>5
  <2> QED
    BY <2>1, <2>2
<1>15. Answers'
  <2> SUFFICES ASSUME NEW v \in Worker, wpc'[v] \in LoopPc
               PROVE  /\ Len(revents[v]) = Len(local[v])
                      /\ idx'[v] \in 1 .. Len(local[v]) + 1
                      /\ wpc'[v] # "process" => idx'[v] <= Len(local[v])
                      /\ ~struck => \A k \in 1 .. Len(local[v]) :
                                      revents[v][k] # "nval"
    BY <1>1, <1>2 DEF Answers
  <2>1. wpc[v] \in LoopPc
    BY <1>1, <1>6 DEF LoopPc
  <2>2. CASE v = w
    BY <1>3, <1>6, <2>1, <2>2 DEF IInv, Control, Answers
  <2>3. CASE v # w
    BY <1>6, <2>1, <2>3 DEF IInv, Control, Answers
  <2> QED
    BY <2>2, <2>3
<1>16. MainHands'
  BY <1>1, <1>2 DEF IInv, Control, MainHands
<1> QED
  BY <1>4, <1>5, <1>10, <1>11, <1>12, <1>13, <1>14, <1>15, <1>16
  DEF IInv, Clients, Control

\* The write-back and the shift: the slots are those of the open clients.
LEMMA CleanUpInv ==
  ASSUME IInv, pool, NEW w \in Worker, clean_up(w)
  PROVE  IInv'
<1> DEFINE s == CleanedUp(w)
<1>1. /\ wpc[w] = "clean_up" /\ slots' = [slots EXCEPT ![w] = s]
      /\ local' = [local EXCEPT ![w] = <<>>]
      /\ revents' = [revents EXCEPT ![w] = <<>>]
      /\ idx' = [idx EXCEPT ![w] = 1] /\ wpc' = [wpc EXCEPT ![w] = "top"]
      /\ open' = open /\ sock_fd' = sock_fd /\ is_shutdown' = is_shutdown
      /\ UNCHANGED <<mainVars, keep_running, startVars, strayVars>>
  BY DEF clean_up, WorkerAt, WorkerTo
<1>2. /\ mpc' = mpc /\ client_fd' = client_fd
      /\ scan' = scan /\ last_worker' = last_worker /\ room' = room
      /\ shut' = shut /\ keep_running' = keep_running /\ server' = server
      /\ pool' = pool /\ cache' = cache /\ stray' = stray /\ struck' = struck
  BY <1>1 DEF mainVars, startVars, strayVars
<1>3. /\ s \in Seq(Slot)
      /\ Len(s) <= Len(slots[w])
      /\ \A j \in 1 .. Len(s) : \E k \in Used(w) :
           s[j] = slots[w][k] /\ FdAt(w, k) # None
      /\ \A i, j \in 1 .. Len(s) : s[i].conn = s[j].conn => i = j
      /\ \A k \in Used(w) : FdAt(w, k) # None =>
           \E j \in 1 .. Len(s) : s[j] = slots[w][k]
  BY <1>1, CleanedUpKeepsOpen DEF IInv, Clients, Control
<1>4. Len(s) \in Nat /\ Len(slots[w]) \in Nat
  BY <1>3, SlotTypes, LenProperties DEF IInv
<1> HIDE DEF s
<1>5. /\ slots'[w] = s /\ Used(w)' = 1 .. Len(s)
      /\ \A v \in Worker \ {w} :
           /\ slots'[v] = slots[v] /\ Used(v)' = Used(v)
           /\ wpc'[v] = wpc[v] /\ local'[v] = local[v]
           /\ revents'[v] = revents[v] /\ idx'[v] = idx[v]
           /\ \A k \in Used(v) : /\ FdAt(v, k)' = FdAt(v, k)
                                 /\ Doomed(v, k)' = Doomed(v, k)
                                 /\ Marking(v, k)' = Marking(v, k)
  BY <1>1 DEF IInv, TypeOK, Used, FdAt, Marking, Doomed
<1>16. wpc'[w] = "top"
  BY <1>1 DEF IInv, TypeOK
<1>6. \A j \in 1 .. Len(s) : \E k \in Used(w) :
        /\ slots'[w][j] = slots[w][k]
        /\ FdAt(w, j)' = FdAt(w, k)
        /\ FdAt(w, k) # None
  BY <1>1, <1>3, <1>5, <1>16 DEF FdAt, Marking
<1>7. \A k \in Used(w) : FdAt(w, k) # None =>
        \E j \in 1 .. Len(s) : FdAt(w, j)' = FdAt(w, k) /\ ~Doomed(w, j)'
  <2> SUFFICES ASSUME NEW k \in Used(w), FdAt(w, k) # None
               PROVE  \E j \in 1 .. Len(s) : FdAt(w, j)' = FdAt(w, k)
                                           /\ ~Doomed(w, j)'
    OBVIOUS
  <2>1. PICK j \in 1 .. Len(s) : s[j] = slots[w][k]
    BY <1>3
  <2>2. FdAt(w, j)' = FdAt(w, k) /\ ~Doomed(w, j)'
    BY <1>1, <1>5, <1>16, <2>1 DEF FdAt, Marking, Doomed, LoopPc
  <2> QED
    BY <2>2
<1>8. \A v \in Worker : \A j \in Used(v)' : \E k \in Used(v) :
        slots'[v][j] = slots[v][k] /\ FdAt(v, j)' = FdAt(v, k)
  BY <1>5, <1>6
<1>9. OwnCells'
  <2> SUFFICES ASSUME NEW u \in Worker, NEW v \in Worker,
                      NEW k \in Used(u)', NEW j \in Used(v)',
                      slots'[u][k].conn = slots'[v][j].conn
               PROVE  u = v /\ k = j
    BY DEF OwnCells
  <2>1. u = v
    BY <1>8 DEF IInv, Clients, OwnCells
  <2>2. CASE u = w
    BY <1>3, <1>5, <2>1, <2>2
  <2>3. CASE u # w
    BY <1>5, <2>1, <2>3 DEF IInv, Clients, OwnCells
  <2> QED
    BY <2>1, <2>2, <2>3
<1>10. PollsCells' /\ OwnClients'
  BY <1>1, <1>2, <1>8 DEF IInv, Clients, PollsCells, OwnClients
<1>11. NoDoubles'
  <2> SUFFICES ASSUME ~struck, NEW u \in Worker, NEW v \in Worker,
                      NEW k \in Used(u)', NEW j \in Used(v)',
                      FdAt(u, k)' # None, FdAt(u, k)' = FdAt(v, j)'
               PROVE  u = v /\ k = j
    BY <1>2 DEF NoDoubles
  <2>1. PICK k0 \in Used(u) :
          slots'[u][k] = slots[u][k0] /\ FdAt(u, k)' = FdAt(u, k0)
    BY <1>8
  <2>2. PICK j0 \in Used(v) :
          slots'[v][j] = slots[v][j0] /\ FdAt(v, j)' = FdAt(v, j0)
    BY <1>8
  <2>3. FdAt(u, k0) # None /\ FdAt(u, k0) = FdAt(v, j0)
    BY <2>1, <2>2
  <2>4. NoDoubles
    BY DEF IInv, Clients
  <2>5. u = v /\ k0 = j0
    BY <2>3, <2>4 DEF NoDoubles
  <2> QED
    BY <1>9, <2>1, <2>2, <2>5 DEF OwnCells
<1>12. NoneLost'
  <2> SUFFICES ASSUME NEW fd \in open, fd # client_fd
               PROVE  \E v \in Worker : \E j \in Used(v)' :
                        FdAt(v, j)' = fd /\ ~Doomed(v, j)'
    BY <1>1, <1>2 DEF NoneLost
  <2>1. PICK v \in Worker : \E k \in Used(v) : FdAt(v, k) = fd /\ ~Doomed(v, k)
    BY DEF IInv, Clients, NoneLost
  <2>2. fd # None
    BY ThreadPoolAssumption DEF IInv, TypeOK
  <2> QED
    BY <1>5, <1>7, <2>1, <2>2
<1>13. TypeOK'
  <2>1. slots' \in [Worker -> Seq(Slot)]
        /\ \A v \in Worker : Len(slots'[v]) <= MAX_CLIENTS_PER_THREAD
    <3>1. /\ slots \in [Worker -> Seq(Slot)]
          /\ \A v \in Worker : Len(slots[v]) <= MAX_CLIENTS_PER_THREAD
      BY DEF IInv, TypeOK
    <3>2. Len(s) <= MAX_CLIENTS_PER_THREAD
      BY <1>3, <1>4, <3>1, ThreadPoolAssumption
    <3> QED
      BY <1>1, <1>3, <1>5, <3>1, <3>2
  <2>2. local' \in [Worker -> Seq(Slot)] /\ revents' \in [Worker -> Seq(Event)]
    <3>1. <<>> \in Seq(Slot) /\ <<>> \in Seq(Event)
      OBVIOUS
    <3> QED
      BY <1>1, <3>1 DEF IInv, TypeOK
  <2>3. wpc' \in [Worker -> WorkerPc] /\ idx' \in [Worker -> Nat]
    BY <1>1 DEF IInv, TypeOK, WorkerPc
  <2> QED
    BY <1>1, <1>2, <2>1, <2>2, <2>3 DEF IInv, TypeOK
<1>14. Scanned' /\ Phases' /\ NoPool'
  <2>1. \A v \in Worker : /\ Len(slots'[v]) \in Nat
                          /\ Len(slots'[v]) <= Len(slots[v])
                          /\ slots[v] = <<>> => slots'[v] = <<>>
    <3>1. slots[w] = <<>> => s = <<>>
      BY <1>3, <1>4
    <3>2. \A v \in Worker : Len(slots[v]) \in Nat
      BY SlotTypes DEF IInv
    <3> QED
      BY <1>3, <1>4, <1>5, <3>1, <3>2
  <2>2. "top" \in WorkerPc \ {"none"} /\ wpc[w] # "none"
    BY <1>1 DEF WorkerPc
  <2> QED
    BY <1>1, <2>1, <2>2, WorkerControl
<1>15. MainHands'
  BY <1>1, <1>2 DEF IInv, Control, MainHands
<1>17. Copies' /\ Answers' /\ NoClients'
  <2>1. Copies'
    BY <1>5, <1>16 DEF IInv, Control, Copies, CopyPc, LoopPc
  <2>2. Answers'
    BY <1>2, <1>5, <1>16 DEF IInv, Control, Answers, LoopPc
  <2>3. NoClients'
    BY <1>5, <1>16 DEF IInv, Control, NoClients
  <2> QED
    BY <2>1, <2>2, <2>3
<1>18. ClosedAreCopied'
  BY <1>5, <1>6 DEF IInv, Control, ClosedAreCopied
<1> QED
  BY <1>9, <1>10, <1>11, <1>12, <1>13, <1>14, <1>15, <1>17, <1>18
  DEF IInv, Clients, Control

\* The end of a worker: all its clients are closed, and only they.
LEMMA FreeResourcesInv ==
  ASSUME IInv, pool, NEW w \in Worker, free_resources(w)
  PROVE  IInv'
<1>1. /\ wpc[w] = "exiting" /\ slots' = [slots EXCEPT ![w] = <<>>]
      /\ open' = open \ {sock_fd[c] : c \in Conns(slots[w])}
      /\ sock_fd' = [c \in Conn |-> IF c \in Conns(slots[w]) THEN None
                                   ELSE sock_fd[c]]
      /\ wpc' = [wpc EXCEPT ![w] = "exited"]
      /\ is_shutdown' = is_shutdown
      /\ local' = local /\ revents' = revents /\ idx' = idx
      /\ UNCHANGED <<mainVars, keep_running, startVars, strayVars>>
  BY DEF free_resources, WorkerAt, WorkerTo
<1>2. /\ mpc' = mpc /\ client_fd' = client_fd
      /\ scan' = scan /\ last_worker' = last_worker /\ room' = room
      /\ shut' = shut /\ keep_running' = keep_running /\ server' = server
      /\ pool' = pool /\ cache' = cache /\ stray' = stray /\ struck' = struck
  BY <1>1 DEF mainVars, startVars, strayVars
<1>3. \A c : c \in Conns(slots[w]) <=> \E k \in Used(w) : c = slots[w][k].conn
  BY SlotTypes DEF Conns, IInv
<1>4. open' = open \ {FdAt(w, k) : k \in Used(w)}
  BY <1>1, <1>3 DEF FdAt, Marking
<1>5. /\ slots'[w] = <<>> /\ Used(w)' = {} /\ wpc'[w] = "exited"
      /\ \A v \in Worker \ {w} :
           slots'[v] = slots[v] /\ Used(v)' = Used(v) /\ wpc'[v] = wpc[v]
  BY <1>1 DEF IInv, TypeOK, Used
<1>6. \A v \in Worker \ {w} : \A k \in Used(v) :
        /\ FdAt(v, k)' = FdAt(v, k) /\ Marking(v, k)' = Marking(v, k)
        /\ Doomed(v, k)' = Doomed(v, k)
  <2> TAKE v \in Worker \ {w}
  <2> TAKE k \in Used(v)
  <2>1. slots[v][k].conn \in Conn
    BY SlotTypes DEF IInv
  <2>2. slots[v][k].conn \notin Conns(slots[w])
    BY <1>3 DEF IInv, Clients, OwnCells
  <2> QED
    BY <1>1, <1>5, <2>1, <2>2 DEF FdAt, Marking, Doomed
<1>7. \A k \in Used(w) : FdAt(w, k) # None
  BY <1>1 DEF IInv, Control, ClosedAreCopied, LoopPc
<1>8. OwnCells' /\ PollsCells' /\ NoDoubles'
  BY <1>2, <1>5, <1>6 DEF IInv, Clients, OwnCells, PollsCells, NoDoubles
<1>9. OwnClients'
  <2> SUFFICES ASSUME ~struck, NEW v \in Worker, NEW k \in Used(v)',
                      FdAt(v, k)' # None
               PROVE  FdAt(v, k)' \in open' /\ FdAt(v, k)' # client_fd'
    BY <1>2 DEF OwnClients
  <2>1. v # w /\ k \in Used(v) /\ FdAt(v, k)' = FdAt(v, k)
        /\ slots'[v] = slots[v]
    BY <1>5, <1>6
  <2>2. \A j \in Used(w) : FdAt(w, j) # FdAt(v, k)
    BY <1>7, <2>1 DEF IInv, Clients, NoDoubles
  <2> QED
    BY <1>2, <1>4, <2>1, <2>2 DEF IInv, Clients, OwnClients
<1>10. NoneLost'
  <2> SUFFICES ASSUME NEW fd \in open', fd # client_fd
               PROVE  \E v \in Worker : \E j \in Used(v)' :
                        FdAt(v, j)' = fd /\ ~Doomed(v, j)'
    BY <1>2 DEF NoneLost
  <2>1. PICK v \in Worker : \E k \in Used(v) : FdAt(v, k) = fd /\ ~Doomed(v, k)
    BY <1>4 DEF IInv, Clients, NoneLost
  <2>2. v # w
    BY <1>4, <2>1
  <2> QED
    BY <1>5, <1>6, <2>1, <2>2
<1>11. MainHands'
  <2>1. ~struck => \A k \in Used(w) : FdAt(w, k) # client_fd
    BY <1>7 DEF IInv, Clients, OwnClients
  <2> QED
    BY <1>2, <1>4, <2>1 DEF IInv, Control, MainHands
<1>12. TypeOK'
  <2>1. slots' \in [Worker -> Seq(Slot)]
        /\ \A v \in Worker : Len(slots'[v]) <= MAX_CLIENTS_PER_THREAD
    <3>1. <<>> \in Seq(Slot) /\ Len(<<>>) = 0
      OBVIOUS
    <3> QED
      BY <1>1, <1>5, <3>1, ThreadPoolAssumption DEF IInv, TypeOK
  <2>2. wpc' \in [Worker -> WorkerPc] /\ open' \in SUBSET Fd
        /\ sock_fd' \in [Conn -> Fd \cup {None}]
    BY <1>1 DEF IInv, TypeOK, WorkerPc
  <2> QED
    BY <1>1, <1>2, <2>1, <2>2 DEF IInv, TypeOK
<1>13. Scanned' /\ Phases' /\ NoPool'
  <2>1. \A v \in Worker : /\ Len(slots'[v]) \in Nat
                          /\ Len(slots'[v]) <= Len(slots[v])
                          /\ slots[v] = <<>> => slots'[v] = <<>>
    <3>1. \A v \in Worker : Len(slots[v]) \in Nat
      BY SlotTypes DEF IInv
    <3>2. Len(<<>>) = 0
      OBVIOUS
    <3> QED
      BY <1>5, <3>1, <3>2
  <2>2. "exited" \in WorkerPc \ {"none"} /\ wpc[w] # "none" /\ is_shutdown[w]
    BY <1>1 DEF WorkerPc, IInv, Control, Phases
  <2> QED
    BY <1>1, <2>1, <2>2, WorkerControl
<1>14. Copies' /\ Answers' /\ NoClients'
  BY <1>1, <1>2, <1>5
  DEF IInv, Control, Copies, Answers, NoClients, CopyPc, LoopPc
<1>15. ClosedAreCopied'
  BY <1>1, <1>5, <1>6 DEF IInv, Control, ClosedAreCopied
<1> QED
  BY <1>8, <1>9, <1>10, <1>11, <1>12, <1>13, <1>14, <1>15
  DEF IInv, Clients, Control

-----------------------------------------------------------------------------
(* The steps of main that touch a worker or a client. *)

\* What a wakeup or the start of a worker leaves alone.
MainToWorker == threadpool_init_create \/ shutdown_store \/ shutdown_signal

\* They keep the invariant.
LEMMA MainToWorkerInv == IInv /\ MainToWorker => IInv'
<1> SUFFICES ASSUME IInv, MainToWorker PROVE IInv'
  OBVIOUS
<1> USE DEF MainToWorker, threadpool_init_create, shutdown_store,
            shutdown_signal, Signal, WorkerTo, WorkerAt, Missing
<1>1. /\ open' = open /\ sock_fd' = sock_fd /\ slots' = slots
      /\ local' = local /\ revents' = revents /\ idx' = idx
      /\ client_fd' = client_fd /\ scan' = scan /\ last_worker' = last_worker
      /\ room' = room /\ keep_running' = keep_running /\ server' = server
      /\ pool' = pool /\ cache' = cache /\ stray' = stray /\ struck' = struck
  BY DEF poolVars, workerVars, mainVars, startVars, strayVars
<1>2. \/ mpc = "create_workers" /\ mpc' = mpc /\ UNCHANGED <<is_shutdown, shut>>
      \/ /\ mpc = "shutdown" /\ mpc' = "signal" /\ shut \in Worker
         /\ UNCHANGED <<wpc, shut>>
      \/ /\ mpc = "signal" /\ mpc' = "shutdown" /\ shut' = shut + 1
         /\ shut \in Worker /\ UNCHANGED is_shutdown
  <2>1. shut < MAX_WORKER_THREADS => shut \in Worker
    BY ThreadPoolAssumption DEF IInv, TypeOK, Worker
  <2>2. mpc = "signal" => shut < MAX_WORKER_THREADS
    BY DEF IInv, Control, Phases
  <2> QED
    BY <2>1, <2>2 DEF mainVars, poolVars, workerVars
<1>3. \A w \in Worker :
        \/ wpc'[w] = wpc[w]
        \/ wpc[w] \in {"none", "waiting"} /\ wpc'[w] = "top"
  BY DEF IInv, TypeOK, workerVars
<1>4. mpc = "create_workers" \/ \A w \in Worker : wpc'[w] = "none" <=> wpc[w] = "none"
  <2> SUFFICES ASSUME mpc # "create_workers"
               PROVE \A w \in Worker : wpc'[w] = "none" <=> wpc[w] = "none"
    OBVIOUS
  <2> QED
    BY DEF IInv, TypeOK, workerVars
<1>5. wpc' \in [Worker -> WorkerPc] /\ is_shutdown' \in [Worker -> BOOLEAN]
  <2>1. wpc' \in [Worker -> WorkerPc]
    BY DEF IInv, TypeOK, WorkerPc, workerVars
  <2>2. is_shutdown' \in [Worker -> BOOLEAN]
    <3>1. is_shutdown' = is_shutdown
            \/ is_shutdown' = [is_shutdown EXCEPT ![shut] = TRUE]
      BY DEF poolVars
    <3> QED
      BY <3>1 DEF IInv, TypeOK
  <2> QED
    BY <2>1, <2>2
<1>6. \A w \in Worker : is_shutdown[w] => is_shutdown'[w]
  BY DEF IInv, TypeOK, poolVars
<1> HIDE DEF MainToWorker, Missing
<1>7. TypeOK'
  <2>1. mpc' \in MainPc
    BY <1>2 DEF IInv, TypeOK, MainPc
  <2>2. shut' \in 0 .. MAX_WORKER_THREADS
    <3>1. shut' = shut \/ (shut' = shut + 1 /\ shut \in Worker)
      BY <1>2
    <3>2. shut \in 0 .. MAX_WORKER_THREADS
      BY DEF IInv, TypeOK
    <3> QED
      BY <3>1, <3>2, ThreadPoolAssumption DEF Worker
  <2> QED
    BY <1>1, <1>5, <2>1, <2>2 DEF IInv, TypeOK
<1>14. \A w \in Worker : \A k : /\ FdAt(w, k)' = FdAt(w, k)
                                 /\ Marking(w, k)' = Marking(w, k)
                                 /\ Doomed(w, k)' = Doomed(w, k)
  BY <1>1, <1>3 DEF FdAt, Marking, Doomed, LoopPc
<1>8. Clients'
  BY <1>1, <1>14, ClientsFrame DEF IInv
<1>9. Copies' /\ Answers' /\ NoClients'
  <2>1. Copies'
    BY <1>1, <1>3 DEF IInv, Control, Copies, CopyPc, LoopPc
  <2>2. Answers'
    BY <1>1, <1>3 DEF IInv, Control, Answers, LoopPc
  <2>3. NoClients'
    BY <1>1, <1>3 DEF IInv, Control, NoClients
  <2> QED
    BY <2>1, <2>2, <2>3
<1>10. ClosedAreCopied'
  BY <1>1, <1>3, <1>14 DEF IInv, Control, ClosedAreCopied, Used, LoopPc
<1>11. Scanned' /\ MainHands'
  BY <1>1, <1>2 DEF IInv, Control, Scanned, MainHands
<1>12. Phases'
  <2>1. pool /\ pool'
    BY <1>1 DEF IInv, MainToWorker, Control, Phases
  <2>2. mpc' = "signal" => shut' < MAX_WORKER_THREADS
    BY <1>2, ThreadPoolAssumption DEF Worker
  <2>3. \A w \in Worker : wpc'[w] \in {"exiting", "exited"} => is_shutdown'[w]
    BY <1>3, <1>6 DEF IInv, Control, Phases
  <2> QED
    BY <1>1, <1>2, <2>1, <2>2, <2>3
    DEF IInv, Control, Phases, StartPc, ServingPc
<1>13. NoPool'
  BY <1>1 DEF IInv, MainToWorker, Control, Phases, NoPool
<1> QED
  BY <1>7, <1>8, <1>9, <1>10, <1>11, <1>12, <1>13 DEF IInv, Control

\* A new client has a descriptor that no slot knows.
LEMMA AcceptInv == IInv /\ accept_client => IInv'
<1> SUFFICES ASSUME IInv, accept_client PROVE IInv'
  OBVIOUS
<1>1. PICK fd \in Fd \ open : open' = open \cup {fd} /\ client_fd' = fd
  BY DEF accept_client
<1>2. /\ mpc = "accept" /\ mpc' = "pick" /\ room' = FALSE
      /\ scan' = [i |-> 0, best |-> -1, min_load |-> UINT_MAX]
      /\ sock_fd' = sock_fd /\ slots' = slots /\ is_shutdown' = is_shutdown
      /\ wpc' = wpc /\ local' = local /\ revents' = revents /\ idx' = idx
      /\ last_worker' = last_worker /\ shut' = shut
      /\ keep_running' = keep_running /\ server' = server
      /\ pool' = pool /\ cache' = cache /\ stray' = stray /\ struck' = struck
  BY DEF accept_client, workerVars, startVars, strayVars
<1>3. TypeOK'
  <2>1. scan' \in [i : 0 .. MAX_WORKER_THREADS, best : Worker \cup {-1},
                   min_load : 0 .. UINT_MAX]
    BY <1>2, ThreadPoolAssumption DEF UINT_MAX
  <2> QED
    BY <1>1, <1>2, <2>1 DEF IInv, TypeOK, MainPc
<1>4. client_fd = None
  BY <1>2 DEF IInv, Control, MainHands
<1>5. None \notin open
  BY ThreadPoolAssumption DEF IInv, TypeOK
<1>10. \A w, k : /\ FdAt(w, k)' = FdAt(w, k)
                 /\ Marking(w, k)' = Marking(w, k)
                 /\ Doomed(w, k)' = Doomed(w, k)
  BY <1>2, WorkersFrame
<1>6. Clients'
  <2>1. OwnCells' /\ PollsCells' /\ NoDoubles'
    BY <1>2, <1>10 DEF IInv, Clients, OwnCells, PollsCells, NoDoubles, Used
  <2>2. OwnClients'
    BY <1>1, <1>2, <1>10 DEF IInv, Clients, OwnClients, Used
  <2>3. NoneLost'
    BY <1>1, <1>2, <1>4, <1>5, <1>10 DEF IInv, Clients, NoneLost, Used
  <2> QED
    BY <2>1, <2>2, <2>3 DEF Clients
<1>7. Copies' /\ ClosedAreCopied' /\ Answers' /\ NoClients'
  BY <1>2, <1>10
  DEF IInv, Control, Copies, ClosedAreCopied, Answers, NoClients, Used
<1>8. Scanned' /\ MainHands'
  BY <1>1, <1>2, ThreadPoolAssumption
  DEF Scanned, MainHands
<1>9. Phases' /\ NoPool'
  BY <1>2 DEF IInv, Control, Phases, NoPool, StartPc, ServingPc, Missing,
              WorkerAt
<1> QED
  BY <1>3, <1>6, <1>7, <1>8, <1>9 DEF IInv, Control

\* The client that is turned away has no slot.
LEMMA CloseInv == IInv /\ close_client => IInv'
<1> SUFFICES ASSUME IInv, close_client PROVE IInv'
  OBVIOUS
<1>1. /\ mpc = "close" /\ mpc' = "loop_end"
      /\ open' = open \ {client_fd} /\ client_fd' = None
      /\ sock_fd' = sock_fd /\ slots' = slots /\ is_shutdown' = is_shutdown
      /\ wpc' = wpc /\ local' = local /\ revents' = revents /\ idx' = idx
      /\ scan' = scan /\ room' = room
      /\ last_worker' = last_worker /\ shut' = shut
      /\ keep_running' = keep_running /\ server' = server
      /\ pool' = pool /\ cache' = cache /\ stray' = stray /\ struck' = struck
  BY DEF close_client, workerVars, startVars, strayVars
<1>2. TypeOK'
  BY <1>1 DEF IInv, TypeOK, MainPc
<1>7. \A w, k : /\ FdAt(w, k)' = FdAt(w, k)
                /\ Marking(w, k)' = Marking(w, k)
                /\ Doomed(w, k)' = Doomed(w, k)
  BY <1>1, WorkersFrame
<1>3. Clients'
  <2>1. OwnCells' /\ PollsCells' /\ NoDoubles'
    BY <1>1, <1>7 DEF IInv, Clients, OwnCells, PollsCells, NoDoubles, Used
  <2>2. OwnClients'
    BY <1>1, <1>7 DEF IInv, Clients, OwnClients, Used
  <2>3. NoneLost'
    BY <1>1, <1>7 DEF IInv, Clients, NoneLost, Used
  <2> QED
    BY <2>1, <2>2, <2>3 DEF Clients
<1>4. Copies' /\ ClosedAreCopied' /\ Answers' /\ NoClients'
  BY <1>1, <1>7
  DEF IInv, Control, Copies, ClosedAreCopied, Answers, NoClients, Used
<1>5. Scanned' /\ MainHands'
  BY <1>1 DEF Scanned, MainHands
<1>6. Phases' /\ NoPool'
  BY <1>1 DEF IInv, Control, Phases, NoPool, StartPc, ServingPc, Missing,
              WorkerAt
<1> QED
  BY <1>2, <1>3, <1>4, <1>5, <1>6 DEF IInv, Control

\* add_client_to_worker: the new slot has a cell that no other slot has, and the
\* worker that gets it is awake afterwards.
LEMMA AddClientInv == IInv /\ add_client => IInv'
<1> SUFFICES ASSUME IInv, add_client PROVE IInv'
  OBVIOUS
<1> DEFINE new(cell) == [fd |-> client_fd, conn |-> cell]
<1>0. PICK w \in Worker : w = scan.best
  <2>1. mpc = "add" /\ scan.i = MAX_WORKER_THREADS /\ scan.i > 0
    BY ThreadPoolAssumption DEF add_client, IInv, Control, Scanned
  <2> QED
    BY <2>1 DEF IInv, Control, Scanned
<1>3. PICK n \in Nat : n = Len(slots[w])
  BY SlotTypes DEF IInv
<1>1. PICK c \in Conn :
        /\ \A v \in Worker : c \notin Conns(slots[v])
        /\ sock_fd' = [sock_fd EXCEPT ![c] = client_fd]
        /\ slots' = [slots EXCEPT ![w] = Append(slots[w], new(c))]
  BY <1>0 DEF add_client
<1>2. /\ mpc = "add" /\ mpc' = "loop_end" /\ client_fd' = None
      /\ wpc[w] # "empty" /\ n < MAX_CLIENTS_PER_THREAD
      /\ wpc' = IF wpc[w] = "waiting" THEN [wpc EXCEPT ![w] = "top"] ELSE wpc
      /\ open' = open /\ is_shutdown' = is_shutdown /\ scan' = scan
      /\ local' = local /\ revents' = revents /\ idx' = idx /\ room' = room
      /\ last_worker' = last_worker /\ shut' = shut
      /\ keep_running' = keep_running /\ server' = server
      /\ pool' = pool /\ cache' = cache /\ stray' = stray /\ struck' = struck
  BY <1>0, <1>3 DEF add_client, Locked, Signal, WorkerAt, WorkerTo, startVars,
                    strayVars
<1>4. /\ ~struck => client_fd \in open
      /\ client_fd \in Fd /\ client_fd # None /\ None \notin open
  BY <1>2, ThreadPoolAssumption DEF IInv, TypeOK, Control, MainHands
<1>5. new(c) \in Slot /\ new(c).conn = c /\ new(c).fd = client_fd
  BY <1>4 DEF Slot
<1> HIDE DEF new
<1>6. /\ slots'[w] = Append(slots[w], new(c))
      /\ slots'[w] \in Seq(Slot) /\ Len(slots'[w]) = n + 1
      /\ slots'[w][n + 1] = new(c)
      /\ \A k \in 1 .. n : slots'[w][k] = slots[w][k]
      /\ \A v \in Worker \ {w} : slots'[v] = slots[v]
  <2>1. slots[w] \in Seq(Slot) /\ n \in Nat
    BY <1>3, SlotTypes DEF IInv
  <2>2. slots'[w] = Append(slots[w], new(c))
    BY <1>1, <1>3 DEF IInv, TypeOK
  <2>3. \A v \in Worker \ {w} : slots'[v] = slots[v]
    BY <1>1, <1>3 DEF IInv, TypeOK
  <2> QED
    BY <1>3, <1>5, <2>1, <2>2, <2>3, AppendProperties
<1>7. Used(w)' = Used(w) \cup {n + 1} /\ n + 1 \notin Used(w)
      /\ \A v \in Worker \ {w} : Used(v)' = Used(v)
  <2>1. 1 .. (n + 1) = 1 .. n \cup {n + 1} /\ n + 1 \notin 1 .. n
    BY <1>6
  <2> QED
    BY <1>3, <1>6, <2>1 DEF Used
<1>16. \A v \in Worker : wpc'[v] = wpc[v] \/ (wpc[v] = "waiting" /\ wpc'[v] = "top")
  BY <1>2, <1>3 DEF IInv, TypeOK
<1>24. \A v \in Worker : \A k : /\ Marking(v, k)' = Marking(v, k)
                                 /\ Doomed(v, k)' = Doomed(v, k)
  BY <1>2, <1>16 DEF Marking, Doomed, LoopPc
<1>25. ~Marking(w, n + 1) /\ ~Doomed(w, n + 1)
  <2>1. wpc[w] \in LoopPc => Len(local[w]) <= n
    BY <1>3 DEF IInv, Control, Copies, CopyPc
  <2>2. Len(local[w]) \in Nat
    BY LenProperties DEF IInv, TypeOK
  <2>3. wpc[w] = "mark" => idx[w] <= n /\ idx[w] \in Nat
    BY <2>1, <2>2 DEF IInv, TypeOK, Control, Answers, LoopPc
  <2> QED
    BY <2>1, <2>2, <2>3 DEF Marking, Doomed
<1>8. \A v \in Worker : \A k \in Used(v) :
        /\ slots'[v][k] = slots[v][k]
        /\ slots[v][k].conn # c
        /\ FdAt(v, k)' = FdAt(v, k)
        /\ k \in Used(v)'
  <2> TAKE v \in Worker
  <2> TAKE k \in Used(v)
  <2>1. slots'[v][k] = slots[v][k] /\ k \in Used(v)'
    BY <1>3, <1>6, <1>7 DEF Used
  <2>2. slots[v][k].conn # c /\ slots[v][k].conn \in Conn
    BY <1>1, SlotTypes DEF Conns, IInv
  <2> QED
    BY <1>1, <1>24, <2>1, <2>2 DEF FdAt, IInv, TypeOK
<1>9. FdAt(w, n + 1)' = client_fd /\ slots'[w][n + 1].conn = c
      /\ slots'[w][n + 1].fd = client_fd
  BY <1>1, <1>4, <1>5, <1>6, <1>24, <1>25 DEF FdAt, IInv, TypeOK
<1>10. \A v \in Worker : \A k \in Used(v)' :
         k \in Used(v) \/ (v = w /\ k = n + 1)
  BY <1>7
<1>11. ~struck => \A v \in Worker : \A k \in Used(v) :
         FdAt(v, k) # client_fd
  BY <1>4 DEF IInv, Clients, OwnClients
<1>12. OwnCells'
  BY <1>8, <1>9, <1>10 DEF IInv, Clients, OwnCells
<1>13. PollsCells' /\ OwnClients'
  <2> SUFFICES ASSUME NEW v \in Worker, NEW k \in Used(v)', FdAt(v, k)' # None
               PROVE  /\ FdAt(v, k)' = slots'[v][k].fd
                      /\ ~struck => /\ FdAt(v, k)' \in open'
                                    /\ FdAt(v, k)' # client_fd'
    BY <1>2 DEF PollsCells, OwnClients
  <2>1. CASE k \in Used(v)
    BY <1>2, <1>8, <2>1, ThreadPoolAssumption
    DEF IInv, Clients, PollsCells, OwnClients
  <2>2. CASE v = w /\ k = n + 1
    BY <1>2, <1>4, <1>9, <2>2
  <2> QED
    BY <1>10, <2>1, <2>2
<1>14. NoDoubles'
  BY <1>2, <1>8, <1>9, <1>10, <1>11 DEF IInv, Clients, NoDoubles
<1>15. NoneLost'
  <2> SUFFICES ASSUME NEW fd \in open
               PROVE  \E v \in Worker : \E k \in Used(v)' :
                        FdAt(v, k)' = fd /\ ~Doomed(v, k)'
    BY <1>2 DEF NoneLost
  <2>1. CASE fd = client_fd
    BY <1>3, <1>7, <1>9, <1>24, <1>25, <2>1
  <2>2. CASE fd # client_fd
    <3>1. PICK v \in Worker : \E k \in Used(v) : FdAt(v, k) = fd /\ ~Doomed(v, k)
      BY <2>2 DEF IInv, Clients, NoneLost
    <3> QED
      BY <1>8, <1>24, <3>1
  <2> QED
    BY <2>1, <2>2
<1>17. TypeOK'
  <2>1. slots' \in [Worker -> Seq(Slot)]
    BY <1>1, <1>3, <1>6 DEF IInv, TypeOK
  <2>2. \A v \in Worker : Len(slots'[v]) <= MAX_CLIENTS_PER_THREAD
    <3>1. n + 1 <= MAX_CLIENTS_PER_THREAD
      BY <1>2, ThreadPoolAssumption
    <3> QED
      BY <1>6, <3>1 DEF IInv, TypeOK
  <2>3. sock_fd' \in [Conn -> Fd \cup {None}]
    BY <1>1, <1>4 DEF IInv, TypeOK
  <2>4. wpc' \in [Worker -> WorkerPc]
    BY <1>2, <1>3 DEF IInv, TypeOK, WorkerPc
  <2> QED
    BY <1>2, <2>1, <2>2, <2>3, <2>4 DEF IInv, TypeOK, MainPc
<1>18. Copies'
  <2> SUFFICES ASSUME NEW v \in Worker, wpc[v] \in CopyPc
               PROVE  /\ Len(local[v]) <= Len(slots'[v])
                      /\ \A k \in 1 .. Len(local[v]) : local[v][k] = slots'[v][k]
    BY <1>2, <1>16 DEF Copies, CopyPc, LoopPc
  <2>1. /\ Len(local[v]) <= Len(slots[v])
        /\ \A k \in 1 .. Len(local[v]) : local[v][k] = slots[v][k]
    BY DEF IInv, Control, Copies
  <2>2. Len(local[v]) \in Nat /\ Len(slots[v]) \in Nat
    BY LenProperties DEF IInv, TypeOK
  <2>3. 1 .. Len(local[v]) \subseteq Used(v)
    BY <2>1, <2>2 DEF Used
  <2>4. Len(slots'[v]) >= Len(slots[v]) /\ Len(slots'[v]) \in Nat
    BY <1>3, <1>6, <2>2
  <2> QED
    BY <1>8, <2>1, <2>2, <2>3, <2>4
<1>19. ClosedAreCopied'
  <2> SUFFICES ASSUME NEW v \in Worker, NEW k \in Used(v)', FdAt(v, k)' = None
               PROVE  /\ wpc'[v] \in LoopPc \cup {"clean_up"}
                      /\ k <= Len(local'[v])
                      /\ wpc'[v] \in LoopPc => k < idx'[v] \/ Marking(v, k)'
    BY DEF ClosedAreCopied
  <2>1. k \in Used(v) /\ FdAt(v, k) = None
    BY <1>4, <1>8, <1>9, <1>10
  <2> QED
    BY <1>2, <1>16, <1>24, <2>1 DEF IInv, Control, ClosedAreCopied, LoopPc
<1>20. Answers'
  BY <1>2, <1>16 DEF IInv, Control, Answers, LoopPc
<1>21. NoClients'
  <2>1. wpc'[w] \notin {"none", "empty", "waiting", "exited"}
    <3>1. wpc[w] # "none" /\ ~is_shutdown[w]
      BY <1>2, <1>3 DEF IInv, Control, Phases, ServingPc, Missing, WorkerAt
    <3>2. wpc[w] # "exited"
      BY <1>3, <3>1 DEF IInv, Control, Phases
    <3> QED
      BY <1>2, <1>3, <3>1, <3>2 DEF IInv, TypeOK
  <2> QED
    BY <1>6, <1>16, <2>1 DEF IInv, Control, NoClients
<1>22. Scanned' /\ MainHands'
  BY <1>2 DEF Scanned, MainHands
<1>23. Phases' /\ NoPool'
  <2>1. Missing' = Missing
    BY <1>16 DEF Missing, WorkerAt
  <2>2. \A v \in Worker : wpc'[v] \in {"exiting", "exited"} => is_shutdown'[v]
    BY <1>2, <1>16 DEF IInv, Control, Phases
  <2> QED
    BY <1>2, <2>1, <2>2 DEF IInv, Control, Phases, NoPool, StartPc, ServingPc
<1> QED
  BY <1>12, <1>13, <1>14, <1>15, <1>17, <1>18, <1>19, <1>20, <1>21, <1>22, <1>23
  DEF IInv, Clients, Control

-----------------------------------------------------------------------------
(* The invariant, and what follows from it. *)

\* Every step of Next keeps the invariant.
LEMMA NextInv == IInv /\ [Next]_vars => IInv'
<1> SUFFICES ASSUME IInv, [Next]_vars PROVE IInv'
  OBVIOUS
<1>1. CASE UNCHANGED vars
  <2>1. /\ UNCHANGED <<open, sock_fd, slots, is_shutdown, wpc, local, revents>>
        /\ UNCHANGED <<idx, mpc, client_fd, scan, last_worker, room, shut>>
        /\ UNCHANGED <<keep_running, server, pool, cache, stray, struck>>
    BY <1>1 DEF vars, poolVars, workerVars, mainVars, startVars, strayVars
  <2>4. \A w, k : /\ FdAt(w, k)' = FdAt(w, k)
                  /\ Marking(w, k)' = Marking(w, k)
                  /\ Doomed(w, k)' = Doomed(w, k)
    BY <2>1, WorkersFrame
  <2>2. TypeOK' /\ Clients'
    BY <2>1, <2>4, ClientsFrame DEF IInv, TypeOK
  <2>3. Control'
    BY <2>1, <2>4 DEF IInv, Control, Copies, ClosedAreCopied, Answers, NoClients,
       Scanned, MainHands, Phases, NoPool, Used, Missing, WorkerAt
  <2> QED
    BY <2>2, <2>3 DEF IInv
<1>2. ASSUME NEW w \in Worker, WorkerNext(w) PROVE IInv'
  BY <1>2, QuietInv, CloseAgainInv, CloseConnInv, CellClosedInv, CleanUpInv,
     FreeResourcesInv
  DEF WorkerNext, Quiet
<1>3. ASSUME NEW w \in Worker, spurious_wakeup(w) PROVE IInv'
  BY <1>3, QuietInv DEF Quiet, spurious_wakeup
<1>4. ASSUME NEW w \in Worker, use_after_free(w) \/ no_host_header(w) PROVE IInv'
  BY <1>4, MainAloneInv DEF MainAlone
<1>5. CASE MainNext
  BY <1>5, MainAloneInv, MainToWorkerInv, AddClientInv, CloseInv
  DEF MainNext, StartNext, MainAlone, MainToWorker
<1>6. CASE accept_client
  BY <1>6, AcceptInv
<1>7. CASE accept_error \/ sigterm_handler
  BY <1>7, MainAloneInv DEF MainAlone
<1> QED
  BY <1>1, <1>2, <1>3, <1>4, <1>5, <1>6, <1>7 DEF Next, Terminated

\* The invariant holds in every state of the pool.
THEOREM PoolInvariant == Spec => []IInv
BY InitInv, NextInv, PTL DEF Spec

\* Every variable keeps its type; in particular no worker ever has more clients
\* than slots, and pick_worker returns a worker.
THEOREM PoolTypeCorrect == Spec => []TypeOK
<1>1. IInv => TypeOK
  BY DEF IInv
<1> QED
  BY <1>1, PoolInvariant, PTL

\* The descriptor of a cell is that of its slot.
LEMMA FdOfSlot ==
  ASSUME IInv, NEW w \in Worker, NEW k \in Used(w)
  PROVE  FdOf(slots[w][k].conn) = FdAt(w, k)
<1> DEFINE c == slots[w][k].conn
<1>1. \A v \in Worker : WorkerAt(v, "mark") /\ conn_at(v) = c => v = w /\ k = idx[w]
  <2> SUFFICES ASSUME NEW v \in Worker, wpc[v] = "mark", conn_at(v) = c
               PROVE  v = w /\ k = idx[w]
    BY DEF WorkerAt
  <2>1. idx[v] \in Used(v) /\ conn_at(v) = slots[v][idx[v]].conn
    BY AtHand DEF LoopPc
  <2>2. slots[v][idx[v]].conn = slots[w][k].conn
    BY <2>1
  <2>3. v = w /\ idx[v] = k
    BY <2>1, <2>2 DEF IInv, Clients, OwnCells
  <2> QED
    BY <2>3
<1>2. Marking(w, k) => WorkerAt(w, "mark") /\ conn_at(w) = c
  BY AtHand DEF Marking, WorkerAt, LoopPc
<1> QED
  BY <1>1, <1>2 DEF FdOf, FdAt, Marking, WorkerAt

\* No client is lost by the copy, the write-back and the shift, also when some
\* have been closed by a resolve_and_connect: each open client has a slot or is
\* in main's hands.  As long as none has been, it has no second one.
THEOREM PoolOneSlotPerClient == Spec => []OneSlotPerClient
<1>1. IInv => OneSlotPerClient
  <2> SUFFICES ASSUME IInv, NEW fd \in Fd
               PROVE  /\ fd \in open /\ fd # client_fd => SlotsOf(fd) # {}
                      /\ ~struck => Cardinality(SlotsOf(fd)) =
                                 IF fd \in open /\ fd # client_fd THEN 1 ELSE 0
    BY DEF OneSlotPerClient
  <2>1. fd # None
    BY ThreadPoolAssumption
  <2>2. \A s \in SlotsOf(fd) : /\ s = <<s[1], s[2]>> /\ s[1] \in Worker
                               /\ s[2] \in Used(s[1]) /\ FdAt(s[1], s[2]) = fd
    <3> SUFFICES ASSUME NEW s \in SlotsOf(fd)
                 PROVE  /\ s = <<s[1], s[2]>> /\ s[1] \in Worker
                        /\ s[2] \in Used(s[1]) /\ FdAt(s[1], s[2]) = fd
      OBVIOUS
    <3>1. /\ s = <<s[1], s[2]>> /\ s[1] \in Worker
          /\ s[2] \in DOMAIN slots[s[1]]
          /\ FdOf(slots[s[1]][s[2]].conn) = fd
      BY DEF SlotsOf
    <3>2. s[2] \in Used(s[1])
      BY <3>1, SlotTypes DEF IInv
    <3> QED
      BY <3>1, <3>2, FdOfSlot
  <2>3. CASE fd \in open /\ fd # client_fd
    <3>1. PICK w \in Worker : \E k \in Used(w) : FdAt(w, k) = fd
      BY <2>3 DEF IInv, Clients, NoneLost
    <3>2. PICK k \in Used(w) : FdAt(w, k) = fd
      BY <3>1
    <3>3. <<w, k>> \in SlotsOf(fd)
      <4>1. k \in DOMAIN slots[w] /\ FdOf(slots[w][k].conn) = fd
        BY <3>2, SlotTypes, FdOfSlot DEF IInv
      <4>2. k \in 1 .. MAX_CLIENTS_PER_THREAD
        BY SlotTypes, ThreadPoolAssumption DEF IInv, TypeOK, Used
      <4> QED
        BY <4>1, <4>2 DEF SlotsOf
    <3>4. ~struck => \A s \in SlotsOf(fd) : s = <<w, k>>
      BY <2>1, <2>2, <3>2 DEF IInv, Clients, NoDoubles
    <3>5. ~struck => SlotsOf(fd) = {<<w, k>>}
      BY <3>3, <3>4
    <3>6. Cardinality({<<w, k>>}) = 1
      BY FS_Singleton
    <3> QED
      BY <2>3, <3>3, <3>5, <3>6
  <2>4. CASE ~(fd \in open /\ fd # client_fd)
    <3>1. ~struck => SlotsOf(fd) = {}
      BY <2>1, <2>2, <2>4 DEF IInv, Clients, OwnClients
    <3> QED
      BY <2>4, <3>1, FS_EmptySet
  <2> QED
    BY <2>3, <2>4
<1> QED
  BY <1>1, PoolInvariant, PTL

\* As long as no second close of resolve_and_connect has closed a client, poll
\* is never given a descriptor that was closed, or closed and reused.
THEOREM PoolPollsOwnClients == Spec => []PollsOwnClients
<1>1. IInv => PollsOwnClients
  <2> SUFFICES ASSUME IInv, ~struck, NEW w \in Worker, wpc[w] = "poll",
                      NEW k \in DOMAIN local[w]
               PROVE  /\ local[w][k].fd \in open
                      /\ sock_fd[local[w][k].conn] = local[w][k].fd
    BY DEF PollsOwnClients, PollsOpenSockets, WorkerAt
  <2>1. k \in 1 .. Len(local[w]) /\ Len(local[w]) \in Nat
    BY LenProperties DEF IInv, TypeOK
  <2>2. local[w][k] = slots[w][k] /\ Len(local[w]) <= Len(slots[w])
    BY <2>1 DEF IInv, Control, Copies, CopyPc
  <2>3. k \in Used(w)
    BY <2>1, <2>2, SlotTypes DEF IInv, Used
  <2>4. FdAt(w, k) # None /\ FdAt(w, k) = sock_fd[slots[w][k].conn]
    BY <2>3 DEF IInv, Control, ClosedAreCopied, LoopPc, FdAt, Marking
  <2> QED
    BY <2>2, <2>3, <2>4 DEF IInv, Clients, PollsCells, OwnClients
<1> QED
  BY <1>1, PoolInvariant, PTL

\* add_client_to_worker loses no wakeup: a worker that waits has no client.
THEOREM PoolSleeperHasNoClients == Spec => []SleeperHasNoClients
<1>1. IInv => SleeperHasNoClients
  BY DEF IInv, Control, NoClients, SleeperHasNoClients, WorkerAt
<1> QED
  BY <1>1, PoolInvariant, PTL

\* However proxy_start ends, descriptors, pool and cache are given back, and
\* threadpool_shutdown frees the pool only when every worker has exited.
THEOREM PoolNothingLeftBehind == Spec => []NothingLeftBehind
<1>1. IInv => NothingLeftBehind
  <2> SUFFICES ASSUME IInv PROVE NothingLeftBehind
    OBVIOUS
  <2>1. mpc = "done" => open = {} /\ ~server /\ ~pool /\ ~cache
    <3> SUFFICES ASSUME mpc = "done" PROVE open = {} /\ ~server /\ ~pool /\ ~cache
      OBVIOUS
    <3>1. ~server /\ ~pool /\ ~cache /\ client_fd = None
      BY DEF IInv, Control, Phases, MainHands
    <3>2. \A w \in Worker : Used(w) = {}
      BY <3>1 DEF IInv, Control, NoPool, Used
    <3>3. None \notin open
      BY ThreadPoolAssumption DEF IInv, TypeOK
    <3> QED
      BY <3>1, <3>2, <3>3 DEF IInv, Clients, NoneLost
  <2>2. ~pool /\ shut = MAX_WORKER_THREADS =>
          \A w \in Worker : WorkerAt(w, "exited")
    BY ThreadPoolAssumption DEF IInv, Control, NoPool, WorkerAt
  <2>3. mpc = "undefined" => Missing # {}
    BY DEF IInv, Control, Phases
  <2> QED
    BY <2>1, <2>2, <2>3 DEF NothingLeftBehind
<1> QED
  BY <1>1, PoolInvariant, PTL

\* A client is turned away for want of a slot only if pick_worker found every
\* worker full, although the workers go on while it looks.
THEOREM PoolRejectsOnlyWhenFull == Spec => RejectsOnlyWhenFull
<1>1. IInv /\ [Next]_vars => [add_client_full => ~room]_vars
  <2> SUFFICES ASSUME IInv, add_client_full, room PROVE FALSE
    OBVIOUS
  <2>1. /\ mpc = "add" /\ scan.i = MAX_WORKER_THREADS /\ scan.i > 0
        /\ Len(slots[scan.best]) >= MAX_CLIENTS_PER_THREAD
    BY ThreadPoolAssumption DEF add_client_full, IInv, Control, Scanned
  <2>2. /\ scan.best \in Worker /\ Len(slots[scan.best]) <= scan.min_load
        /\ scan.min_load < MAX_CLIENTS_PER_THREAD
    BY <2>1 DEF IInv, Control, Scanned
  <2>3. Len(slots[scan.best]) \in Nat /\ scan.min_load \in Int
    BY <2>2, SlotTypes DEF IInv, TypeOK
  <2> QED
    BY <2>1, <2>2, <2>3, ThreadPoolAssumption
<1>2. IInv => TypeOK
  BY DEF IInv
<1> QED
  BY <1>1, <1>2, PoolInvariant, PTL DEF Spec, RejectsOnlyWhenFull
=============================================================================
