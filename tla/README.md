# TLA+ models of OS2-labs

The repository holds a caching HTTP proxy (`caching_http_proxy/`) and the labs
of an operating systems course (`1/`, `2/`). This directory models the parts of
it in which threads share state, checks the models with TLC and proves all
invariants, action properties and refinements that the passing runs check with
TLAPS, for every value of the constants. Only liveness rests on TLC alone.

`PROJECT.json` is the index: `map` says which source lines a definition models,
`hazards` lists what is hard to test in this code and which property watches
it, `runs` and `theorems` list what is checked and what is proved.

## The system

### Caching proxy

| Part | State | Operations | Shared with |
|---|---|---|---|
| Cache (`caching/httpcache.c`) | entries with url, state, refcount, chunk list, total size, condition variable; hash chains with one lock per bucket; doubly linked LRU list; `current_size`; the collector thread | `cache_lookup`, `cache_insert`, `cache_entry_append_chunk`, `cache_entry_read`, `cache_entry_complete`, `cache_entry_release`, `cache_entry_cancel`, `cleanup_cancelled_entries`, `http_cache_shutdown` | all workers and the collector |
| Requests (`proxy/proxy.c`) | per worker: position in `process_request`, entry, buffer, byte counts, two sockets; `searchCreateMutex` | `process_request`, `handle_cached_request`, the end of `proxy_start` | calls the cache; called by a worker |
| Thread pool (`threading/threadpool.c`) | per worker: `fds`, `connections`, `nfds`, `is_shutdown`, lock and condition variable; `last_worker` | `threadpool_init`, `client_worker_main`, `pick_worker`, `add_client_to_worker`, `threadpool_shutdown`, and `proxy_start` around them: socket, accept loop, signal handler, end | main thread and workers |

The main thread accepts a client, `pick_worker` looks for the worker with the
smallest load and `add_client_to_worker` puts the client in its array. A worker
copies its array, polls, and calls `process_request` for a readable client. The
request takes `searchCreateMutex`, looks the url up and either becomes a reader
of an entry that another worker may still be filling, or goes to the remote,
creates the entry (still under the mutex) and fills it while it forwards the
response. A collector thread sweeps the buckets once a minute and frees entries
that are cancelled and unreferenced.

What is hard: references and the collector; the window in which a writer has
released its reference and cancels the entry afterwards; search and creation in
two calls with the network in between; readers that sleep on an entry whose
writer fails or stalls; the unlocked copy of the clients while descriptors are
reused, and one of them closed twice; the shutdown, whose flags and signals are
partly set without a lock.

What makes it correct: refcounts are exact and nothing that is held is freed;
one usable entry per url; a hit delivers the response, in order and whole, or
an error; every exit of `process_request` returns mutex, sockets and reference;
no client is lost, doubled or polled under a reused descriptor (the last two do
not survive finding 3); readers, requests and the shutdown of the cache come to
an end.

### Labs

| Part | State | Operations |
|---|---|---|
| 2.4 futex mutex, spin lock | lock word, futex queue, counter | lock, unlock, `++counter` of the threads |
| 2.2 queues (condition variables, semaphores, mutex, spin lock) | linked nodes, `count`, `first`, `last` | `queue_add`, `queue_get`, reader and writer loops |
| 2.3 shared list (mutex, spin lock, rwlock) | `next` pointers, a lock per node | three counters and three swappers, hand over hand |
| 2.1 queue without locks | as 2.2, and what each thread has loaded | the loads and stores of `queue_add`, `queue_get` |
| 1.7 user threads | `uthread_cur`, saved contexts, `is_finished` | `uthread_create`, `uschedule`, `uthread_startup`, main's loop |
| 1.6 threads on `clone` | mapped stacks with `ret_val`, `exited`, `joined`; main's handle; the shared `errno` | `my_thread_create`, `my_thread_start_up`, `my_thread_join` |
| 1.4 cancellation | pending cancellation, cleanup handler, buffer | create, cancel, join; the thread's loop |
| 1.2 and 1.3, memory handed over | a block, main's frame | malloc, use, free by one thread or the other |
| 1.1, rest of 1.2, 1.3 and 1.5 | none of their own | demonstrations of a library call, not modelled |

What is hard here: a waiter between its test and its sleep; a `q->last` that
points to freed memory; nodes that are reordered under those who wait for them;
two threads on one counter without a lock; a scheduler that saves main under
the name of a thread that ended; stacks that run over the structures at their
top; a join that unmaps the stack of a thread that still runs; a cancellation at
any moment; a join or a creation that fails. The programs of 2.1, 1.7, 1.6, 1.3
and 1.2 have paths into undefined behaviour: the models have an end `undefined`,
`unmapped`, `no_frame` or `crashed` for them, and the properties say what still
holds.

## Modules

| Module | Models | Notes |
|---|---|---|
| `HttpCache` | `httpcache.c` | state of the cache, an action per function |
| `Proxy` | `proxy.c` over `HttpCache` | the composed system: requests, collector, shutdown; all properties of the proxy |
| `Chunks` | the two loops of `cache_entry_read` over the chunk list | compared with `Slice`, by which `HttpCache` reads |
| `ThreadPool` | `threadpool.c` and `proxy_start` | from the listening socket to the end, with every failure of the start |
| `Mutex` | abstract mutex: a section adds exactly one to the counter | abstract specification of lab 2.4 |
| `FutexMutex`, `SpinLock` | `2/2.4/mutex.c`, `2/2.4/speen.c` | |
| `LabLocks` | both programs of lab 2.4 side by side | variable `program` says which one runs |
| `BoundedFifo` | abstract bounded FIFO | abstract specification of lab 2.2 |
| `QueueNodes` | the linked `queue_t` of lab 2.2 | pointers, nodes, `malloc` and `free` |
| `CondvarQueue`, `SemaphoreQueue`, `LockQueue` | the programs of lab 2.2 | `LockQueue` is the mutex and the spin lock version |
| `LabQueues` | the programs of lab 2.2 side by side | |
| `SharedList` | the three programs of lab 2.3 | variable `kind` says which locks are used |
| `UserThreads` | lab 1.7 | |
| `CloneThreads` | lab 1.6 | |
| `RacyQueue` | lab 2.1 | a step is one load or store |
| `Cancellation` | the three programs of lab 1.4 | variable `variant` |
| `HeapHandover` | `1.2/b.c`, `1.2/c.c` and `1.3/b.c` | variable `exercise` |
| `LabThreads` | the five modules before, side by side | variable `program` |
| `PointerWalk` | what a linked list holds: the cells met when its links are followed | reads the LRU list, the queue of lab 2.2 and the list of lab 2.3 |
| `MC*` | instances for TLC | |
| `ProxyProof`, `ProxyDataProof` | proofs about `Proxy`: references and states; sockets, bytes and the LRU list | |
| `ThreadPoolProof` | proofs about `ThreadPool` | |
| `LabLocksProof`, `LabQueuesProof`, `SharedListProof`, `LabThreadsProof` | proofs about the labs | |
| `PointerWalkProof` | proof about `PointerWalk`, with the induction it needs | used by three of the above |

Definitions whose comment starts with `Fault:` are what a mistake in the code
would make of the definition that follows. They are used by no specification;
`mutants` in `PROJECT.json` names, for every property, one of them that breaks
it.

### How state and actions correspond to the code

**Grain.** A step is a critical section, or what a thread does between two
points at which others can see it. In the cache every function takes its locks
and gives them back before it returns, so a function is a step; there are two
exceptions. `cache_insert` gives the bucket's lock back before it takes
`lru_lock`, and is two steps (`cache_insert`, `cache_insert_lru`). The
collector keeps a bucket's lock while it visits the chain and is one step per
entry; `CollectorHoldsBucket` keeps the other functions out of that bucket. In
`ThreadPool` the test of the wait loop and `pthread_cond_wait` are two steps
under the lock, because `threadpool_shutdown` does not take it; the loop over
the polled clients has a step for every close and every store of `sock_fd = -1`,
because `accept` may come in between. In `FutexMutex`
and `SpinLock` a step is one atomic instruction, one load, one store or one
system call; in `RacyQueue` one load or store of shared memory, in the order of
the program, except that the two stores of `first = last = new` come in either.
A user thread of `UserThreads` runs alone up to its next `uschedule`: that is a
step.

**Data.** The bytes of a response are their positions 1, 2, 3, ..., so that a
lost, doubled or exchanged byte shows. Chunks are the pieces in which they
arrive; `data[e]` is their concatenation and `Slice` cuts the range out of it
that `cache_entry_read` collects from the chunks. That its two loops collect
exactly that range, for every list of up to `MaxChunks` chunks and every offset
a reader comes to, is `ReadWalksChunks`. A url is a model value with a hash. Parsing is a
choice among its outcomes: a served request or a rejected one, a cacheable
response or another, with a length (`expect`, header included) or without. A
socket call succeeds or fails. The LRU list is kept pointer by pointer
(`LruRemove`, `LruAddHead`). `size_t current_size` wraps at `SizeMod`.

A saved context of lab 1.7 is the thread it resumes and that thread's loop
counter, so that a context that is too old shows. main's `uthread_struct_t` is
the address of a local pointer (`1.7/main.c:34`): what `uschedule` reads there as
`is_finished` is arbitrary at every read. The context that `swapcontext` writes
there runs over main's frame: once main has been saved, `main_overrun` may end the
program. The structure of another thread lies at the top of its stack
(`uthread.c:70`), of which only the size of a pointer is kept free (`uthread.c:79`):
`stack_overruns` makes the thread that runs look finished, or ends the program.
Which frames reach that far is up to the compiler, so both are choices; `smashed`
remembers who has overwritten something, and the properties are about the others.
Freed memory of lab 2.1 keeps its content or reads as garbage; writing to
it ends the model.

**Failing starts.** Each step of `proxy_start` before the accept loop may fail.
When `pthread_create` fails for a worker, `worker_data` is freed under the
workers that already run: the next step of one of them is `use_after_free`, the
end `undefined`. When the collector cannot be created, `httpcache.c:525-526`
dereference a pointer that was just cleared: the end `crashed`.

**What the pool sees of a request.** `process_request` closes its client and
stores -1 on every path that returns (`close_conn`, `mark_closed`). Two paths do
more. A request without a Host header is a NULL pointer at `proxy.c:264`
(`no_host_header`, the end `segfault`). When the last `connect` fails,
`resolve_and_connect` closes its socket twice (`connect_fails`, `close_again`);
between the two, main's `accept` can get the number. No other worker can, since
`searchCreateMutex` is held. `struck` remembers that a second close has hit a
client. From then on a slot may poll a closed descriptor, or that of a newer
client, and only that no client is without a slot is still claimed. `Proxy`, in
which a client is not a number, has neither of the two paths.

**SIGINT** clears `keep_running` at any time; it gets main out of `accept` only if
main's thread is the one that takes it (`sigterm_handler`).

**Failing joins.** `pthread_join` may fail in labs 1.2 and 1.4. In 1.2 main then
returns with the block allocated, and 1.2/c.c first frees a pointer that was
never set. `failed` remembers which call it was.

**Frames.** When `process_request` returns, the locals of the thread are reset;
when an entry is freed its cell is reset. Otherwise equal states would be told
apart by garbage nobody reads.

**External parts.** Mutexes and condition variables of pthread (with spurious
wakeups), semaphores, the futex system call, `poll`, `accept`, signals,
`swapcontext` with `uc_link`, and deferred cancellation are modelled from how the
code uses them. `printf` is a cancellation point when it writes.

**History variables.** `resp` (the length the entry is to have), `room`
(`pick_worker` saw a free slot), `visited` (the nodes of a counter's pass), `ran`
(the iterations of a user thread), `struck`, `smashed` and `failed` (above) are read
by properties only.

## Runs

| Run | Instance | Shows |
|---|---|---|
| `proxy_safety` | 3 threads, 2 entries, responses of 1 byte, with and without length, failing `malloc` | `RefcountExact`, `NoDanglingEntry`, `ReturnsClean`, `NoUseAfterShutdown`, `FinalStatesAreFinal` on every failure path and during the shutdown; `OneUsableEntryPerUrl`, `AppendNotCancelled`, `SleeperHasNothingToRead` with a creator on the network, a sleeping reader and a third request |
| `proxy_content` | 2 threads, 3 entries, 2 buckets, responses of up to 2 bytes with length, lists of up to 3 chunks | `ReaderStream`, `ReadWalksChunks`, `CompleteHoldsWholeResponse`: what a hit delivers; `LruMatchesBuckets` with up to three entries in the LRU list |
| `proxy_progress` | 2 threads, 1 entry, `ReaderSpec` | `ReadersReturn`: the deadline alone gets a reader out; provided that `NothingStalls`, `RequestsFinish`, `CancelledCollected`, and `ShutdownCompletes`: `http_cache_shutdown`, once called, ends although its signal can be lost (that main gets there is not claimed, see finding 2) |
| `proxy_nolength` | responses without length | **violation** of `CompleteHoldsWholeResponse` |
| `pool_safety` | 2 workers with 2 slots, 3 descriptors | `OneSlotPerClient`: no client is without a slot, and none has two until a second close has hit a client; `PollsOwnClients`, also until then; `SleeperHasNoClients`; `NothingLeftBehind`: when `proxy_start` ends by itself, wherever it failed, no descriptor, pool or cache is left, and `threadpool_shutdown` frees the pool only when its workers have ended. The failure path of `threadpool_init` does not (`threadpool.c:221`); that it is the only way to a use of the freed pool is part of the property |
| `pool_full` | 2 workers with 1 slot, 3 descriptors | `RejectsOnlyWhenFull`, which includes that no client is stored beyond the capacity (`TypeOK`) |
| `pool_shutdown` | 2 workers, 1 descriptor | **violation** of `ShutdownEnds` |
| `pool_reclose` | 2 workers with 1 slot, 2 descriptors | **violation** of `PollsOpenSockets` |
| `lab_locks` | 3 threads, 2 sections each, both locks | `MutualExclusion`, `NoLostWakeup`, the refinement of `Mutex` (`ImplementsMutex`), `Termination` with the full count |
| `lab_queues` | 2 readers, 2 writers, queue of 2, 6 nodes, all programs | `QueueIntact` (pointers, and no node lost), `NoLostWakeup`, `SemaphoresCountPlaces`, the refinement of `BoundedFifo` (`ImplementsFifo`) |
| `lab_list` | 3 counters, 3 swappers, 5 nodes, both kinds of locks | `ListIntact`, `SeenUpToPosition`, `SomePassEnds` |
| `lab_threads` | 4 user threads with 3 iterations, 3 clone threads, 4 values through a racy queue of 2, the programs of 1.2 to 1.4 | 1.7: `SwitchesKeepWork` (each structure holds its own context, main can resume, who is marked finished and kept off its structure ran all its iterations), `UserThreadsEnd` if nobody overwrites anything; 1.6: `JoinEnds`, with the thread's own result, for a handle that some creation has set; 2.1: `CountInRange`, `ReaderSafe` (values in order, no access to a freed node); 1.4: `CancelledJoins`, with the buffer released, unless the join fails; 1.2 and 1.3: `HandoverSafe` (the block is freed unless a join failed, and misused only after a failed call) |

Deadlock is checked in every run: the programs that end have a `Terminated` or
`Ended` step, the others never stop.

### Bounds, and why they are enough

- Two threads are a writer and a reader of one entry; the third of
  `proxy_safety` is the request that arrives while the creator holds
  `searchCreateMutex` and a reader sleeps. Two entries are needed for a
  cancelled one beside its successor, three for an LRU list with an inner node.
- One url is the contended case. Entries of different urls meet in a bucket's
  chain and in the LRU list; cancelled entries of one url fill both as well.
  The theorems hold for any set of urls and any hash.
- Two bytes are a response with a first and a last chunk. References and states
  do not depend on how many there are: `proxy_safety` has one, and a length of
  two that its remote never reaches.
- Three chunks are a list with a first, an inner and a last one.
- `SizeMod` is 1, that is, `current_size` is left out of the instances: nothing
  that runs reads it.
- In `pool_safety` two slots let main add a client while a worker works on its
  copy, and three descriptors let one be reused, or be closed twice with
  another worker's client in between.
- In `lab_queues` four threads are needed for a lost wakeup between two
  waiters of one kind. Six nodes let each thread hold one beside a full queue.
  `IntMod` is 3: consecutive values in a queue of two are told apart.
- In `lab_list` the thread counts are the program's own; five nodes leave room
  for a swapper (three nodes) between two others.
- In `lab_threads` the sizes of lab 1.7 are those of its `main.c`. Three clone
  threads are one before, one after and one at a failed creation. Four values
  in a racy queue of two fill it, empty it and reuse a freed node.

Symmetry is used for interchangeable threads, entries, nodes and descriptors in
runs without liveness properties.

### Fairness, and what in the code justifies it

- `ReaderFairness`: a reader runs, its client takes or refuses the bytes, and
  the absolute deadline of `pthread_cond_timedwait` passes. The deadline is
  strongly fair because it is computed once per `cache_entry_read` and
  spurious wakeups do not move it. Nothing is assumed of writer or remote.
- `NothingStalls`, the premise of `RequestsFinish`, `CancelledCollected` and
  `ShutdownCompletes`: besides, threads run, blocking socket calls return, the
  collector runs and its timed wait ends, and a lock that is given back again
  and again is obtained in the end (strong fairness of `SearchStep`). The last is
  not written in POSIX, but holds of the default mutex in practice; without it
  `RequestsFinish` fails for the trivial reason that one thread wins every race.
  `PollIn` is not fair: no client has to come, and neither is the exit of a worker,
  which `threadpool.c:233` does not guarantee.
- `ThreadPool!FairSpec`: workers run, main obtains a lock given back again and
  again. Clients, errors, signals and spurious wakeups may come or not.
- `LocksSpec`: weak fairness of each thread. It is enough for the spin lock too,
  since the others run out of iterations.
- `SharedList!FairSpec`: only that some thread runs that can. Neither mutexes
  nor spin locks are fair, so that no single pass is promised to end.
- `LabThreads!FairSpec`: each of the programs runs; in lab 1.6 each thread does,
  since they are threads of the kernel. A `printf` in a loop writes now and then
  and lets a cancellation through. Nothing is assumed of the racy queue.

## Findings

1. **A response without Content-Length is cached truncated**
   (`proxy_nolength`). The loop at `proxy.c:474-509` forwards the body but
   never calls `cache_entry_append_chunk`; when the server closes, the entry,
   with its first buffer only, is marked complete. Later hits deliver that
   buffer as the whole response.
2. **`threadpool_shutdown` can hang** (`pool_shutdown`). `is_shutdown` is stored
   and `worker_notify` signalled without `worker->lock`. Both can fall between
   the worker's test and its `pthread_cond_wait`; the worker sleeps on and
   `pthread_join` never returns.
3. **A failed connect can close another worker's client** (`pool_reclose`).
   `resolve_and_connect` closes `sockfd` at `proxy.c:107` when `connect` fails, and
   again at `proxy.c:126` when that was the last address. If `accept` has got the
   number in between, the second close takes the new client's socket away; its
   worker polls a closed descriptor, or the next client that gets the number.

Three more paths are plain from the code, and are modelled as ends of the process:
the NULL pointers at `httpcache.c:525` (no collector) and `proxy.c:264` (no Host
header), and the free at `threadpool.c:221` under running workers. Those of the labs
are the handle of lab 1.6 that is never set if every creation fails, the stacks of
lab 1.7, and the frees at `1/1.2/c.c:31` and `1/1.3/b.c:63`.

## Proofs

The proof modules follow one scheme: an inductive invariant, `Init => IInv`,
`IInv /\ [Next]_vars => IInv'`, and the properties as consequences. Each holds for
every value of the constants that meets the named assumption of its module. TLC
evaluates these assumptions in every run of a module that extends it, so that
each of them is met by the instances.

### ProxyProof

Assumed: `HttpCacheAssumption` and `ProxyAssumption` (finitely many threads, at
least one url and bucket, a hash that is a natural number, a positive buffer
size). Everything is proved for any number of threads, urls, buckets, entries,
response lengths and for failing `malloc`.

`RefcountExact` and `NoDanglingEntry` are not inductive alone. The argument:

- *Control*: where a thread surely has an entry, surely has none, and when it
  holds `searchCreateMutex`.
- *References*: both properties. The collector frees only what is cancelled
  with refcount 0. By exactness no thread owns a reference; that leaves a writer
  in the window between release and cancel.
- *Fillers*: a thread that fills an entry, that window included, works on an
  INCOMPLETE one and is the only one to do so. So what the collector takes is
  not in that window either, and COMPLETE and CANCELLED are final.
- *Chains*: the chains hold exactly the live entries, each once, in the bucket
  of its url. A lookup therefore finds live entries only, and a miss means that
  there is no usable entry.
- *Unique*: from a miss to the insertion no usable entry of that url appears
  (`MissStays`), because `searchCreateMutex` keeps other creators out and
  nothing else makes an entry usable.

The steps of a worker are split into those that leave references, chains and
states alone (`Quiet`) and the six that do not (`QuietOrLoud`), so that each
part of the invariant is argued once for the former.

Proved: `TypeOK`, `RefcountExact`, `NoDanglingEntry`, `OneUsableEntryPerUrl`,
`AppendNotCancelled`, `NoUseAfterShutdown` and `FinalStatesAreFinal`.

`NoneAbandoned` (theorem `EntriesAttended`) is inductive on top of that: every
entry that is still INCOMPLETE has a request at work on it. An entry is created
with its filler, a filler's quiet steps keep it one, and the steps by which it
stops being one complete or cancel the entry first. So none of the error paths
of `process_request` leaves an entry behind that readers would find and wait on
for ever. It is stronger than what the runs check: `RequestsFinish` follows
fair writers to their end, this says that there is one.

### ProxyDataProof

Three invariants on top of that of `ProxyProof`:

- `DInv`: the sockets are open exactly at the program points that use them,
  `total_size` counts the bytes of the chunks, and only a reader between
  `cache_entry_read` and its `send` has bytes in hand. What a step may do to the
  bytes of an entry is stated once: nothing, append its writer's buffer, end
  it, or clear an entry that no request points to. So what a reader has sent
  stays a prefix, and whoever changes an entry wakes its sleepers. Proved:
  `ReturnsClean`, `SleeperHasNothingToRead`, `ReaderStream`.
- `BInv`: the bytes of an entry are the first ones of its response; entry and
  writer's buffer together are what was received; a writer that comes to
  `complete` has received what the headers announced. Proved:
  `CompleteHoldsWholeResponse` (`CompleteIsWhole`), under two hypotheses that
  the code needs. Without a Content-Length the property is false (finding 1).
  When `malloc` fails in `cache_entry_append_chunk`, `proxy.c:407` ignores it
  and the entry lacks a chunk. `proxy_content` meets both hypotheses.
- `LInv`: some sequence of entries is what the pointers of the LRU list link,
  in both directions, and it has the entries that the buckets hold (but those of
  writers between the two halves of `cache_insert`). `LruRemove` and
  `LruAddHead` are shown to take an element out of the sequence and to put one
  in front of it. Proved: `LruMatchesBuckets`.

Two results need no invariant of their own.

- `NoDeadlock`: who waits for `searchCreateMutex` or sleeps in `cache_entry_read`
  waits for a request that waits for no other one. The holder of the mutex is
  at a point of `SearchPc`; a sleeper's entry is INCOMPLETE
  (`SleeperHasNothingToRead`) and therefore attended (`NoneAbandoned`). Only a
  remote or a client can hold a request up. This is about waits that the model
  shows; the locks inside the cache functions are not among them.
- `WalkReadsSlice`: for every list of chunks, every offset and every size, the two
  loops of `cache_entry_read` over the chunks copy the bytes that `Slice` takes from
  the concatenated response. The loops are recursive functions in `Chunks`.
  *SeekStops* says where the first loop stops: at the chunk that holds the
  offset, with the bytes before it counted. After each round of the second one
  (*CopyRounds*) what is copied is the slice of the chunks passed so far; the
  next chunk begins the slice (`SliceStarts`) or goes on with it (`SliceGoesOn`).
  `ChunksWalked` is `ReadWalksChunks`, its instance for
  the lists that the run enumerates.

### ThreadPoolProof

Assumed: `ThreadPoolAssumption` (at least one worker and slot, `None` is no
descriptor). A worker works on a copy of its clients without the lock while main
appends to the array. What makes the properties inductive: the copy stays a
prefix of the array (*Copies*), and a closed client is always one that the copy
holds and the loop has reached (*ClosedAreCopied*). So the write-back changes
nothing and the shift drops exactly the closed clients. Every slot has a cell of
its own (*OwnCells*) and polls the descriptor of that cell (*PollsCells*); between
the close of a client and the store of -1 the slot counts as closed already
(`FdAt`, `Marking`). As long as `struck` is false, the descriptors of slots are open
(*OwnClients*) and different (*NoDoubles*), and one that `accept` reuses is in no slot
any more. After a second close of `resolve_and_connect` has hit a client both are
gone, and poll may report its slot as invalid while the number is a newer client's.
That none is lost (*NoneLost*) still holds: every open client has a slot that is
not *Doomed* in that way. *Scanned* says what `pick_worker` knows: only main adds
clients, so the load it has seen can only have dropped. *Phases* follows
`proxy_start` through its failures. Proved: `TypeOK`, `OneSlotPerClient`,
`PollsOwnClients`, `SleeperHasNoClients`, `NothingLeftBehind` and
`RejectsOnlyWhenFull`. To reason about the shift, it is written as the elements at
the positions to be kept (`Kept`, `Shifted`).

### LabLocksProof

Assumed: `COUNT_ITERATION` is positive, `NULL` is no thread, and there are finitely
many threads. `IInv` adds to exclusion that the word is LOCK exactly
while a thread is in its section, that a value loaded by `++counter` is still
current when it is stored, and that who is queued is inside FUTEX_WAIT. Proved
of `FutexMutex!Spec`: `TypeOK`, `MutualExclusion`, `NoLostWakeup` and the
refinement of `Mutex`. The spin lock keeps the same invariant, with an empty
queue, and simulates `Mutex` by the same mapping; `LocksCorrect` states the three
properties of `LocksSpec`, the specification that the run checks.

The safety half of `Termination` is proved, too. `CountExact`: the counter is the
number of sections that have stored their `++counter`, counted as a set of pairs
of a thread and an iteration. When all are done that set is the whole product,
so main prints the full count (`CounterCorrect`). `NeverStuck`: until then some thread
can go on without being woken (`NoDeadlock`), since a thread on the futex queue
implies one that will wake it (`NoLostWakeup`).

### LabQueuesProof

Assumed: `QueueAssumption` (finitely many readers and writers, at least one of
each as in `main`, a positive `max_count`, `NULL` is no node). The programs share the
pointers. What their steps do to them is one of six changes: `malloc` and link
in one step, `malloc` into the thread's hand, link from the hand, `free` from the
hand, take the first node into the hand, take and `free` it in one step. Each is
proved once about the sequence of nodes that the pointers link, and about
*Accounted*: every allocated node is in the queue or in exactly one hand. `last` is
required to be right only when there is a node, since `queue_get` leaves it
pointing to the freed one. On top of that come, for each program, what tells a
thread that there is something to do: the wakeups of the condition variables
(`NoLostWakeup`), and the semaphores, each of which with the threads that have passed it
adds up to the places (`SemaphoreInv`). Proved: `NoLostWakeup`,
`SemaphoresCountPlaces`, `QueueIntact` and the refinement of `BoundedFifo`.
`NoDeadlock` puts the programs together: a value in the queue has a reader that
does not wait, a free place a writer that does not, so the threads never all
wait (`SomebodyServes`).

### SharedListProof

Assumed: `SharedListAssumption` (a positive size, counters are no swappers). A thread holds
the locks of the nodes it looks at, and nobody shares a node with a swapper
(*Locks*). So the three nodes of a swapper are still in a row when it exchanges
two of them, and no counter is at one of them: the nodes behind a counter stay
the same set. The invariant says that the links order all nodes as some
sequence `q` does, and that a counter has visited the nodes of `q` up to its own;
`ExchangeOrders` shows what the swap does to `q`. Proved: `ListIntact` and
`SeenUpToPosition`, for both kinds of locks.

`NoDeadlock`: the threads never all wait for each other's nodes, although the
order in which the locks are taken is that of the list, which the swappers
change. A thread holds no locks but those of the nodes it looks at
(*NothingLeaked*), and the one it waits for comes next in the current order. So
the thread that holds the locked node furthest along the list can go on.

### LabThreadsProof

- *Lab 1.7.* Assumed: `THREADS` and `ITERATIONS` are positive, and `Early` is a
  set of threads. `SwitchesKeepWork` is `ContextsOwn`, `MainCanResume` and
  `FinishedRanAll`, which lean on one another. What makes them inductive is
  *MainSaved*: when main runs under the name of another thread, that thread has
  ended, and main's own structure still holds main's context; so the structure
  that its next `uschedule` overwrites is needed by nobody. `Switch` states once
  what `uschedule` does. A thread that has overwritten its own structure
  (`smashed`) may look finished too early, and then is just not resumed: the others
  keep their contexts, and main keeps its own.
- *Lab 2.1.* Assumed: `max_count` is positive, `NULL` and garbage are no nodes.
  The threads race on `count`, but each tests it on its way in, and the other one
  can only make that test truer: the reader only lowers `count`, the writer only
  raises it (*CountTested*). What a thread has loaded is in range for the same
  reason, so an update that overwrites another stays in range: `CountInRange`.
  `ReaderSafe` needs more: values grow along the links (*NodesInOrder*), a node
  has one predecessor, and while there is a first node, `last` is either lost or
  a node without successor that the reader does not free before it (*LastNode*).
  So the writer cannot link a new node behind one that the reader has passed
  without ending in undefined behaviour, and what the reader takes is younger
  than all it took before.
- *Labs 1.2, 1.3, 1.4, 1.6.* `HandoverSafe`, `CancelReleasesBuffer` and
  `JoinGetsResult` (the latter two are parts of the liveness properties that the
  run checks), for any number of clone threads. The invariants tie the program
  counters of the two threads, and the call that failed, to who owns the memory.
- `ProgramsRun`: a step of `LabThreads` is a step of the program that runs and
  leaves the others alone. `ThreadsCorrect` states all six properties of
  `LabThreads!Spec`.

### PointerWalkProof

`Walk` follows links by a recursive function. `WalkFindsList`: if the links are
those of a sequence, `Walk` returns that sequence. The library's induction
theorems take an operator as a parameter, which the provers cannot instantiate;
induction is therefore stated for a set of numbers (`CountUp`) and derived from the least element of
such a set, which well-foundedness of `<` gives (`LeastNumber`). With it
`LruMatchesBuckets`, `QueueIntact`, `ImplementsFifo` and `ListIntact` are proved
for lists of any length. `RecursionExists` shows in the same way that the
equation of a recursive function over the numbers has a solution, so that
`CHOOSE` picks one: the folds and loops of `Chunks` and `SequencesExt` are
reasoned about through it.

### Only model-checked

Liveness, which rests on fairness and is out of the prover's reach:
`ReadersReturn`, `RequestsFinish`, `CancelledCollected`, `ShutdownCompletes`,
`Termination`, `SomePassEnds`, `UserThreadsEnd`, `JoinEnds`, `CancelledJoins`. What
they need of safety is proved where it could be stated: that nobody waits in a
circle or on nobody (the theorems `NoDeadlock`), that no entry is abandoned, that
the final count and the result of a join are right.

## Not modelled

- `remove_entry` and `evict_lru_entries`: never called. So nothing reads
  `max_size` or `current_size`: the cache grows without limit, and
  `current_size`, which is only ever lowered, wraps.
- Logging, formatting, parsing; the vendored `picohttpparser` and `log`.
- The locks of one cache function among each other: a function is one step, so
  the order bucket lock, entry lock, LRU lock is not examined.
- `queue_destroy` of labs 2.1 and 2.2, behind a `pthread_exit`; `qmonitor` and
  the statistics of lab 2.3, which only print.
- Labs 1.1, 1.2/d.c to f.c and 1.3/a.c: they create, detach and print, and keep
  no state. Lab 1.5: which thread gets a signal is decided by the kernel, the
  program only sets masks and prints.
- What is in the stacks of lab 1.7: which thread overwrites its structure, and
  with what, is a choice. Reordered memory accesses of lab 2.1 beyond the two
  stores of one assignment.
- What becomes of a client that lost its socket to a second close, beyond its
  slot: that the number comes back as the socket of a remote, and that bytes of
  one connection are read from or sent to another. The liveness properties of
  `Proxy` are about requests that have a Host header.
- A `pthread_create` that fails in lab 2.4, where main returns 1. In lab 2.2 with
  a spin lock, `init_spin_lock` returns no value when it succeeds
  (`spinlock/queue.c:9-12`), and `queue-threads.c:87` tests it: the model is of a
  program that goes on. A `queue_add` that finds the queue full unlocks and frees
  its node, which nobody else knows, in one step.
- `Proxy` and `ThreadPool` meet in `process_request`, which closes the client on
  every path that returns: `ReturnsClean` of `Proxy` is what `close_conn` of
  `ThreadPool` relies on. They are not composed into one module yet.

## What could be added

1. The locks inside the cache functions and their order.
2. `Proxy` with `ThreadPool`: several clients per worker, the shutdown from
   SIGINT to the freed cache.
