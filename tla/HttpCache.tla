------------------------------ MODULE HttpCache ------------------------------
(***************************************************************************)
(* The shared HTTP cache of the proxy: caching/httpcache.c and             *)
(* caching/httpcache.h.                                                    *)
(*                                                                         *)
(* The module holds the state of an http_cache_t and one action (or, where *)
(* the code drops every lock in the middle, two) per function.  An action  *)
(* is one critical section: an entry's fields are only touched under       *)
(* entry->lock, a bucket's chain under the bucket's lock, the LRU list     *)
(* under lru_lock, and every function but the collector leaves the locks   *)
(* it took before it returns.  The collector keeps one bucket's lock while *)
(* it visits the entries of that bucket one by one; CollectorHoldsBucket   *)
(* is that lock.  Module Proxy drives these actions from process_request.  *)
(***************************************************************************)
EXTENDS Integers, Sequences, FiniteSets, SequencesExt

CONSTANTS
  Thread,      \* the worker threads that use the cache
  Entry,       \* the heap cells that can hold a cache_entry_t
  Url,         \* the urls that are requested
  NumBuckets,  \* cache->num_buckets
  hash_url,    \* the hash of every url
  SizeMod,     \* size_t wraps at SizeMod
  NULL         \* the null pointer

ASSUME HttpCacheAssumption ==
  /\ IsFiniteSet(Thread)
  /\ NULL \notin Entry
  /\ NULL \notin Thread
  /\ Url # {}
  /\ NumBuckets \in Nat \ {0}
  /\ hash_url \in [Url -> Nat]
  /\ SizeMod \in Nat \ {0}

VARIABLES
  live,          \* the allocated entries
  url,           \* entry->url
  state,         \* entry->state
  refcount,      \* entry->refcount
  data,          \* the bytes of the entry's chunk list, in order
  total_size,    \* entry->total_size
  data_ready,    \* threads blocked on the entry's condition variable
  buckets,       \* the chain of every hash bucket, head first
  lru,           \* lru_head, lru_tail and the lru_prev / lru_next links
  current_size,  \* cache->current_size
  collector,     \* [pc, i, pos]: the collector thread
  collector_running,
  cache_freed    \* http_cache_shutdown has freed the cache

entryVars == <<live, url, state, refcount, data, total_size, data_ready>>
collectorVars == <<collector, collector_running, cache_freed>>
cacheVars == <<entryVars, buckets, lru, current_size, collectorVars>>

EntryOrNull == Entry \cup {NULL}
Bucket == 0 .. NumBuckets - 1
State == {"INCOMPLETE", "COMPLETE", "CANCELLED"}
CollectorPc == {"start", "wait", "woken", "scan", "exited"}

BucketIdx(u) == hash_url[u] % NumBuckets

LruType == [head : EntryOrNull, tail : EntryOrNull,
            prev : [Entry -> EntryOrNull], next : [Entry -> EntryOrNull]]
CollectorType == [pc : CollectorPc, i : Bucket, pos : Nat]

CacheTypeOK ==
  /\ live \in SUBSET Entry
  /\ url \in [Entry -> Url]
  /\ state \in [Entry -> State]
  /\ refcount \in [Entry -> Nat]
  /\ data \in [Entry -> Seq(Nat)]
  /\ total_size \in [Entry -> Nat]
  /\ data_ready \in [Entry -> SUBSET Thread]
  /\ buckets \in [Bucket -> Seq(Entry)]
  /\ lru \in LruType
  /\ current_size \in 0 .. SizeMod - 1
  /\ collector \in CollectorType
  /\ collector_running \in BOOLEAN
  /\ cache_freed \in BOOLEAN

-----------------------------------------------------------------------------
(* The doubly linked LRU list, pointer by pointer. *)

LruRemove(l, e) ==
  LET p == l.prev[e]
      next1 == IF p # NULL THEN [l.next EXCEPT ![p] = l.next[e]] ELSE l.next
      n == next1[e]
      prev1 == IF n # NULL THEN [l.prev EXCEPT ![n] = p] ELSE l.prev
  IN [head |-> IF p # NULL THEN l.head ELSE n,
      tail |-> IF n # NULL THEN l.tail ELSE p,
      prev |-> [prev1 EXCEPT ![e] = NULL],
      next |-> [next1 EXCEPT ![e] = NULL]]

LruAddHead(l, e) ==
  LET prev1 == [l.prev EXCEPT ![e] = NULL]
  IN [head |-> e,
      tail |-> IF l.tail = NULL THEN e ELSE l.tail,
      prev |-> IF l.head # NULL THEN [prev1 EXCEPT ![l.head] = e] ELSE prev1,
      next |-> [l.next EXCEPT ![e] = l.head]]

-----------------------------------------------------------------------------
(* http_cache_init: an empty cache whose collector has been created. *)

http_cache_init ==
  /\ live = {}
  /\ url \in {[e \in Entry |-> u] : u \in Url}
  /\ state = [e \in Entry |-> "INCOMPLETE"]
  /\ refcount = [e \in Entry |-> 0]
  /\ data = [e \in Entry |-> <<>>]
  /\ total_size = [e \in Entry |-> 0]
  /\ data_ready = [e \in Entry |-> {}]
  /\ buckets = [b \in Bucket |-> <<>>]
  /\ lru = [head |-> NULL, tail |-> NULL,
            prev |-> [e \in Entry |-> NULL], next |-> [e \in Entry |-> NULL]]
  /\ current_size = 0
  /\ collector = [pc |-> "start", i |-> 0, pos |-> 0]
  /\ collector_running = TRUE
  /\ cache_freed = FALSE

-----------------------------------------------------------------------------
(* The functions called by the worker threads. *)

\* buckets[b].lock is held across steps by the collector only.
CollectorHoldsBucket(b) ==
  collector.pc = "scan" /\ collector.i = b /\ collector.pos > 0

\* The positions of u's chain at which cache_lookup may stop.
Hits(u) ==
  LET c == buckets[BucketIdx(u)]
  IN {i \in DOMAIN c : url[c[i]] = u /\ state[c[i]] # "CANCELLED"}

\* Fault: the reference is not counted.
cache_lookup_hit_uncounted(u, e) ==
  /\ ~CollectorHoldsBucket(BucketIdx(u))
  /\ \E i \in Hits(u) : /\ \A j \in Hits(u) : i <= j
                        /\ e = buckets[BucketIdx(u)][i]
  /\ lru' = LruAddHead(LruRemove(lru, e), e)
  /\ UNCHANGED <<entryVars, buckets, current_size, collectorVars>>

\* cache_lookup returns e with a new reference and moves it to the LRU head.
cache_lookup_hit(u, e) ==
  /\ ~CollectorHoldsBucket(BucketIdx(u))
  /\ \E i \in Hits(u) : /\ \A j \in Hits(u) : i <= j
                        /\ e = buckets[BucketIdx(u)][i]
  /\ refcount' = [refcount EXCEPT ![e] = @ + 1]
  /\ lru' = LruAddHead(LruRemove(lru, e), e)
  /\ UNCHANGED <<live, url, state, data, total_size, data_ready, buckets,
                 current_size, collectorVars>>

\* cache_lookup reaches the end of the chain.
cache_lookup_miss(u) ==
  /\ ~CollectorHoldsBucket(BucketIdx(u))
  /\ Hits(u) = {}
  /\ UNCHANGED cacheVars

\* cache_insert, up to the release of the bucket's lock.
cache_insert(e, u) ==
  /\ ~CollectorHoldsBucket(BucketIdx(u))
  /\ e \notin live
  /\ live' = live \cup {e}
  /\ url' = [url EXCEPT ![e] = u]
  /\ state' = [state EXCEPT ![e] = "INCOMPLETE"]
  /\ refcount' = [refcount EXCEPT ![e] = 1]
  /\ data' = [data EXCEPT ![e] = <<>>]
  /\ total_size' = [total_size EXCEPT ![e] = 0]
  /\ data_ready' = [data_ready EXCEPT ![e] = {}]
  /\ buckets' = [buckets EXCEPT ![BucketIdx(u)] = Cons(e, @)]
  /\ UNCHANGED <<lru, current_size, collectorVars>>

\* The rest of cache_insert: the entry enters the LRU list.
cache_insert_lru(e) ==
  /\ lru' = LruAddHead(lru, e)
  /\ UNCHANGED <<entryVars, buckets, current_size, collectorVars>>

\* pthread_cond_broadcast(&entry->data_ready)
Broadcast(e) == data_ready' = [data_ready EXCEPT ![e] = {}]

\* Fault: the waiting readers are not woken.
cache_entry_append_chunk_silent(e, d) ==
  /\ IF state[e] = "CANCELLED"
     THEN UNCHANGED <<data, total_size>>
     ELSE /\ data' = [data EXCEPT ![e] = @ \o d]
          /\ total_size' = [total_size EXCEPT ![e] = @ + Len(d)]
  /\ UNCHANGED <<live, url, state, refcount, data_ready, buckets, lru,
                 current_size, collectorVars>>

\* cache_entry_append_chunk; a cancelled entry is refused.
cache_entry_append_chunk(e, d) ==
  /\ IF state[e] = "CANCELLED"
     THEN UNCHANGED <<data, total_size, data_ready>>
     ELSE /\ data' = [data EXCEPT ![e] = @ \o d]
          /\ total_size' = [total_size EXCEPT ![e] = @ + Len(d)]
          /\ Broadcast(e)
  /\ UNCHANGED <<live, url, state, refcount, buckets, lru, current_size,
                 collectorVars>>

cache_entry_complete(e) ==
  /\ state' = [state EXCEPT ![e] = "COMPLETE"]
  /\ Broadcast(e)
  /\ UNCHANGED <<live, url, refcount, data, total_size, buckets, lru,
                 current_size, collectorVars>>

cache_entry_release(e) ==
  /\ refcount' = [refcount EXCEPT ![e] = @ - 1]
  /\ UNCHANGED <<live, url, state, data, total_size, data_ready, buckets, lru,
                 current_size, collectorVars>>

\* Fault: cancelling also drops the reference that was released before.
cache_entry_cancel_releases(e) ==
  /\ state' = [state EXCEPT ![e] = "CANCELLED"]
  /\ refcount' = [refcount EXCEPT ![e] = @ - 1]
  /\ Broadcast(e)
  /\ UNCHANGED <<live, url, data, total_size, buckets, lru, current_size,
                 collectorVars>>

cache_entry_cancel(e) ==
  /\ state' = [state EXCEPT ![e] = "CANCELLED"]
  /\ Broadcast(e)
  /\ UNCHANGED <<live, url, refcount, data, total_size, buckets, lru,
                 current_size, collectorVars>>

-----------------------------------------------------------------------------
(* cache_entry_read: what the loop of timed waits does, and what is read.  *)

\* Fault: off by one at the end of the data.
ReadMustWait_strict(e, offset) ==
  offset > total_size[e] /\ state[e] = "INCOMPLETE"

\* The condition of the loop: nothing new, and the writer is still at work.
ReadMustWait(e, offset) == offset >= total_size[e] /\ state[e] = "INCOMPLETE"

\* The at most size bytes of d that start at offset.
Slice(d, offset, size) ==
  SubSeq(d, offset + 1,
         IF offset + size < Len(d) THEN offset + size ELSE Len(d))

\* The walk over the chunks of e; module Chunks walks them one by one.
ReadBytes(e, offset, size) == Slice(data[e], offset, size)

\* pthread_cond_timedwait blocks t.
cache_entry_read_wait(e, t) ==
  /\ data_ready' = [data_ready EXCEPT ![e] = @ \cup {t}]
  /\ UNCHANGED <<live, url, state, refcount, data, total_size, buckets, lru,
                 current_size, collectorVars>>

\* The wait of t ends without a broadcast: the deadline, or a spurious wakeup.
cache_entry_read_wake(e, t) ==
  /\ t \in data_ready[e]
  /\ data_ready' = [data_ready EXCEPT ![e] = @ \ {t}]
  /\ UNCHANGED <<live, url, state, refcount, data, total_size, buckets, lru,
                 current_size, collectorVars>>

-----------------------------------------------------------------------------
(* collector_thread_func and cleanup_cancelled_entries. *)

CollectorAt(p) == collector.pc = p
CollectorTo(p) == collector' = [collector EXCEPT !.pc = p]

\* The collector takes collector_lock and starts its timed wait.
collector_wait ==
  /\ CollectorAt("start")
  /\ CollectorTo("wait")
  /\ UNCHANGED <<entryVars, buckets, lru, current_size, collector_running,
                 cache_freed>>

\* Fault: pthread_cond_wait in place of the timed wait.
collector_timeout_never ==
  /\ CollectorAt("never")
  /\ UNCHANGED cacheVars

\* One minute has passed (or a spurious wakeup came).
collector_timeout ==
  /\ CollectorAt("wait")
  /\ CollectorTo("woken")
  /\ UNCHANGED <<entryVars, buckets, lru, current_size, collector_running,
                 cache_freed>>

\* Awake, it tests collector_running; the sweep starts before bucket 0.
collector_check ==
  /\ CollectorAt("woken")
  /\ collector' = IF collector_running
                  THEN [pc |-> "scan", i |-> 0, pos |-> 0]
                  ELSE [pc |-> "exited", i |-> 0, pos |-> 0]
  /\ UNCHANGED <<entryVars, buckets, lru, current_size, collector_running,
                 cache_freed>>

\* It locks bucket i.
cleanup_lock_bucket ==
  /\ CollectorAt("scan") /\ collector.pos = 0
  /\ collector' = [collector EXCEPT !.pos = 1]
  /\ UNCHANGED <<entryVars, buckets, lru, current_size, collector_running,
                 cache_freed>>

\* The entry the collector visits next.
Visited == buckets[collector.i][collector.pos]
\* Fault: references are not looked at.
Collectable_referenced(e) == state[e] = "CANCELLED"

Collectable(e) == state[e] = "CANCELLED" /\ refcount[e] = 0

\* The visited entry stays.
cleanup_keep ==
  /\ CollectorAt("scan")
  /\ collector.pos \in DOMAIN buckets[collector.i]
  /\ ~Collectable(Visited)
  /\ collector' = [collector EXCEPT !.pos = @ + 1]
  /\ UNCHANGED <<entryVars, buckets, lru, current_size, collector_running,
                 cache_freed>>

\* Fault: the entry stays in the LRU list.
cleanup_remove_keeps_lru ==
  /\ CollectorAt("scan")
  /\ collector.pos \in DOMAIN buckets[collector.i]
  /\ Collectable(Visited)
  /\ buckets' = [buckets EXCEPT ![collector.i] = RemoveAt(@, collector.pos)]
  /\ current_size' = (current_size - total_size[Visited]) % SizeMod
  /\ live' = live \ {Visited}
  /\ UNCHANGED <<url, state, refcount, data, total_size, data_ready, lru,
                 collectorVars>>

\* The visited entry is unlinked everywhere and freed.
cleanup_remove ==
  /\ CollectorAt("scan")
  /\ collector.pos \in DOMAIN buckets[collector.i]
  /\ Collectable(Visited)
  /\ buckets' = [buckets EXCEPT ![collector.i] = RemoveAt(@, collector.pos)]
  /\ lru' = LruRemove(lru, Visited)
  /\ current_size' = (current_size - total_size[Visited]) % SizeMod
  /\ live' = live \ {Visited}
  /\ state' = [state EXCEPT ![Visited] = "INCOMPLETE"]
  /\ data' = [data EXCEPT ![Visited] = <<>>]
  /\ total_size' = [total_size EXCEPT ![Visited] = 0]
  /\ data_ready' = [data_ready EXCEPT ![Visited] = {}]
  /\ UNCHANGED <<url, refcount, collectorVars>>

\* The end of the chain: bucket i is unlocked, the next one is in turn.
cleanup_unlock_bucket ==
  /\ CollectorAt("scan")
  /\ collector.pos > Len(buckets[collector.i])
  /\ collector' = IF collector.i + 1 < NumBuckets
                  THEN [pc |-> "scan", i |-> collector.i + 1, pos |-> 0]
                  ELSE [pc |-> "start", i |-> 0, pos |-> 0]
  /\ UNCHANGED <<entryVars, buckets, lru, current_size, collector_running,
                 cache_freed>>

CollectorNext ==
  \/ collector_wait
  \/ collector_timeout
  \/ collector_check
  \/ cleanup_lock_bucket
  \/ cleanup_keep
  \/ cleanup_remove
  \/ cleanup_unlock_bucket

-----------------------------------------------------------------------------
(* http_cache_shutdown. *)

\* collector_running is cleared under collector_lock and the collector is
\* signalled; a collector that is not waiting does not see the signal.
http_cache_shutdown_stop ==
  /\ collector_running' = FALSE
  /\ IF CollectorAt("wait") THEN CollectorTo("woken") ELSE UNCHANGED collector
  /\ UNCHANGED <<entryVars, buckets, lru, current_size, cache_freed>>

\* After the collector is joined every entry is freed, and the cache with them.
http_cache_shutdown_free ==
  /\ CollectorAt("exited")
  /\ live' = {}
  /\ state' = [e \in Entry |-> "INCOMPLETE"]
  /\ refcount' = [e \in Entry |-> 0]
  /\ data' = [e \in Entry |-> <<>>]
  /\ total_size' = [e \in Entry |-> 0]
  /\ data_ready' = [e \in Entry |-> {}]
  /\ buckets' = [b \in Bucket |-> <<>>]
  /\ lru' = [head |-> NULL, tail |-> NULL,
             prev |-> [e \in Entry |-> NULL], next |-> [e \in Entry |-> NULL]]
  /\ cache_freed' = TRUE
  /\ UNCHANGED <<url, current_size, collector, collector_running>>
=============================================================================
