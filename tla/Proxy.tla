-------------------------------- MODULE Proxy --------------------------------
(***************************************************************************)
(* process_request and the life cycle around it: proxy/proxy.c.            *)
(*                                                                         *)
(* Every worker thread runs process_request for one client at a time       *)
(* against the shared cache of module HttpCache.  A request is served by a *)
(* reader (cache hit) or by a writer that forwards the remote's response   *)
(* and fills the entry chunk by chunk; searchCreateMutex makes the search  *)
(* and the creation of an entry one step for the other threads.  The bytes *)
(* of a response are their positions 1, 2, 3, ...                          *)
(***************************************************************************)
EXTENDS HttpCache, PointerWalk

CONSTANTS
  MaxResp,       \* bound: bytes that a remote sends for one request
  BUFFER_SIZE,   \* bytes moved by one recv or one cache_entry_read
  ContentLength, \* what header_len + content_len can be, NoLength for none
  MallocMayFail  \* whether malloc can fail in cache_entry_append_chunk

NoLength == -1

ASSUME ProxyAssumption ==
  /\ MaxResp \in Nat
  /\ BUFFER_SIZE \in Nat \ {0}
  /\ ContentLength \subseteq Nat \cup {NoLength}
  /\ MallocMayFail \in BOOLEAN

VARIABLES
  pc,       \* where each worker is
  req,      \* the url of its request
  entry,    \* its cache entry; for a writer, do_cache <=> entry # NULL
  expect,   \* header_len + content_len of the response, or NoLength
  recvd,    \* the bytes received from the remote
  buf,      \* the bytes in its buffer
  sent,     \* the bytes of the entry sent by handle_cached_request
  client,   \* conn->sock_fd has not been given back by its request
  remote,   \* remote_sock_fd is open
  searchCreateMutex,
  resp,     \* history: the length of the response an entry is to hold
  main_pc   \* the end of proxy_start

connVars == <<req, expect, recvd, buf, sent>>
sockVars == <<client, remote>>
procVars == <<connVars, entry, sockVars, searchCreateMutex, resp, main_pc>>
vars == <<cacheVars, pc, procVars>>

ReaderPc == {"read", "wait", "send_cached", "served", "failed"}
SearchPc == {"lookup", "connect", "send_request", "recv_headers", "insert",
             "insert_lru"}
FillPc == {"append_first", "send_first", "recv_body", "append_body",
           "send_body"}
FinishPc == {"complete", "release", "release_cancel", "cancel",
             "cancel_release"}
Pc == {"idle", "request", "lock", "exited"}
        \cup ReaderPc \cup SearchPc \cup FillPc \cup FinishPc
MainPc == {"serving", "join_workers", "stop", "join_collector", "done"}

TypeOK ==
  /\ CacheTypeOK
  /\ pc \in [Thread -> Pc]
  /\ req \in [Thread -> Url]
  /\ entry \in [Thread -> EntryOrNull]
  /\ expect \in [Thread -> Nat \cup {NoLength}]
  /\ recvd \in [Thread -> Nat]
  /\ buf \in [Thread -> Seq(Nat)]
  /\ sent \in [Thread -> Seq(Nat)]
  /\ client \in [Thread -> BOOLEAN]
  /\ remote \in [Thread -> BOOLEAN]
  /\ searchCreateMutex \in Thread \cup {NULL}
  /\ resp \in [Entry -> Nat \cup {NoLength}]
  /\ main_pc \in MainPc

Init ==
  /\ http_cache_init
  /\ pc = [t \in Thread |-> "idle"]
  /\ req \in {[t \in Thread |-> u] : u \in Url}
  /\ entry = [t \in Thread |-> NULL]
  /\ expect = [t \in Thread |-> NoLength]
  /\ recvd = [t \in Thread |-> 0]
  /\ buf = [t \in Thread |-> <<>>]
  /\ sent = [t \in Thread |-> <<>>]
  /\ client = [t \in Thread |-> FALSE]
  /\ remote = [t \in Thread |-> FALSE]
  /\ searchCreateMutex = NULL
  /\ resp = [e \in Entry |-> 0]
  /\ main_pc = "serving"

-----------------------------------------------------------------------------
At(t, p) == pc[t] = p
Goto(t, p) == pc' = [pc EXCEPT ![t] = p]
Unlock == searchCreateMutex' = NULL

\* The positions m + 1 .. n as a sequence.
Bytes(m, n) == [i \in 1 .. n - m |-> m + i]

\* disconnect(client_sock_fd); conn->sock_fd = -1
DisconnectClient(t) == client' = [client EXCEPT ![t] = FALSE]

\* disconnect(remote_sock_fd) as well
DisconnectBoth(t) ==
  /\ DisconnectClient(t)
  /\ remote' = [remote EXCEPT ![t] = FALSE]

\* process_request returns: its frame is gone.
Return(t) ==
  /\ Goto(t, "idle")
  /\ entry' = [entry EXCEPT ![t] = NULL]
  /\ expect' = [expect EXCEPT ![t] = NoLength]
  /\ recvd' = [recvd EXCEPT ![t] = 0]
  /\ buf' = [buf EXCEPT ![t] = <<>>]
  /\ sent' = [sent EXCEPT ![t] = <<>>]
  /\ UNCHANGED <<req, resp, main_pc>>

-----------------------------------------------------------------------------
(* The request. *)

\* The worker's poll reports POLLIN for a client: process_request starts.
PollIn(t) ==
  /\ At(t, "idle")
  /\ Goto(t, "request")
  /\ client' = [client EXCEPT ![t] = TRUE]
  /\ UNCHANGED <<cacheVars, connVars, entry, remote, searchCreateMutex, resp,
                 main_pc>>

\* A GET is received and parsed.  It has a Host header: a request without one
\* ends the process (ThreadPool, no_host_header).
RecvRequest(t) ==
  /\ At(t, "request")
  /\ Goto(t, "lock")
  /\ \E u \in Url : req' = [req EXCEPT ![t] = u]
  /\ UNCHANGED <<cacheVars, expect, recvd, buf, sent, entry, sockVars,
                 searchCreateMutex, resp, main_pc>>

\* The client has gone, or the request is not one the proxy serves.
RejectRequest(t) ==
  /\ At(t, "request")
  /\ DisconnectClient(t)
  /\ Return(t)
  /\ UNCHANGED <<cacheVars, remote, searchCreateMutex>>

LockSearchCreate(t) ==
  /\ At(t, "lock")
  /\ searchCreateMutex = NULL
  /\ searchCreateMutex' = t
  /\ Goto(t, "lookup")
  /\ UNCHANGED <<cacheVars, connVars, entry, sockVars, resp, main_pc>>

LookupHit(t) ==
  /\ At(t, "lookup")
  /\ \E e \in live : /\ cache_lookup_hit(req[t], e)
                     /\ entry' = [entry EXCEPT ![t] = e]
  /\ Unlock
  /\ Goto(t, "read")
  /\ UNCHANGED <<connVars, sockVars, resp, main_pc>>

\* Fault: the mutex only covers the search.
LookupMiss_unlocks(t) ==
  /\ At(t, "lookup")
  /\ cache_lookup_miss(req[t])
  /\ Goto(t, "connect")
  /\ Unlock
  /\ UNCHANGED <<connVars, entry, sockVars, resp, main_pc>>

\* The creator of an entry keeps the mutex until the entry is in the cache.
LookupMiss(t) ==
  /\ At(t, "lookup")
  /\ cache_lookup_miss(req[t])
  /\ Goto(t, "connect")
  /\ UNCHANGED procVars

-----------------------------------------------------------------------------
(* A hit: handle_cached_request and cache_entry_read. *)

\* One critical section of cache_entry_read, entered by the call or by the
\* end of a wait: wait, fail, end of data, or bytes for the client.
ReadEntry(t) ==
  LET e == entry[t]
      offset == Len(sent[t])
  IN /\ At(t, "read") \/ (At(t, "wait") /\ t \notin data_ready[e])
     /\ \/ /\ ReadMustWait(e, offset)
           /\ cache_entry_read_wait(e, t)
           /\ Goto(t, "wait")
           /\ UNCHANGED procVars
        \/ /\ state[e] = "CANCELLED"
           /\ Goto(t, "failed")
           /\ UNCHANGED <<cacheVars, procVars>>
        \/ /\ ~ReadMustWait(e, offset) /\ state[e] # "CANCELLED"
           /\ LET b == ReadBytes(e, offset, BUFFER_SIZE)
              IN /\ buf' = [buf EXCEPT ![t] = b]
                 /\ Goto(t, IF b = <<>> THEN "served" ELSE "send_cached")
           /\ UNCHANGED <<cacheVars, req, expect, recvd, sent, entry, sockVars,
                          searchCreateMutex, resp, main_pc>>

\* Fault: a reader that times out cancels the entry.
ReadTimeout_cancels(t) ==
  /\ At(t, "wait")
  /\ t \in data_ready[entry[t]]
  /\ cache_entry_cancel(entry[t])
  /\ Goto(t, "failed")
  /\ UNCHANGED procVars

\* Fault: the loop goes on after ETIMEDOUT, with a new deadline.
ReadTimeout_retries(t) ==
  /\ At(t, "wait")
  /\ cache_entry_read_wake(entry[t], t)
  /\ Goto(t, "read")
  /\ UNCHANGED procVars

\* pthread_cond_timedwait returns ETIMEDOUT, whatever happens to the entry
\* before the lock is taken again.
ReadTimeout(t) ==
  /\ At(t, "wait")
  /\ cache_entry_read_wake(entry[t], t)
  /\ Goto(t, "failed")
  /\ UNCHANGED procVars

\* pthread_cond_timedwait returns 0 without a broadcast.
ReadSpurious(t) ==
  /\ At(t, "wait")
  /\ cache_entry_read_wake(entry[t], t)
  /\ UNCHANGED <<pc, procVars>>

SendCached(t) ==
  /\ At(t, "send_cached")
  /\ \/ /\ sent' = [sent EXCEPT ![t] = @ \o buf[t]]
        /\ Goto(t, "read")
     \/ /\ UNCHANGED sent
        /\ Goto(t, "failed")
  /\ buf' = [buf EXCEPT ![t] = <<>>]
  /\ UNCHANGED <<cacheVars, req, expect, recvd, entry, sockVars,
                 searchCreateMutex, resp, main_pc>>

ReaderRelease(t) ==
  /\ pc[t] \in {"served", "failed"}
  /\ cache_entry_release(entry[t])
  /\ DisconnectClient(t)
  /\ Return(t)
  /\ UNCHANGED <<remote, searchCreateMutex>>

-----------------------------------------------------------------------------
(* A miss: the remote's response, up to the creation of the entry. *)

\* resolve_and_connect.  A socket here is what its request holds; the numbers,
\* and the second close of a failed connect (proxy.c:126), are in ThreadPool.
Connect(t) ==
  /\ At(t, "connect")
  /\ \/ /\ remote' = [remote EXCEPT ![t] = TRUE]
        /\ Goto(t, "send_request")
        /\ UNCHANGED <<connVars, entry, client, searchCreateMutex, resp,
                       main_pc>>
     \/ /\ Unlock
        /\ DisconnectClient(t)
        /\ Return(t)
        /\ UNCHANGED remote
  /\ UNCHANGED cacheVars

SendRequest(t) ==
  /\ At(t, "send_request")
  /\ \/ /\ Goto(t, "recv_headers")
        /\ UNCHANGED procVars
     \/ /\ Unlock
        /\ DisconnectBoth(t)
        /\ Return(t)
  /\ UNCHANGED cacheVars

\* The headers (and some of the body) have arrived and are parsed; only a
\* response with status 200 or 304 is cached.
RecvHeaders(t) ==
  /\ At(t, "recv_headers")
  /\ \E n \in 1 .. MaxResp, len \in ContentLength :
       /\ n <= BUFFER_SIZE
       /\ expect' = [expect EXCEPT ![t] = len]
       /\ recvd' = [recvd EXCEPT ![t] = n]
       /\ buf' = [buf EXCEPT ![t] = Bytes(0, n)]
  /\ \/ Goto(t, "insert") /\ UNCHANGED searchCreateMutex
     \/ Goto(t, "send_first") /\ Unlock
  /\ UNCHANGED <<cacheVars, req, sent, entry, sockVars, resp, main_pc>>

\* Fault: this return path forgets the mutex.
RecvHeadersFails_locked(t) ==
  /\ At(t, "recv_headers")
  /\ DisconnectBoth(t)
  /\ Return(t)
  /\ UNCHANGED <<cacheVars, searchCreateMutex>>

\* The headers are too long or malformed, or the remote has gone.
RecvHeadersFails(t) ==
  /\ At(t, "recv_headers")
  /\ Unlock
  /\ DisconnectBoth(t)
  /\ Return(t)
  /\ UNCHANGED cacheVars

Insert(t) ==
  /\ At(t, "insert")
  /\ \E e \in Entry : /\ cache_insert(e, req[t])
                      /\ entry' = [entry EXCEPT ![t] = e]
                      /\ resp' = [resp EXCEPT ![e] = expect[t]]
  /\ Goto(t, "insert_lru")
  /\ UNCHANGED <<connVars, sockVars, searchCreateMutex, main_pc>>

\* Fault: this return path forgets the remote's socket.
InsertFails_leaks(t) ==
  /\ At(t, "insert")
  /\ Unlock
  /\ DisconnectClient(t)
  /\ Return(t)
  /\ UNCHANGED <<cacheVars, remote>>

\* calloc fails in cache_insert.
InsertFails(t) ==
  /\ At(t, "insert")
  /\ Unlock
  /\ DisconnectBoth(t)
  /\ Return(t)
  /\ UNCHANGED cacheVars

\* cache_insert ends; the entry can be found now.
InsertLru(t) ==
  /\ At(t, "insert_lru")
  /\ cache_insert_lru(entry[t])
  /\ Unlock
  /\ Goto(t, "append_first")
  /\ UNCHANGED <<connVars, entry, sockVars, resp, main_pc>>

-----------------------------------------------------------------------------
(* A miss: the entry is filled while the client is served. *)

\* The result of cache_entry_append_chunk is ignored.
AppendChunk(t) ==
  \/ cache_entry_append_chunk(entry[t], buf[t])
  \/ MallocMayFail /\ UNCHANGED cacheVars

AppendFirst(t) ==
  /\ At(t, "append_first")
  /\ AppendChunk(t)
  /\ Goto(t, "send_first")
  /\ UNCHANGED procVars

AppendBody(t) ==
  /\ At(t, "append_body")
  /\ AppendChunk(t)
  /\ Goto(t, "send_body")
  /\ UNCHANGED procVars

\* Fault: the last byte is not waited for.
MoreToReceive_short(t) == expect[t] = NoLength \/ recvd[t] < expect[t] - 1

\* The response goes on until expect bytes are here, or until the remote
\* closes when there is no Content-Length.
MoreToReceive(t) == expect[t] = NoLength \/ recvd[t] < expect[t]

\* The writer is done with the response: it leaves through pc p if there is
\* an entry, and returns at once if there is none.
Finish(t, p) ==
  \/ entry[t] # NULL /\ Goto(t, p) /\ UNCHANGED procVars
  \/ /\ entry[t] = NULL
     /\ DisconnectBoth(t)
     /\ Return(t)
     /\ UNCHANGED searchCreateMutex

\* send_buffer to the client succeeds.
Sent(t) ==
  /\ pc[t] \in {"send_first", "send_body"}
  /\ \/ /\ MoreToReceive(t)
        /\ Goto(t, "recv_body")
        /\ buf' = [buf EXCEPT ![t] = <<>>]
        /\ UNCHANGED <<req, expect, recvd, sent, entry, sockVars,
                       searchCreateMutex, resp, main_pc>>
     \/ ~MoreToReceive(t) /\ Finish(t, "complete")
  /\ UNCHANGED cacheVars

\* send_buffer fails; the order of release and cancel depends on the branch.
SendFails(t) ==
  /\ pc[t] \in {"send_first", "send_body"}
  /\ Finish(t, IF At(t, "send_body") /\ expect[t] = NoLength
               THEN "cancel_release" ELSE "release_cancel")
  /\ UNCHANGED cacheVars

\* Body bytes arrive.  Without a Content-Length they are not cached.
RecvBody(t) ==
  /\ At(t, "recv_body")
  /\ \E n \in 1 .. MaxResp - recvd[t] :
       /\ n <= BUFFER_SIZE
       /\ recvd' = [recvd EXCEPT ![t] = @ + n]
       /\ buf' = [buf EXCEPT ![t] = Bytes(recvd[t], recvd[t] + n)]
  /\ Goto(t, IF entry[t] # NULL /\ expect[t] # NoLength
             THEN "append_body" ELSE "send_body")
  /\ UNCHANGED <<cacheVars, req, expect, sent, entry, sockVars,
                 searchCreateMutex, resp, main_pc>>

\* recv returns 0: the end of a response without Content-Length, an error
\* for one with it.
RemoteCloses(t) ==
  /\ At(t, "recv_body")
  /\ Finish(t, IF expect[t] = NoLength THEN "complete" ELSE "release_cancel")
  /\ UNCHANGED cacheVars

\* recv returns -1.
RecvFails(t) ==
  /\ At(t, "recv_body")
  /\ Finish(t, IF expect[t] = NoLength THEN "cancel_release"
               ELSE "release_cancel")
  /\ UNCHANGED cacheVars

-----------------------------------------------------------------------------
(* The ends of a writer. *)

Complete(t) ==
  /\ At(t, "complete")
  /\ cache_entry_complete(entry[t])
  /\ Goto(t, "release")
  /\ resp' = [resp EXCEPT ![entry[t]] = IF @ = NoLength THEN recvd[t] ELSE @]
  /\ UNCHANGED <<connVars, entry, sockVars, searchCreateMutex, main_pc>>

Release(t) ==
  /\ At(t, "release")
  /\ cache_entry_release(entry[t])
  /\ DisconnectBoth(t)
  /\ Return(t)
  /\ UNCHANGED searchCreateMutex

\* Fault: a cancelled response is completed as if it had ended.
CancelThenRelease_completes(t) ==
  /\ At(t, "cancel_release")
  /\ cache_entry_cancel(entry[t])
  /\ Goto(t, "complete")
  /\ UNCHANGED procVars

CancelThenRelease(t) ==
  /\ At(t, "cancel_release")
  /\ cache_entry_cancel(entry[t])
  /\ Goto(t, "release")
  /\ UNCHANGED procVars

\* Fault: the reference is kept.
ReleaseThenCancel_keeps(t) ==
  /\ At(t, "release_cancel")
  /\ Goto(t, "cancel")
  /\ UNCHANGED <<cacheVars, procVars>>

ReleaseThenCancel(t) ==
  /\ At(t, "release_cancel")
  /\ cache_entry_release(entry[t])
  /\ Goto(t, "cancel")
  /\ UNCHANGED procVars

\* The entry is cancelled after the writer has given up its reference.
Cancel(t) ==
  /\ At(t, "cancel")
  /\ cache_entry_cancel(entry[t])
  /\ DisconnectBoth(t)
  /\ Return(t)
  /\ UNCHANGED searchCreateMutex

-----------------------------------------------------------------------------
(* The end of proxy_start: threadpool_shutdown, then http_cache_shutdown.   *)

ThreadpoolShutdown ==
  /\ main_pc = "serving"
  /\ main_pc' = "join_workers"
  /\ UNCHANGED <<cacheVars, pc, connVars, entry, sockVars, searchCreateMutex,
                 resp>>

\* A worker sees is_shutdown at the top of its loop.
WorkerExit(t) ==
  /\ main_pc = "join_workers"
  /\ At(t, "idle")
  /\ Goto(t, "exited")
  /\ UNCHANGED <<cacheVars, procVars>>

\* Fault: the workers are not joined.
JoinWorkers_detached ==
  /\ main_pc = "join_workers"
  /\ main_pc' = "stop"
  /\ UNCHANGED <<cacheVars, pc, connVars, entry, sockVars, searchCreateMutex,
                 resp>>

JoinWorkers ==
  /\ main_pc = "join_workers"
  /\ \A t \in Thread : At(t, "exited")
  /\ main_pc' = "stop"
  /\ UNCHANGED <<cacheVars, pc, connVars, entry, sockVars, searchCreateMutex,
                 resp>>

StopCollector ==
  /\ main_pc = "stop"
  /\ http_cache_shutdown_stop
  /\ main_pc' = "join_collector"
  /\ UNCHANGED <<pc, connVars, entry, sockVars, searchCreateMutex, resp>>

FreeCache ==
  /\ main_pc = "join_collector"
  /\ http_cache_shutdown_free
  /\ main_pc' = "done"
  /\ UNCHANGED <<pc, connVars, entry, sockVars, searchCreateMutex, resp>>

\* The process has ended.
Terminated == main_pc = "done" /\ UNCHANGED vars

-----------------------------------------------------------------------------
ReaderStep(t) ==
  \/ ReadEntry(t)
  \/ ReadTimeout(t)
  \/ ReadSpurious(t)
  \/ SendCached(t)
  \/ ReaderRelease(t)

WriterStep(t) ==
  \/ Connect(t)
  \/ SendRequest(t)
  \/ RecvHeaders(t)
  \/ RecvHeadersFails(t)
  \/ Insert(t)
  \/ InsertFails(t)
  \/ InsertLru(t)
  \/ AppendFirst(t)
  \/ AppendBody(t)
  \/ Sent(t)
  \/ SendFails(t)
  \/ RecvBody(t)
  \/ RemoteCloses(t)
  \/ RecvFails(t)

FinishStep(t) ==
  \/ Complete(t)
  \/ Release(t)
  \/ CancelThenRelease(t)
  \/ ReleaseThenCancel(t)
  \/ Cancel(t)

SearchStep(t) ==
  \/ RecvRequest(t)
  \/ RejectRequest(t)
  \/ LockSearchCreate(t)
  \/ LookupHit(t)
  \/ LookupMiss(t)

WorkerNext(t) ==
  \/ PollIn(t)
  \/ SearchStep(t)
  \/ ReaderStep(t)
  \/ WriterStep(t)
  \/ FinishStep(t)
  \/ WorkerExit(t)

MainNext ==
  \/ ThreadpoolShutdown
  \/ JoinWorkers
  \/ StopCollector
  \/ FreeCache

Next ==
  \/ \E t \in Thread : WorkerNext(t)
  \/ CollectorNext /\ UNCHANGED <<pc, procVars>>
  \/ MainNext
  \/ Terminated

Spec == Init /\ [][Next]_vars

\* What a reader alone guarantees: it runs, its client takes or refuses the
\* bytes, and the absolute deadline of pthread_cond_timedwait passes.  Nothing
\* is assumed of the writer or of the remote.
ReaderFairness ==
  \A t \in Thread :
    /\ WF_vars(ReadEntry(t))
    /\ SF_vars(ReadTimeout(t))
    /\ WF_vars(SendCached(t))
    /\ WF_vars(ReaderRelease(t))

ReaderSpec == Spec /\ ReaderFairness

\* What the rest of the system guarantees as long as no remote stalls: threads
\* run, locks that are given back are obtained, and a blocking call on a socket
\* returns.  That a worker exits is not assumed: it may sleep through
\* threadpool_shutdown (ThreadPool, ShutdownEnds).
NothingStalls ==
  /\ \A t \in Thread :
       /\ SF_vars(SearchStep(t))
       /\ WF_vars(WriterStep(t))
       /\ WF_vars(FinishStep(t))
  /\ WF_vars(CollectorNext /\ UNCHANGED <<pc, procVars>>)
  /\ WF_vars(StopCollector \/ FreeCache)

-----------------------------------------------------------------------------
(* Safety. *)

\* The threads that own a reference to e: a writer in pc "cancel" has already
\* given its reference up.
Holders(e) == {t \in Thread : entry[t] = e /\ ~At(t, "cancel")}

\* Reference counting (cache_lookup, cache_insert, cache_entry_release): the
\* refcount of an entry is the number of requests that still own a reference,
\* on every path out of process_request.
RefcountExact == \A e \in live : refcount[e] = Cardinality(Holders(e))

\* No worker keeps a pointer to an entry the collector has freed, not even in
\* the window of proxy.c:415-416 where the reference is released before the
\* entry is cancelled.
NoDanglingEntry == \A t \in Thread : entry[t] # NULL => entry[t] \in live

\* searchCreateMutex does its work: two entries of one url are never both
\* usable, whatever was cancelled or collected while the creator was on the
\* network.
OneUsableEntryPerUrl ==
  \A e, f \in live :
    url[e] = url[f] /\ "CANCELLED" \notin {state[e], state[f]} => e = f

\* The entries between lru_head and lru_tail, following lru_next.
LruOrder == Walk(lru.head, lru.next, NULL, Cardinality(live) + 1)

\* The LRU list, linked and unlinked pointer by pointer under lru_lock by the
\* workers and the collector, is a doubly linked list of exactly the live
\* entries; only the entry that cache_insert is about to add is missing.
LruMatchesBuckets ==
  LET q == LruOrder
      inserting == {entry[t] : t \in {x \in Thread : At(x, "insert_lru")}}
  IN /\ IsInjective(q)
     /\ ToSet(q) = live \ inserting
     /\ live = UNION {ToSet(buckets[b]) : b \in Bucket}
     /\ lru.tail = IF q = <<>> THEN NULL ELSE q[Len(q)]
     /\ \A i \in DOMAIN q : lru.prev[q[i]] = IF i = 1 THEN NULL ELSE q[i - 1]

\* cache_entry_append_chunk is never called on a cancelled entry: "cache entry
\* should never be used after cancellation" (httpcache.c:247).
AppendNotCancelled ==
  \A t \in Thread :
    pc[t] \in {"append_first", "append_body"} => state[entry[t]] = "INCOMPLETE"

\* No lost wakeup on data_ready: a reader asleep in cache_entry_read has
\* nothing to read and a writer still at work.
SleeperHasNothingToRead ==
  \A e \in Entry : \A t \in data_ready[e] :
    /\ At(t, "wait") /\ entry[t] = e
    /\ ReadMustWait(e, Len(sent[t]))

\* What a hit delivers is a prefix of the entry, in order and without gaps; a
\* reader that is not told of an error got the whole of a completed entry.
ReaderStream ==
  \A t \in Thread : pc[t] \in ReaderPc =>
    /\ IsPrefix(sent[t] \o buf[t], data[entry[t]])
    /\ At(t, "served") => /\ state[entry[t]] = "COMPLETE"
                          /\ sent[t] = data[entry[t]]

\* An entry marked COMPLETE holds every byte of the response it was created
\* for: a hit never serves a truncated page as a whole one.
CompleteHoldsWholeResponse ==
  \A e \in live : state[e] = "COMPLETE" =>
    /\ data[e] = Bytes(0, Len(data[e]))
    /\ Len(data[e]) >= resp[e]

\* Every return path of process_request leaves nothing behind: no socket, no
\* reference and not searchCreateMutex.
ReturnsClean ==
  \A t \in Thread : pc[t] \in {"idle", "exited"} =>
    /\ ~client[t] /\ ~remote[t]
    /\ entry[t] = NULL
    /\ searchCreateMutex # t

\* http_cache_shutdown frees the cache only when no thread can use it.
NoUseAfterShutdown ==
  cache_freed => /\ CollectorAt("exited")
                 /\ \A t \in Thread : At(t, "exited") /\ entry[t] = NULL

\* COMPLETE and CANCELLED are final: as long as an entry is in the cache it
\* does not leave them.
FinalStatesAreFinal ==
  [][\A e \in live \cap live' :
       state[e] # "INCOMPLETE" => state'[e] = state[e]]_vars

-----------------------------------------------------------------------------
(* Liveness. *)

\* The deadline of cache_entry_read frees a reader whose writer or remote has
\* stalled: every hit returns under ReaderFairness alone.
ReadersReturn ==
  \A t \in Thread : pc[t] \in ReaderPc ~> At(t, "idle")

\* Unless something stalls, every request that reaches the cache is finished,
\* although the creator of an entry holds searchCreateMutex across its network
\* calls.
RequestsFinish ==
  NothingStalls => \A t \in Thread : At(t, "lock") ~> At(t, "idle")

\* Unless something stalls, the collector gets every cancelled entry in the
\* end, whenever its readers leave.
CancelledCollected ==
  NothingStalls =>
    \A e \in Entry : (e \in live /\ state[e] = "CANCELLED") ~> e \notin live

\* Unless something stalls, http_cache_shutdown ends once it is called, also when
\* the signal to the collector comes while it is not waiting and is lost: the
\* next timeout sees collector_running.
ShutdownCompletes ==
  NothingStalls => (main_pc = "stop" ~> main_pc = "done")
=============================================================================
