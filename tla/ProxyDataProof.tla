--------------------------- MODULE ProxyDataProof ----------------------------
(***************************************************************************)
(* Proofs about what the requests of module Proxy leave behind and about   *)
(* the bytes that they move, on top of the invariant of module ProxyProof. *)
(***************************************************************************)
EXTENDS ProxyProof, Chunks, PointerWalkProof

\* The program points at which remote_sock_fd is open, and those at which
\* the buffer holds bytes that the entry does not have yet.
RemotePc == {"send_request", "recv_headers", "insert", "insert_lru"}
              \cup FillPc \cup FinishPc
PendingPc == {"insert_lru", "append_first", "append_body"}
StoredPc == {"send_first", "recv_body", "send_body", "complete"}

\* The sockets are open exactly where the code uses them.
SocketsAtPc ==
  \A t \in Thread : /\ client[t] <=> pc[t] \notin {"idle", "exited"}
                    /\ remote[t] <=> pc[t] \in RemotePc

\* total_size counts the bytes of the chunks.
SizesExact == \A e \in Entry : total_size[e] = Len(data[e])

\* Only a reader between cache_entry_read and the send has bytes in hand, and
\* a request starts with nothing sent.
ReaderBuffer ==
  \A t \in Thread :
    /\ pc[t] \in {"lock", "lookup", "read", "wait", "served", "failed"} \cup
                 {"idle", "request", "exited"} => buf[t] = <<>>
    /\ pc[t] \notin ReaderPc => sent[t] = <<>>

\* The part of the data invariant that holds whatever malloc and the remote do.
DInv ==
  /\ SocketsAtPc
  /\ SizesExact
  /\ SleeperHasNothingToRead
  /\ ReaderBuffer
  /\ ReaderStream

\* The bytes of an entry are the first ones of its response, in order.
DataInOrder == \A e \in Entry : data[e] = Bytes(0, Len(data[e]))

\* Before its entry exists a writer has the first bytes of the response.
InsertHasHead ==
  \A t \in Thread : At(t, "insert") => buf[t] = Bytes(0, recvd[t])

\* A writer's entry and its buffer hold together what was received.
WriterBytes ==
  \A t \in Thread : entry[t] # NULL =>
    /\ pc[t] \in PendingPc => /\ Len(data[entry[t]]) <= recvd[t]
                              /\ buf[t] = Bytes(Len(data[entry[t]]), recvd[t])
    /\ pc[t] \in StoredPc => Len(data[entry[t]]) = recvd[t]

\* It fills the entry up to the length that the headers announced.
WriterLength ==
  \A t \in Thread :
    /\ At(t, "insert") => expect[t] # NoLength
    /\ pc[t] \in PendingPc \cup StoredPc /\ entry[t] # NULL =>
         expect[t] # NoLength /\ resp[entry[t]] = expect[t]
    /\ At(t, "complete") => recvd[t] >= expect[t]

\* The part that needs a malloc that succeeds and a Content-Length.
BInv ==
  /\ DataInOrder
  /\ InsertHasHead
  /\ WriterBytes
  /\ WriterLength
  /\ CompleteHoldsWholeResponse


-----------------------------------------------------------------------------
(* What a step changes. *)

\* What a worker's frame holds, and its sockets.
FrameKept(w) ==
  /\ pc'[w] = pc[w] /\ entry'[w] = entry[w]
  /\ expect'[w] = expect[w] /\ recvd'[w] = recvd[w]
  /\ buf'[w] = buf[w] /\ sent'[w] = sent[w]
  /\ client'[w] = client[w] /\ remote'[w] = remote[w]

\* A worker changes no other worker's frame.
LEMMA WorkerFrame ==
  ASSUME TypeOK, NEW t \in Thread, WorkerNext(t), NEW w \in Thread \ {t}
  PROVE  FrameKept(w)
<1> USE DEF FrameKept
<1>1. /\ pc \in [Thread -> Pc] /\ entry \in [Thread -> EntryOrNull]
      /\ expect \in [Thread -> Nat \cup {NoLength}] /\ recvd \in [Thread -> Nat]
      /\ buf \in [Thread -> Seq(Nat)] /\ sent \in [Thread -> Seq(Nat)]
      /\ client \in [Thread -> BOOLEAN] /\ remote \in [Thread -> BOOLEAN]
  BY DEF TypeOK
<1>2. ASSUME NEW p, Goto(t, p), UNCHANGED procVars
      PROVE  FrameKept(w)
  BY <1>1, <1>2 DEF Goto, procVars, connVars, sockVars
<1>3. ASSUME Return(t), DisconnectClient(t) \/ DisconnectBoth(t),
             UNCHANGED remote \/ DisconnectBoth(t)
      PROVE  FrameKept(w)
  BY <1>1, <1>3 DEF Goto, Return, DisconnectClient, DisconnectBoth
<1>4. CASE PollIn(t) \/ RecvRequest(t) \/ LockSearchCreate(t) \/ LookupHit(t)
  BY <1>1, <1>4
     DEF PollIn, RecvRequest, LockSearchCreate, LookupHit, Goto, connVars,
         sockVars
<1>5. CASE LookupMiss(t) \/ WorkerExit(t) \/ ReadTimeout(t)
  BY <1>2, <1>5 DEF LookupMiss, WorkerExit, ReadTimeout
<1>6. CASE RejectRequest(t) \/ ReaderRelease(t) \/ RecvHeadersFails(t)
             \/ InsertFails(t) \/ Release(t) \/ Cancel(t)
  BY <1>3, <1>6
     DEF RejectRequest, ReaderRelease, RecvHeadersFails, InsertFails, Release,
         Cancel
<1>7. CASE ReadEntry(t)
  <2>1. CASE Goto(t, "wait") /\ UNCHANGED procVars
    BY <1>2, <2>1
  <2>2. CASE Goto(t, "failed") /\ UNCHANGED <<cacheVars, procVars>>
    BY <1>2, <2>2
  <2>3. CASE \E b, p : /\ buf' = [buf EXCEPT ![t] = b]
                       /\ Goto(t, p)
                       /\ UNCHANGED <<expect, recvd, sent, entry, sockVars>>
    BY <1>1, <2>3 DEF Goto, sockVars
  <2> QED
    BY <1>7, <2>1, <2>2, <2>3 DEF ReadEntry
<1>8. CASE ReadSpurious(t)
  BY <1>8 DEF ReadSpurious, procVars, connVars, sockVars
<1>9. CASE SendCached(t)
  BY <1>1, <1>9 DEF SendCached, Goto, sockVars
<1>10. CASE Connect(t)
  <2>1. CASE DisconnectClient(t) /\ Return(t) /\ UNCHANGED remote
    BY <1>3, <2>1
  <2>2. CASE /\ remote' = [remote EXCEPT ![t] = TRUE]
             /\ Goto(t, "send_request")
             /\ UNCHANGED <<connVars, entry, client, searchCreateMutex, resp,
                            main_pc>>
    BY <1>1, <2>2 DEF Goto, connVars
  <2> QED
    BY <1>10, <2>1, <2>2 DEF Connect
<1>11. CASE SendRequest(t)
  BY <1>2, <1>3, <1>11 DEF SendRequest
<1>12. CASE RecvHeaders(t)
  <2>1. PICK n, len : /\ expect' = [expect EXCEPT ![t] = len]
                      /\ recvd' = [recvd EXCEPT ![t] = n]
                      /\ buf' = [buf EXCEPT ![t] = Bytes(0, n)]
    BY <1>12 DEF RecvHeaders
  <2> QED
    BY <1>1, <1>12, <2>1 DEF RecvHeaders, Goto, sockVars
<1>13. CASE Insert(t) \/ InsertLru(t) \/ Complete(t)
  BY <1>1, <1>13 DEF Insert, InsertLru, Complete, Goto, connVars, sockVars
<1>14. CASE AppendFirst(t) \/ AppendBody(t) \/ CancelThenRelease(t)
              \/ ReleaseThenCancel(t)
  BY <1>2, <1>14
     DEF AppendFirst, AppendBody, CancelThenRelease, ReleaseThenCancel
<1>15. ASSUME NEW p, Finish(t, p)
       PROVE  FrameKept(w)
  BY <1>2, <1>3, <1>15 DEF Finish
<1>16. CASE Sent(t)
  <2>1. CASE Finish(t, "complete")
    BY <1>15, <2>1
  <2>2. CASE /\ Goto(t, "recv_body")
             /\ buf' = [buf EXCEPT ![t] = <<>>]
             /\ UNCHANGED <<req, expect, recvd, sent, entry, sockVars,
                            searchCreateMutex, resp, main_pc>>
    BY <1>1, <2>2 DEF Goto, sockVars
  <2> QED
    BY <1>16, <2>1, <2>2 DEF Sent
<1>17. CASE SendFails(t) \/ RemoteCloses(t) \/ RecvFails(t)
  BY <1>15, <1>17 DEF SendFails, RemoteCloses, RecvFails
<1>18. CASE RecvBody(t)
  <2>1. PICK n : /\ recvd' = [recvd EXCEPT ![t] = @ + n]
                 /\ buf' = [buf EXCEPT ![t] = Bytes(recvd[t], recvd[t] + n)]
    BY <1>18 DEF RecvBody
  <2> QED
    BY <1>1, <1>18, <2>1 DEF RecvBody, Goto, sockVars
<1> QED
  BY <1>4, <1>5, <1>6, <1>7, <1>8, <1>9, <1>10, <1>11, <1>12, <1>13, <1>14,
     <1>16, <1>17, <1>18
     DEF WorkerNext, SearchStep, ReaderStep, WriterStep, FinishStep

\* The steps of a worker that change the state, the bytes or the sleepers of
\* an entry.
Appends(t) ==
  /\ pc[t] \in {"append_first", "append_body"}
  /\ pc' = [pc EXCEPT ![t] = IF At(t, "append_first") THEN "send_first"
                                                      ELSE "send_body"]
  /\ cache_entry_append_chunk(entry[t], buf[t])
  /\ UNCHANGED procVars

Waits(t) ==
  /\ At(t, "read") \/ (At(t, "wait") /\ t \notin data_ready[entry[t]])
  /\ ReadMustWait(entry[t], Len(sent[t]))
  /\ cache_entry_read_wait(entry[t], t)
  /\ Goto(t, "wait")
  /\ UNCHANGED procVars

\* A worker's step leaves the entries' cells alone, or is one of these.
LEMMA CellSteps ==
  ASSUME NEW t \in Thread, WorkerNext(t)
  PROVE  \/ UNCHANGED <<state, data, total_size, data_ready>>
         \/ Waits(t) \/ ReadTimeout(t) \/ ReadSpurious(t)
         \/ Appends(t)
         \/ Complete(t) \/ CancelThenRelease(t) \/ Cancel(t)
         \/ Insert(t)
<1>1. UNCHANGED cacheVars => UNCHANGED <<state, data, total_size, data_ready>>
  BY DEF cacheVars, entryVars
<1>2. CASE SearchStep(t) \/ PollIn(t) \/ WorkerExit(t)
  BY <1>1, <1>2
     DEF SearchStep, PollIn, WorkerExit, RecvRequest, RejectRequest,
         LockSearchCreate, LookupHit, cache_lookup_hit, LookupMiss,
         cache_lookup_miss
<1>3. CASE ReaderStep(t)
  BY <1>1, <1>3
     DEF ReaderStep, ReadEntry, Waits, SendCached, ReaderRelease,
         cache_entry_release
<1>4. CASE AppendFirst(t) \/ AppendBody(t)
  BY <1>1, <1>4 DEF AppendFirst, AppendBody, AppendChunk, Appends, At, Goto
<1>5. CASE InsertLru(t)
  BY <1>5 DEF InsertLru, cache_insert_lru, entryVars
<1>6. CASE WriterStep(t) /\ ~Insert(t) /\ ~InsertLru(t)
             /\ ~AppendFirst(t) /\ ~AppendBody(t)
  BY <1>1, <1>6
     DEF WriterStep, Connect, SendRequest, RecvHeaders, RecvHeadersFails,
         InsertFails, Sent, SendFails, RecvBody, RemoteCloses, RecvFails
<1>7. CASE FinishStep(t)
  BY <1>7 DEF FinishStep, Release, ReleaseThenCancel, cache_entry_release
<1> QED
  BY <1>2, <1>3, <1>4, <1>5, <1>6, <1>7 DEF WorkerNext, WriterStep


-----------------------------------------------------------------------------
(* The sockets. *)

\* A worker's own step keeps its sockets in step with its pc.
LEMMA OwnSockets ==
  ASSUME TypeOK, EntryAtPc, NEW t \in Thread, WorkerNext(t),
         client[t] <=> pc[t] \notin {"idle", "exited"},
         remote[t] <=> pc[t] \in RemotePc
  PROVE  /\ client'[t] <=> pc'[t] \notin {"idle", "exited"}
         /\ remote'[t] <=> pc'[t] \in RemotePc
<1> USE DEF RemotePc, FillPc, FinishPc
<1>1. /\ pc \in [Thread -> Pc]
      /\ client \in [Thread -> BOOLEAN] /\ remote \in [Thread -> BOOLEAN]
  BY DEF TypeOK
<1>2. ASSUME NEW p, Goto(t, p), UNCHANGED procVars,
             pc[t] \notin {"idle", "exited"}, p \notin {"idle", "exited"},
             pc[t] \in RemotePc <=> p \in RemotePc
      PROVE  /\ client'[t] <=> pc'[t] \notin {"idle", "exited"}
             /\ remote'[t] <=> pc'[t] \in RemotePc
  BY <1>1, <1>2 DEF Goto, procVars, sockVars
<1>3. ASSUME Return(t), \/ DisconnectBoth(t)
                        \/ /\ DisconnectClient(t) /\ UNCHANGED remote
                           /\ pc[t] \notin RemotePc
      PROVE  /\ client'[t] <=> pc'[t] \notin {"idle", "exited"}
             /\ remote'[t] <=> pc'[t] \in RemotePc
  <2>1. pc'[t] = "idle" /\ client'[t] = FALSE /\ remote'[t] = FALSE
    BY <1>1, <1>3 DEF Goto, Return, DisconnectClient, DisconnectBoth
  <2> QED
    BY <2>1
<1>4. ASSUME NEW p, pc' = [pc EXCEPT ![t] = p], UNCHANGED sockVars,
             pc[t] \notin {"idle", "exited"}, p \notin {"idle", "exited"},
             pc[t] \in RemotePc <=> p \in RemotePc
      PROVE  /\ client'[t] <=> pc'[t] \notin {"idle", "exited"}
             /\ remote'[t] <=> pc'[t] \in RemotePc
  BY <1>1, <1>4 DEF sockVars
<1>5. CASE PollIn(t)
  <2>1. pc[t] = "idle" /\ pc'[t] = "request" /\ client'[t] = TRUE
        /\ remote' = remote
    BY <1>1, <1>5 DEF PollIn, At, Goto
  <2> QED
    BY <2>1
<1>6. CASE WorkerExit(t)
  BY <1>1, <1>6 DEF WorkerExit, At, Goto, procVars, sockVars
<1>7. CASE RecvRequest(t) \/ LockSearchCreate(t) \/ LookupHit(t)
  BY <1>4, <1>7 DEF RecvRequest, LockSearchCreate, LookupHit, At, Goto
<1>8. CASE LookupMiss(t) \/ ReadTimeout(t)
  BY <1>2, <1>8 DEF LookupMiss, ReadTimeout, At
<1>9. CASE RejectRequest(t) \/ ReaderRelease(t)
  BY <1>3, <1>9 DEF RejectRequest, ReaderRelease, At
<1>10. CASE RecvHeadersFails(t) \/ InsertFails(t) \/ Release(t) \/ Cancel(t)
  BY <1>3, <1>10 DEF RecvHeadersFails, InsertFails, Release, Cancel
<1>11. CASE ReadEntry(t)
  <2>1. \E p \in ReaderPc : pc' = [pc EXCEPT ![t] = p]
    BY <1>11 DEF ReadEntry, Goto, ReaderPc
  <2>2. UNCHANGED sockVars
    BY <1>11 DEF ReadEntry, procVars
  <2> QED
    BY <1>4, <1>11, <2>1, <2>2 DEF ReadEntry, At, ReaderPc
<1>12. CASE ReadSpurious(t)
  BY <1>12 DEF ReadSpurious, procVars, sockVars
<1>13. CASE SendCached(t)
  BY <1>4, <1>13 DEF SendCached, At, Goto
<1>14. CASE Connect(t)
  <2>1. CASE DisconnectClient(t) /\ Return(t) /\ UNCHANGED remote
    BY <1>3, <1>14, <2>1 DEF Connect, At
  <2>2. CASE remote' = [remote EXCEPT ![t] = TRUE] /\ Goto(t, "send_request")
             /\ UNCHANGED client
    <3>1. /\ pc[t] = "connect" /\ pc'[t] = "send_request" /\ remote'[t] = TRUE
          /\ client' = client
      BY <1>1, <1>14, <2>2 DEF Connect, At, Goto
    <3> QED
      BY <3>1
  <2> QED
    BY <1>14, <2>1, <2>2 DEF Connect
<1>15. CASE SendRequest(t)
  BY <1>2, <1>3, <1>15 DEF SendRequest, At
<1>16. CASE RecvHeaders(t)
  BY <1>4, <1>16 DEF RecvHeaders, At, Goto
<1>17. CASE Insert(t) \/ InsertLru(t) \/ Complete(t)
  BY <1>4, <1>17 DEF Insert, InsertLru, Complete, At, Goto
<1>18. CASE AppendFirst(t) \/ AppendBody(t) \/ CancelThenRelease(t)
              \/ ReleaseThenCancel(t)
  BY <1>2, <1>18
     DEF AppendFirst, AppendBody, CancelThenRelease, ReleaseThenCancel, At
<1>19. ASSUME NEW p \in {"complete", "release_cancel", "cancel_release"},
              pc[t] \in {"send_first", "send_body", "recv_body"}, Finish(t, p)
       PROVE  /\ client'[t] <=> pc'[t] \notin {"idle", "exited"}
              /\ remote'[t] <=> pc'[t] \in RemotePc
  BY <1>2, <1>3, <1>19 DEF Finish
<1>20. CASE Sent(t) /\ ~Finish(t, "complete")
  BY <1>4, <1>20 DEF Sent, At, Goto
<1>21. CASE Sent(t) /\ Finish(t, "complete")
  BY <1>19, <1>21 DEF Sent
<1>22. CASE SendFails(t) \/ RemoteCloses(t) \/ RecvFails(t)
  BY <1>19, <1>22 DEF SendFails, RemoteCloses, RecvFails, At
<1>23. CASE RecvBody(t)
  BY <1>4, <1>23 DEF RecvBody, At, Goto
<1> HIDE DEF RemotePc
<1> QED
  BY <1>5, <1>6, <1>7, <1>8, <1>9, <1>10, <1>11, <1>12, <1>13, <1>14, <1>15,
     <1>16, <1>17, <1>18, <1>20, <1>21, <1>22, <1>23
     DEF WorkerNext, SearchStep, ReaderStep, WriterStep, FinishStep

\* The threads whose frame a step of the collector, of main or of nobody
\* keeps: all of them.
LEMMA OthersFrame ==
  ASSUME \/ CollectorNext /\ UNCHANGED <<pc, procVars>>
         \/ MainNext
         \/ UNCHANGED vars
  PROVE  /\ UNCHANGED <<pc, entry, expect, recvd, buf, sent, client, remote>>
         /\ UNCHANGED resp
         /\ \A w : FrameKept(w)
<1>1. UNCHANGED <<pc, connVars, entry, sockVars, resp>>
  BY DEF vars, procVars, MainNext, ThreadpoolShutdown, JoinWorkers,
         StopCollector, FreeCache
<1> QED
  BY <1>1 DEF FrameKept, connVars, sockVars

LEMMA StepSockets ==
  IInv /\ SocketsAtPc /\ [Next]_vars => SocketsAtPc'
<1> SUFFICES ASSUME IInv, SocketsAtPc, [Next]_vars
             PROVE  SocketsAtPc'
  OBVIOUS
<1>1. TypeOK /\ EntryAtPc
  BY DEF IInv, Control
<1>2. ASSUME NEW t \in Thread, WorkerNext(t)
      PROVE  SocketsAtPc'
  <2>1. /\ client'[t] <=> pc'[t] \notin {"idle", "exited"}
        /\ remote'[t] <=> pc'[t] \in RemotePc
    BY <1>1, <1>2, OwnSockets DEF SocketsAtPc
  <2>2. \A w \in Thread \ {t} : /\ pc'[w] = pc[w] /\ client'[w] = client[w]
                                /\ remote'[w] = remote[w]
    BY <1>1, <1>2, WorkerFrame DEF FrameKept
  <2>3. RemotePc' = RemotePc
    BY DEF RemotePc, FillPc, FinishPc
  <2> QED
    BY <2>1, <2>2, <2>3 DEF SocketsAtPc
<1>3. CASE ~\E t \in Thread : WorkerNext(t)
  BY <1>3, OthersFrame DEF SocketsAtPc, Next, Terminated, vars, RemotePc, FillPc, FinishPc
<1> QED
  BY <1>2, <1>3


-----------------------------------------------------------------------------
(* The cells of the entries. *)

\* What a step may do to the state and the bytes of an entry: nothing, append
\* the buffer of its writer, end it, or clear one that no request points to.
CellKept(e) ==
  state'[e] = state[e] /\ data'[e] = data[e] /\ total_size'[e] = total_size[e]

CellGrows(e, t) ==
  /\ pc[t] \in {"append_first", "append_body"} /\ entry[t] = e
  /\ Appends(t)
  /\ state[e] = "INCOMPLETE" /\ state'[e] = "INCOMPLETE"
  /\ data'[e] = data[e] \o buf[t]
  /\ total_size'[e] = total_size[e] + Len(buf[t])
  /\ data_ready'[e] = {}

CellEnds(e, t) ==
  /\ Complete(t) \/ CancelThenRelease(t) \/ Cancel(t)
  /\ entry[t] = e
  /\ state[e] = "INCOMPLETE"
  /\ state'[e] = IF Complete(t) THEN "COMPLETE" ELSE "CANCELLED"
  /\ data'[e] = data[e] /\ total_size'[e] = total_size[e]
  /\ data_ready'[e] = {}

CellCleared(e) ==
  /\ \A w \in Thread : entry[w] # e
  /\ state'[e] = "INCOMPLETE"
  /\ data'[e] = <<>> /\ total_size'[e] = 0
  /\ data_ready'[e] = {}

\* For a worker, by the step it takes.
LEMMA WorkerCells ==
  ASSUME IInv, NEW t \in Thread, WorkerNext(t), NEW e \in Entry
  PROVE  \/ CellKept(e)
         \/ CellGrows(e, t)
         \/ CellEnds(e, t)
         \/ CellCleared(e) /\ Insert(t)
<1>1. TypeOK /\ CacheTypeOK /\ EntryAtPc
  BY DEF IInv, TypeOK, Control
<1>2. CASE UNCHANGED <<state, data, total_size, data_ready>>
  BY <1>2 DEF CellKept
<1>3. CASE Waits(t) \/ ReadTimeout(t) \/ ReadSpurious(t)
  BY <1>3
     DEF Waits, ReadTimeout, ReadSpurious, cache_entry_read_wait,
         cache_entry_read_wake, CellKept
<1>4. CASE Appends(t)
  <2>1. entry[t] # NULL /\ Filling(t)
    BY <1>1, <1>4
       DEF Appends, EntryAtPc, WithEntryPc, Filling, UnfinishedPc, FillPc
  <2>2. state[entry[t]] = "INCOMPLETE" /\ entry[t] \in Entry
    BY <1>1, <2>1
       DEF IInv, Fillers, FillsIncomplete, TypeOK, EntryOrNull
  <2>3. /\ data' = [data EXCEPT ![entry[t]] = @ \o buf[t]]
        /\ total_size' = [total_size EXCEPT ![entry[t]] = @ + Len(buf[t])]
        /\ data_ready' = [data_ready EXCEPT ![entry[t]] = {}]
        /\ state' = state
    BY <1>4, <2>2 DEF Appends, cache_entry_append_chunk, Broadcast
  <2>4. CASE e = entry[t]
    BY <1>1, <1>4, <2>2, <2>3, <2>4 DEF CellGrows, CacheTypeOK, Appends
  <2>5. CASE e # entry[t]
    BY <1>1, <2>3, <2>5 DEF CellKept, CacheTypeOK
  <2> QED
    BY <2>4, <2>5
<1>5. CASE Complete(t) \/ CancelThenRelease(t) \/ Cancel(t)
  <2>1. entry[t] # NULL /\ Filling(t)
    BY <1>1, <1>5
       DEF Complete, CancelThenRelease, Cancel, At, EntryAtPc, WithEntryPc,
           FinishPc, Filling, UnfinishedPc
  <2>2. state[entry[t]] = "INCOMPLETE" /\ entry[t] \in Entry
    BY <1>1, <2>1
       DEF IInv, Fillers, FillsIncomplete, TypeOK, EntryOrNull
  <2>3. /\ state' = [state EXCEPT ![entry[t]] =
                       IF Complete(t) THEN "COMPLETE" ELSE "CANCELLED"]
        /\ data_ready' = [data_ready EXCEPT ![entry[t]] = {}]
        /\ UNCHANGED <<data, total_size>>
    <3>1. Complete(t) => ~CancelThenRelease(t) /\ ~Cancel(t)
      BY DEF Complete, CancelThenRelease, Cancel, At
    <3>2. CASE Complete(t)
      BY <3>2 DEF Complete, cache_entry_complete, Broadcast
    <3>3. CASE CancelThenRelease(t) \/ Cancel(t)
      BY <3>1, <3>3 DEF CancelThenRelease, Cancel, cache_entry_cancel, Broadcast
    <3> QED
      BY <1>5, <3>2, <3>3
  <2>4. CASE e = entry[t]
    BY <1>1, <1>5, <2>2, <2>3, <2>4 DEF CellEnds, CacheTypeOK
  <2>5. CASE e # entry[t]
    BY <1>1, <2>3, <2>5 DEF CellKept, CacheTypeOK
  <2> QED
    BY <2>4, <2>5
<1>6. CASE Insert(t)
  <2>1. PICK f \in Entry : cache_insert(f, req[t])
    BY <1>6 DEF Insert
  <2>2. \A w \in Thread : entry[w] # f
    BY <2>1, HttpCacheAssumption
       DEF cache_insert, IInv, References, NoDanglingEntry
  <2>3. CASE e = f
    BY <1>1, <1>6, <2>1, <2>2, <2>3 DEF CellCleared, cache_insert, CacheTypeOK
  <2>4. CASE e # f
    BY <1>1, <2>1, <2>4 DEF CellKept, cache_insert, CacheTypeOK
  <2> QED
    BY <2>3, <2>4
<1> QED
  BY <1>2, <1>3, <1>4, <1>5, <1>6, CellSteps

\* For the collector and main.
LEMMA OtherCells ==
  ASSUME IInv, NEW e \in Entry,
         \/ CollectorNext /\ UNCHANGED <<pc, procVars>>
         \/ MainNext
         \/ UNCHANGED vars
  PROVE  \/ CellKept(e) /\ data_ready'[e] = data_ready[e]
         \/ CellCleared(e)
<1>1. TypeOK /\ CacheTypeOK /\ EntryAtPc
  BY DEF IInv, TypeOK, Control
<1>2. CASE UNCHANGED <<state, data, total_size, data_ready>>
  BY <1>2 DEF CellKept
<1>3. CASE cleanup_remove
  <2>1. PICK v : v = Visited
    OBVIOUS
  <2>2. /\ state' = [state EXCEPT ![v] = "INCOMPLETE"]
        /\ data' = [data EXCEPT ![v] = <<>>]
        /\ total_size' = [total_size EXCEPT ![v] = 0]
        /\ data_ready' = [data_ready EXCEPT ![v] = {}]
    BY <1>3, <2>1 DEF cleanup_remove
  <2>3. \A w \in Thread : entry[w] # v
    BY <1>3, <2>1, RemoveUnreferenced
  <2>4. CASE e = v
    BY <1>1, <2>2, <2>3, <2>4 DEF CellCleared, CacheTypeOK
  <2>5. CASE e # v
    BY <1>1, <2>2, <2>5 DEF CellKept, CacheTypeOK
  <2> QED
    BY <2>4, <2>5
<1>4. CASE FreeCache
  <2>1. \A w \in Thread : entry[w] = NULL
    BY <1>1, <1>4
       DEF FreeCache, IInv, Control, ExitedAtEnd, EntryAtPc, NoEntryPc, At
  <2> QED
    BY <1>4, <2>1, HttpCacheAssumption
       DEF FreeCache, http_cache_shutdown_free, CellCleared
<1>5. CASE CollectorNext /\ ~cleanup_remove
  BY <1>2, <1>5
     DEF CollectorNext, collector_wait, collector_timeout, collector_check,
         cleanup_lock_bucket, cleanup_keep, cleanup_unlock_bucket, entryVars
<1>6. CASE ThreadpoolShutdown \/ JoinWorkers \/ StopCollector \/ UNCHANGED vars
  BY <1>2, <1>6
     DEF ThreadpoolShutdown, JoinWorkers, StopCollector, cacheVars, entryVars,
         http_cache_shutdown_stop, vars
<1> QED
  BY <1>3, <1>4, <1>5, <1>6 DEF MainNext

\* total_size keeps counting the bytes.
LEMMA StepSizes == IInv /\ SizesExact /\ [Next]_vars => SizesExact'
<1> SUFFICES ASSUME IInv, SizesExact, [Next]_vars, NEW e \in Entry
             PROVE  total_size'[e] = Len(data'[e])
  BY DEF SizesExact
<1>1. total_size[e] = Len(data[e]) /\ data[e] \in Seq(Nat)
  BY DEF SizesExact, IInv, TypeOK, CacheTypeOK
<1>2. ASSUME NEW t \in Thread, CellGrows(e, t)
      PROVE  total_size'[e] = Len(data'[e])
  <2>1. buf[t] \in Seq(Nat)
    BY DEF IInv, TypeOK
  <2> QED
    BY <1>1, <1>2, <2>1 DEF CellGrows
<1>3. ASSUME CellKept(e) \/ CellCleared(e) \/ \E t \in Thread : CellEnds(e, t)
      PROVE  total_size'[e] = Len(data'[e])
  BY <1>1, <1>3 DEF CellKept, CellCleared, CellEnds
<1>4. CASE \E t \in Thread : WorkerNext(t)
  BY <1>2, <1>3, <1>4, WorkerCells
<1>5. CASE ~\E t \in Thread : WorkerNext(t)
  BY <1>3, <1>5, OtherCells DEF Next, Terminated
<1> QED
  BY <1>4, <1>5


-----------------------------------------------------------------------------
(* The sleepers. *)

\* A thread that waits can only read again or be woken.
LEMMA WaitingSteps ==
  ASSUME NEW t \in Thread, WorkerNext(t), At(t, "wait")
  PROVE  ReadEntry(t) \/ ReadTimeout(t) \/ ReadSpurious(t)
<1> USE DEF At
<1>1. ~(PollIn(t) \/ WorkerExit(t) \/ SearchStep(t))
  BY DEF PollIn, WorkerExit, SearchStep, RecvRequest, RejectRequest,
         LockSearchCreate, LookupHit, LookupMiss
<1>2. ~(SendCached(t) \/ ReaderRelease(t) \/ FinishStep(t))
  BY DEF SendCached, ReaderRelease, FinishStep, Complete, Release,
         CancelThenRelease, ReleaseThenCancel, Cancel
<1>3. ~WriterStep(t)
  BY DEF WriterStep, Connect, SendRequest, RecvHeaders, RecvHeadersFails, Insert,
         InsertFails, InsertLru, AppendFirst, AppendBody, Sent, SendFails,
         RecvBody, RemoteCloses, RecvFails
<1> QED
  BY <1>1, <1>2, <1>3 DEF WorkerNext, ReaderStep

\* A thread on the condition variable takes no step but to leave it.
LEMMA SleeperLeaves ==
  ASSUME IInv, SleeperHasNothingToRead, NEW t \in Thread, WorkerNext(t),
         NEW e \in Entry, t \in data_ready[e]
  PROVE  t \notin data_ready'[e]
<1>1. At(t, "wait") /\ entry[t] = e /\ data_ready \in [Entry -> SUBSET Thread]
  BY DEF SleeperHasNothingToRead, IInv, TypeOK, CacheTypeOK
<1>2. ~ReadEntry(t)
  BY <1>1 DEF ReadEntry, At
<1>3. data_ready' = [data_ready EXCEPT ![e] = @ \ {t}]
  BY <1>1, <1>2, WaitingSteps
     DEF ReadTimeout, ReadSpurious, cache_entry_read_wake
<1> QED
  BY <1>1, <1>3

\* Who sleeps after a worker's step slept before it, or has just found
\* nothing to read.
LEMMA WorkerSleepers ==
  ASSUME IInv, NEW t \in Thread, WorkerNext(t), NEW e \in Entry, CellKept(e)
  PROVE  \/ data_ready'[e] \subseteq data_ready[e]
         \/ /\ data_ready'[e] = data_ready[e] \cup {t}
            /\ pc'[t] = "wait" /\ entry[t] = e /\ entry'[t] = e
            /\ sent'[t] = sent[t]
            /\ ReadMustWait(e, Len(sent[t]))
<1>1. /\ data_ready \in [Entry -> SUBSET Thread] /\ pc \in [Thread -> Pc]
  BY DEF IInv, TypeOK, CacheTypeOK
<1>2. CASE UNCHANGED data_ready
  BY <1>2
<1>3. CASE Waits(t)
  <2>1. /\ data_ready' = [data_ready EXCEPT ![entry[t]] = @ \cup {t}]
        /\ pc' = [pc EXCEPT ![t] = "wait"]
        /\ UNCHANGED <<entry, sent>>
        /\ ReadMustWait(entry[t], Len(sent[t]))
    BY <1>3 DEF Waits, cache_entry_read_wait, Goto, procVars, connVars
  <2> QED
    BY <1>1, <2>1
<1>4. CASE ReadTimeout(t) \/ ReadSpurious(t)
  BY <1>1, <1>4 DEF ReadTimeout, ReadSpurious, cache_entry_read_wake
<1>5. CASE \E f \in Entry \cup {NULL} : data_ready' = [data_ready EXCEPT ![f] = {}]
  BY <1>1, <1>5
<1>6. entry[t] \in Entry \cup {NULL}
  BY DEF IInv, TypeOK, EntryOrNull
<1>7. CASE Appends(t)
  BY <1>2, <1>5, <1>6, <1>7 DEF Appends, cache_entry_append_chunk, Broadcast
<1>8. CASE Complete(t) \/ CancelThenRelease(t) \/ Cancel(t)
  BY <1>5, <1>6, <1>8
     DEF Complete, CancelThenRelease, Cancel, cache_entry_complete,
         cache_entry_cancel, Broadcast
<1>9. CASE Insert(t)
  BY <1>5, <1>9 DEF Insert, cache_insert
<1> QED
  BY <1>2, <1>3, <1>4, <1>7, <1>8, <1>9, CellSteps

LEMMA StepSleepers ==
  IInv /\ SleeperHasNothingToRead /\ [Next]_vars => SleeperHasNothingToRead'
<1> SUFFICES ASSUME IInv, SleeperHasNothingToRead, [Next]_vars,
                    NEW e \in Entry, NEW w \in data_ready'[e]
             PROVE  /\ pc'[w] = "wait" /\ entry'[w] = e
                    /\ Len(sent'[w]) >= total_size'[e]
                    /\ state'[e] = "INCOMPLETE"
  BY DEF SleeperHasNothingToRead, At, ReadMustWait
<1>1. TypeOK /\ TypeOK' /\ w \in Thread
  <2>1. TypeOK /\ TypeOK'
    BY StepTypeOK DEF IInv
  <2>2. data_ready' \in [Entry -> SUBSET Thread]
    BY <2>1 DEF TypeOK, CacheTypeOK
  <2> QED
    BY <2>1, <2>2
<1>2. ASSUME w \in data_ready[e]
      PROVE  /\ pc[w] = "wait" /\ entry[w] = e
             /\ Len(sent[w]) >= total_size[e]
             /\ state[e] = "INCOMPLETE"
  BY <1>2 DEF SleeperHasNothingToRead, At, ReadMustWait
<1>3. ASSUME NEW t \in Thread, WorkerNext(t)
      PROVE  /\ pc'[w] = "wait" /\ entry'[w] = e
             /\ Len(sent'[w]) >= total_size'[e]
             /\ state'[e] = "INCOMPLETE"
  <2>1. CellKept(e)
    BY <1>3, WorkerCells DEF CellGrows, CellEnds, CellCleared
  <2>2. CASE w \in data_ready[e]
    <3>1. w # t
      BY <1>1, <1>3, <2>2, SleeperLeaves
    <3>2. FrameKept(w)
      BY <1>1, <1>3, <3>1, WorkerFrame
    <3> QED
      BY <1>2, <2>1, <2>2, <3>2 DEF FrameKept, CellKept
  <2>3. CASE w \notin data_ready[e]
    <3>1. /\ w = t /\ pc'[t] = "wait" /\ entry'[t] = e /\ sent'[t] = sent[t]
          /\ ReadMustWait(e, Len(sent[t]))
      BY <1>3, <2>1, <2>3, WorkerSleepers
    <3> QED
      BY <2>1, <3>1 DEF ReadMustWait, CellKept
  <2> QED
    BY <2>2, <2>3
<1>4. CASE ~\E t \in Thread : WorkerNext(t)
  <2>1. \/ CollectorNext /\ UNCHANGED <<pc, procVars>>
        \/ MainNext
        \/ UNCHANGED vars
    BY <1>4 DEF Next, Terminated
  <2>2. CellKept(e) /\ data_ready'[e] = data_ready[e]
    BY <2>1, OtherCells DEF CellCleared
  <2>3. FrameKept(w)
    BY <2>1, OthersFrame
  <2> QED
    BY <1>2, <2>2, <2>3 DEF FrameKept, CellKept
<1> QED
  BY <1>3, <1>4


-----------------------------------------------------------------------------
(* What the readers send. *)

\* A prefix, byte by byte.
LEMMA PrefixBytes ==
  ASSUME NEW s \in Seq(Nat), NEW d \in Seq(Nat)
  PROVE  IsPrefix(s, d) <=> /\ Len(s) <= Len(d)
                            /\ \A i \in 1 .. Len(s) : s[i] = d[i]
<1> SUFFICES ASSUME Len(s) <= Len(d)
             PROVE  SubSeq(s, 1, Len(s)) = SubSeq(d, 1, Len(s))
                      <=> \A i \in 1 .. Len(s) : s[i] = d[i]
  BY DEF IsPrefix
<1> DEFINE p == SubSeq(s, 1, Len(s))
           q == SubSeq(d, 1, Len(s))
<1>1. Len(s) \in Nat /\ Len(d) \in Nat
  OBVIOUS
<1>2. \A i \in 1 .. Len(s) : s[i] \in Nat /\ d[i] \in Nat
  <2>1. \A i \in 1 .. Len(s) : i \in 1 .. Len(d)
    BY <1>1
  <2> QED
    BY <2>1
<1>3. /\ p \in Seq(Nat) /\ Len(p) = Len(s)
      /\ \A i \in 1 .. Len(s) : p[i] = s[i]
  BY <1>1, <1>2, SubSeqProperties
<1>4. /\ q \in Seq(Nat) /\ Len(q) = Len(s)
      /\ \A i \in 1 .. Len(s) : q[i] = d[i]
  BY <1>1, <1>2, SubSeqProperties
<1> HIDE DEF p, q
<1>5. p = q <=> \A i \in 1 .. Len(s) : p[i] = q[i]
  BY <1>3, <1>4, SeqEqual
<1>6. p = q <=> \A i \in 1 .. Len(s) : s[i] = d[i]
  BY <1>3, <1>4, <1>5
<1> QED
  BY <1>6 DEF p, q

\* A prefix stays one when bytes are appended.
LEMMA PrefixGrows ==
  ASSUME NEW s \in Seq(Nat), NEW d \in Seq(Nat), NEW x \in Seq(Nat),
         IsPrefix(s, d)
  PROVE  IsPrefix(s, d \o x)
<1>1. d \o x \in Seq(Nat) /\ Len(d \o x) >= Len(d)
  OBVIOUS
<1>2. \A i \in 1 .. Len(d) : (d \o x)[i] = d[i]
  OBVIOUS
<1>3. Len(s) <= Len(d) /\ \A i \in 1 .. Len(s) : s[i] = d[i]
  BY PrefixBytes
<1>4. Len(s) <= Len(d \o x) /\ \A i \in 1 .. Len(s) : s[i] = (d \o x)[i]
  BY <1>1, <1>2, <1>3
<1> QED
  BY <1>1, <1>4, PrefixBytes

\* A prefix of a prefix is one, and nothing is a prefix of everything.
LEMMA PrefixHead ==
  ASSUME NEW s \in Seq(Nat), NEW d \in Seq(Nat), NEW b \in Seq(Nat),
         IsPrefix(s \o b, d)
  PROVE  IsPrefix(s, d)
<1> DEFINE c == s \o b
<1>1. /\ c \in Seq(Nat) /\ Len(c) = Len(s) + Len(b)
      /\ \A i \in 1 .. Len(s) + Len(b) :
           c[i] = IF i <= Len(s) THEN s[i] ELSE b[i - Len(s)]
  BY ConcatProperties
<1> HIDE DEF c
<1>2. Len(c) <= Len(d) /\ \A i \in 1 .. Len(c) : c[i] = d[i]
  BY <1>1, PrefixBytes DEF c
<1>3. Len(s) \in Nat /\ Len(b) \in Nat /\ Len(d) \in Nat
  OBVIOUS
<1>4. Len(s) <= Len(c) /\ Len(s) <= Len(d)
  BY <1>1, <1>2, <1>3
<1>5. \A i \in 1 .. Len(s) : i \in 1 .. Len(c) /\ c[i] = s[i]
  BY <1>1, <1>3
<1>6. \A i \in 1 .. Len(s) : s[i] = d[i]
  BY <1>2, <1>5
<1> QED
  BY <1>4, <1>6, PrefixBytes

LEMMA PrefixEmpty == \A d \in Seq(Nat) : IsPrefix(<<>>, d)
<1>1. <<>> \in Seq(Nat) /\ Len(<<>>) = 0
  OBVIOUS
<1>2. \A d \in Seq(Nat) : Len(<<>>) <= Len(d)
  BY <1>1
<1>3. \A i \in 1 .. Len(<<>>) : FALSE
  BY <1>1
<1> QED
  BY <1>1, <1>2, <1>3, PrefixBytes

\* What cache_entry_read copies continues what was sent; it copies nothing
\* only when everything was sent.
LEMMA PrefixRead ==
  ASSUME NEW s \in Seq(Nat), NEW d \in Seq(Nat), NEW n \in Nat \ {0},
         IsPrefix(s, d)
  PROVE  /\ Slice(d, Len(s), n) \in Seq(Nat)
         /\ IsPrefix(s \o Slice(d, Len(s), n), d)
         /\ Slice(d, Len(s), n) = <<>> => s = d
<1> DEFINE l == IF Len(s) + n < Len(d) THEN Len(s) + n ELSE Len(d)
           b == SubSeq(d, Len(s) + 1, l)
<1>1. Len(s) <= Len(d) /\ \A i \in 1 .. Len(s) : s[i] = d[i]
  BY PrefixBytes
<1>2. l \in Nat /\ Len(s) <= l /\ l <= Len(d) /\ (l = Len(s) => Len(s) = Len(d))
  BY <1>1
<1>3. \A i \in Len(s) + 1 .. l : d[i] \in Nat
  <2>1. \A i \in Len(s) + 1 .. l : i \in 1 .. Len(d)
    BY <1>2
  <2> QED
    BY <2>1
<1> HIDE DEF l
<1>4. /\ b \in Seq(Nat)
      /\ Len(b) = l - Len(s)
      /\ \A i \in 1 .. l - Len(s) : b[i] = d[Len(s) + i]
  BY <1>2, <1>3, SubSeqProperties
<1>5. Slice(d, Len(s), n) = b
  BY DEF Slice, l
<1> HIDE DEF b
<1>6. /\ s \o b \in Seq(Nat) /\ Len(s \o b) = l
      /\ \A i \in 1 .. l : (s \o b)[i] = d[i]
  <2>1. /\ s \o b \in Seq(Nat)
        /\ Len(s \o b) = Len(s) + Len(b)
        /\ \A i \in 1 .. Len(s) + Len(b) : (s \o b)[i] =
             IF i <= Len(s) THEN s[i] ELSE b[i - Len(s)]
    BY <1>4, ConcatProperties
  <2>2. Len(s) + Len(b) = l
    BY <1>2, <1>4
  <2>3. \A i \in 1 .. l : i > Len(s) => b[i - Len(s)] = d[i]
    BY <1>2, <1>4
  <2>4. \A i \in 1 .. l : i <= Len(s) => s[i] = d[i]
    BY <1>1, <1>2
  <2> QED
    BY <1>2, <2>1, <2>2, <2>3, <2>4
<1>7. IsPrefix(s \o b, d)
  BY <1>2, <1>6, PrefixBytes
<1>8. b = <<>> => s = d
  <2>1. b = <<>> => Len(s) = Len(d)
    BY <1>2, <1>4
  <2> QED
    BY <1>1, <2>1, SeqEqual
<1> QED
  BY <1>4, <1>5, <1>7, <1>8

\* What ReaderBuffer and ReaderStream say of one thread.
EmptyPc == {"idle", "request", "exited", "lock", "lookup", "read", "wait",
            "served", "failed"}
OwnBuffer(t) ==
  /\ pc[t] \in EmptyPc => buf[t] = <<>>
  /\ pc[t] \notin ReaderPc => sent[t] = <<>>
OwnStream(t) ==
  pc[t] \in ReaderPc =>
    /\ IsPrefix(sent[t] \o buf[t], data[entry[t]])
    /\ At(t, "served") => /\ state[entry[t]] = "COMPLETE"
                          /\ sent[t] = data[entry[t]]


\* A worker's own step keeps its buffer in step with its pc.
LEMMA OwnBufferKept ==
  ASSUME TypeOK, EntryAtPc, NEW t \in Thread, WorkerNext(t), OwnBuffer(t)
  PROVE  OwnBuffer(t)'
<1> USE DEF OwnBuffer
<1>1. /\ pc \in [Thread -> Pc]
      /\ buf \in [Thread -> Seq(Nat)] /\ sent \in [Thread -> Seq(Nat)]
  BY DEF TypeOK
<1>2. ASSUME Return(t)
      PROVE  OwnBuffer(t)'
  BY <1>1, <1>2 DEF Return
<1>3. ASSUME NEW p, pc' = [pc EXCEPT ![t] = p], UNCHANGED <<buf, sent>>,
             p \in EmptyPc => pc[t] \in EmptyPc,
             p \notin ReaderPc => pc[t] \notin ReaderPc
      PROVE  OwnBuffer(t)'
  <2>1. pc'[t] = p /\ buf' = buf /\ sent' = sent
    BY <1>1, <1>3
  <2> QED
    BY <1>3, <2>1 DEF EmptyPc, ReaderPc
<1>4. ASSUME NEW p, pc' = [pc EXCEPT ![t] = p], sent' = sent,
             pc[t] \notin ReaderPc, p \notin EmptyPc
      PROVE  OwnBuffer(t)'
  <2>1. pc'[t] = p
    BY <1>1, <1>4
  <2> QED
    BY <1>4, <2>1 DEF EmptyPc, ReaderPc
<1>5. UNCHANGED procVars => UNCHANGED <<buf, sent>>
  BY DEF procVars, connVars
<1> USE DEF EmptyPc, ReaderPc, At, Goto
<1>6. CASE PollIn(t) \/ WorkerExit(t) \/ LookupMiss(t)
  BY <1>3, <1>4, <1>5, <1>6
     DEF PollIn, WorkerExit, LookupMiss, connVars
<1>7. CASE RecvRequest(t) \/ LockSearchCreate(t) \/ LookupHit(t)
  BY <1>3, <1>7 DEF RecvRequest, LockSearchCreate, LookupHit, connVars
<1>8. CASE RejectRequest(t) \/ ReaderRelease(t) \/ RecvHeadersFails(t)
             \/ InsertFails(t) \/ Release(t) \/ Cancel(t)
  BY <1>2, <1>8
     DEF RejectRequest, ReaderRelease, RecvHeadersFails, InsertFails, Release,
         Cancel
<1>9. CASE ReadEntry(t)
  <2>1. CASE Goto(t, "wait") /\ UNCHANGED procVars
    BY <1>3, <1>5, <1>9, <2>1 DEF ReadEntry
  <2>2. CASE Goto(t, "failed") /\ UNCHANGED procVars
    BY <1>3, <1>5, <1>9, <2>2 DEF ReadEntry
  <2>3. CASE \E b : /\ buf' = [buf EXCEPT ![t] = b]
                    /\ Goto(t, IF b = <<>> THEN "served" ELSE "send_cached")
                    /\ UNCHANGED sent
    BY <1>1, <2>3
  <2> QED
    BY <1>9, <2>1, <2>2, <2>3 DEF ReadEntry
<1>10. CASE ReadTimeout(t)
  BY <1>3, <1>5, <1>10 DEF ReadTimeout
<1>11. CASE ReadSpurious(t)
  BY <1>5, <1>11 DEF ReadSpurious
<1>12. CASE SendCached(t)
  BY <1>1, <1>12 DEF SendCached
<1>13. CASE Connect(t) \/ SendRequest(t)
  BY <1>2, <1>4, <1>5, <1>13 DEF Connect, SendRequest, connVars
<1>14. CASE RecvHeaders(t) \/ Insert(t) \/ InsertLru(t)
  BY <1>4, <1>14 DEF RecvHeaders, Insert, InsertLru, connVars
<1>15. CASE AppendFirst(t) \/ AppendBody(t) \/ Complete(t)
              \/ CancelThenRelease(t) \/ ReleaseThenCancel(t)
  BY <1>4, <1>5, <1>15
     DEF AppendFirst, AppendBody, Complete, CancelThenRelease,
         ReleaseThenCancel, connVars
<1>16. ASSUME NEW p \in {"complete", "release_cancel", "cancel_release"},
              pc[t] \in {"send_first", "send_body", "recv_body"}, Finish(t, p)
       PROVE  OwnBuffer(t)'
  BY <1>2, <1>4, <1>5, <1>16 DEF Finish
<1>17. CASE Sent(t)
  BY <1>4, <1>16, <1>17 DEF Sent
<1>18. CASE SendFails(t) \/ RemoteCloses(t) \/ RecvFails(t)
  BY <1>16, <1>18 DEF SendFails, RemoteCloses, RecvFails
<1>19. CASE RecvBody(t)
  BY <1>4, <1>19 DEF RecvBody
<1> HIDE DEF OwnBuffer
<1> QED
  BY <1>6, <1>7, <1>8, <1>9, <1>10, <1>11, <1>12, <1>13, <1>14, <1>15, <1>17,
     <1>18, <1>19
     DEF WorkerNext, SearchStep, ReaderStep, WriterStep, FinishStep


\* A reader's own step continues its stream.
LEMMA OwnStreamKept ==
  ASSUME IInv, SizesExact, NEW t \in Thread, WorkerNext(t), OwnBuffer(t),
         OwnStream(t)
  PROVE  OwnStream(t)'
<1>1. /\ pc \in [Thread -> Pc] /\ entry \in [Thread -> EntryOrNull]
      /\ buf \in [Thread -> Seq(Nat)] /\ sent \in [Thread -> Seq(Nat)]
      /\ data \in [Entry -> Seq(Nat)] /\ state \in [Entry -> State]
  BY DEF IInv, TypeOK, CacheTypeOK
<1>2. pc[t] \in ReaderPc => entry[t] \in Entry
  BY <1>1 DEF IInv, Control, EntryAtPc, WithEntryPc, EntryOrNull
<1>3. sent[t] \in Seq(Nat) /\ buf[t] \in Seq(Nat)
  BY <1>1
<1>4. \A s \in Seq(Nat) : s \o <<>> = s
  OBVIOUS
<1>5. ASSUME pc'[t] \notin ReaderPc
      PROVE  OwnStream(t)'
  BY <1>5 DEF OwnStream, ReaderPc
<1>6. UNCHANGED procVars => UNCHANGED <<buf, sent, entry>>
  BY DEF procVars, connVars
\* The bytes in hand and the entry stay the same.
<1>7. ASSUME NEW p \in {"read", "wait", "failed"}, pc' = [pc EXCEPT ![t] = p],
             pc[t] \in ReaderPc, UNCHANGED <<buf, sent, entry, data>>
      PROVE  OwnStream(t)'
  BY <1>1, <1>7 DEF OwnStream, At
<1>8. CASE LookupHit(t)
  <2>1. PICK f \in live : /\ entry' = [entry EXCEPT ![t] = f]
                          /\ cache_lookup_hit(req[t], f)
    BY <1>8 DEF LookupHit
  <2>2. /\ pc'[t] = "read" /\ entry'[t] = f /\ data' = data
        /\ sent'[t] = <<>> /\ buf'[t] = <<>>
    BY <1>1, <1>8, <2>1
       DEF LookupHit, cache_lookup_hit, At, Goto, connVars, OwnBuffer, EmptyPc,
           ReaderPc
  <2>3. f \in Entry
    BY DEF IInv, TypeOK, CacheTypeOK
  <2>4. IsPrefix(<<>>, data[f])
    BY <1>1, <2>3, PrefixEmpty
  <2> QED
    BY <1>4, <2>2, <2>4 DEF OwnStream, At
<1>9. CASE ReadEntry(t)
  <2>1. pc[t] \in {"read", "wait"} /\ buf[t] = <<>> /\ entry[t] \in Entry
    BY <1>2, <1>9 DEF ReadEntry, At, ReaderPc, OwnBuffer, EmptyPc
  <2>2. IsPrefix(sent[t], data[entry[t]])
    <3>1. IsPrefix(sent[t] \o <<>>, data[entry[t]])
      BY <2>1 DEF OwnStream, ReaderPc
    <3> QED
      BY <1>3, <1>4, <3>1
  <2>3. CASE /\ cache_entry_read_wait(entry[t], t) /\ Goto(t, "wait")
             /\ UNCHANGED procVars
    BY <1>6, <1>7, <2>1, <2>3 DEF cache_entry_read_wait, Goto, ReaderPc
  <2>4. CASE Goto(t, "failed") /\ UNCHANGED <<cacheVars, procVars>>
    BY <1>6, <1>7, <2>1, <2>4 DEF Goto, ReaderPc, cacheVars, entryVars
  <2>5. CASE /\ ~ReadMustWait(entry[t], Len(sent[t]))
             /\ state[entry[t]] # "CANCELLED"
             /\ LET b == ReadBytes(entry[t], Len(sent[t]), BUFFER_SIZE)
                IN /\ buf' = [buf EXCEPT ![t] = b]
                   /\ Goto(t, IF b = <<>> THEN "served" ELSE "send_cached")
             /\ UNCHANGED <<cacheVars, req, expect, recvd, sent, entry, sockVars,
                            searchCreateMutex, resp, main_pc>>
    <3> DEFINE b == ReadBytes(entry[t], Len(sent[t]), BUFFER_SIZE)
    <3>1. /\ IsPrefix(sent[t] \o b, data[entry[t]])
          /\ b = <<>> => sent[t] = data[entry[t]]
      BY <1>1, <1>3, <2>1, <2>2, PrefixRead, ProxyAssumption DEF ReadBytes
    <3>2. /\ buf' = [buf EXCEPT ![t] = b]
          /\ pc' = [pc EXCEPT ![t] = IF b = <<>> THEN "served" ELSE "send_cached"]
      BY <2>5 DEF Goto
    <3> HIDE DEF b
    <3>3. /\ buf'[t] = b /\ UNCHANGED <<sent, entry, data, state>>
          /\ pc'[t] = IF b = <<>> THEN "served" ELSE "send_cached"
      BY <1>1, <2>5, <3>2 DEF cacheVars, entryVars
    <3>4. sent[t] = data[entry[t]] => state[entry[t]] = "COMPLETE"
      <4>1. ~(Len(sent[t]) >= total_size[entry[t]]
               /\ state[entry[t]] = "INCOMPLETE")
        BY <2>5 DEF ReadMustWait
      <4>2. total_size[entry[t]] = Len(data[entry[t]])
        BY <2>1 DEF SizesExact
      <4>3. state[entry[t]] \in {"INCOMPLETE", "COMPLETE"}
        BY <1>1, <2>1, <2>5 DEF State
      <4> QED
        BY <1>3, <4>1, <4>2, <4>3
    <3> QED
      BY <3>1, <3>3, <3>4 DEF OwnStream, At
  <2> QED
    BY <1>9, <2>3, <2>4, <2>5 DEF ReadEntry
<1>10. CASE ReadTimeout(t)
  BY <1>6, <1>7, <1>10
     DEF ReadTimeout, cache_entry_read_wake, At, Goto, ReaderPc
<1>11. CASE ReadSpurious(t)
  BY <1>6, <1>11 DEF ReadSpurious, cache_entry_read_wake, OwnStream, At
<1>12. CASE SendCached(t)
  <2>1. pc[t] = "send_cached" /\ entry[t] \in Entry /\ buf'[t] = <<>>
        /\ UNCHANGED <<entry, data>>
    BY <1>1, <1>2, <1>12
       DEF SendCached, At, ReaderPc, cacheVars, entryVars
  <2>2. IsPrefix(sent[t] \o buf[t], data[entry[t]]) /\ data[entry[t]] \in Seq(Nat)
    BY <1>1, <2>1 DEF OwnStream, ReaderPc
  <2>3. CASE sent' = [sent EXCEPT ![t] = @ \o buf[t]] /\ Goto(t, "read")
    <3>1. sent'[t] = sent[t] \o buf[t] /\ pc'[t] = "read"
      BY <1>1, <2>3 DEF Goto
    <3>2. sent'[t] \o buf'[t] = sent[t] \o buf[t]
      BY <1>3, <1>4, <2>1, <3>1
    <3> QED
      BY <2>1, <2>2, <3>1, <3>2 DEF OwnStream, At
  <2>4. CASE UNCHANGED sent /\ Goto(t, "failed")
    <3>1. pc'[t] = "failed" /\ sent'[t] \o buf'[t] = sent[t]
      BY <1>1, <1>3, <1>4, <2>1, <2>4 DEF Goto
    <3>2. IsPrefix(sent[t], data[entry[t]])
      BY <1>3, <2>2, PrefixHead
    <3> QED
      BY <2>1, <3>1, <3>2 DEF OwnStream, At
  <2> QED
    BY <1>12, <2>3, <2>4 DEF SendCached
<1>13. ASSUME ~(LookupHit(t) \/ ReadEntry(t) \/ ReadTimeout(t)
                  \/ ReadSpurious(t) \/ SendCached(t))
       PROVE  pc'[t] \notin ReaderPc
  <2> USE <1>1 DEF ReaderPc, At, Goto, Return, Finish
  <2>1. CASE PollIn(t) \/ WorkerExit(t) \/ SearchStep(t)
    BY <1>13, <2>1
       DEF PollIn, WorkerExit, SearchStep, RecvRequest, RejectRequest,
           LockSearchCreate, LookupMiss
  <2>2. CASE ReaderRelease(t) \/ FinishStep(t)
    BY <2>2
       DEF ReaderRelease, FinishStep, Complete, Release, CancelThenRelease,
           ReleaseThenCancel, Cancel
  <2>3. CASE WriterStep(t)
    BY <2>3
       DEF WriterStep, Connect, SendRequest, RecvHeaders, RecvHeadersFails,
           Insert, InsertFails, InsertLru, AppendFirst, AppendBody, Sent,
           SendFails, RecvBody, RemoteCloses, RecvFails
  <2> QED
    BY <1>13, <2>1, <2>2, <2>3 DEF WorkerNext, ReaderStep
<1> QED
  BY <1>5, <1>8, <1>9, <1>10, <1>11, <1>12, <1>13


\* Nor does a step disturb the stream of a reader that does not take it.
LEMMA OthersStreamKept ==
  ASSUME IInv, NEW w \in Thread, FrameKept(w), OwnStream(w),
         \A e \in Entry : \/ CellKept(e)
                          \/ \E t \in Thread : CellGrows(e, t)
                          \/ \E t \in Thread : CellEnds(e, t)
                          \/ CellCleared(e)
  PROVE  OwnStream(w)'
<1> SUFFICES ASSUME pc[w] \in ReaderPc
             PROVE  /\ IsPrefix(sent[w] \o buf[w], data'[entry[w]])
                    /\ pc[w] = "served" => /\ state'[entry[w]] = "COMPLETE"
                                           /\ sent[w] = data'[entry[w]]
  BY DEF FrameKept, OwnStream, At, ReaderPc
<1>1. PICK e \in Entry : e = entry[w]
  BY DEF IInv, TypeOK, EntryOrNull, Control, EntryAtPc, WithEntryPc
<1>2. /\ IsPrefix(sent[w] \o buf[w], data[e])
      /\ pc[w] = "served" => state[e] = "COMPLETE" /\ sent[w] = data[e]
  BY <1>1 DEF OwnStream, At
<1>3. CASE CellKept(e)
  BY <1>1, <1>2, <1>3 DEF CellKept
<1>4. ASSUME NEW t \in Thread, CellGrows(e, t)
      PROVE  /\ IsPrefix(sent[w] \o buf[w], data'[e]) /\ pc[w] # "served"
  <2>1. /\ sent[w] \o buf[w] \in Seq(Nat) /\ data[e] \in Seq(Nat)
        /\ buf[t] \in Seq(Nat)
    BY DEF IInv, TypeOK, CacheTypeOK
  <2> QED
    BY <1>2, <1>4, <2>1, PrefixGrows DEF CellGrows
<1>5. CASE \E t \in Thread : CellEnds(e, t)
  BY <1>1, <1>2, <1>5 DEF CellEnds
<1>6. ~CellCleared(e)
  BY <1>1 DEF CellCleared
<1> QED
  BY <1>1, <1>3, <1>4, <1>5, <1>6

-----------------------------------------------------------------------------
(* DInv is an invariant. *)

LEMMA InitDInv == Init => DInv
<1> SUFFICES ASSUME Init
             PROVE  DInv
  OBVIOUS
<1> USE DEF Init, http_cache_init
<1>1. SocketsAtPc
  BY DEF SocketsAtPc, RemotePc, FillPc, FinishPc
<1>2. SizesExact
  BY DEF SizesExact
<1>3. SleeperHasNothingToRead
  BY DEF SleeperHasNothingToRead
<1>4. ReaderBuffer /\ ReaderStream
  BY DEF ReaderBuffer, ReaderStream, ReaderPc
<1> QED
  BY <1>1, <1>2, <1>3, <1>4 DEF DInv

LEMMA OwnParts ==
  /\ ReaderBuffer <=> \A t \in Thread : OwnBuffer(t)
  /\ ReaderStream <=> \A t \in Thread : OwnStream(t)
BY DEF ReaderBuffer, OwnBuffer, EmptyPc, ReaderStream, OwnStream

LEMMA StepDInv == IInv /\ DInv /\ [Next]_vars => DInv'
<1> SUFFICES ASSUME IInv, DInv, [Next]_vars
             PROVE  DInv'
  OBVIOUS
<1>a. /\ SocketsAtPc /\ SizesExact /\ SleeperHasNothingToRead
      /\ \A t \in Thread : OwnBuffer(t) /\ OwnStream(t)
  BY OwnParts DEF DInv
<1>b. TypeOK /\ EntryAtPc
  BY DEF IInv, Control
<1>1. SocketsAtPc' /\ SizesExact' /\ SleeperHasNothingToRead'
  BY <1>a, StepSockets, StepSizes, StepSleepers
<1>2. ASSUME NEW w \in Thread
      PROVE  OwnBuffer(w)' /\ OwnStream(w)'
  <2>1. ASSUME FrameKept(w)
        PROVE  OwnBuffer(w)'
    BY <1>a, <2>1 DEF FrameKept, OwnBuffer, EmptyPc, ReaderPc
  <2>2. ASSUME NEW t \in Thread, WorkerNext(t)
        PROVE  OwnBuffer(w)' /\ OwnStream(w)'
    <3>1. CASE w = t
      <4>1. OwnBuffer(t) /\ OwnStream(t) /\ SizesExact
        BY <1>a
      <4>2. OwnBuffer(t)'
        BY <1>b, <2>2, <4>1, OwnBufferKept
      <4>3. OwnStream(t)'
        BY <2>2, <4>1, OwnStreamKept
      <4> QED
        BY <3>1, <4>2, <4>3
    <3>2. CASE w # t
      <4>1. FrameKept(w)
        BY <1>b, <2>2, <3>2, WorkerFrame
      <4>2. \A e \in Entry : \/ CellKept(e)
                             \/ CellGrows(e, t)
                             \/ CellEnds(e, t)
                             \/ CellCleared(e)
        BY <2>2, WorkerCells
      <4> QED
        BY <1>a, <2>1, <4>1, <4>2, OthersStreamKept
    <3> QED
      BY <3>1, <3>2
  <2>3. CASE ~\E t \in Thread : WorkerNext(t)
    <3>1. \/ CollectorNext /\ UNCHANGED <<pc, procVars>>
          \/ MainNext
          \/ UNCHANGED vars
      BY <2>3 DEF Next, Terminated
    <3>2. FrameKept(w)
      BY <3>1, OthersFrame
    <3>3. \A e \in Entry : CellKept(e) \/ CellCleared(e)
      BY <3>1, OtherCells
    <3> QED
      BY <1>a, <2>1, <3>2, <3>3, OthersStreamKept
  <2> QED
    BY <2>2, <2>3
<1>3. ReaderBuffer' /\ ReaderStream'
  BY <1>2 DEF ReaderBuffer, OwnBuffer, EmptyPc, ReaderStream, OwnStream
<1> QED
  BY <1>1, <1>3 DEF DInv

\* DInv is an invariant of the proxy.
THEOREM DataInvariance == Spec => []DInv
BY InitDInv, StepDInv, Invariance, PTL DEF Spec

\* Every return path of process_request closes both sockets, drops the
\* reference and gives searchCreateMutex back, whatever has failed.
THEOREM RequestsReturnClean == Spec => []ReturnsClean
<1>1. IInv /\ DInv => ReturnsClean
  BY DEF IInv, Control, EntryAtPc, MutexAtPc, NoEntryPc, DInv, SocketsAtPc,
         ReturnsClean, RemotePc, FillPc, FinishPc, SearchPc
<1> QED
  BY <1>1, Invariance, DataInvariance, PTL

\* No wakeup of a reader is lost: one that sleeps in cache_entry_read has
\* nothing to read and an unfinished entry, whatever its writer does.
THEOREM NoReaderOversleeps == Spec => []SleeperHasNothingToRead
<1>1. DInv => SleeperHasNothingToRead
  BY DEF DInv
<1> QED
  BY <1>1, DataInvariance, PTL

\* A hit sends a prefix of its entry while that is still being filled, and a
\* reader that ends without an error has sent the whole of a COMPLETE entry.
THEOREM ReadersStream == Spec => []ReaderStream
<1>1. DInv => ReaderStream
  BY DEF DInv
<1> QED
  BY <1>1, DataInvariance, PTL


-----------------------------------------------------------------------------
(* The bytes of the entries, when malloc succeeds and every response that   *)
(* is cached has a Content-Length.                                          *)

LEMMA BytesFacts ==
  ASSUME NEW m \in Nat, NEW n \in Nat, m <= n
  PROVE  /\ Bytes(m, n) \in Seq(Nat)
         /\ Len(Bytes(m, n)) = n - m
         /\ \A i \in 1 .. n - m : Bytes(m, n)[i] = m + i
<1>1. n - m \in Nat
  OBVIOUS
<1> QED
  BY <1>1, BytesType DEF Bytes

\* Two neighbouring stretches of a response make one.
LEMMA BytesJoin ==
  ASSUME NEW m \in Nat, NEW n \in Nat, m <= n
  PROVE  Bytes(0, m) \o Bytes(m, n) = Bytes(0, n)
<1> DEFINE a == Bytes(0, m)
           b == Bytes(m, n)
           c == Bytes(0, n)
<1>1. a \in Seq(Nat) /\ Len(a) = m /\ \A i \in 1 .. m : a[i] = i
  BY BytesFacts
<1>2. b \in Seq(Nat) /\ Len(b) = n - m /\ \A i \in 1 .. n - m : b[i] = m + i
  BY BytesFacts
<1>3. c \in Seq(Nat) /\ Len(c) = n /\ \A i \in 1 .. n : c[i] = i
  BY BytesFacts
<1> HIDE DEF a, b, c
<1>4. /\ a \o b \in Seq(Nat) /\ Len(a \o b) = Len(a) + Len(b)
      /\ \A i \in 1 .. Len(a) + Len(b) :
           (a \o b)[i] = IF i <= Len(a) THEN a[i] ELSE b[i - Len(a)]
  BY <1>1, <1>2, ConcatProperties
<1>5. Len(a) + Len(b) = n
  BY <1>1, <1>2
<1>6. \A i \in 1 .. n : i > m => i - m \in 1 .. n - m /\ b[i - m] = i
  BY <1>2
<1>7. \A i \in 1 .. n : (a \o b)[i] = c[i]
  <2> SUFFICES ASSUME NEW i \in 1 .. n
               PROVE  (a \o b)[i] = c[i]
    OBVIOUS
  <2>1. (a \o b)[i] = IF i <= m THEN a[i] ELSE b[i - m]
    BY <1>1, <1>4, <1>5
  <2>2. CASE i <= m
    <3>1. a[i] = i
      BY <1>1, <2>2
    <3> QED
      BY <1>3, <2>1, <2>2, <3>1
  <2>3. CASE i > m
    <3>1. ~(i <= m)
      BY <2>3
    <3> QED
      BY <1>3, <1>6, <2>1, <2>3, <3>1
  <2>4. i <= m \/ i > m
    OBVIOUS
  <2> QED
    BY <2>2, <2>3, <2>4
<1>8. Len(a \o b) = Len(c)
  BY <1>3, <1>4, <1>5
<1>9. a \o b = c
  BY <1>3, <1>4, <1>5, <1>7, <1>8, SeqEqual
<1> QED
  BY <1>9 DEF a, b, c

\* What BInv says of one writer.
OwnBytes(t) ==
  /\ At(t, "insert") => buf[t] = Bytes(0, recvd[t])
  /\ entry[t] # NULL =>
       /\ pc[t] \in PendingPc => /\ Len(data[entry[t]]) <= recvd[t]
                                 /\ buf[t] = Bytes(Len(data[entry[t]]), recvd[t])
       /\ pc[t] \in StoredPc => Len(data[entry[t]]) = recvd[t]
OwnLength(t) ==
  /\ At(t, "insert") => expect[t] # NoLength
  /\ pc[t] \in PendingPc \cup StoredPc /\ entry[t] # NULL =>
       expect[t] # NoLength /\ resp[entry[t]] = expect[t]
  /\ At(t, "complete") => recvd[t] >= expect[t]

\* The length an entry is to have is set when it is created, and perhaps when
\* it is completed.
LEMMA RespSteps ==
  ASSUME NEW t \in Thread, WorkerNext(t)
  PROVE  resp' = resp \/ Insert(t) \/ Complete(t)
<1> USE DEF procVars, Return
<1>1. CASE SearchStep(t) \/ PollIn(t) \/ WorkerExit(t)
  BY <1>1
     DEF SearchStep, PollIn, WorkerExit, RecvRequest, RejectRequest,
         LockSearchCreate, LookupHit, LookupMiss
<1>2. CASE ReaderStep(t)
  BY <1>2
     DEF ReaderStep, ReadEntry, ReadTimeout, ReadSpurious, SendCached,
         ReaderRelease
<1>3. CASE FinishStep(t)
  BY <1>3
     DEF FinishStep, Release, CancelThenRelease, ReleaseThenCancel, Cancel
<1>4. CASE WriterStep(t)
  BY <1>4
     DEF WriterStep, Connect, SendRequest, RecvHeaders, RecvHeadersFails,
         InsertFails, InsertLru, AppendFirst, AppendBody, Finish, Sent,
         SendFails, RecvBody, RemoteCloses, RecvFails
<1> QED
  BY <1>1, <1>2, <1>3, <1>4 DEF WorkerNext

\* A step of another thread leaves a writer's entry alone.
LEMMA OthersWriterKept ==
  ASSUME IInv, NEW t \in Thread, WorkerNext(t), NEW w \in Thread \ {t},
         OwnBytes(w), OwnLength(w)
  PROVE  OwnBytes(w)' /\ OwnLength(w)'
<1>1. FrameKept(w)
  BY WorkerFrame DEF IInv
<1>2. ASSUME pc[w] \in PendingPc \cup StoredPc, entry[w] # NULL
      PROVE  data'[entry[w]] = data[entry[w]] /\ resp'[entry[w]] = resp[entry[w]]
  <2>1. PICK e \in Entry : e = entry[w]
    BY <1>2 DEF IInv, TypeOK, EntryOrNull
  <2>2. Filling(w) /\ e \in live
    BY <1>2, <2>1
       DEF Filling, PendingPc, StoredPc, UnfinishedPc, FillPc, IInv, References,
           NoDanglingEntry
  <2>3. Filling(t) => entry[t] # e
    BY <2>1, <2>2 DEF IInv, Fillers, OneFiller
  <2>4. ~CellGrows(e, t)
    BY <2>1, <2>3, HttpCacheAssumption
       DEF CellGrows, Filling, UnfinishedPc, FillPc
  <2>5. data'[e] = data[e]
    BY <2>1, <2>4, WorkerCells DEF CellKept, CellEnds, CellCleared
  <2>6. resp \in [Entry -> Nat \cup {NoLength}]
    BY DEF IInv, TypeOK
  <2>7. CASE Insert(t)
    BY <2>1, <2>2, <2>5, <2>6, <2>7 DEF Insert, cache_insert
  <2>8. CASE Complete(t)
    <3>1. entry[t] # e
      BY <2>1, <2>3, <2>8, HttpCacheAssumption
         DEF Complete, At, Filling, UnfinishedPc
    <3> QED
      BY <2>1, <2>5, <2>6, <2>8, <3>1 DEF Complete
  <2> QED
    BY <2>1, <2>5, <2>7, <2>8, RespSteps
<1> QED
  BY <1>1, <1>2 DEF FrameKept, OwnBytes, OwnLength, At, PendingPc, StoredPc


\* The steps after which a thread is not a writer with something to store.
LEMMA NoWriterAfter ==
  ASSUME TypeOK, NEW t \in Thread,
         \/ SearchStep(t) \/ PollIn(t) \/ WorkerExit(t) \/ ReaderStep(t)
         \/ FinishStep(t) \/ Connect(t) \/ SendRequest(t)
         \/ RecvHeadersFails(t) \/ InsertFails(t)
  PROVE  pc'[t] \notin {"insert"} \cup PendingPc \cup StoredPc
<1>1. pc \in [Thread -> Pc]
  BY DEF TypeOK
<1> USE <1>1 DEF Return, Goto, PendingPc, StoredPc, At
<1>2. CASE SearchStep(t) \/ PollIn(t) \/ WorkerExit(t)
  BY <1>2
     DEF SearchStep, PollIn, WorkerExit, RecvRequest, RejectRequest,
         LockSearchCreate, LookupHit, LookupMiss
<1>3. CASE ReaderStep(t)
  BY <1>3
     DEF ReaderStep, ReadEntry, ReadTimeout, ReadSpurious, SendCached,
         ReaderRelease
<1>4. CASE FinishStep(t)
  BY <1>4
     DEF FinishStep, Complete, Release, CancelThenRelease, ReleaseThenCancel,
         Cancel
<1>5. CASE Connect(t) \/ SendRequest(t) \/ RecvHeadersFails(t) \/ InsertFails(t)
  BY <1>5 DEF Connect, SendRequest, RecvHeadersFails, InsertFails
<1> QED
  BY <1>2, <1>3, <1>4, <1>5

\* A writer's own step keeps its entry and its buffer together.
LEMMA OwnBytesKept ==
  ASSUME IInv, ~MallocMayFail, NEW t \in Thread, WorkerNext(t), OwnBytes(t),
         OwnLength(t)
  PROVE  OwnBytes(t)'
<1>1. /\ pc \in [Thread -> Pc] /\ entry \in [Thread -> EntryOrNull]
      /\ buf \in [Thread -> Seq(Nat)] /\ recvd \in [Thread -> Nat]
      /\ data \in [Entry -> Seq(Nat)]
  BY DEF IInv, TypeOK, CacheTypeOK
<1>2. pc[t] \in WithEntryPc => entry[t] \in Entry
  BY <1>1 DEF IInv, Control, EntryAtPc, EntryOrNull
<1>3. UNCHANGED cacheVars => data' = data
  BY DEF cacheVars, entryVars
<1>4. UNCHANGED procVars => UNCHANGED <<buf, recvd, entry>>
  BY DEF procVars, connVars
<1>5. ASSUME pc'[t] \notin {"insert"} \cup PendingPc \cup StoredPc
      PROVE  OwnBytes(t)'
  BY <1>5 DEF OwnBytes, At, PendingPc, StoredPc
<1>6. ASSUME entry[t] = NULL, entry' = entry, pc'[t] # "insert"
      PROVE  OwnBytes(t)'
  BY <1>6 DEF OwnBytes, At
<1>7. ASSUME NEW p \in StoredPc, pc' = [pc EXCEPT ![t] = p],
             pc[t] \in StoredPc, UNCHANGED <<recvd, entry, data>>
      PROVE  OwnBytes(t)'
  <2>1. pc'[t] = p /\ p \notin PendingPc /\ p # "insert"
    BY <1>1, <1>7 DEF StoredPc, PendingPc
  <2> QED
    BY <1>7, <2>1 DEF OwnBytes, At, StoredPc, PendingPc
<1>8. CASE RecvHeaders(t)
  <2>1. PICK n \in 1 .. MaxResp : /\ recvd' = [recvd EXCEPT ![t] = n]
                                  /\ buf' = [buf EXCEPT ![t] = Bytes(0, n)]
    BY <1>8 DEF RecvHeaders
  <2>2. recvd'[t] = n /\ buf'[t] = Bytes(0, n)
    BY <1>1, <2>1
  <2>3. pc[t] = "recv_headers" /\ entry'[t] = entry[t]
        /\ pc'[t] \in {"insert", "send_first"}
    BY <1>1, <1>8 DEF RecvHeaders, At, Goto
  <2>4. entry[t] = NULL
    BY <2>3 DEF IInv, Control, EntryAtPc, NoEntryPc
  <2> QED
    BY <2>2, <2>3, <2>4 DEF OwnBytes, At
<1>9. CASE Insert(t)
  <2>1. PICK f \in Entry : /\ cache_insert(f, req[t])
                           /\ entry' = [entry EXCEPT ![t] = f]
    BY <1>9 DEF Insert
  <2>2. entry'[t] = f /\ data'[f] = <<>>
    BY <1>1, <2>1 DEF cache_insert
  <2>3. /\ pc[t] = "insert" /\ pc'[t] = "insert_lru"
        /\ UNCHANGED <<buf, recvd>>
    BY <1>1, <1>9 DEF Insert, At, Goto, connVars
  <2>4. Len(data'[f]) = 0 /\ 0 <= recvd[t] /\ buf[t] = Bytes(0, recvd[t])
    BY <1>1, <2>2, <2>3 DEF OwnBytes, At
  <2> QED
    BY <2>2, <2>3, <2>4 DEF OwnBytes, At, PendingPc, StoredPc
<1>10. CASE InsertLru(t)
  <2>1. /\ pc[t] = "insert_lru" /\ pc'[t] = "append_first"
        /\ UNCHANGED <<buf, recvd, entry, data>>
    BY <1>1, <1>10
       DEF InsertLru, At, Goto, connVars, cache_insert_lru, entryVars
  <2> QED
    BY <2>1 DEF OwnBytes, At, PendingPc, StoredPc
<1>11. CASE AppendFirst(t) \/ AppendBody(t)
  <2>1. /\ pc[t] \in {"append_first", "append_body"}
        /\ pc'[t] \in {"send_first", "send_body"}
        /\ cache_entry_append_chunk(entry[t], buf[t])
        /\ UNCHANGED <<buf, recvd, entry>>
    BY <1>1, <1>4, <1>11 DEF AppendFirst, AppendBody, AppendChunk, At, Goto
  <2>2. PICK e \in Entry : e = entry[t]
    BY <1>2, <2>1 DEF WithEntryPc
  <2>3. state[e] = "INCOMPLETE"
    BY <2>1, <2>2, HttpCacheAssumption
       DEF IInv, Fillers, FillsIncomplete, Filling, UnfinishedPc, FillPc
  <2>4. data'[e] = data[e] \o buf[t]
    BY <1>1, <2>1, <2>2, <2>3 DEF cache_entry_append_chunk
  <2>5. /\ Len(data[e]) <= recvd[t]
        /\ buf[t] = Bytes(Len(data[e]), recvd[t])
    BY <2>1, <2>2, HttpCacheAssumption DEF OwnBytes, PendingPc
  <2>6. Len(data'[e]) = recvd[t]
    <3>1. /\ Len(data[e]) \in Nat /\ recvd[t] \in Nat
          /\ data[e] \in Seq(Nat) /\ buf[t] \in Seq(Nat)
      BY <1>1
    <3>2. Len(buf[t]) = recvd[t] - Len(data[e])
      BY <2>5, <3>1, BytesFacts
    <3>3. Len(data'[e]) = Len(data[e]) + Len(buf[t])
      BY <2>4, <3>1
    <3> QED
      BY <3>1, <3>2, <3>3
  <2> QED
    BY <2>1, <2>2, <2>6 DEF OwnBytes, At, PendingPc, StoredPc
<1>12. CASE Sent(t) /\ ~Finish(t, "complete")
  <2>1. /\ pc[t] \in {"send_first", "send_body"}
        /\ pc' = [pc EXCEPT ![t] = "recv_body"]
        /\ UNCHANGED <<recvd, entry, data>>
    BY <1>3, <1>12 DEF Sent, Goto
  <2> QED
    BY <1>7, <2>1 DEF StoredPc
<1>13. ASSUME NEW p \in {"complete", "release_cancel", "cancel_release"},
              pc[t] \in {"send_first", "send_body", "recv_body"}, Finish(t, p),
              UNCHANGED cacheVars
       PROVE  OwnBytes(t)'
  <2>1. CASE Return(t)
    BY <1>1, <1>5, <2>1 DEF Return, Goto, PendingPc, StoredPc
  <2>2. CASE Goto(t, p) /\ UNCHANGED procVars
    <3>1. CASE p = "complete"
      BY <1>3, <1>4, <1>7, <1>13, <2>2, <3>1 DEF Goto, StoredPc
    <3>2. CASE p # "complete"
      BY <1>1, <1>5, <1>13, <2>2, <3>2 DEF Goto, StoredPc, PendingPc
    <3> QED
      BY <3>1, <3>2
  <2> QED
    BY <1>13, <2>1, <2>2 DEF Finish
<1>14. CASE RecvBody(t)
  <2>1. PICK n \in 1 .. MaxResp - recvd[t] :
          /\ recvd' = [recvd EXCEPT ![t] = @ + n]
          /\ buf' = [buf EXCEPT ![t] = Bytes(recvd[t], recvd[t] + n)]
    BY <1>14 DEF RecvBody
  <2>2. recvd'[t] = recvd[t] + n /\ buf'[t] = Bytes(recvd[t], recvd[t] + n)
    BY <1>1, <2>1
  <2>3. /\ pc[t] = "recv_body" /\ UNCHANGED <<entry, data>>
        /\ pc'[t] = IF entry[t] # NULL /\ expect[t] # NoLength
                    THEN "append_body" ELSE "send_body"
    BY <1>1, <1>3, <1>14 DEF RecvBody, At, Goto
  <2>4. CASE entry[t] = NULL
    BY <1>6, <2>3, <2>4
  <2>5. CASE entry[t] # NULL
    <3>1. expect[t] # NoLength /\ Len(data[entry[t]]) = recvd[t]
      BY <2>3, <2>5 DEF OwnLength, OwnBytes, StoredPc
    <3>2. pc'[t] = "append_body" /\ recvd[t] <= recvd'[t]
      BY <1>1, <2>2, <2>3, <2>5, <3>1, ProxyAssumption
    <3> QED
      BY <2>2, <2>3, <3>1, <3>2 DEF OwnBytes, At, PendingPc, StoredPc
  <2> QED
    BY <2>4, <2>5
<1>15. CASE Sent(t) \/ SendFails(t) \/ RemoteCloses(t) \/ RecvFails(t)
  BY <1>12, <1>13, <1>15
     DEF Sent, SendFails, RemoteCloses, RecvFails, At
<1>16. CASE \/ SearchStep(t) \/ PollIn(t) \/ WorkerExit(t) \/ ReaderStep(t)
            \/ FinishStep(t) \/ Connect(t) \/ SendRequest(t)
            \/ RecvHeadersFails(t) \/ InsertFails(t)
  BY <1>5, <1>16, NoWriterAfter DEF IInv
<1> QED
  BY <1>8, <1>9, <1>10, <1>11, <1>14, <1>15, <1>16 DEF WorkerNext, WriterStep

\* A writer's own step keeps the length that it goes up to.
LEMMA OwnLengthKept ==
  ASSUME IInv, NoLength \notin ContentLength, NEW t \in Thread, WorkerNext(t),
         OwnLength(t)
  PROVE  OwnLength(t)'
<1>1. /\ pc \in [Thread -> Pc] /\ entry \in [Thread -> EntryOrNull]
      /\ recvd \in [Thread -> Nat] /\ resp \in [Entry -> Nat \cup {NoLength}]
      /\ expect \in [Thread -> Nat \cup {NoLength}]
  BY DEF IInv, TypeOK
<1>2. UNCHANGED procVars => UNCHANGED <<expect, recvd, entry, resp>>
  BY DEF procVars, connVars
<1>3. ASSUME pc'[t] \notin {"insert"} \cup PendingPc \cup StoredPc
      PROVE  OwnLength(t)'
  BY <1>3 DEF OwnLength, At, PendingPc, StoredPc
<1>4. ASSUME entry[t] = NULL, entry' = entry, pc'[t] \notin {"insert", "complete"}
      PROVE  OwnLength(t)'
  BY <1>4 DEF OwnLength, At
<1>5. ASSUME NEW p \in PendingPc \cup StoredPc, pc' = [pc EXCEPT ![t] = p],
             pc[t] \in PendingPc \cup StoredPc, UNCHANGED <<expect, entry, resp>>,
             p = "complete" => recvd'[t] >= expect[t]
      PROVE  OwnLength(t)'
  <2>1. pc'[t] = p /\ p # "insert"
    BY <1>1, <1>5 DEF StoredPc, PendingPc
  <2> QED
    BY <1>5, <2>1 DEF OwnLength, At, StoredPc, PendingPc
<1>6. CASE RecvHeaders(t)
  <2>1. PICK len \in ContentLength : expect' = [expect EXCEPT ![t] = len]
    BY <1>6 DEF RecvHeaders
  <2>2. pc[t] = "recv_headers" /\ entry' = entry /\ expect'[t] # NoLength
        /\ pc'[t] \in {"insert", "send_first"}
    BY <1>1, <1>6, <2>1 DEF RecvHeaders, At, Goto
  <2>3. entry[t] = NULL
    BY <2>2 DEF IInv, Control, EntryAtPc, NoEntryPc
  <2> QED
    BY <2>2, <2>3 DEF OwnLength, At
<1>7. CASE Insert(t)
  <2>1. PICK f \in Entry : /\ entry' = [entry EXCEPT ![t] = f]
                           /\ resp' = [resp EXCEPT ![f] = expect[t]]
    BY <1>7 DEF Insert
  <2>2. /\ pc[t] = "insert" /\ pc'[t] = "insert_lru" /\ expect' = expect
        /\ entry'[t] = f /\ resp'[f] = expect[t]
    BY <1>1, <1>7, <2>1 DEF Insert, At, Goto, connVars
  <2> QED
    BY <2>2 DEF OwnLength, At
<1>8. CASE InsertLru(t) \/ AppendFirst(t) \/ AppendBody(t)
  <2>1. /\ pc[t] \in PendingPc
        /\ UNCHANGED <<expect, entry, resp>>
        /\ \E p \in {"append_first", "send_first", "send_body"} :
             pc' = [pc EXCEPT ![t] = p]
    BY <1>2, <1>8
       DEF InsertLru, AppendFirst, AppendBody, At, Goto, connVars, PendingPc
  <2> QED
    BY <1>5, <2>1 DEF PendingPc, StoredPc
<1>9. ASSUME NEW p \in {"complete", "release_cancel", "cancel_release"},
             pc[t] \in {"send_first", "send_body", "recv_body"}, Finish(t, p),
             p = "complete" /\ entry[t] # NULL => recvd[t] >= expect[t]
      PROVE  OwnLength(t)'
  <2>1. CASE Return(t)
    BY <1>1, <1>3, <2>1 DEF Return, Goto, PendingPc, StoredPc
  <2>2. CASE entry[t] # NULL /\ Goto(t, p) /\ UNCHANGED procVars
    <3>1. CASE p = "complete"
      <4>1. recvd'[t] >= expect[t] /\ UNCHANGED <<expect, entry, resp>>
        BY <1>2, <1>9, <2>2, <3>1
      <4> QED
        BY <1>5, <1>9, <2>2, <3>1, <4>1 DEF Goto, StoredPc
    <3>2. CASE p # "complete"
      BY <1>1, <1>3, <1>9, <2>2, <3>2 DEF Goto, StoredPc, PendingPc
    <3> QED
      BY <3>1, <3>2
  <2> QED
    BY <1>9, <2>1, <2>2 DEF Finish
\* A writer with an entry has a length.
<1>10. pc[t] \in StoredPc /\ entry[t] # NULL => expect[t] # NoLength
  BY DEF OwnLength
<1>11. CASE Sent(t)
  <2>1. CASE ~MoreToReceive(t) /\ Finish(t, "complete")
    <3>1. recvd[t] >= expect[t]
      BY <1>1, <2>1 DEF MoreToReceive
    <3> QED
      BY <1>9, <1>11, <2>1, <3>1 DEF Sent
  <2>2. CASE /\ pc' = [pc EXCEPT ![t] = "recv_body"]
             /\ UNCHANGED <<expect, entry, resp>>
    BY <1>5, <1>11, <2>2 DEF Sent, StoredPc
  <2> QED
    BY <1>11, <2>1, <2>2 DEF Sent, Goto
<1>12. CASE SendFails(t)
  BY <1>9, <1>12 DEF SendFails, At
<1>13. CASE RemoteCloses(t) \/ RecvFails(t)
  <2>1. pc[t] = "recv_body"
    BY <1>13 DEF RemoteCloses, RecvFails, At
  <2>2. PICK p \in {"complete", "release_cancel", "cancel_release"} :
          Finish(t, p) /\ (p = "complete" => expect[t] = NoLength)
    BY <1>13 DEF RemoteCloses, RecvFails
  <2>3. p = "complete" => entry[t] = NULL
    BY <1>10, <2>1, <2>2 DEF StoredPc
  <2> QED
    BY <1>9, <2>1, <2>2, <2>3
<1>14. CASE RecvBody(t)
  <2>1. /\ pc[t] = "recv_body" /\ UNCHANGED <<expect, entry, resp>>
        /\ \E p \in {"append_body", "send_body"} : pc' = [pc EXCEPT ![t] = p]
    BY <1>14 DEF RecvBody, At, Goto
  <2> QED
    BY <1>5, <2>1 DEF PendingPc, StoredPc
<1>15. CASE \/ SearchStep(t) \/ PollIn(t) \/ WorkerExit(t) \/ ReaderStep(t)
            \/ FinishStep(t) \/ Connect(t) \/ SendRequest(t)
            \/ RecvHeadersFails(t) \/ InsertFails(t)
  BY <1>3, <1>15, NoWriterAfter DEF IInv
<1> QED
  BY <1>6, <1>7, <1>8, <1>11, <1>12, <1>13, <1>14, <1>15
     DEF WorkerNext, WriterStep


\* The bytes of the entries stay in order.
LEMMA StepDataInOrder ==
  ASSUME IInv, DataInOrder, \A t \in Thread : OwnBytes(t), [Next]_vars
  PROVE  DataInOrder'
<1> SUFFICES ASSUME NEW e \in Entry
             PROVE  data'[e] = Bytes(0, Len(data'[e]))
  BY DEF DataInOrder, Bytes
<1>1. data[e] = Bytes(0, Len(data[e])) /\ data[e] \in Seq(Nat)
  BY DEF DataInOrder, IInv, TypeOK, CacheTypeOK
<1>2. CASE CellKept(e) \/ \E t \in Thread : CellEnds(e, t)
  BY <1>1, <1>2 DEF CellKept, CellEnds
<1>3. CASE CellCleared(e)
  <2>1. data'[e] = <<>> /\ Len(<<>>) = 0
    BY <1>3 DEF CellCleared
  <2>2. Bytes(0, 0) = <<>>
    BY DEF Bytes
  <2> QED
    BY <2>1, <2>2
<1>4. ASSUME NEW t \in Thread, CellGrows(e, t)
      PROVE  data'[e] = Bytes(0, Len(data'[e]))
  <2> DEFINE m == Len(data[e])
             n == recvd[t]
  <2>1. m \in Nat /\ n \in Nat
    BY <1>1 DEF IInv, TypeOK
  <2>2. m <= n /\ buf[t] = Bytes(m, n)
    BY <1>4, HttpCacheAssumption DEF CellGrows, OwnBytes, PendingPc
  <2>3. data'[e] = Bytes(0, m) \o Bytes(m, n)
    BY <1>1, <1>4, <2>2 DEF CellGrows
  <2> HIDE DEF m, n
  <2>4. data'[e] = Bytes(0, n)
    BY <2>1, <2>2, <2>3, BytesJoin
  <2>5. Len(Bytes(0, n)) = n
    BY <2>1, BytesFacts
  <2> QED
    BY <2>4, <2>5
<1>5. CASE \E t \in Thread : WorkerNext(t)
  BY <1>2, <1>3, <1>4, <1>5, WorkerCells
<1>6. CASE ~\E t \in Thread : WorkerNext(t)
  BY <1>2, <1>3, <1>6, OtherCells DEF Next, Terminated
<1> QED
  BY <1>5, <1>6

\* An entry that is complete has its length, and one that becomes complete
\* has reached it.
LEMMA StepWhole ==
  ASSUME IInv, DataInOrder', CompleteHoldsWholeResponse,
         \A t \in Thread : OwnBytes(t) /\ OwnLength(t), [Next]_vars
  PROVE  CompleteHoldsWholeResponse'
<1>1. TypeOK /\ TypeOK' /\ CacheTypeOK
  BY StepTypeOK DEF IInv, TypeOK
<1>2. live' \subseteq Entry /\ resp \in [Entry -> Nat \cup {NoLength}]
  BY <1>1 DEF TypeOK, CacheTypeOK
<1> SUFFICES ASSUME NEW e \in live', state'[e] = "COMPLETE"
             PROVE  Len(data'[e]) >= resp'[e]
  BY <1>2 DEF CompleteHoldsWholeResponse, DataInOrder, Bytes
<1>3. e \in Entry
  BY <1>2
<1>4. ASSUME e \in live, CellKept(e), resp'[e] = resp[e]
      PROVE  Len(data'[e]) >= resp'[e]
  BY <1>4 DEF CompleteHoldsWholeResponse, CellKept
<1>5. ASSUME NEW t \in Thread, WorkerNext(t)
      PROVE  Len(data'[e]) >= resp'[e]
  <2>1. CASE CellKept(e)
    <3>1. state[e] = "COMPLETE"
      BY <2>1 DEF CellKept
    <3>2. e \in live
      <4>1. CASE Insert(t)
        BY <1>1, <1>3, <4>1 DEF Insert, cache_insert, CacheTypeOK
      <4>2. CASE ~Insert(t)
        <5>1. live' \subseteq live
          <6>1. UNCHANGED cacheVars => live' = live
            BY DEF cacheVars, entryVars
          <6>2. CASE Quiet(t)
            BY <6>2 DEF Quiet
          <6>3. CASE LookupHit(t) \/ LookupMiss(t) \/ ReaderRelease(t)
            BY <6>1, <6>3
               DEF LookupHit, cache_lookup_hit, LookupMiss, cache_lookup_miss,
                   ReaderRelease, cache_entry_release
          <6>4. CASE FinishStep(t)
            BY <6>4
               DEF FinishStep, Complete, Release, CancelThenRelease, Cancel,
                   ReleaseThenCancel, cache_entry_complete,
                   cache_entry_release, cache_entry_cancel
          <6> QED
            BY <1>5, <4>2, <6>2, <6>3, <6>4, QuietOrLoud DEF Loud
        <5> QED
          BY <5>1
      <4> QED
        BY <4>1, <4>2
    <3>3. resp'[e] = resp[e]
      <4>1. CASE Insert(t)
        BY <1>2, <1>3, <3>2, <4>1 DEF Insert, cache_insert
      <4>2. CASE Complete(t)
        <5>1. entry[t] # NULL /\ Filling(t)
          BY <4>2
             DEF Complete, At, IInv, Control, EntryAtPc, WithEntryPc, FinishPc,
                 Filling, UnfinishedPc
        <5>2. entry[t] # e
          BY <3>1, <5>1 DEF IInv, Fillers, FillsIncomplete
        <5> QED
          BY <1>2, <1>3, <4>2, <5>2 DEF Complete
      <4> QED
        BY <1>5, <4>1, <4>2, RespSteps
    <3> QED
      BY <1>4, <2>1, <3>2, <3>3
  <2>2. CASE CellEnds(e, t)
    <3>1. Complete(t) /\ entry[t] = e /\ data'[e] = data[e]
      BY <2>2 DEF CellEnds
    <3>2. pc[t] = "complete" /\ entry[t] # NULL
      BY <1>3, <3>1, HttpCacheAssumption DEF Complete, At
    <3>3. Len(data[e]) = recvd[t]
      BY <3>1, <3>2 DEF OwnBytes, StoredPc
    <3>4. /\ expect[t] # NoLength /\ resp[e] = expect[t]
          /\ recvd[t] >= expect[t]
      BY <3>1, <3>2 DEF OwnLength, At, StoredPc
    <3>5. resp'[e] = resp[e]
      BY <1>2, <1>3, <3>1, <3>4 DEF Complete
    <3> QED
      BY <3>1, <3>3, <3>4, <3>5
  <2> QED
    BY <1>3, <1>5, <2>1, <2>2, WorkerCells DEF CellGrows, CellCleared
<1>6. CASE ~\E t \in Thread : WorkerNext(t)
  <2>1. \/ CollectorNext /\ UNCHANGED <<pc, procVars>>
        \/ MainNext
        \/ UNCHANGED vars
    BY <1>6 DEF Next, Terminated
  <2>2. CellKept(e) /\ resp'[e] = resp[e]
    BY <1>3, <2>1, OtherCells, OthersFrame DEF CellCleared
  <2>3. e \in live
    <3>1. CASE CollectorNext
      BY <3>1
         DEF CollectorNext, collector_wait, collector_timeout, collector_check,
             cleanup_lock_bucket, cleanup_keep, cleanup_remove,
             cleanup_unlock_bucket, entryVars
    <3>2. CASE MainNext \/ UNCHANGED vars
      BY <3>2
         DEF MainNext, ThreadpoolShutdown, JoinWorkers, StopCollector, FreeCache,
             http_cache_shutdown_stop, http_cache_shutdown_free, cacheVars,
             entryVars, vars
    <3> QED
      BY <2>1, <3>1, <3>2
  <2> QED
    BY <1>4, <2>2, <2>3
<1> QED
  BY <1>5, <1>6


LEMMA InitBInv == Init => BInv
<1> SUFFICES ASSUME Init
             PROVE  BInv
  OBVIOUS
<1> USE DEF Init, http_cache_init
<1>1. DataInOrder
  BY DEF DataInOrder, Bytes
<1>2. InsertHasHead /\ WriterBytes /\ WriterLength
  BY DEF InsertHasHead, WriterBytes, WriterLength, At
<1>3. CompleteHoldsWholeResponse
  BY DEF CompleteHoldsWholeResponse
<1> QED
  BY <1>1, <1>2, <1>3 DEF BInv

LEMMA StepBInv ==
  ASSUME ~MallocMayFail, NoLength \notin ContentLength
  PROVE  IInv /\ BInv /\ [Next]_vars => BInv'
<1> SUFFICES ASSUME IInv, BInv, [Next]_vars
             PROVE  BInv'
  OBVIOUS
<1>1. \A t \in Thread : OwnBytes(t) /\ OwnLength(t)
  BY DEF BInv, InsertHasHead, WriterBytes, WriterLength, OwnBytes, OwnLength
<1>2. DataInOrder'
  BY <1>1, StepDataInOrder DEF BInv
<1>3. CompleteHoldsWholeResponse'
  BY <1>1, <1>2, StepWhole DEF BInv
<1>4. ASSUME NEW w \in Thread
      PROVE  OwnBytes(w)' /\ OwnLength(w)'
  <2>1. ASSUME NEW t \in Thread, WorkerNext(t)
        PROVE  OwnBytes(w)' /\ OwnLength(w)'
    <3>1. CASE w = t
      <4>1. OwnBytes(t) /\ OwnLength(t)
        BY <1>1
      <4>2. OwnBytes(t)' /\ OwnLength(t)'
        BY <2>1, <4>1, OwnBytesKept, OwnLengthKept
      <4> QED
        BY <3>1, <4>2
    <3>2. CASE w # t
      BY <1>1, <2>1, <3>2, OthersWriterKept
    <3> QED
      BY <3>1, <3>2
  <2>2. CASE ~\E t \in Thread : WorkerNext(t)
    <3>1. \/ CollectorNext /\ UNCHANGED <<pc, procVars>>
          \/ MainNext
          \/ UNCHANGED vars
      BY <2>2 DEF Next, Terminated
    <3>2. UNCHANGED <<pc, entry, expect, recvd, buf, resp>>
      BY <3>1, OthersFrame
    <3>3. \A e \in Entry : e = entry[w] => data'[e] = data[e]
      BY <3>1, OtherCells DEF CellKept, CellCleared
    <3>4. entry[w] # NULL => data'[entry[w]] = data[entry[w]]
      BY <3>3 DEF IInv, TypeOK, EntryOrNull
    <3> QED
      BY <1>1, <3>2, <3>4 DEF OwnBytes, OwnLength, At, PendingPc, StoredPc
  <2> QED
    BY <2>1, <2>2
<1>5. InsertHasHead' /\ WriterBytes' /\ WriterLength'
  BY <1>4
     DEF InsertHasHead, WriterBytes, WriterLength, OwnBytes, OwnLength, At,
         PendingPc, StoredPc
<1> QED
  BY <1>2, <1>3, <1>5 DEF BInv

\* As long as malloc succeeds and every cached response has a Content-Length,
\* a COMPLETE entry holds the first bytes of its response, in order, and as
\* many as the headers announced.  Without either of the two it does not.
THEOREM CompleteIsWhole ==
  ASSUME ~MallocMayFail, NoLength \notin ContentLength
  PROVE  Spec => []CompleteHoldsWholeResponse
<1>1. IInv /\ BInv /\ [Next]_vars => BInv'
  BY StepBInv
<1>2. Spec => []BInv
  BY <1>1, InitBInv, Invariance, PTL DEF Spec
<1>3. BInv => CompleteHoldsWholeResponse
  BY DEF BInv
<1> QED
  BY <1>2, <1>3, PTL


-----------------------------------------------------------------------------
(* The LRU list. *)

\* The links of l are those of a doubly linked list with the cells q.
LruLinked(l, q) ==
  /\ Linked(l.head, l.next, NULL, q)
  /\ l.tail = IF q = <<>> THEN NULL ELSE q[Len(q)]
  /\ \A k \in 1 .. Len(q) : l.prev[q[k]] = IF k = 1 THEN NULL ELSE q[k - 1]

\* The entry that cache_insert is about to add to the list.
Inserting == {entry[t] : t \in {x \in Thread : At(x, "insert_lru")}}

LruListed(q) ==
  /\ q \in Seq(Entry)
  /\ IsInjective(q)
  /\ ToSet(q) = live \ Inserting
  /\ LruLinked(lru, q)

\* The links hold some order of the entries in the cache.
LInv == \E q : LruListed(q)

\* lru_add_head puts e in front.
LEMMA AddHeadLinks ==
  ASSUME NEW l \in LruType, NEW e \in Entry, NEW q \in Seq(Entry),
         e \notin ToSet(q), LruLinked(l, q)
  PROVE  LruLinked(LruAddHead(l, e), Cons(e, q))
<1> DEFINE c == Cons(e, q)
           m == LruAddHead(l, e)
<1>1. /\ Len(q) \in Nat /\ \A k \in 1 .. Len(q) : q[k] \in Entry /\ q[k] # e
      /\ q = <<>> <=> Len(q) = 0
  BY DEF ToSet
<1>2. /\ c \in Seq(Entry) /\ Len(c) = Len(q) + 1 /\ c # <<>>
      /\ c[1] = e
      /\ \A k \in 1 .. Len(q) : c[k + 1] = q[k]
  <2>1. /\ c \in Seq(Entry) /\ Len(c) = Len(q) + 1
        /\ \A k \in 1 .. Len(q) + 1 : c[k] = IF k = 1 THEN e ELSE q[k - 1]
    BY ConsIndex
  <2> HIDE DEF c
  <2>2. c # <<>>
    BY <1>1, <2>1
  <2> QED
    BY <1>1, <2>1, <2>2
<1>3. /\ l.head = IF Len(q) = 0 THEN NULL ELSE q[1]
      /\ l.tail = IF Len(q) = 0 THEN NULL ELSE q[Len(q)]
      /\ \A k \in 1 .. Len(q) : l.next[q[k]] = IF k = Len(q) THEN NULL ELSE q[k + 1]
      /\ \A k \in 1 .. Len(q) : l.prev[q[k]] = IF k = 1 THEN NULL ELSE q[k - 1]
  BY <1>1 DEF LruLinked, Linked
<1>4. /\ l.prev \in [Entry -> EntryOrNull] /\ l.next \in [Entry -> EntryOrNull]
      /\ l.head \in EntryOrNull
  BY DEF LruType
<1>5. /\ m.head = e
      /\ m.tail = IF l.tail = NULL THEN e ELSE l.tail
      /\ m.next = [l.next EXCEPT ![e] = l.head]
      /\ m.prev = IF l.head # NULL
                  THEN [[l.prev EXCEPT ![e] = NULL] EXCEPT ![l.head] = e]
                  ELSE [l.prev EXCEPT ![e] = NULL]
  BY DEF LruAddHead
<1> HIDE DEF c, m
<1>6. m.tail = c[Len(c)]
  <2>1. CASE Len(q) = 0
    BY <1>2, <1>3, <1>5, <2>1
  <2>2. CASE Len(q) # 0
    <3>1. Len(q) \in 1 .. Len(q)
      BY <1>1, <2>2
    <3>2. l.tail = q[Len(q)] /\ l.tail # NULL
      BY <1>1, <1>3, <2>2, <3>1, HttpCacheAssumption
    <3> QED
      BY <1>2, <1>5, <3>1, <3>2
  <2> QED
    BY <2>1, <2>2
<1>7. m.next[e] = l.head /\ \A k \in 1 .. Len(q) : m.next[q[k]] = l.next[q[k]]
  BY <1>1, <1>4, <1>5
<1>8. ASSUME NEW k \in 1 .. Len(c)
      PROVE  m.next[c[k]] = IF k = Len(c) THEN NULL ELSE c[k + 1]
  <2>1. CASE k = 1
    <3>1. m.next[c[k]] = IF Len(q) = 0 THEN NULL ELSE q[1]
      BY <1>2, <1>3, <1>7, <2>1
    <3>2. Len(q) # 0 => 1 \in 1 .. Len(q)
      BY <1>1
    <3> QED
      BY <1>1, <1>2, <2>1, <3>1, <3>2
  <2>2. CASE k # 1
    <3>1. PICK j \in 1 .. Len(q) : k = j + 1
      <4>1. k - 1 \in 1 .. Len(q) /\ k = (k - 1) + 1
        BY <1>1, <1>2, <2>2
      <4> QED
        BY <4>1
    <3>2. m.next[c[k]] = IF j = Len(q) THEN NULL ELSE q[j + 1]
      BY <1>2, <1>3, <1>7, <3>1
    <3>3. j # Len(q) => j + 1 \in 1 .. Len(q) /\ c[k + 1] = q[j + 1]
      BY <1>1, <1>2, <3>1
    <3> QED
      BY <1>1, <1>2, <3>1, <3>2, <3>3
  <2> QED
    BY <2>1, <2>2
<1>9. ASSUME NEW k \in 1 .. Len(c)
      PROVE  m.prev[c[k]] = IF k = 1 THEN NULL ELSE c[k - 1]
  <2>1. CASE k = 1
    <3>1. l.head # e
      <4>1. Len(q) # 0 => 1 \in 1 .. Len(q)
        BY <1>1
      <4> QED
        BY <1>1, <1>3, <4>1, HttpCacheAssumption
    <3>2. m.prev[e] = NULL
      BY <1>4, <1>5, <3>1
    <3> QED
      BY <1>2, <2>1, <3>2
  <2>2. CASE k # 1
    <3>1. PICK j \in 1 .. Len(q) : k = j + 1
      <4>1. k - 1 \in 1 .. Len(q) /\ k = (k - 1) + 1
        BY <1>1, <1>2, <2>2
      <4> QED
        BY <4>1
    <3>2. l.head = q[1] /\ q[1] \in Entry /\ l.head # NULL
      BY <1>1, <1>3, <3>1, HttpCacheAssumption
    <3>3. CASE j = 1
      <4>1. m.prev[q[1]] = e
        BY <1>4, <1>5, <3>2
      <4> QED
        BY <1>2, <3>1, <3>3, <4>1
    <3>4. CASE j # 1
      <4>1. j - 1 \in 1 .. Len(q) /\ c[k - 1] = q[j - 1]
        <5>1. j - 1 \in 1 .. Len(q) /\ k - 1 = (j - 1) + 1
          BY <1>1, <3>1, <3>4
        <5> QED
          BY <1>2, <5>1
      <4>2. l.prev[q[j]] = q[j - 1] /\ l.prev[q[1]] = NULL
        BY <1>1, <1>3, <3>1, <3>4
      <4>3. q[j] # q[1] /\ q[j] # e /\ q[j] \in Entry
        <5>1. q[j - 1] # NULL
          BY <1>1, <4>1, HttpCacheAssumption
        <5> QED
          BY <1>1, <4>2, <5>1
      <4>4. m.prev[q[j]] = l.prev[q[j]]
        BY <1>4, <1>5, <3>2, <4>3
      <4> QED
        BY <1>2, <3>1, <4>1, <4>2, <4>4, <2>2
    <3> QED
      BY <3>3, <3>4
  <2> QED
    BY <2>1, <2>2
<1>10. LruLinked(m, c)
  <2>1. m.head = c[1] /\ c # <<>>
    BY <1>2, <1>5
  <2> QED
    BY <1>6, <1>8, <1>9, <2>1 DEF LruLinked, Linked
<1> QED
  BY <1>10 DEF m, c


\* lru_remove takes the k-th entry out.
LEMMA RemoveLinks ==
  ASSUME NEW l \in LruType, NEW q \in Seq(Entry), IsInjective(q),
         NEW k \in 1 .. Len(q), LruLinked(l, q)
  PROVE  LruLinked(LruRemove(l, q[k]), RemoveAt(q, k))
<1> DEFINE e == q[k]
           r == RemoveAt(q, k)
           m == LruRemove(l, q[k])
           p == l.prev[e]
           n == l.next[e]
           N == Len(q)
<1>1. /\ N \in Nat /\ k \in 1 .. N
      /\ \A j \in 1 .. N : q[j] \in Entry /\ q[j] # NULL
      /\ \A i, j \in 1 .. N : q[i] = q[j] => i = j
      /\ q = <<>> <=> N = 0
  BY HttpCacheAssumption DEF IsInjective
<1>2. /\ r \in Seq(Entry) /\ Len(r) = N - 1
      /\ \A j \in 1 .. N - 1 : r[j] = IF j < k THEN q[j] ELSE q[j + 1]
  <2>1. k \in DOMAIN q
    BY <1>1
  <2> QED
    BY <2>1, RemoveAtIndex
<1>3. /\ l.head = q[1] /\ l.tail = q[N]
      /\ \A j \in 1 .. N : l.next[q[j]] = IF j = N THEN NULL ELSE q[j + 1]
      /\ \A j \in 1 .. N : l.prev[q[j]] = IF j = 1 THEN NULL ELSE q[j - 1]
  BY <1>1 DEF LruLinked, Linked
<1>4. l.prev \in [Entry -> EntryOrNull] /\ l.next \in [Entry -> EntryOrNull]
  BY DEF LruType
<1>5. p = (IF k = 1 THEN NULL ELSE q[k - 1]) /\ n = (IF k = N THEN NULL ELSE q[k + 1])
  BY <1>1, <1>3
<1>6. p # e /\ n # e /\ e \in Entry
  <2>1. e \in Entry /\ e # NULL
    BY <1>1
  <2>2. k # 1 => k - 1 \in 1 .. N /\ k - 1 # k
    BY <1>1
  <2>3. k # N => k + 1 \in 1 .. N /\ k + 1 # k
    BY <1>1
  <2> HIDE DEF p, n
  <2> QED
    BY <1>1, <1>5, <2>1, <2>2, <2>3
<1>7. /\ m.head = IF p # NULL THEN l.head ELSE n
      /\ m.tail = IF n # NULL THEN l.tail ELSE p
      /\ m.prev = [(IF n # NULL THEN [l.prev EXCEPT ![n] = p] ELSE l.prev)
                     EXCEPT ![e] = NULL]
      /\ m.next = [(IF p # NULL THEN [l.next EXCEPT ![p] = n] ELSE l.next)
                     EXCEPT ![e] = NULL]
  <2> DEFINE next1 == IF p # NULL THEN [l.next EXCEPT ![p] = l.next[e]]
                      ELSE l.next
  <2>1. next1[e] = n
    BY <1>4, <1>6
  <2> HIDE DEF next1
  <2>2. m = [head |-> IF p # NULL THEN l.head ELSE next1[e],
             tail |-> IF next1[e] # NULL THEN l.tail ELSE p,
             prev |-> [(IF next1[e] # NULL THEN [l.prev EXCEPT ![next1[e]] = p]
                        ELSE l.prev) EXCEPT ![e] = NULL],
             next |-> [next1 EXCEPT ![e] = NULL]]
    BY DEF LruRemove, next1
  <2> HIDE DEF m, n, p
  <2> QED
    BY <2>1, <2>2 DEF next1, n
<1> HIDE DEF e, r, m, p, n, N
<1>8. \A f \in Entry : f # e => /\ m.next[f] = IF f = p THEN n ELSE l.next[f]
                                /\ m.prev[f] = IF f = n THEN p ELSE l.prev[f]
  BY <1>4, <1>7, HttpCacheAssumption
<1>9. \A j \in 1 .. N : j # k => q[j] # e
  BY <1>1 DEF e
<1>10. \A j \in 1 .. N : q[j] = p <=> j = k - 1
  <2>1. k # 1 => k - 1 \in 1 .. N
    BY <1>1
  <2> QED
    BY <1>1, <1>5, <2>1
<1>11. \A j \in 1 .. N : q[j] = n <=> j = k + 1
  <2>1. k # N => k + 1 \in 1 .. N
    BY <1>1
  <2> QED
    BY <1>1, <1>5, <2>1
<1>12. ASSUME NEW j \in 1 .. N - 1
       PROVE  m.next[r[j]] = IF j = N - 1 THEN NULL ELSE r[j + 1]
  <2>1. j \in 1 .. N /\ j + 1 \in 1 .. N /\ j \in Nat
    BY <1>1
  <2>2. CASE j < k - 1
    <3>1. r[j] = q[j] /\ r[j + 1] = q[j + 1] /\ j # N - 1
      BY <1>1, <1>2, <2>1, <2>2
    <3>2. m.next[q[j]] = l.next[q[j]]
      BY <1>1, <1>8, <1>9, <1>10, <2>1, <2>2
    <3>3. l.next[q[j]] = q[j + 1]
      BY <1>1, <1>3, <2>1
    <3> QED
      BY <3>1, <3>2, <3>3
  <2>3. CASE j = k - 1
    <3>1. r[j] = q[j] /\ q[j] = p
      BY <1>1, <1>2, <1>10, <2>1, <2>3
    <3>2. m.next[q[j]] = n
      BY <1>1, <1>8, <1>9, <2>1, <2>3, <3>1
    <3>3. j = N - 1 <=> k = N
      BY <1>1, <2>3
    <3>4. j # N - 1 => r[j + 1] = q[k + 1]
      BY <1>1, <1>2, <2>1, <2>3
    <3> QED
      BY <1>5, <3>1, <3>2, <3>3, <3>4
  <2>4. CASE j >= k
    <3>1. r[j] = q[j + 1]
      BY <1>1, <1>2, <2>1, <2>4
    <3>2. m.next[q[j + 1]] = l.next[q[j + 1]]
      <4>1. j + 1 # k /\ j + 1 # k - 1
        BY <1>1, <2>1, <2>4
      <4> QED
        BY <1>1, <1>8, <1>9, <1>10, <2>1, <4>1
    <3>3. l.next[q[j + 1]] = IF j + 1 = N THEN NULL ELSE q[(j + 1) + 1]
      BY <1>3, <2>1
    <3>4. j # N - 1 => r[j + 1] = q[(j + 1) + 1]
      BY <1>1, <1>2, <2>1, <2>4
    <3>5. j + 1 = N <=> j = N - 1
      BY <1>1, <2>1
    <3> QED
      BY <3>1, <3>2, <3>3, <3>4, <3>5
  <2> QED
    BY <1>1, <2>1, <2>2, <2>3, <2>4
<1>13. ASSUME NEW j \in 1 .. N - 1
       PROVE  m.prev[r[j]] = IF j = 1 THEN NULL ELSE r[j - 1]
  <2>1. j \in 1 .. N /\ j + 1 \in 1 .. N /\ j \in Nat
    BY <1>1
  <2>2. CASE j < k
    <3>1. r[j] = q[j] /\ (j # 1 => r[j - 1] = q[j - 1])
      BY <1>1, <1>2, <2>1, <2>2
    <3>2. m.prev[q[j]] = l.prev[q[j]]
      <4>1. j # k /\ j # k + 1
        BY <1>1, <2>1, <2>2
      <4> QED
        BY <1>1, <1>8, <1>9, <1>11, <2>1, <4>1
    <3>3. l.prev[q[j]] = IF j = 1 THEN NULL ELSE q[j - 1]
      BY <1>3, <2>1
    <3> QED
      BY <3>1, <3>2, <3>3
  <2>3. CASE j = k
    <3>1. r[j] = q[j + 1] /\ q[j + 1] = n
      BY <1>1, <1>2, <1>11, <2>1, <2>3
    <3>2. m.prev[q[j + 1]] = p
      <4>1. j + 1 # k
        BY <2>1, <2>3
      <4> QED
        BY <1>1, <1>8, <1>9, <2>1, <3>1, <4>1
    <3>3. j # 1 => r[j - 1] = q[k - 1]
      BY <1>1, <1>2, <2>1, <2>3
    <3> QED
      BY <1>5, <2>3, <3>1, <3>2, <3>3
  <2>4. CASE j > k
    <3>1. r[j] = q[j + 1] /\ r[j - 1] = q[j] /\ j # 1
      BY <1>1, <1>2, <2>1, <2>4
    <3>2. m.prev[q[j + 1]] = l.prev[q[j + 1]]
      <4>1. j + 1 # k /\ j + 1 # k + 1
        BY <1>1, <2>1, <2>4
      <4> QED
        BY <1>1, <1>8, <1>9, <1>11, <2>1, <4>1
    <3>3. l.prev[q[j + 1]] = q[j]
      <4>1. l.prev[q[j + 1]] = IF j + 1 = 1 THEN NULL ELSE q[(j + 1) - 1]
        BY <1>3, <2>1
      <4>2. j + 1 # 1 /\ (j + 1) - 1 = j
        BY <2>1
      <4> QED
        BY <4>1, <4>2
    <3> QED
      BY <3>1, <3>2, <3>3
  <2> QED
    BY <1>1, <2>1, <2>2, <2>3, <2>4
<1>14. m.head = (IF N - 1 = 0 THEN NULL ELSE r[1])
       /\ m.tail = (IF N - 1 = 0 THEN NULL ELSE r[N - 1])
  <2>1. k # 1 => k - 1 \in 1 .. N /\ q[k - 1] # NULL
    BY <1>1
  <2>2. k # N => k + 1 \in 1 .. N /\ q[k + 1] # NULL
    BY <1>1
  <2>3. m.head = IF k # 1 THEN q[1] ELSE n
    BY <1>3, <1>5, <1>7, <2>1
  <2>4. m.tail = IF k # N THEN q[N] ELSE p
    BY <1>3, <1>5, <1>7, <2>2
  <2>5. N - 1 # 0 => r[1] = IF k # 1 THEN q[1] ELSE q[2]
    BY <1>1, <1>2
  <2>6. N - 1 # 0 => r[N - 1] = IF k # N THEN q[N] ELSE q[N - 1]
    BY <1>1, <1>2
  <2> QED
    BY <1>1, <1>5, <2>3, <2>4, <2>5, <2>6
<1>15. LruLinked(m, r)
  <2>1. r = <<>> <=> N - 1 = 0
    BY <1>1, <1>2
  <2> QED
    BY <1>2, <1>12, <1>13, <1>14, <2>1 DEF LruLinked, Linked
<1> QED
  BY <1>15 DEF m, r


\* The steps of a worker that are not about the LRU list.
LEMMA LruQuiet ==
  ASSUME TypeOK, NEW t \in Thread, WorkerNext(t),
         ~LookupHit(t), ~Insert(t), ~InsertLru(t)
  PROVE  /\ UNCHANGED <<lru, live>>
         /\ pc[t] # "insert_lru" /\ pc'[t] # "insert_lru"
<1>1. pc \in [Thread -> Pc]
  BY DEF TypeOK
<1>2. UNCHANGED cacheVars => UNCHANGED <<lru, live>>
  BY DEF cacheVars, entryVars
<1> USE <1>1 DEF Return, Goto, At
<1>3. CASE SearchStep(t) \/ PollIn(t) \/ WorkerExit(t)
  BY <1>2, <1>3
     DEF SearchStep, PollIn, WorkerExit, RecvRequest, RejectRequest,
         LockSearchCreate, LookupMiss, cache_lookup_miss
<1>4. CASE ReaderStep(t)
  BY <1>2, <1>4
     DEF ReaderStep, ReadEntry, ReadTimeout, ReadSpurious, SendCached,
         ReaderRelease, cache_entry_read_wait, cache_entry_read_wake,
         cache_entry_release
<1>5. CASE FinishStep(t)
  BY <1>5
     DEF FinishStep, Complete, Release, CancelThenRelease, ReleaseThenCancel,
         Cancel, cache_entry_complete, cache_entry_release, cache_entry_cancel
<1>6. CASE Connect(t) \/ SendRequest(t) \/ RecvHeadersFails(t) \/ InsertFails(t)
             \/ RecvHeaders(t) \/ RecvBody(t)
  BY <1>2, <1>6
     DEF Connect, SendRequest, RecvHeadersFails, InsertFails, RecvHeaders,
         RecvBody
<1>7. CASE AppendFirst(t) \/ AppendBody(t)
  BY <1>2, <1>7
     DEF AppendFirst, AppendBody, AppendChunk, cache_entry_append_chunk
<1>8. CASE Sent(t) \/ SendFails(t) \/ RemoteCloses(t) \/ RecvFails(t)
  BY <1>2, <1>8 DEF Sent, SendFails, RemoteCloses, RecvFails, Finish
<1> QED
  BY <1>3, <1>4, <1>5, <1>6, <1>7, <1>8 DEF WorkerNext, WriterStep

\* searchCreateMutex lets one thread at a time insert.
LEMMA OneInserts ==
  ASSUME IInv, NEW t \in Thread, pc[t] \in SearchPc
  PROVE  Inserting = IF At(t, "insert_lru") THEN {entry[t]} ELSE {}
<1>1. \A w \in Thread : pc[w] \in SearchPc => w = t
  BY DEF IInv, Control, MutexAtPc
<1>2. "insert_lru" \in SearchPc
  BY DEF SearchPc
<1> QED
  BY <1>1, <1>2 DEF Inserting, At

LEMMA WorkerLInv ==
  ASSUME IInv, NEW t \in Thread, WorkerNext(t), LInv
  PROVE  LInv'
<1>1. PICK q : LruListed(q)
  BY DEF LInv
<1>2. /\ q \in Seq(Entry) /\ IsInjective(q) /\ ToSet(q) = live \ Inserting
      /\ LruLinked(lru, q)
  BY <1>1 DEF LruListed
<1>3. /\ TypeOK /\ lru \in LruType /\ live \subseteq Entry
      /\ pc \in [Thread -> Pc] /\ entry \in [Thread -> EntryOrNull]
  BY DEF IInv, TypeOK, CacheTypeOK
<1>4. \A w \in Thread \ {t} : pc'[w] = pc[w] /\ entry'[w] = entry[w]
  BY <1>3, WorkerFrame DEF FrameKept
<1>5. CASE LookupHit(t)
  <2>1. PICK e \in live : cache_lookup_hit(req[t], e)
    BY <1>5 DEF LookupHit
  <2>2. /\ lru' = LruAddHead(LruRemove(lru, e), e) /\ live' = live
        /\ pc[t] = "lookup" /\ pc'[t] = "read"
    BY <1>3, <1>5, <2>1 DEF LookupHit, cache_lookup_hit, At, Goto
  <2>3. Inserting = {}
    BY <2>2, OneInserts DEF SearchPc, At
  <2>4. Inserting' = {}
    BY <1>4, <2>2, <2>3 DEF Inserting, At
  <2>5. PICK k \in 1 .. Len(q) : q[k] = e
    BY <1>2, <2>3 DEF ToSet
  <2> DEFINE r == RemoveAt(q, k)
             m == LruRemove(lru, e)
             c == Cons(e, r)
  <2>6. /\ r \in Seq(Entry) /\ ToSet(r) = live \ {e} /\ IsInjective(r)
        /\ m \in LruType /\ e \in Entry
    BY <1>2, <1>3, <2>3, <2>5, RemoveAtChain, LruTypes
  <2>7. LruLinked(m, r)
    BY <1>2, <1>3, <2>5, RemoveLinks
  <2> HIDE DEF r, m
  <2>8. /\ c \in Seq(Entry) /\ IsInjective(c) /\ ToSet(c) = live
    <3>1. /\ c \in Seq(Entry)
          /\ ToSet(c) = ToSet(r) \cup {e}
          /\ IsInjective(r) /\ e \notin ToSet(r) => IsInjective(c)
      BY <2>6, ConsChain
    <3> HIDE DEF c
    <3> QED
      BY <2>6, <3>1
  <2>9. LruLinked(LruAddHead(m, e), c)
    BY <2>6, <2>7, AddHeadLinks
  <2>10. LruLinked(lru', c)
    BY <2>2, <2>9 DEF m
  <2> HIDE DEF c
  <2>11. LruListed(c)'
    BY <2>2, <2>4, <2>8, <2>10 DEF LruListed, LruLinked, Linked
  <2> QED
    BY <2>11 DEF LInv
<1>6. CASE InsertLru(t)
  <2>1. PICK e : e = entry[t]
    OBVIOUS
  <2>2. /\ lru' = LruAddHead(lru, e) /\ live' = live
        /\ pc[t] = "insert_lru" /\ pc'[t] = "append_first"
    BY <1>3, <1>6, <2>1 DEF InsertLru, cache_insert_lru, entryVars, At, Goto
  <2>3. Inserting = {e} /\ \A w \in Thread \ {t} : pc[w] # "insert_lru"
    BY <2>1, <2>2, OneInserts DEF SearchPc, At, IInv, Control, MutexAtPc
  <2>4. Inserting' = {}
    BY <1>4, <2>2, <2>3 DEF Inserting, At
  <2>5. e \in live /\ e \in Entry
    BY <1>3, <2>1, <2>2
       DEF IInv, Control, EntryAtPc, WithEntryPc, References, NoDanglingEntry
  <2> DEFINE c == Cons(e, q)
  <2>6. /\ c \in Seq(Entry) /\ IsInjective(c) /\ ToSet(c) = live
    <3>1. /\ c \in Seq(Entry)
          /\ ToSet(c) = ToSet(q) \cup {e}
          /\ IsInjective(q) /\ e \notin ToSet(q) => IsInjective(c)
      BY <1>2, <2>5, ConsChain
    <3> HIDE DEF c
    <3> QED
      BY <1>2, <2>3, <2>5, <3>1
  <2>7. LruLinked(LruAddHead(lru, e), c)
    BY <1>2, <1>3, <2>3, <2>5, AddHeadLinks
  <2> HIDE DEF c
  <2>8. LruListed(c)'
    BY <2>2, <2>4, <2>6, <2>7 DEF LruListed, LruLinked, Linked
  <2> QED
    BY <2>8 DEF LInv
<1>7. CASE Insert(t)
  <2>1. PICK f \in Entry : /\ cache_insert(f, req[t])
                           /\ entry' = [entry EXCEPT ![t] = f]
    BY <1>7 DEF Insert
  <2>2. /\ f \notin live /\ live' = live \cup {f} /\ lru' = lru
        /\ entry'[t] = f /\ pc[t] = "insert" /\ pc'[t] = "insert_lru"
    BY <1>3, <1>7, <2>1 DEF Insert, cache_insert, At, Goto
  <2>3. Inserting = {} /\ \A w \in Thread \ {t} : pc[w] # "insert_lru"
    BY <2>2, OneInserts DEF SearchPc, At, IInv, Control, MutexAtPc
  <2>4. Inserting' = {f}
    BY <1>4, <2>2, <2>3 DEF Inserting, At
  <2>5. LruListed(q)'
    BY <1>2, <2>2, <2>3, <2>4 DEF LruListed, LruLinked, Linked
  <2> QED
    BY <2>5 DEF LInv
<1>8. CASE ~LookupHit(t) /\ ~Insert(t) /\ ~InsertLru(t)
  <2>1. /\ UNCHANGED <<lru, live>>
        /\ pc[t] # "insert_lru" /\ pc'[t] # "insert_lru"
    BY <1>3, <1>8, LruQuiet
  <2>2. Inserting' = Inserting
    BY <1>4, <2>1 DEF Inserting, At
  <2>3. LruListed(q)'
    BY <1>2, <2>1, <2>2 DEF LruListed, LruLinked, Linked
  <2> QED
    BY <2>3 DEF LInv
<1> QED
  BY <1>5, <1>6, <1>7, <1>8

LEMMA OthersLInv ==
  ASSUME IInv, LInv,
         \/ CollectorNext /\ UNCHANGED <<pc, procVars>>
         \/ MainNext
         \/ UNCHANGED vars
  PROVE  LInv'
<1>1. PICK q : LruListed(q)
  BY DEF LInv
<1>2. /\ q \in Seq(Entry) /\ IsInjective(q) /\ ToSet(q) = live \ Inserting
      /\ LruLinked(lru, q)
  BY <1>1 DEF LruListed
<1>3. Inserting' = Inserting
  BY OthersFrame DEF Inserting, At
<1>4. CASE UNCHANGED <<lru, live>>
  <2>1. LruListed(q)'
    BY <1>2, <1>3, <1>4 DEF LruListed, LruLinked, Linked
  <2> QED
    BY <2>1 DEF LInv
<1>5. CASE cleanup_remove
  <2>1. PICK v : v = Visited
    OBVIOUS
  <2>2. /\ lru' = LruRemove(lru, v) /\ live' = live \ {v}
    BY <1>5, <2>1 DEF cleanup_remove
  <2>3. \A w \in Thread : entry[w] # v
    BY <1>5, <2>1, RemoveUnreferenced
  <2>4. v \in live /\ v \notin Inserting
    <3>1. collector.i \in Bucket /\ collector.pos \in DOMAIN buckets[collector.i]
      BY <1>5
         DEF cleanup_remove, IInv, TypeOK, CacheTypeOK, CollectorType
    <3>2. v \in ToSet(buckets[collector.i])
      BY <2>1, <3>1 DEF Visited, ToSet
    <3> QED
      BY <2>3, <3>1, <3>2 DEF IInv, Chains, ChainsLive, Inserting
  <2>5. PICK k \in 1 .. Len(q) : q[k] = v
    BY <1>2, <2>4 DEF ToSet
  <2> DEFINE r == RemoveAt(q, k)
  <2>6. r \in Seq(Entry) /\ ToSet(r) = ToSet(q) \ {v} /\ IsInjective(r)
    BY <1>2, <2>5, RemoveAtChain
  <2>7. LruLinked(LruRemove(lru, v), r)
    BY <1>2, <2>5, RemoveLinks DEF IInv, TypeOK, CacheTypeOK
  <2> HIDE DEF r
  <2>8. LruListed(r)'
    BY <1>2, <1>3, <2>2, <2>6, <2>7 DEF LruListed, LruLinked, Linked
  <2> QED
    BY <2>8 DEF LInv
<1>6. CASE FreeCache
  <2>1. /\ live' = {} /\ lru'.head = NULL /\ lru'.tail = NULL
    BY <1>6 DEF FreeCache, http_cache_shutdown_free
  <2>2. LruListed(<<>>)'
    BY <2>1 DEF LruListed, LruLinked, Linked, IsInjective, ToSet
  <2> QED
    BY <2>2 DEF LInv
<1>7. CASE CollectorNext /\ ~cleanup_remove
  BY <1>4, <1>7
     DEF CollectorNext, collector_wait, collector_timeout, collector_check,
         cleanup_lock_bucket, cleanup_keep, cleanup_unlock_bucket, entryVars
<1>8. CASE ThreadpoolShutdown \/ JoinWorkers \/ StopCollector \/ UNCHANGED vars
  BY <1>4, <1>8
     DEF ThreadpoolShutdown, JoinWorkers, StopCollector, cacheVars, entryVars,
         http_cache_shutdown_stop, vars
<1> QED
  BY <1>5, <1>6, <1>7, <1>8 DEF MainNext

LEMMA InitLInv == Init => LInv
<1> SUFFICES ASSUME Init
             PROVE  LInv
  OBVIOUS
<1>1. live = {} /\ lru.head = NULL /\ lru.tail = NULL
  BY DEF Init, http_cache_init
<1>2. LruListed(<<>>)
  BY <1>1 DEF LruListed, LruLinked, Linked, IsInjective, ToSet
<1> QED
  BY <1>2 DEF LInv

LEMMA StepLInv == IInv /\ LInv /\ [Next]_vars => LInv'
<1> SUFFICES ASSUME IInv, LInv, [Next]_vars
             PROVE  LInv'
  OBVIOUS
<1>1. CASE \E t \in Thread : WorkerNext(t)
  BY <1>1, WorkerLInv
<1>2. CASE ~\E t \in Thread : WorkerNext(t)
  <2>1. \/ CollectorNext /\ UNCHANGED <<pc, procVars>>
        \/ MainNext
        \/ UNCHANGED vars
    BY <1>2 DEF Next, Terminated
  <2> QED
    BY <2>1, OthersLInv
<1> QED
  BY <1>1, <1>2

\* What LruOrder reads off the links is the list that they hold.
LEMMA LruOrderIs ==
  ASSUME IInv, NEW q, LruListed(q)
  PROVE  LruOrder = q
<1>1. /\ q \in Seq(Entry) /\ IsInjective(q) /\ ToSet(q) = live \ Inserting
      /\ Linked(lru.head, lru.next, NULL, q)
  BY DEF LruListed, LruLinked
<1>2. /\ IsFiniteSet(ToSet(q)) /\ Cardinality(ToSet(q)) = Len(q)
  BY <1>1, CellsCounted
<1>3. IsFiniteSet(Inserting)
  <2>1. CASE \E t \in Thread : At(t, "insert_lru")
    <3>1. PICK t \in Thread : At(t, "insert_lru")
      BY <2>1
    <3>2. pc[t] \in SearchPc
      BY <3>1 DEF At, SearchPc
    <3>3. Inserting = {entry[t]}
      BY <3>1, <3>2, OneInserts
    <3> QED
      BY <3>3, FS_Singleton
  <2>2. CASE ~\E t \in Thread : At(t, "insert_lru")
    <3>1. Inserting = {}
      BY <2>2 DEF Inserting
    <3> QED
      BY <3>1, FS_EmptySet
  <2> QED
    BY <2>1, <2>2
<1>4. IsFiniteSet(live)
  <2>1. IsFiniteSet(ToSet(q) \cup Inserting)
    BY <1>2, <1>3, FS_Union
  <2>2. live \in SUBSET (ToSet(q) \cup Inserting)
    BY <1>1
  <2> QED
    BY <2>1, <2>2, FS_Subset
<1>5. Len(q) <= Cardinality(live) + 1 /\ Cardinality(live) + 1 \in Nat
  <2>1. ToSet(q) \in SUBSET live
    BY <1>1
  <2>2. Cardinality(live) \in Nat /\ Cardinality(ToSet(q)) <= Cardinality(live)
    BY <1>4, <2>1, FS_Subset, FS_CardinalityType
  <2>3. Len(q) \in Nat
    BY <1>1
  <2> QED
    BY <1>2, <2>2, <2>3
<1> QED
  BY <1>1, <1>5, WalkFindsList, HttpCacheAssumption DEF LruOrder

\* The pointer operations of the workers and of the collector keep the LRU
\* list a doubly linked list of exactly the entries that the buckets hold.
THEOREM LruConsistent == Spec => []LruMatchesBuckets
<1>1. IInv /\ LInv => LruMatchesBuckets
  <2> SUFFICES ASSUME IInv, LInv
               PROVE  LruMatchesBuckets
    OBVIOUS
  <2>1. PICK q : LruListed(q)
    BY DEF LInv
  <2>2. LruOrder = q
    BY <2>1, LruOrderIs
  <2>3. live = UNION {ToSet(buckets[b]) : b \in Bucket}
    <3>1. ASSUME NEW e \in live
          PROVE  \E b \in Bucket : e \in ToSet(buckets[b])
      <4>1. BucketIdx(url[e]) \in Bucket
        BY BucketOfUrl DEF IInv, TypeOK, CacheTypeOK
      <4> QED
        BY <4>1 DEF IInv, Chains, LiveInChain
    <3> QED
      BY <3>1 DEF IInv, Chains, ChainsLive
  <2>4. DOMAIN q = 1 .. Len(q)
    BY <2>1 DEF LruListed
  <2> QED
    BY <2>1, <2>2, <2>3, <2>4
       DEF LruMatchesBuckets, LruListed, LruLinked, Inserting
<1>2. Spec => []LInv
  BY InitLInv, StepLInv, Invariance, PTL DEF Spec
<1> QED
  BY <1>1, <1>2, Invariance, PTL

-----------------------------------------------------------------------------
(* The walk over the chunks. *)

\* What a slice of d is, byte by byte.
SlicedFrom(a, d, offset, size) ==
  /\ Len(d) <= offset => Len(a) = 0
  /\ offset <= Len(d) =>
       Len(a) = IF size < Len(d) - offset THEN size ELSE Len(d) - offset
  /\ \A k \in 1 .. Len(a) : a[k] = d[offset + k]

LEMMA SliceBytes ==
  ASSUME NEW X, NEW d \in Seq(X), NEW offset \in Nat, NEW size \in Nat
  PROVE  /\ Slice(d, offset, size) \in Seq(X)
         /\ SlicedFrom(Slice(d, offset, size), d, offset, size)
BY DEF Slice, SlicedFrom

\* Sequences with the same bytes are equal.
LEMMA SameBytes ==
  ASSUME NEW X, NEW n \in Nat, NEW a \in Seq(X), NEW b \in Seq(X),
         Len(a) = n, Len(b) = n, \A k \in 1 .. n : a[k] = b[k]
  PROVE  a = b
OBVIOUS

\* Of chunk d, r bytes from its offset o on belong to a slice of s \o d that s
\* has no part in.
StartsAt(s, d, offset, size, o, r) ==
  /\ Len(s) <= offset
  /\ o = offset - Len(s)
  /\ o <= Len(d)
  /\ r = IF size < Len(d) - o THEN size ELSE Len(d) - o

\* One more chunk behind a list that ends at or before the offset.
LEMMA SliceStarts ==
  ASSUME NEW X, NEW s \in Seq(X), NEW d \in Seq(X), NEW offset \in Nat,
         NEW size \in Nat, NEW o \in Nat, NEW r \in Int,
         StartsAt(s, d, offset, size, o, r)
  PROVE  Slice(s \o d, offset, size) = SubSeq(d, o + 1, o + r)
<1> DEFINE p == s \o d
           a == Slice(p, offset, size)
           b == SubSeq(d, o + 1, o + r)
<1>1. /\ Len(s) \in Nat /\ Len(d) \in Nat /\ o \in Nat /\ r \in Nat
      /\ o + r <= Len(d)
  BY DEF StartsAt
<1>2. /\ p \in Seq(X) /\ Len(p) = Len(s) + Len(d)
      /\ \A k \in 1 .. Len(d) : p[Len(s) + k] = d[k]
  OBVIOUS
<1>3. /\ b \in Seq(X) /\ Len(b) = r /\ \A k \in 1 .. r : b[k] = d[o + k]
  BY <1>1
<1> HIDE DEF p, b
<1>4. /\ a \in Seq(X) /\ Len(a) = r /\ \A k \in 1 .. r : a[k] = p[offset + k]
  <2>1. /\ offset <= Len(p) /\ Len(p) - offset = Len(d) - o
        /\ r = IF size < Len(d) - o THEN size ELSE Len(d) - o
    BY <1>1, <1>2 DEF StartsAt
  <2>2. a \in Seq(X) /\ SlicedFrom(a, p, offset, size)
    BY <1>2, SliceBytes
  <2> QED
    BY <2>1, <2>2 DEF SlicedFrom
<1> HIDE DEF a
<1>5. ASSUME NEW k \in 1 .. r
      PROVE  a[k] = b[k]
  <2>1. o + k \in 1 .. Len(d) /\ offset + k = Len(s) + (o + k)
    BY <1>1 DEF StartsAt
  <2>2. p[offset + k] = d[o + k]
    BY <1>2, <2>1
  <2> QED
    BY <1>3, <1>4, <2>2
<1>6. a = b
  BY <1>1, <1>3, <1>4, <1>5, SameBytes
<1> QED
  BY <1>6 DEF a, b, p

\* One more chunk behind a list that the slice has begun in.
LEMMA SliceGoesOn ==
  ASSUME NEW X, NEW s \in Seq(X), NEW d \in Seq(X), NEW offset \in Nat,
         NEW size \in Nat, offset <= Len(s), NEW r \in Int,
         r = IF size - Len(Slice(s, offset, size)) < Len(d)
             THEN size - Len(Slice(s, offset, size)) ELSE Len(d)
  PROVE  Slice(s \o d, offset, size) =
              Slice(s, offset, size) \o SubSeq(d, 1, r)
<1> DEFINE p == s \o d
           a == Slice(s, offset, size)
           b == Slice(p, offset, size)
           e == SubSeq(d, 1, r)
           f == a \o e
           m == Len(a) + r
<1>1. Len(s) \in Nat /\ Len(d) \in Nat
  OBVIOUS
<1>2. /\ p \in Seq(X) /\ Len(p) = Len(s) + Len(d)
      /\ \A k \in 1 .. Len(s) : p[k] = s[k]
      /\ \A k \in 1 .. Len(d) : p[Len(s) + k] = d[k]
  OBVIOUS
<1>3. a \in Seq(X) /\ SlicedFrom(a, s, offset, size)
  BY SliceBytes
<1>4. r = IF size - Len(a) < Len(d) THEN size - Len(a) ELSE Len(d)
  OBVIOUS
<1> HIDE DEF p, a
<1>5. /\ Len(a) \in Nat /\ Len(a) <= size /\ Len(a) <= Len(s) - offset
      /\ Len(a) = size \/ Len(a) = Len(s) - offset
  BY <1>1, <1>3 DEF SlicedFrom
<1>6. /\ r \in Nat /\ r <= Len(d) /\ r <= size - Len(a)
      /\ r = Len(d) \/ r = size - Len(a)
  <2>1. CASE size - Len(a) < Len(d)
    BY <1>1, <1>4, <1>5, <2>1
  <2>2. CASE ~(size - Len(a) < Len(d))
    BY <1>1, <1>4, <1>5, <2>2
  <2> QED
    BY <2>1, <2>2
<1>7. /\ e \in Seq(X) /\ Len(e) = r /\ \A k \in 1 .. r : e[k] = d[k]
  BY <1>6
<1>8. b \in Seq(X) /\ Len(b) = m /\ \A k \in 1 .. m : b[k] = p[offset + k]
  <2>1. b \in Seq(X) /\ SlicedFrom(b, p, offset, size)
    BY <1>2, SliceBytes
  <2> HIDE DEF b
  <2>2. /\ offset <= Len(p) /\ m <= size /\ m <= Len(p) - offset
        /\ m = size \/ m = Len(p) - offset
    <3>1. Len(p) = Len(s) + Len(d)
      BY <1>2
    <3>2. offset <= Len(p) /\ m <= size /\ m <= Len(p) - offset
      BY <1>1, <1>5, <1>6, <3>1
    <3>3. CASE r = size - Len(a)
      BY <1>1, <1>5, <1>6, <3>1, <3>2, <3>3
    <3>4. CASE r = Len(d)
      <4>1. CASE Len(a) = size
        BY <1>1, <1>5, <1>6, <3>1, <3>2, <3>4, <4>1
      <4>2. CASE Len(a) = Len(s) - offset
        BY <1>1, <1>5, <1>6, <3>1, <3>2, <3>4, <4>2
      <4> QED
        BY <1>5, <4>1, <4>2
    <3> QED
      BY <1>6, <3>3, <3>4
  <2> HIDE DEF m
  <2>3. /\ Len(b) \in Int /\ Len(b) <= size /\ Len(b) <= Len(p) - offset
        /\ Len(b) = size \/ Len(b) = Len(p) - offset
    BY <1>1, <1>2, <2>1, <2>2 DEF SlicedFrom
  <2>4. m \in Int
    BY <1>5, <1>6 DEF m
  <2>5. Len(b) = m
    BY <1>1, <1>2, <2>2, <2>3, <2>4
  <2> QED
    BY <2>1, <2>5 DEF SlicedFrom
<1> HIDE DEF b, e
<1>9. /\ f \in Seq(X) /\ Len(f) = Len(a) + Len(e)
      /\ \A k \in 1 .. Len(a) : f[k] = a[k]
      /\ \A k \in 1 .. Len(e) : f[Len(a) + k] = e[k]
  <2>1. a \in Seq(X) /\ e \in Seq(X)
    BY <1>3, <1>7
  <2> QED
    BY <2>1
<1> HIDE DEF f
<1>10. ASSUME NEW k \in 1 .. m
       PROVE  b[k] = f[k]
  <2>1. CASE k <= Len(a)
    <3>1. k \in 1 .. Len(a) /\ offset + k \in 1 .. Len(s)
      BY <1>1, <1>5, <2>1
    <3>2. a[k] = s[offset + k]
      BY <1>3, <3>1 DEF SlicedFrom
    <3> QED
      BY <1>2, <1>8, <1>9, <3>1, <3>2
  <2>2. CASE k > Len(a)
    <3> DEFINE j == k - Len(a)
    <3>1. j \in 1 .. r /\ k = Len(a) + j
      BY <1>5, <1>6, <2>2
    <3>2. j \in 1 .. Len(d) /\ offset + k = Len(s) + j
      BY <1>1, <1>5, <1>6, <3>1
    <3> HIDE DEF j, m
    <3>3. f[k] = d[j]
      BY <1>7, <1>9, <3>1
    <3>4. p[offset + k] = d[j]
      BY <1>2, <3>2
    <3> QED
      BY <1>8, <3>3, <3>4
  <2> QED
    BY <1>5, <1>6, <2>1, <2>2
<1>11. b = f
  <2>1. m \in Nat /\ Len(f) = m
    BY <1>5, <1>6, <1>7, <1>9
  <2> HIDE DEF m
  <2> QED
    BY <1>8, <1>9, <1>10, <2>1, SameBytes
<1> QED
  BY <1>11 DEF a, b, e, f, p

\* FlattenSeq puts the chunks together one by one.
LEMMA FlattenPrefixes ==
  ASSUME NEW X, NEW c \in Seq(Seq(X))
  PROVE  \E p \in [1 .. Len(c) + 1 -> Seq(X)] :
           /\ p[1] = <<>>
           /\ \A k \in 1 .. Len(c) : p[k + 1] = p[k] \o c[k]
           /\ p[Len(c) + 1] = FlattenSeq(c)
<1> DEFINE n == Len(c)
<1>1. n \in Nat /\ \A k \in 1 .. n : c[k] \in Seq(X)
  OBVIOUS
<1>2. CASE n = 0
  <2> DEFINE p == [k \in 1 .. 1 |-> <<>>]
  <2>1. c = <<>> /\ FlattenSeq(c) = c
    BY <1>2 DEF FlattenSeq
  <2>2. <<>> \in Seq(X)
    OBVIOUS
  <2>3. p \in [1 .. n + 1 -> Seq(X)] /\ p[1] = <<>> /\ p[n + 1] = FlattenSeq(c)
    BY <1>2, <2>1, <2>2
  <2>4. \A k \in 1 .. n : p[k + 1] = p[k] \o c[k]
    BY <1>2
  <2> HIDE DEF p
  <2> QED
    BY <2>3, <2>4
<1>3. CASE n # 0
  <2> DEFINE Step(f) == [k \in 1 .. n |->
                          IF k = 1 THEN c[k] ELSE f[k - 1] \o c[k]]
             flatten == CHOOSE f : f = Step(f)
             D == [k \in 2 .. n |-> [s \in Seq(X) |-> s \o c[k]]]
             p == [k \in 1 .. n + 1 |-> IF k = 1 THEN <<>> ELSE flatten[k - 1]]
  <2>1. D \in [2 .. n -> [Seq(X) -> Seq(X)]] /\ c[1] \in Seq(X)
    BY <1>1, <1>3
  <2>2. PICK g \in [1 .. n -> Seq(X)] :
               g[1] = c[1] /\ \A k \in 2 .. n : g[k] = D[k][g[k - 1]]
    <3> DEFINE V == Seq(X)
               v == c[1]
    <3>1. n \in Nat \ {0} /\ v \in V /\ D \in [2 .. n -> [V -> V]]
      BY <1>1, <1>3, <2>1
    <3> HIDE DEF n, D, V, v
    <3>2. Solvable(V, v, D, n)
      BY <3>1, RecursionExists
    <3> QED
      BY <3>2 DEF V, v, Solvable
  <2>3. g = Step(g)
    <3>1. ASSUME NEW k \in 1 .. n
          PROVE  g[k] = IF k = 1 THEN c[k] ELSE g[k - 1] \o c[k]
      <4>1. CASE k = 1
        BY <2>2, <4>1
      <4>2. CASE k # 1
        <5>1. k \in 2 .. n /\ k - 1 \in 1 .. n
          BY <1>1, <4>2
        <5>2. D[k] = [s \in Seq(X) |-> s \o c[k]] /\ g[k - 1] \in Seq(X)
          BY <5>1
        <5>3. D[k][g[k - 1]] = g[k - 1] \o c[k]
          BY <5>2
        <5> QED
          BY <2>2, <4>2, <5>1, <5>3
      <4> QED
        BY <4>1, <4>2
    <3>2. g = [k \in 1 .. n |-> g[k]]
      OBVIOUS
    <3> QED
      BY <3>1, <3>2
  <2>4. flatten = Step(flatten)
    <3> HIDE DEF Step
    <3> QED
      BY <2>3
  <2>5. FlattenSeq(c) = flatten[n]
    BY <1>3 DEF FlattenSeq
  <2> HIDE DEF flatten
  <2>6. \A k \in 1 .. n :
          flatten[k] = IF k = 1 THEN c[k] ELSE flatten[k - 1] \o c[k]
    BY <2>4
  <2>7. \A k \in 1 .. n : flatten[k] \in Seq(X)
    <3> DEFINE T == {k \in 1 .. n : flatten[k] \in Seq(X)}
    <3>1. ASSUME NEW k \in 1 .. n, \A j \in 1 .. k - 1 : j \in T
          PROVE  flatten[k] \in Seq(X)
      <4>1. CASE k = 1
        BY <1>1, <2>6, <4>1
      <4>2. CASE k # 1
        <5>1. k - 1 \in 1 .. k - 1
          BY <4>2
        <5>2. flatten[k - 1] \in Seq(X) /\ c[k] \in Seq(X)
          BY <1>1, <3>1, <5>1
        <5>3. flatten[k] = flatten[k - 1] \o c[k]
          BY <2>6, <4>2
        <5> QED
          BY <5>2, <5>3
      <4> QED
        BY <4>1, <4>2
    <3>2. \A k \in 1 .. n : (\A j \in 1 .. k - 1 : j \in T) => k \in T
      BY <3>1
    <3> HIDE DEF T
    <3>3. \A k \in 1 .. n : k \in T
      BY <1>1, <3>2, CountUp
    <3> QED
      BY <3>3 DEF T
  <2>8. p \in [1 .. n + 1 -> Seq(X)] /\ p[1] = <<>> /\ p[n + 1] = flatten[n]
    <3>1. <<>> \in Seq(X)
      OBVIOUS
    <3>2. \A k \in 1 .. n + 1 : k # 1 => k - 1 \in 1 .. n
      BY <1>1
    <3>3. n + 1 \in 1 .. n + 1 /\ (n + 1) - 1 = n /\ n + 1 # 1 /\ 1 \in 1 .. n + 1
      BY <1>1, <1>3
    <3> HIDE DEF n
    <3> QED
      BY <2>7, <3>1, <3>2, <3>3
  <2>9. ASSUME NEW k \in 1 .. n
        PROVE  p[k + 1] = p[k] \o c[k]
    <3>1. k + 1 \in 1 .. n + 1 /\ (k + 1) - 1 = k /\ k + 1 # 1 /\ k \in 1 .. n + 1
      BY <1>1
    <3>2. p[k + 1] = flatten[k]
      BY <3>1
    <3>3. CASE k = 1
      <4>1. p[k] = <<>> /\ flatten[k] = c[k] /\ c[k] \in Seq(X)
        BY <1>1, <2>6, <2>8, <3>3
      <4>2. <<>> \o c[k] = c[k]
        BY <4>1
      <4> QED
        BY <3>2, <4>1, <4>2
    <3>4. CASE k # 1
      BY <2>6, <3>1, <3>2, <3>4
    <3> QED
      BY <3>3, <3>4
  <2> HIDE DEF p
  <2> QED
    BY <2>5, <2>8, <2>9
<1> QED
  BY <1>2, <1>3

\* The bytes before each of the chunks.
BytesBefore(p, c, X) ==
  /\ p \in [1 .. Len(c) + 1 -> Seq(X)]
  /\ p[1] = <<>>
  /\ \A k \in 1 .. Len(c) : p[k + 1] = p[k] \o c[k]

\* The first loop stops at the chunk that holds the byte behind offset.
LEMMA SeekStops ==
  ASSUME NEW X, NEW c \in Seq(Seq(X)), NEW p, BytesBefore(p, c, X),
         NEW offset \in Nat, NEW from, from = SeekChunk(c, offset)
  PROVE  /\ from.chunk \in 1 .. Len(c) + 1
         /\ from.offset = offset - Len(p[from.chunk])
         /\ \A k \in 1 .. from.chunk : Len(p[k]) <= offset
         /\ from.chunk <= Len(c) => from.offset < Len(c[from.chunk])
<1> DEFINE n == Len(c)
           Step(f) == [i \in 1 .. n + 1 |->
                        IF i = 1 THEN offset ELSE f[i - 1] - Len(c[i - 1])]
           left == CHOOSE f : f = Step(f)
           D == [i \in 2 .. n + 1 |-> [x \in Int |-> x - Len(c[i - 1])]]
           S == {i \in 1 .. n + 1 : i <= n => left[i] < Len(c[i])}
           stop == Min(S)
<1>1. /\ n \in Nat
      /\ \A k \in 1 .. n : c[k] \in Seq(X) /\ Len(c[k]) \in Nat
      /\ \A k \in 1 .. n + 1 : Len(p[k]) \in Nat
      /\ Len(p[1]) = 0
      /\ \A k \in 1 .. n : Len(p[k + 1]) = Len(p[k]) + Len(c[k])
  <2>1. n \in Nat /\ \A k \in 1 .. n : c[k] \in Seq(X) /\ Len(c[k]) \in Nat
    OBVIOUS
  <2>2. \A k \in 1 .. n + 1 : p[k] \in Seq(X) /\ Len(p[k]) \in Nat
    BY DEF BytesBefore
  <2>3. Len(p[1]) = 0
    BY DEF BytesBefore
  <2>4. ASSUME NEW k \in 1 .. n
        PROVE  Len(p[k + 1]) = Len(p[k]) + Len(c[k])
    <3>1. k \in 1 .. n + 1
      BY <2>1
    <3>2. p[k] \in Seq(X) /\ c[k] \in Seq(X)
      BY <2>1, <2>2, <3>1
    <3>3. p[k + 1] = p[k] \o c[k]
      BY DEF BytesBefore
    <3> QED
      BY <3>2, <3>3
  <2> QED
    BY <2>1, <2>2, <2>3, <2>4
<1>2. from = [chunk |-> stop, offset |-> left[stop]]
  BY DEF SeekChunk
<1> HIDE DEF n
<1>3. left = Step(left)
  <2>1. D \in [2 .. n + 1 -> [Int -> Int]]
    <3>1. \A i \in 2 .. n + 1 : i - 1 \in 1 .. n
      BY <1>1
    <3>2. \A i \in 2 .. n + 1 : Len(c[i - 1]) \in Int
      BY <1>1, <3>1
    <3> QED
      BY <3>2
  <2>2. Solvable(Int, offset, D, n + 1)
    <3>1. offset \in Int /\ n + 1 \in Nat \ {0}
      BY <1>1
    <3> HIDE DEF D
    <3> QED
      BY <2>1, <3>1, RecursionExists
  <2>3. PICK g \in [1 .. n + 1 -> Int] :
          g[1] = offset /\ \A k \in 2 .. n + 1 : g[k] = D[k][g[k - 1]]
    BY <2>2 DEF Solvable
  <2>4. ASSUME NEW k \in 1 .. n + 1
        PROVE  g[k] = IF k = 1 THEN offset ELSE g[k - 1] - Len(c[k - 1])
    <3>1. CASE k = 1
      BY <2>3, <3>1
    <3>2. CASE k # 1
      <4>1. k \in 2 .. n + 1 /\ k - 1 \in 1 .. n + 1
        BY <1>1, <3>2
      <4>2. D[k] = [x \in Int |-> x - Len(c[k - 1])] /\ g[k - 1] \in Int
        BY <4>1
      <4>3. D[k][g[k - 1]] = g[k - 1] - Len(c[k - 1])
        BY <4>2
      <4> QED
        BY <2>3, <3>2, <4>1, <4>3
    <3> QED
      BY <3>1, <3>2
  <2>5. g = [k \in 1 .. n + 1 |-> g[k]]
    OBVIOUS
  <2>6. g = Step(g)
    BY <2>4, <2>5
  <2> HIDE DEF Step
  <2> QED
    BY <2>6
<1> HIDE DEF left
<1>4. \A i \in 1 .. n + 1 :
        left[i] = IF i = 1 THEN offset ELSE left[i - 1] - Len(c[i - 1])
  BY <1>3
<1> DEFINE T == {i \in 1 .. n + 1 : left[i] = offset - Len(p[i])}
<1>5. \A i \in 1 .. n + 1 : left[i] = offset - Len(p[i])
  <2>1. ASSUME NEW k \in 1 .. n + 1, \A j \in 1 .. k - 1 : j \in T
        PROVE  left[k] = offset - Len(p[k])
    <3>1. CASE k = 1
      <4>1. left[1] = offset /\ Len(p[1]) = 0 /\ offset = offset - 0
        BY <1>1, <1>4, <3>1
      <4> QED
        BY <3>1, <4>1
    <3>2. CASE k # 1
      <4> DEFINE j == k - 1
      <4>1. j \in 1 .. k - 1 /\ j \in 1 .. n /\ k = j + 1
        BY <1>1, <3>2
      <4>2. left[j] = offset - Len(p[j])
        BY <2>1, <4>1
      <4>3. left[k] = left[j] - Len(c[j])
        BY <1>4, <3>2
      <4> HIDE DEF j
      <4>4. /\ Len(p[k]) = Len(p[j]) + Len(c[j])
            /\ Len(p[j]) \in Nat /\ Len(c[j]) \in Nat
        <5>1. j \in 1 .. n /\ j \in 1 .. n + 1
          BY <1>1, <4>1
        <5>2. Len(p[j + 1]) = Len(p[j]) + Len(c[j])
          BY <1>1, <5>1
        <5> QED
          BY <1>1, <4>1, <5>1, <5>2
      <4> QED
        BY <4>2, <4>3, <4>4
    <3> QED
      BY <3>1, <3>2
  <2>2. \A k \in 1 .. n + 1 : (\A j \in 1 .. k - 1 : j \in T) => k \in T
    BY <2>1
  <2>3. n + 1 \in Nat
    BY <1>1
  <2> HIDE DEF T
  <2>4. \A k \in 1 .. n + 1 : k \in T
    BY <2>2, <2>3, CountUp
  <2> QED
    BY <2>4 DEF T
<1>6. stop \in S /\ \A i \in S : stop <= i
  <2>1. n + 1 \in S /\ S \in SUBSET Nat
    BY <1>1
  <2> HIDE DEF S
  <2>2. \E x \in S : \A y \in S : x <= y
    BY <2>1, LeastNumber
  <2> QED
    BY <2>2 DEF Min
<1> HIDE DEF stop
<1>7. stop \in 1 .. n + 1 /\ (stop <= n => left[stop] < Len(c[stop]))
  BY <1>6
<1>8. ASSUME NEW k \in 1 .. stop
      PROVE  Len(p[k]) <= offset
  <2>1. CASE k = 1
    BY <1>1, <2>1
  <2>2. CASE k # 1
    <3> DEFINE j == k - 1
    <3>1. j \in 1 .. n /\ j \in 1 .. n + 1 /\ k = j + 1 /\ ~(stop <= j)
      BY <1>1, <1>7, <2>2
    <3> HIDE DEF j
    <3>2. j \notin S
      BY <1>6, <3>1
    <3>3. ~(left[j] < Len(c[j]))
      BY <3>1, <3>2
    <3>4. /\ Len(p[k]) = Len(p[j]) + Len(c[j])
          /\ Len(p[j]) \in Nat /\ Len(c[j]) \in Nat
          /\ left[j] = offset - Len(p[j])
      BY <1>1, <1>5, <3>1
    <3> DEFINE a == Len(p[j])
               b == Len(c[j])
    <3>5. a \in Nat /\ b \in Nat /\ ~(offset - a < b) /\ Len(p[k]) = a + b
      BY <3>3, <3>4
    <3> HIDE DEF a, b
    <3>6. a + b <= offset
      BY <3>5
    <3> QED
      BY <3>5, <3>6
  <2> QED
    BY <2>1, <2>2
<1>9. from.chunk = stop /\ from.offset = left[stop]
  BY <1>2
<1> HIDE DEF S
<1> QED
  BY <1>5, <1>7, <1>8, <1>9 DEF n

\* One round of the second loop: what it has read when it leaves chunk j.
ReadChunk(c, from, size, j, s) ==
  LET chunk_offset == IF j = from.chunk THEN from.offset ELSE 0
      available == Len(c[j]) - chunk_offset
      rest == size - Len(s)
      to_read == IF rest < available THEN rest ELSE available
  IN s \o SubSeq(c[j], chunk_offset + 1, chunk_offset + to_read)

\* A part of a sequence that does not reach over its end.
LEMMA PartOf ==
  ASSUME NEW X, NEW d \in Seq(X), NEW a \in Nat, NEW b \in Int, b <= Len(d)
  PROVE  SubSeq(d, a + 1, b) \in Seq(X)
<1>1. \A k \in (a + 1) .. b : k \in 1 .. Len(d)
  OBVIOUS
<1> QED
  BY <1>1

\* A round copies no byte from behind the end of its chunk.
LEMMA ReadChunkType ==
  ASSUME NEW X, NEW c \in Seq(Seq(X)), NEW from, from.offset \in Nat,
         NEW size \in Nat, NEW j \in 1 .. Len(c), NEW s \in Seq(X)
  PROVE  ReadChunk(c, from, size, j, s) \in Seq(X)
<1> DEFINE d == c[j]
           o == IF j = from.chunk THEN from.offset ELSE 0
           a == Len(d) - o
           r == size - Len(s)
           m == IF r < a THEN r ELSE a
           e == SubSeq(d, o + 1, o + m)
<1>1. d \in Seq(X) /\ Len(d) \in Nat /\ Len(s) \in Nat /\ o \in Nat
  OBVIOUS
<1>2. ReadChunk(c, from, size, j, s) = s \o e
  BY DEF ReadChunk
<1> HIDE DEF d, o
<1>3. a \in Int /\ r \in Int
  BY <1>1
<1>4. m \in Int /\ m <= a
  <2> HIDE DEF a, r
  <2> QED
    BY <1>3
<1> HIDE DEF m
<1>5. o + m \in Int /\ o + m <= Len(d)
  BY <1>1, <1>4
<1> DEFINE b == o + m
<1> HIDE DEF b
<1>6. SubSeq(d, o + 1, b) \in Seq(X)
  BY <1>1, <1>5, PartOf DEF b
<1>7. e \in Seq(X)
  BY <1>6 DEF b
<1> HIDE DEF e
<1> QED
  BY <1>2, <1>7

\* The rounds of the second loop, one after the other.
CopyRounds(g, c, from, size, X) ==
  /\ g \in [1 .. Len(c) + 1 -> Seq(X)]
  /\ \A i \in 1 .. from.chunk : g[i] = <<>>
  /\ \A j \in from.chunk .. Len(c) :
       g[j + 1] = ReadChunk(c, from, size, j, g[j])
  /\ g[Len(c) + 1] = CopyChunks(c, from, size)

\* The recursive definition of CopyChunks has the rounds as its solution.
LEMMA CopyInRounds ==
  ASSUME NEW X, NEW c \in Seq(Seq(X)), NEW from,
         from.chunk \in 1 .. Len(c) + 1, from.offset \in Nat, NEW size \in Nat
  PROVE  \E g : CopyRounds(g, c, from, size, X)
<1> DEFINE n == Len(c)
           R(j, s) == ReadChunk(c, from, size, j, s)
           Step(f) == [i \in 1 .. n + 1 |->
                        IF i <= from.chunk THEN <<>> ELSE R(i - 1, f[i - 1])]
           copied == CHOOSE f : f = Step(f)
           D == [i \in 2 .. n + 1 |-> [s \in Seq(X) |->
                  IF i <= from.chunk THEN <<>> ELSE R(i - 1, s)]]
<1>1. n \in Nat /\ from.chunk \in 1 .. n + 1 /\ <<>> \in Seq(X)
  OBVIOUS
<1>2. CopyChunks(c, from, size) = copied[n + 1]
  BY DEF CopyChunks, ReadChunk
<1>3. \A j \in 1 .. n : \A s \in Seq(X) : R(j, s) \in Seq(X)
  BY ReadChunkType
<1> HIDE DEF n, R
<1>4. \A i \in 2 .. n + 1 : i - 1 \in 1 .. n
  BY <1>1
<1>5. D \in [2 .. n + 1 -> [Seq(X) -> Seq(X)]]
  BY <1>1, <1>3, <1>4
<1>6. PICK g \in [1 .. n + 1 -> Seq(X)] :
        g[1] = <<>> /\ \A k \in 2 .. n + 1 : g[k] = D[k][g[k - 1]]
  <2> DEFINE V == Seq(X)
             v == <<>>
  <2>1. n + 1 \in Nat \ {0} /\ v \in V /\ D \in [2 .. n + 1 -> [V -> V]]
    BY <1>1, <1>5
  <2> HIDE DEF D, V, v
  <2>2. Solvable(V, v, D, n + 1)
    BY <2>1, RecursionExists
  <2> QED
    BY <2>2 DEF V, v, Solvable
<1>7. ASSUME NEW k \in 1 .. n + 1
      PROVE  g[k] = IF k <= from.chunk THEN <<>> ELSE R(k - 1, g[k - 1])
  <2>1. CASE k = 1
    BY <1>1, <1>6, <2>1
  <2>2. CASE k # 1
    <3>1. k \in 2 .. n + 1 /\ k - 1 \in 1 .. n + 1
      BY <1>1, <2>2
    <3>2. /\ D[k] = [s \in Seq(X) |->
                      IF k <= from.chunk THEN <<>> ELSE R(k - 1, s)]
          /\ g[k - 1] \in Seq(X)
      BY <3>1
    <3>3. D[k][g[k - 1]] = IF k <= from.chunk THEN <<>> ELSE R(k - 1, g[k - 1])
      BY <3>2
    <3> QED
      BY <1>6, <3>1, <3>3
  <2> QED
    BY <2>1, <2>2
<1>8. g = Step(g)
  <2>1. g = [k \in 1 .. n + 1 |-> g[k]]
    OBVIOUS
  <2> QED
    BY <1>7, <2>1
<1>9. copied = Step(copied)
  <2> HIDE DEF Step
  <2> QED
    BY <1>8
<1> HIDE DEF copied
<1>10. \A k \in 1 .. n + 1 : copied[k] =
         IF k <= from.chunk THEN <<>> ELSE R(k - 1, copied[k - 1])
  BY <1>9
<1> DEFINE T == {k \in 1 .. n + 1 : copied[k] \in Seq(X)}
<1>11. \A k \in 1 .. n + 1 : copied[k] \in Seq(X)
  <2>1. ASSUME NEW k \in 1 .. n + 1, \A j \in 1 .. k - 1 : j \in T
        PROVE  copied[k] \in Seq(X)
    <3>1. CASE k <= from.chunk
      BY <1>1, <1>10, <3>1
    <3>2. CASE ~(k <= from.chunk)
      <4>1. k - 1 \in 1 .. n /\ k - 1 \in 1 .. k - 1
        BY <1>1, <3>2
      <4>2. copied[k - 1] \in Seq(X)
        BY <2>1, <4>1
      <4> QED
        BY <1>3, <1>10, <3>2, <4>1, <4>2
    <3> QED
      BY <3>1, <3>2
  <2>2. \A k \in 1 .. n + 1 : (\A j \in 1 .. k - 1 : j \in T) => k \in T
    BY <2>1
  <2>3. n + 1 \in Nat
    BY <1>1
  <2> HIDE DEF T
  <2>4. \A k \in 1 .. n + 1 : k \in T
    BY <2>2, <2>3, CountUp
  <2> QED
    BY <2>4 DEF T
<1>12. copied \in [1 .. n + 1 -> Seq(X)]
  <2>1. copied = [k \in 1 .. n + 1 |-> copied[k]]
    <3>1. Step(copied) = [k \in 1 .. n + 1 |-> Step(copied)[k]]
      OBVIOUS
    <3> HIDE DEF Step
    <3> QED
      BY <1>9, <3>1
  <2> QED
    BY <1>11, <2>1
<1>13. \A i \in 1 .. from.chunk : copied[i] = <<>>
  <2>1. \A i \in 1 .. from.chunk : i \in 1 .. n + 1 /\ i <= from.chunk
    BY <1>1
  <2> QED
    BY <1>10, <2>1
<1>14. ASSUME NEW j \in from.chunk .. n
       PROVE  copied[j + 1] = R(j, copied[j])
  <2>1. j + 1 \in 1 .. n + 1 /\ ~(j + 1 <= from.chunk) /\ (j + 1) - 1 = j
    BY <1>1
  <2> QED
    BY <1>10, <2>1
<1>15. CopyRounds(copied, c, from, size, X)
  BY <1>2, <1>12, <1>13, <1>14 DEF CopyRounds, n, R
<1> QED
  BY <1>15

\* For every list of chunks, every offset and every size: the two loops of
\* cache_entry_read return what a slice of the bytes as one sequence is,
\* wherever the chunk boundaries fall.
THEOREM WalkReadsSlice ==
  ASSUME NEW X, NEW c \in Seq(Seq(X)), NEW offset \in Nat, NEW size \in Nat
  PROVE  CopyChunks(c, SeekChunk(c, offset), size)
           = Slice(FlattenSeq(c), offset, size)
<1> DEFINE n == Len(c)
           from == SeekChunk(c, offset)
           W(d) == Slice(d, offset, size)
<1>1. PICK p \in [1 .. n + 1 -> Seq(X)] :
        /\ p[1] = <<>>
        /\ \A k \in 1 .. n : p[k + 1] = p[k] \o c[k]
        /\ p[n + 1] = FlattenSeq(c)
  BY FlattenPrefixes
<1>2. /\ n \in Nat
      /\ \A k \in 1 .. n : c[k] \in Seq(X) /\ Len(c[k]) \in Nat
      /\ \A k \in 1 .. n + 1 : p[k] \in Seq(X) /\ Len(p[k]) \in Nat
  BY <1>1
<1>3. /\ from.chunk \in 1 .. n + 1
      /\ from.offset = offset - Len(p[from.chunk])
      /\ \A k \in 1 .. from.chunk : Len(p[k]) <= offset
      /\ from.chunk <= n => from.offset < Len(c[from.chunk])
  <2>1. BytesBefore(p, c, X)
    BY <1>1 DEF BytesBefore
  <2> QED
    BY <2>1, SeekStops
<1> HIDE DEF n, from
<1>4. from.offset \in Nat
  <2>1. Len(p[from.chunk]) \in Nat /\ Len(p[from.chunk]) <= offset
    BY <1>2, <1>3
  <2> QED
    BY <1>3, <2>1
<1>5. PICK g : CopyRounds(g, c, from, size, X)
  BY <1>3, <1>4, CopyInRounds DEF n
<1>6. /\ g \in [1 .. n + 1 -> Seq(X)]
      /\ \A i \in 1 .. from.chunk : g[i] = <<>>
      /\ \A j \in from.chunk .. n :
           g[j + 1] = ReadChunk(c, from, size, j, g[j])
      /\ g[n + 1] = CopyChunks(c, from, size)
  BY <1>5 DEF CopyRounds, n
<1>7. ASSUME NEW k \in 1 .. n
      PROVE  Len(p[k + 1]) = Len(p[k]) + Len(c[k])
  <2>1. k \in 1 .. n + 1
    BY <1>2
  <2>2. p[k + 1] = p[k] \o c[k]
    BY <1>1
  <2>3. p[k] \in Seq(X) /\ c[k] \in Seq(X)
    BY <1>2, <2>1
  <2> QED
    BY <2>2, <2>3
<1> DEFINE Good(i) == /\ g[i] = W(p[i])
                      /\ from.chunk < i => offset <= Len(p[i])
           T == {i \in 1 .. n + 1 : Good(i)}
\* Before the chunk at which the first loop stops, the slice is empty.
<1>8. ASSUME NEW i \in 1 .. from.chunk
      PROVE  Good(i)
  <2>1. i \in 1 .. n + 1 /\ ~(from.chunk < i)
    BY <1>2, <1>3
  <2>2. p[i] \in Seq(X) /\ Len(p[i]) <= offset
    BY <1>2, <1>3, <2>1
  <2>3. W(p[i]) \in Seq(X) /\ SlicedFrom(W(p[i]), p[i], offset, size)
    BY <2>2, SliceBytes
  <2>4. Len(W(p[i])) = 0
    BY <2>2, <2>3 DEF SlicedFrom
  <2> HIDE DEF W
  <2>5. W(p[i]) = <<>>
    BY <2>3, <2>4
  <2> QED
    BY <1>6, <2>1, <2>5
\* That chunk is read from the offset that is left over.
<1>9. ASSUME from.chunk <= n
      PROVE  Good(from.chunk + 1)
  <2> DEFINE j == from.chunk
             d == c[j]
             o == from.offset
             r == IF size < Len(d) - o THEN size ELSE Len(d) - o
  <2>1. j \in 1 .. n /\ j \in 1 .. n + 1 /\ j \in 1 .. j /\ j \in j .. n
    BY <1>2, <1>3, <1>9
  <2>2. /\ p[j] \in Seq(X) /\ d \in Seq(X) /\ Len(p[j]) <= offset
        /\ o = offset - Len(p[j]) /\ o < Len(d)
        /\ p[j + 1] = p[j] \o d /\ g[j] = <<>>
    BY <1>1, <1>2, <1>3, <1>6, <1>9, <2>1
  <2>3. Len(p[j + 1]) = Len(p[j]) + Len(d) /\ Len(p[j]) \in Nat /\ Len(d) \in Nat
    BY <1>2, <1>7, <2>1
  <2>4. g[j + 1] = <<>> \o SubSeq(d, o + 1, o + r)
    <3>1. size - Len(<<>>) = size
      OBVIOUS
    <3>2. g[j + 1] = ReadChunk(c, from, size, j, <<>>)
      BY <1>6, <2>1, <2>2
    <3> QED
      BY <3>1, <3>2 DEF ReadChunk
  <2>5. W(p[j] \o d) = SubSeq(d, o + 1, o + r)
    <3> DEFINE s == p[j]
    <3>1. Len(d) \in Nat /\ o \in Nat /\ o < Len(d)
      BY <1>4, <2>2, <2>3
    <3>2. s \in Seq(X) /\ d \in Seq(X) /\ Len(s) <= offset /\ o = offset - Len(s)
      BY <2>2
    <3> HIDE DEF d, o, j, s
    <3>3. o <= Len(d)
      BY <3>1
    <3> HIDE DEF r
    <3>4. r = IF size < Len(d) - o THEN size ELSE Len(d) - o
      BY DEF r
    <3>5. r \in Int
      BY <3>1, <3>4
    <3>6. StartsAt(s, d, offset, size, o, r)
      BY <3>2, <3>3, <3>4 DEF StartsAt
    <3>7. Slice(s \o d, offset, size) = SubSeq(d, o + 1, o + r)
      BY <3>1, <3>2, <3>5, <3>6, SliceStarts
    <3> QED
      BY <3>7 DEF s
  <2>6. W(p[j] \o d) \in Seq(X)
    <3>1. p[j] \o d \in Seq(X)
      BY <2>2
    <3> QED
      BY <3>1, SliceBytes
  <2>7. g[j + 1] = W(p[j + 1])
    <3> HIDE DEF W, r, d, o, j
    <3>1. <<>> \o W(p[j] \o d) = W(p[j] \o d)
      BY <2>6
    <3> QED
      BY <2>2, <2>4, <2>5, <3>1
  <2>8. offset <= Len(p[j + 1])
    <3> DEFINE a == Len(p[j])
               b == Len(d)
    <3>1. a \in Nat /\ b \in Nat /\ o = offset - a /\ o < b /\ Len(p[j + 1]) = a + b
      BY <2>2, <2>3
    <3> HIDE DEF a, b, o
    <3>2. offset <= a + b
      BY <3>1
    <3> QED
      BY <3>1, <3>2
  <2> HIDE DEF W
  <2> QED
    BY <2>7, <2>8
\* The chunks behind it are read from their first byte on.
<1>10. ASSUME NEW j \in 1 .. n, from.chunk < j, Good(j)
       PROVE  Good(j + 1)
  <2> DEFINE d == c[j]
             s == p[j]
             a == W(s)
             m == size - Len(a)
             r == IF m < Len(d) THEN m ELSE Len(d)
  <2>1. j \in 1 .. n + 1 /\ j \in from.chunk .. n /\ j # from.chunk
    BY <1>2, <1>3, <1>10
  <2>2. /\ s \in Seq(X) /\ d \in Seq(X) /\ Len(s) \in Nat /\ Len(d) \in Nat
        /\ offset <= Len(s) /\ p[j + 1] = s \o d
    BY <1>1, <1>2, <1>10, <2>1
  <2>3. Len(p[j + 1]) = Len(s) + Len(d)
    BY <1>7
  <2>4. a \in Seq(X) /\ Len(a) \in Nat /\ g[j] = a
    <3>1. a \in Seq(X)
      BY <2>2, SliceBytes
    <3> HIDE DEF a
    <3> QED
      BY <1>10, <3>1 DEF a
  <2>5. g[j + 1] = a \o SubSeq(d, 1, r)
    <3>1. g[j + 1] = ReadChunk(c, from, size, j, a)
      BY <1>6, <2>1, <2>4
    <3> HIDE DEF a, W
    <3>2. ReadChunk(c, from, size, j, a) =
            LET q == IF m < Len(d) - 0 THEN m ELSE Len(d) - 0
            IN a \o SubSeq(d, 0 + 1, 0 + q)
      BY <2>1 DEF ReadChunk
    <3>3. Len(d) - 0 = Len(d) /\ m \in Int
      BY <2>2, <2>4
    <3>4. r \in Int
      BY <2>2, <3>3
    <3>5. 0 + 1 = 1 /\ 0 + r = r
      BY <3>4
    <3> HIDE DEF d, m
    <3> QED
      BY <3>1, <3>2, <3>3, <3>5
  <2>6. W(s \o d) = a \o SubSeq(d, 1, r)
    <3>1. m \in Int
      BY <2>4
    <3>2. r \in Int
      <4> HIDE DEF m
      <4> QED
        BY <2>2, <3>1
    <3>3. r = IF size - Len(W(s)) < Len(d) THEN size - Len(W(s)) ELSE Len(d)
      OBVIOUS
    <3>4. s \in Seq(X) /\ d \in Seq(X) /\ offset <= Len(s)
      BY <2>2
    <3> HIDE DEF r, s, d
    <3>5. r = IF size - Len(Slice(s, offset, size)) < Len(d)
              THEN size - Len(Slice(s, offset, size)) ELSE Len(d)
      BY <3>3 DEF W
    <3> QED
      BY <3>2, <3>4, <3>5, SliceGoesOn, SMTT(30)
  <2>7. offset <= Len(p[j + 1])
    <3> DEFINE x == Len(s)
               y == Len(d)
    <3>1. x \in Nat /\ y \in Nat /\ offset <= x /\ Len(p[j + 1]) = x + y
      BY <2>2, <2>3
    <3> HIDE DEF x, y
    <3>2. offset <= x + y
      BY <3>1
    <3> QED
      BY <3>1, <3>2
  <2> HIDE DEF W, r, a
  <2> QED
    BY <2>2, <2>5, <2>6, <2>7
<1> HIDE DEF W
<1>11. ASSUME NEW i \in 1 .. n + 1, \A j \in 1 .. i - 1 : j \in T
       PROVE  Good(i)
  <2>1. CASE i <= from.chunk
    <3>1. i \in 1 .. from.chunk
      BY <1>3, <2>1
    <3> QED
      BY <1>8, <3>1
  <2>2. CASE i = from.chunk + 1
    <3>1. from.chunk <= n
      BY <1>2, <1>3, <2>2
    <3> QED
      BY <1>9, <2>2, <3>1
  <2>3. CASE from.chunk + 1 < i
    <3> DEFINE j == i - 1
    <3>1. j \in 1 .. n /\ from.chunk < j /\ j \in 1 .. i - 1 /\ i = j + 1
      BY <1>2, <1>3, <2>3
    <3> HIDE DEF j
    <3>2. Good(j)
      BY <1>11, <3>1
    <3> HIDE DEF Good
    <3> QED
      BY <1>10, <3>1, <3>2
  <2> QED
    BY <1>2, <1>3, <2>1, <2>2, <2>3
<1>12. \A i \in 1 .. n + 1 : i \in T
  <2>1. \A i \in 1 .. n + 1 : (\A j \in 1 .. i - 1 : j \in T) => i \in T
    BY <1>11
  <2>2. n + 1 \in Nat
    BY <1>2
  <2> HIDE DEF T
  <2> QED
    BY <2>1, <2>2, CountUp
<1>13. g[n + 1] = W(p[n + 1])
  <2>1. n + 1 \in 1 .. n + 1
    BY <1>2
  <2> QED
    BY <1>12, <2>1
<1> QED
  BY <1>1, <1>6, <1>13 DEF from, W

\* Whatever the length of the list and of the chunks: a reader's next
\* cache_entry_read gets the bytes that follow the ones it has sent.
THEOREM ChunksWalked == Spec => []ReadWalksChunks
<1>1. TypeOK => ReadWalksChunks
  <2> SUFFICES ASSUME TypeOK, NEW t \in Thread, NEW c \in ChunkLists
               PROVE  CopyChunks(c, SeekChunk(c, Len(sent[t])), BUFFER_SIZE)
                        = Slice(FlattenSeq(c), Len(sent[t]), BUFFER_SIZE)
    BY DEF ReadWalksChunks
  <2>1. Len(sent[t]) \in Nat
    <3>1. sent[t] \in Seq(Nat)
      BY DEF TypeOK
    <3> QED
      BY <3>1
  <2>2. BUFFER_SIZE \in Nat
    BY ProxyAssumption
  <2>3. PICK sizes \in SeqOf(1 .. BUFFER_SIZE, MaxChunks) : c = ChunksOf(sizes)
    BY DEF ChunkLists
  <2>4. PICK m \in 0 .. MaxChunks : sizes \in [1 .. m -> 1 .. BUFFER_SIZE]
    BY <2>3 DEF SeqOf
  <2> DEFINE X == {c[i][k] : i \in 1 .. m, k \in 1 .. BUFFER_SIZE}
  <2>5. ASSUME NEW i \in 1 .. m
        PROVE  c[i] \in Seq(X)
    <3>1. sizes[i] \in 1 .. BUFFER_SIZE
      BY <2>4
    <3>2. \A k \in 1 .. sizes[i] : k \in 1 .. BUFFER_SIZE
      BY <2>2, <3>1
    <3>3. c[i] = [k \in 1 .. sizes[i] |-> c[i][k]]
      BY <2>3, <2>4 DEF ChunksOf
    <3>4. \A k \in 1 .. sizes[i] : c[i][k] \in X
      BY <3>2
    <3> HIDE DEF X
    <3>5. c[i] \in [1 .. sizes[i] -> X] /\ sizes[i] \in Nat
      BY <2>2, <3>1, <3>3, <3>4
    <3> QED
      BY <3>5
  <2> HIDE DEF X
  <2>6. c \in Seq(Seq(X))
    <3>1. m \in Nat
      BY <2>4, ChunksAssumption
    <3>2. c = [i \in 1 .. m |-> c[i]]
      <4>1. DOMAIN sizes = 1 .. m
        BY <2>4
      <4> DEFINE F(i) == [k \in 1 .. sizes[i] |->
                   FoldLeft(LAMBDA x, y : x + y, 0, SubSeq(sizes, 1, i - 1)) + k]
      <4>2. c = [i \in 1 .. m |-> F(i)]
        BY <2>3, <4>1 DEF ChunksOf
      <4> HIDE DEF F
      <4> QED
        BY <4>2
    <3>3. c \in [1 .. m -> Seq(X)]
      BY <2>5, <3>2
    <3> QED
      BY <3>1, <3>3
  <2> QED
    BY <2>1, <2>2, <2>6, WalkReadsSlice
<1> QED
  BY <1>1, TypeCorrect, PTL


-----------------------------------------------------------------------------
(* Requests that wait for requests. *)

\* t waits for w: for searchCreateMutex that w holds, or in cache_entry_read
\* for the bytes of an entry that w fills.
WaitsFor(t, w) ==
  \/ At(t, "lock") /\ searchCreateMutex = w
  \/ At(t, "wait") /\ t \in data_ready[entry[t]]
       /\ Filling(w) /\ entry[w] = entry[t]

Waiting(t) ==
  \/ At(t, "lock") /\ searchCreateMutex # NULL
  \/ At(t, "wait") /\ t \in data_ready[entry[t]]

\* Whoever waits for the mutex or for bytes waits for a request that waits for
\* no other one: the chains of process_request have length one, so that only a
\* remote or a client can hold a request up.
NoCircularWait ==
  \A t \in Thread : Waiting(t) =>
    \E w \in Thread \ {t} : WaitsFor(t, w) /\ ~Waiting(w)

\* The requests never block each other in a circle, and never on nobody.
THEOREM NoDeadlock == Spec => []NoCircularWait
<1>1. IInv /\ NoneAbandoned /\ SleeperHasNothingToRead => NoCircularWait
  <2> SUFFICES ASSUME IInv, NoneAbandoned, SleeperHasNothingToRead,
                      NEW t \in Thread, Waiting(t)
               PROVE  \E w \in Thread \ {t} : WaitsFor(t, w) /\ ~Waiting(w)
    BY DEF NoCircularWait
  <2>1. /\ searchCreateMutex \in Thread \cup {NULL}
        /\ entry \in [Thread -> EntryOrNull]
        /\ EntryAtPc /\ MutexAtPc /\ NoDanglingEntry
    BY DEF IInv, TypeOK, Control, References
  <2>2. CASE At(t, "lock") /\ searchCreateMutex # NULL
    <3>1. PICK w \in Thread : w = searchCreateMutex
      BY <2>1, <2>2
    <3>2. pc[w] \in SearchPc
      BY <2>1, <3>1 DEF MutexAtPc
    <3>3. w # t /\ ~Waiting(w)
      BY <2>2, <3>2 DEF Waiting, At, SearchPc
    <3> QED
      BY <2>2, <3>1, <3>3 DEF WaitsFor
  <2>3. CASE At(t, "wait") /\ t \in data_ready[entry[t]]
    <3>1. entry[t] # NULL /\ entry[t] \in live
      BY <2>1, <2>3
         DEF EntryAtPc, WithEntryPc, ReaderPc, At, NoDanglingEntry
    <3>2. entry[t] \in Entry
      BY <2>1, <3>1 DEF EntryOrNull
    <3>3. state[entry[t]] = "INCOMPLETE"
      BY <2>3, <3>2 DEF SleeperHasNothingToRead, ReadMustWait
    <3>4. PICK w \in Thread : Filling(w) /\ entry[w] = entry[t]
      BY <3>1, <3>3 DEF NoneAbandoned
    <3>5. w # t /\ ~Waiting(w)
      BY <2>3, <3>4 DEF Filling, UnfinishedPc, FillPc, Waiting, At
    <3> QED
      BY <2>3, <3>4, <3>5 DEF WaitsFor
  <2> QED
    BY <2>2, <2>3 DEF Waiting
<1> QED
  BY <1>1, Invariance, EntriesAttended, NoReaderOversleeps, PTL
=============================================================================
