----------------------------- MODULE ProxyProof ------------------------------
(***************************************************************************)
(* Proofs about module Proxy for every set of threads, urls and entries,   *)
(* every hash function and every length of response.                       *)
(***************************************************************************)
EXTENDS Proxy, FiniteSetTheorems, SequenceTheorems, TLAPS

\* The program points at which a thread surely has an entry, surely has none,
\* and at which it fills one that it has not finished yet.
WithEntryPc == ReaderPc \cup FinishPc
                 \cup {"insert_lru", "append_first", "append_body"}
NoEntryPc == {"idle", "request", "lock", "exited", "lookup"}
               \cup {"connect", "send_request", "recv_headers", "insert"}
UnfinishedPc == FillPc
  \cup {"insert_lru", "complete", "release_cancel", "cancel", "cancel_release"}
MissPc == {"connect", "send_request", "recv_headers", "insert"}

\* Control: who has an entry, who has the mutex, who has exited.
EntryAtPc ==
  \A t \in Thread : /\ pc[t] \in WithEntryPc => entry[t] # NULL
                    /\ pc[t] \in NoEntryPc => entry[t] = NULL

MutexAtPc ==
  \A t \in Thread : pc[t] \in SearchPc <=> searchCreateMutex = t

ExitedAtEnd ==
  /\ main_pc \in {"stop", "join_collector", "done"} =>
       \A t \in Thread : At(t, "exited")
  /\ cache_freed => main_pc = "done" /\ CollectorAt("exited")

\* A thread that fills an entry works on an incomplete one, and is alone.
Filling(t) == pc[t] \in UnfinishedPc /\ entry[t] # NULL

FillsIncomplete ==
  \A t \in Thread : Filling(t) => state[entry[t]] = "INCOMPLETE"

OneFiller ==
  \A t, w \in Thread : Filling(t) /\ Filling(w) /\ entry[t] = entry[w] => t = w

\* The chains hold exactly the live entries, each once and where its url says.
ChainsLive == \A b \in Bucket : ToSet(buckets[b]) \subseteq live

ChainsDistinct == \A b \in Bucket : IsInjective(buckets[b])

LiveInChain ==
  \A b \in Bucket : \A e \in live :
    e \in ToSet(buckets[b]) <=> b = BucketIdx(url[e])

\* Between a miss and the insertion no usable entry of the url appears.
MissStays ==
  \A t \in Thread : pc[t] \in MissPc =>
    \A e \in live : url[e] = req[t] => state[e] = "CANCELLED"

\* The inductive invariant.
Control == EntryAtPc /\ MutexAtPc /\ ExitedAtEnd
References == NoDanglingEntry /\ RefcountExact
Fillers == FillsIncomplete /\ OneFiller
Chains == ChainsLive /\ ChainsDistinct /\ LiveInChain
Unique == MissStays /\ OneUsableEntryPerUrl

IInv ==
  /\ TypeOK
  /\ Control
  /\ References
  /\ Fillers
  /\ Chains
  /\ Unique

-----------------------------------------------------------------------------
(* Facts about the operators of module HttpCache. *)

\* A sequence with an element in front, and one without its k-th element,
\* place by place.
LEMMA ConsIndex ==
  ASSUME NEW S, NEW s \in Seq(S), NEW e \in S
  PROVE  /\ Cons(e, s) \in Seq(S) /\ Len(Cons(e, s)) = Len(s) + 1
         /\ \A k \in 1 .. Len(s) + 1 :
              Cons(e, s)[k] = IF k = 1 THEN e ELSE s[k - 1]
BY DEF Cons

LEMMA RemoveAtIndex ==
  ASSUME NEW S, NEW s \in Seq(S), NEW k \in DOMAIN s
  PROVE  /\ RemoveAt(s, k) \in Seq(S) /\ Len(RemoveAt(s, k)) = Len(s) - 1
         /\ \A j \in 1 .. Len(s) - 1 :
              RemoveAt(s, k)[j] = IF j < k THEN s[j] ELSE s[j + 1]
<1> DEFINE r == RemoveAt(s, k)
<1>1. k \in 1 .. Len(s) /\ Len(s) \in Nat
  OBVIOUS
<1>2. /\ r \in Seq(S) /\ Len(r) = Len(s) - 1
      /\ \A j \in 1 .. Len(s) - 1 : r[j] = IF j < k THEN s[j] ELSE s[j + 1]
  <2> DEFINE a == SubSeq(s, 1, k - 1)
             z == SubSeq(s, k + 1, Len(s))
  <2>1. a \in Seq(S) /\ Len(a) = k - 1 /\ \A j \in 1 .. k - 1 : a[j] = s[j]
    BY <1>1, SubSeqProperties
  <2>2. /\ z \in Seq(S) /\ Len(z) = Len(s) - k
        /\ \A j \in 1 .. Len(s) - k : z[j] = s[k + j]
    BY <1>1, SubSeqProperties
  <2>3. r = a \o z
    BY DEF RemoveAt
  <2> HIDE DEF a, z, r
  <2>4. /\ a \o z \in Seq(S) /\ Len(a \o z) = Len(s) - 1
        /\ \A j \in 1 .. Len(s) - 1 :
             (a \o z)[j] = IF j <= k - 1 THEN a[j] ELSE z[j - (k - 1)]
    <3>1. /\ a \o z \in Seq(S)
          /\ Len(a \o z) = Len(a) + Len(z)
          /\ \A j \in 1 .. Len(a) + Len(z) : (a \o z)[j] =
                      IF j <= Len(a) THEN a[j] ELSE z[j - Len(a)]
      BY <2>1, <2>2, ConcatProperties, Zenon
    <3>2. Len(a) + Len(z) = Len(s) - 1
      BY <1>1, <2>1, <2>2
    <3> QED
      BY <2>1, <3>1, <3>2
  <2>5. \A j \in 1 .. Len(s) - 1 : j >= k => z[j - (k - 1)] = s[j + 1]
    BY <1>1, <2>2
  <2> QED
    BY <1>1, <2>1, <2>3, <2>4, <2>5
<1> QED
  BY <1>2

\* A chain with an entry pushed at its head.
LEMMA ConsChain ==
  ASSUME NEW S, NEW s \in Seq(S), NEW e \in S
  PROVE  /\ Cons(e, s) \in Seq(S)
         /\ ToSet(Cons(e, s)) = ToSet(s) \cup {e}
         /\ IsInjective(s) /\ e \notin ToSet(s) => IsInjective(Cons(e, s))
<1> DEFINE c == Cons(e, s)
<1>1. /\ c \in Seq(S) /\ Len(c) = Len(s) + 1
      /\ \A k \in 1 .. Len(s) + 1 : c[k] = IF k = 1 THEN e ELSE s[k - 1]
  BY ConsIndex
<1>2. ToSet(c) = ToSet(s) \cup {e}
  <2>1. \A k \in DOMAIN c : c[k] \in ToSet(s) \cup {e}
    BY <1>1 DEF ToSet
  <2>2. e \in ToSet(c)
    BY <1>1 DEF ToSet
  <2>3. \A k \in DOMAIN s : s[k] = c[k + 1] /\ k + 1 \in DOMAIN c
    BY <1>1
  <2> QED
    BY <2>1, <2>2, <2>3 DEF ToSet
<1>3. IsInjective(s) /\ e \notin ToSet(s) => IsInjective(c)
  BY <1>1 DEF IsInjective, ToSet
<1> QED
  BY <1>1, <1>2, <1>3

\* A chain without its k-th entry.
LEMMA RemoveAtChain ==
  ASSUME NEW S, NEW s \in Seq(S), NEW k \in DOMAIN s, IsInjective(s)
  PROVE  /\ RemoveAt(s, k) \in Seq(S)
         /\ ToSet(RemoveAt(s, k)) = ToSet(s) \ {s[k]}
         /\ IsInjective(RemoveAt(s, k))
<1> DEFINE r == RemoveAt(s, k)
<1>1. k \in 1 .. Len(s) /\ Len(s) \in Nat
  OBVIOUS
<1>2. /\ r \in Seq(S) /\ Len(r) = Len(s) - 1
      /\ \A j \in 1 .. Len(s) - 1 : r[j] = IF j < k THEN s[j] ELSE s[j + 1]
  BY RemoveAtIndex
<1> HIDE DEF r
<1>3. ToSet(r) = ToSet(s) \ {s[k]}
  <2>1. \A j \in DOMAIN r : r[j] \in ToSet(s) \ {s[k]}
    BY <1>1, <1>2 DEF ToSet, IsInjective
  <2>2. \A j \in DOMAIN s : j < k => j \in DOMAIN r /\ r[j] = s[j]
    BY <1>1, <1>2
  <2>3. \A j \in DOMAIN s : j > k => j - 1 \in DOMAIN r /\ r[j - 1] = s[j]
    BY <1>1, <1>2
  <2>4. \A j \in DOMAIN s : j # k => s[j] \in ToSet(r)
    BY <1>1, <2>2, <2>3 DEF ToSet
  <2> QED
    BY <2>1, <2>4 DEF ToSet
<1>4. IsInjective(r)
  <2>1. SUFFICES ASSUME NEW i \in DOMAIN r, NEW j \in DOMAIN r, r[i] = r[j]
                 PROVE  i = j
    BY DEF IsInjective
  <2> DEFINE Old(m) == IF m < k THEN m ELSE m + 1
  <2>2. \A m \in DOMAIN r : Old(m) \in DOMAIN s /\ r[m] = s[Old(m)]
    BY <1>1, <1>2
  <2>3. Old(i) = Old(j)
    BY <2>1, <2>2 DEF IsInjective
  <2> QED
    BY <1>1, <1>2, <2>3
<1> QED
  BY <1>2, <1>3, <1>4 DEF r

\* lru_remove and lru_add_head keep the links' types.
LEMMA LruTypes ==
  ASSUME NEW l \in LruType, NEW e \in Entry
  PROVE  LruRemove(l, e) \in LruType /\ LruAddHead(l, e) \in LruType
<1> USE DEF LruType, EntryOrNull
<1>1. LruRemove(l, e) \in LruType
  BY DEF LruRemove
<1>2. LruAddHead(l, e) \in LruType
  BY DEF LruAddHead
<1> QED
  BY <1>1, <1>2

\* current_size stays within size_t.
LEMMA SizeWraps ==
  ASSUME NEW a \in Int
  PROVE  a % SizeMod \in 0 .. SizeMod - 1
BY HttpCacheAssumption

\* The bucket of a url exists.
LEMMA BucketOfUrl == \A u \in Url : BucketIdx(u) \in Bucket
BY HttpCacheAssumption DEF BucketIdx, Bucket

\* The bytes of a response, and what a read returns, are sequences of bytes.
LEMMA BytesType == \A m, n \in Nat : m <= n => Bytes(m, n) \in Seq(Nat)
<1> SUFFICES ASSUME NEW m \in Nat, NEW n \in Nat, m <= n
             PROVE  Bytes(m, n) \in Seq(Nat)
  OBVIOUS
<1>1. n - m \in Nat /\ \A k \in 1 .. n - m : m + k \in Nat
  OBVIOUS
<1> QED
  BY <1>1 DEF Bytes

LEMMA ReadBytesType ==
  ASSUME NEW e \in Entry, data[e] \in Seq(Nat), NEW o \in Nat, NEW n \in Nat
  PROVE  ReadBytes(e, o, n) \in Seq(Nat)
<1> DEFINE l == IF o + n < Len(data[e]) THEN o + n ELSE Len(data[e])
<1>1. l \in Nat /\ l <= Len(data[e])
  OBVIOUS
<1> HIDE DEF l
<1>2. \A k \in o + 1 .. l : data[e][k] \in Nat
  <2>1. \A k \in o + 1 .. l : k \in 1 .. Len(data[e])
    BY <1>1
  <2>2. \A k \in 1 .. Len(data[e]) : data[e][k] \in Nat
    OBVIOUS
  <2> QED
    BY <2>1, <2>2
<1>3. SubSeq(data[e], o + 1, l) \in Seq(Nat)
  <2>1. o + 1 \in Int /\ l \in Int
    BY <1>1
  <2> QED
    BY <1>2, <2>1, SubSeqProperties, Zenon
<1> QED
  BY <1>3 DEF ReadBytes, Slice, l

-----------------------------------------------------------------------------
(* References. *)

LEMMA HoldersFinite == \A e : IsFiniteSet(Holders(e))
<1> SUFFICES ASSUME NEW e
             PROVE  IsFiniteSet(Holders(e))
  OBVIOUS
<1>1. Holders(e) \subseteq Thread
  BY DEF Holders
<1> QED
  BY <1>1, FS_Subset, HttpCacheAssumption

\* A thread that owns a reference has it counted.
LEMMA HeldIsCounted ==
  ASSUME References, TypeOK, NEW t \in Thread, entry[t] # NULL, ~At(t, "cancel")
  PROVE  /\ entry[t] \in live /\ entry[t] \in Entry
         /\ refcount[entry[t]] - 1 \in Nat
         /\ refcount[entry[t]] - 1 = Cardinality(Holders(entry[t]) \ {t})
<1> DEFINE e == entry[t]
<1>1. e \in live /\ e \in Entry /\ refcount[e] = Cardinality(Holders(e))
  BY DEF References, NoDanglingEntry, RefcountExact, TypeOK, CacheTypeOK
<1>2. t \in Holders(e)
  BY DEF Holders
<1>3. IsFiniteSet(Holders(e))
  BY HoldersFinite
<1>4. /\ IsFiniteSet(Holders(e) \ {t})
      /\ Cardinality(Holders(e) \ {t}) = Cardinality(Holders(e)) - 1
  BY <1>2, <1>3, FS_RemoveElement
<1>5. Cardinality(Holders(e) \ {t}) \in Nat
  BY <1>4, FS_CardinalityType
<1> QED
  BY <1>1, <1>4, <1>5

-----------------------------------------------------------------------------
(* The invariant holds initially. *)

LEMMA InitTypeOK == Init => TypeOK
<1> SUFFICES ASSUME Init
             PROVE  TypeOK
  OBVIOUS
<1>1. CacheTypeOK
  <2> USE HttpCacheAssumption DEF Init, http_cache_init
  <2>1. url \in [Entry -> Url]
    OBVIOUS
  <2>2. data \in [Entry -> Seq(Nat)] /\ buckets \in [Bucket -> Seq(Entry)]
    OBVIOUS
  <2>3. /\ state \in [Entry -> State] /\ refcount \in [Entry -> Nat]
        /\ total_size \in [Entry -> Nat]
        /\ data_ready \in [Entry -> SUBSET Thread]
    BY DEF State
  <2>4. lru \in LruType
    BY DEF LruType, EntryOrNull
  <2>5. /\ current_size \in 0 .. SizeMod - 1
        /\ collector \in CollectorType
    BY DEF CollectorType, CollectorPc, Bucket
  <2> QED
    BY <2>1, <2>2, <2>3, <2>4, <2>5 DEF CacheTypeOK
<1> QED
  BY <1>1, HttpCacheAssumption, ProxyAssumption
     DEF Init, TypeOK, EntryOrNull, NoLength, Pc, MainPc

LEMMA InitIInv == Init => IInv
<1> SUFFICES ASSUME Init
             PROVE  IInv
  OBVIOUS
<1>1. TypeOK
  BY InitTypeOK
<1>2. Control
  BY HttpCacheAssumption
     DEF Init, http_cache_init, Control, EntryAtPc, MutexAtPc, ExitedAtEnd,
         WithEntryPc, ReaderPc, FinishPc, SearchPc
<1>3. References
  BY DEF Init, http_cache_init, References, NoDanglingEntry, RefcountExact
<1>4. Fillers
  BY DEF Init, Fillers, FillsIncomplete, OneFiller, Filling
<1>5. Chains
  BY DEF Init, http_cache_init, Chains, ChainsLive, ChainsDistinct, LiveInChain,
         ToSet, IsInjective
<1>6. Unique
  BY DEF Init, http_cache_init, Unique, MissStays, OneUsableEntryPerUrl
<1> QED
  BY <1>1, <1>2, <1>3, <1>4, <1>5, <1>6 DEF IInv

-----------------------------------------------------------------------------
(* Type correctness. *)

\* The functions that the workers call keep the types of the cache.
LEMMA CacheCallTypes ==
  ASSUME CacheTypeOK, NEW e \in Entry
  PROVE  /\ \A u \in Url : cache_lookup_hit(u, e) => CacheTypeOK'
         /\ \A u \in Url : cache_insert(e, u) => CacheTypeOK'
         /\ cache_insert_lru(e) => CacheTypeOK'
         /\ \A d \in Seq(Nat) : cache_entry_append_chunk(e, d) => CacheTypeOK'
         /\ cache_entry_complete(e) \/ cache_entry_cancel(e) => CacheTypeOK'
         /\ refcount[e] - 1 \in Nat /\ cache_entry_release(e) => CacheTypeOK'
         /\ \A t \in Thread :
              \/ cache_entry_read_wait(e, t) \/ cache_entry_read_wake(e, t)
              => CacheTypeOK'
<1> USE DEF CacheTypeOK, collectorVars, entryVars, Broadcast
<1>1. ASSUME NEW u \in Url, cache_lookup_hit(u, e)
      PROVE  CacheTypeOK'
  <2>1. lru' \in LruType
    BY <1>1, LruTypes DEF cache_lookup_hit
  <2> QED
    BY <1>1, <2>1 DEF cache_lookup_hit
<1>2. ASSUME NEW u \in Url, cache_insert(e, u)
      PROVE  CacheTypeOK'
  <2>1. BucketIdx(u) \in Bucket
    BY BucketOfUrl
  <2>2. Cons(e, buckets[BucketIdx(u)]) \in Seq(Entry)
    BY <2>1, ConsChain
  <2>3. buckets' \in [Bucket -> Seq(Entry)]
    BY <1>2, <2>1, <2>2 DEF cache_insert
  <2> QED
    BY <1>2, <2>3 DEF cache_insert, State
<1>3. ASSUME cache_insert_lru(e)
      PROVE  CacheTypeOK'
  <2>1. lru' \in LruType
    BY <1>3, LruTypes DEF cache_insert_lru
  <2> QED
    BY <1>3, <2>1 DEF cache_insert_lru
<1>4. ASSUME NEW d \in Seq(Nat), cache_entry_append_chunk(e, d)
      PROVE  CacheTypeOK'
  <2>1. data[e] \o d \in Seq(Nat) /\ total_size[e] + Len(d) \in Nat
    OBVIOUS
  <2>2. /\ data' \in [Entry -> Seq(Nat)] /\ total_size' \in [Entry -> Nat]
        /\ data_ready' \in [Entry -> SUBSET Thread]
    BY <1>4, <2>1 DEF cache_entry_append_chunk
  <2> QED
    BY <1>4, <2>2 DEF cache_entry_append_chunk
<1>5. ASSUME cache_entry_complete(e) \/ cache_entry_cancel(e)
      PROVE  CacheTypeOK'
  BY <1>5 DEF cache_entry_complete, cache_entry_cancel, State
<1>6. ASSUME refcount[e] - 1 \in Nat, cache_entry_release(e)
      PROVE  CacheTypeOK'
  BY <1>6 DEF cache_entry_release
<1>7. ASSUME NEW t \in Thread,
             cache_entry_read_wait(e, t) \/ cache_entry_read_wake(e, t)
      PROVE  CacheTypeOK'
  <2> DEFINE D == IF cache_entry_read_wait(e, t)
                  THEN data_ready[e] \cup {t} ELSE data_ready[e] \ {t}
  <2>1. D \in SUBSET Thread
    OBVIOUS
  <2>2. data_ready' = [data_ready EXCEPT ![e] = D]
    BY <1>7 DEF cache_entry_read_wait, cache_entry_read_wake
  <2>3. UNCHANGED <<live, url, state, refcount, data, total_size, buckets, lru,
                    current_size, collectorVars>>
    BY <1>7 DEF cache_entry_read_wait, cache_entry_read_wake
  <2> HIDE DEF D
  <2> QED
    BY <2>1, <2>2, <2>3
<1> QED
  BY <1>1, <1>2, <1>3, <1>4, <1>5, <1>6, <1>7

\* So do the collector and the shutdown.
LEMMA CollectorTypes ==
  CacheTypeOK /\ Chains /\ CollectorNext => CacheTypeOK'
<1> SUFFICES ASSUME CacheTypeOK, Chains, CollectorNext
             PROVE  CacheTypeOK'
  OBVIOUS
<1> USE DEF CacheTypeOK, collectorVars, entryVars, CollectorAt, CollectorTo
<1>1. CASE collector_wait \/ collector_timeout \/ collector_check
  <2>1. collector' \in CollectorType
    <3>1. "wait" \in CollectorPc /\ "woken" \in CollectorPc
      BY DEF CollectorPc
    <3>2. \A p \in CollectorPc : [collector EXCEPT !.pc = p] \in CollectorType
      BY DEF CollectorType
    <3>3. \A p \in CollectorPc : [pc |-> p, i |-> 0, pos |-> 0] \in CollectorType
      BY HttpCacheAssumption DEF CollectorType, Bucket
    <3>4. CASE collector_wait \/ collector_timeout
      BY <3>1, <3>2, <3>4 DEF collector_wait, collector_timeout
    <3>5. CASE collector_check
      BY <3>3, <3>5 DEF collector_check, CollectorPc
    <3> QED
      BY <1>1, <3>4, <3>5
  <2> QED
    BY <1>1, <2>1 DEF collector_wait, collector_timeout, collector_check
<1>2. CASE cleanup_lock_bucket \/ cleanup_keep
  <2>1. collector' \in CollectorType
    <3>1. \A k \in Nat : [collector EXCEPT !.pos = k] \in CollectorType
      BY DEF CollectorType
    <3>2. collector.pos \in Nat
      BY DEF CollectorType
    <3>3. CASE cleanup_lock_bucket
      BY <3>1, <3>3 DEF cleanup_lock_bucket
    <3>4. CASE cleanup_keep
      <4>1. collector.pos + 1 \in Nat
        BY <3>2
      <4>2. collector' = [collector EXCEPT !.pos = collector.pos + 1]
        BY <3>4 DEF cleanup_keep
      <4> QED
        BY <3>1, <4>1, <4>2
    <3> QED
      BY <1>2, <3>3, <3>4
  <2> QED
    BY <1>2, <2>1 DEF cleanup_lock_bucket, cleanup_keep
<1>3. CASE cleanup_unlock_bucket
  <2>1. collector' \in CollectorType
    BY <1>3, HttpCacheAssumption
       DEF cleanup_unlock_bucket, CollectorType, CollectorPc, Bucket
  <2> QED
    BY <1>3, <2>1 DEF cleanup_unlock_bucket
<1>4. CASE cleanup_remove
  <2> DEFINE b == collector.i
             k == collector.pos
  <2>1. b \in Bucket /\ buckets[b] \in Seq(Entry) /\ k \in DOMAIN buckets[b]
    BY <1>4 DEF cleanup_remove, CollectorType
  <2>2. IsInjective(buckets[b])
    BY <2>1 DEF Chains, ChainsDistinct
  <2>3. Visited \in Entry /\ RemoveAt(buckets[b], k) \in Seq(Entry)
    BY <2>1, <2>2, RemoveAtChain DEF Visited
  <2>4. lru' \in LruType
    BY <1>4, <2>3, LruTypes DEF cleanup_remove
  <2>5. current_size' \in 0 .. SizeMod - 1
    <3>1. current_size - total_size[Visited] \in Int
      BY <2>3, HttpCacheAssumption
    <3> QED
      BY <1>4, <3>1, SizeWraps DEF cleanup_remove
  <2>6. buckets' \in [Bucket -> Seq(Entry)]
    BY <1>4, <2>1, <2>3 DEF cleanup_remove
  <2>7. /\ state' \in [Entry -> State]
        /\ data_ready' \in [Entry -> SUBSET Thread]
    BY <1>4, <2>3 DEF cleanup_remove, State
  <2>8. total_size' \in [Entry -> Nat]
    BY <1>4, <2>3 DEF cleanup_remove
  <2>9. data' \in [Entry -> Seq(Nat)]
    <3>1. <<>> \in Seq(Nat)
      OBVIOUS
    <3>2. data' = [data EXCEPT ![Visited] = <<>>]
      BY <1>4 DEF cleanup_remove
    <3> QED
      BY <2>3, <3>1, <3>2
  <2>10. live' \in SUBSET Entry /\ UNCHANGED <<url, refcount, collectorVars>>
    BY <1>4 DEF cleanup_remove
  <2> QED
    BY <2>4, <2>5, <2>6, <2>7, <2>8, <2>9, <2>10
<1> QED
  BY <1>1, <1>2, <1>3, <1>4 DEF CollectorNext

LEMMA ShutdownTypes ==
  CacheTypeOK /\ (http_cache_shutdown_stop \/ http_cache_shutdown_free)
    => CacheTypeOK'
<1> SUFFICES ASSUME CacheTypeOK,
                    http_cache_shutdown_stop \/ http_cache_shutdown_free
             PROVE  CacheTypeOK'
  OBVIOUS
<1> USE DEF CacheTypeOK, collectorVars, entryVars, CollectorAt, CollectorTo
<1>1. CASE http_cache_shutdown_stop
  BY <1>1 DEF http_cache_shutdown_stop, CollectorType, CollectorPc
<1>2. CASE http_cache_shutdown_free
  <2>1. lru' \in LruType
    BY <1>2 DEF http_cache_shutdown_free, LruType, EntryOrNull
  <2>2. data' \in [Entry -> Seq(Nat)] /\ buckets' \in [Bucket -> Seq(Entry)]
    BY <1>2 DEF http_cache_shutdown_free
  <2> QED
    BY <1>2, <2>1, <2>2 DEF http_cache_shutdown_free, State
<1> QED
  BY <1>1, <1>2

\* Every step of a worker keeps the types.
LEMMA WorkerTypes ==
  ASSUME IInv, NEW t \in Thread, WorkerNext(t)
  PROVE  TypeOK'
<1> DEFINE e == entry[t]
<1>a. TypeOK /\ CacheTypeOK /\ EntryAtPc /\ References
  BY DEF IInv, TypeOK, Control
<1>b. pc[t] \in WithEntryPc => e \in Entry
  BY <1>a DEF EntryAtPc, TypeOK, EntryOrNull
<1>c. pc[t] \in WithEntryPc /\ ~At(t, "cancel") => refcount[e] - 1 \in Nat
  BY <1>a, HeldIsCounted DEF EntryAtPc
<1>d. NoLength \in Int /\ 0 \in Nat /\ <<>> \in Seq(Nat)
  BY DEF NoLength
<1>e. UNCHANGED cacheVars => CacheTypeOK'
  BY <1>a DEF CacheTypeOK, cacheVars, entryVars, collectorVars
<1>f. ASSUME Return(t), CacheTypeOK',
             client' \in [Thread -> BOOLEAN], remote' \in [Thread -> BOOLEAN],
             searchCreateMutex' \in Thread \cup {NULL}
      PROVE  TypeOK'
  <2>1. pc' \in [Thread -> Pc]
    BY <1>a, <1>f DEF TypeOK, Return, Goto, Pc
  <2>2. /\ entry' \in [Thread -> EntryOrNull]
        /\ expect' \in [Thread -> Nat \cup {NoLength}]
        /\ recvd' \in [Thread -> Nat]
    BY <1>a, <1>d, <1>f DEF TypeOK, Return, EntryOrNull
  <2>3. buf' \in [Thread -> Seq(Nat)] /\ sent' \in [Thread -> Seq(Nat)]
    BY <1>a, <1>d, <1>f DEF TypeOK, Return
  <2> QED
    BY <1>a, <1>f, <2>1, <2>2, <2>3 DEF TypeOK, Return
<1>g. /\ client \in [Thread -> BOOLEAN] /\ remote \in [Thread -> BOOLEAN]
      /\ searchCreateMutex \in Thread \cup {NULL}
  BY <1>a DEF TypeOK
<1>h. /\ DisconnectClient(t) => client' \in [Thread -> BOOLEAN]
      /\ DisconnectBoth(t) => /\ client' \in [Thread -> BOOLEAN]
                              /\ remote' \in [Thread -> BOOLEAN]
      /\ Unlock => searchCreateMutex' \in Thread \cup {NULL}
  BY <1>g DEF DisconnectClient, DisconnectBoth, Unlock
<1>i. ASSUME NEW p \in Pc, Goto(t, p), UNCHANGED procVars, CacheTypeOK'
      PROVE  TypeOK'
  BY <1>a, <1>i DEF Goto, TypeOK, procVars, connVars, sockVars
<1> HIDE DEF e
<1> USE DEF At, Goto, Pc, ReaderPc, SearchPc, FillPc, FinishPc, Unlock,
            DisconnectClient, DisconnectBoth
<1>1. ASSUME PollIn(t) \/ WorkerExit(t)
      PROVE  TypeOK'
  BY <1>1, <1>a, <1>e
     DEF PollIn, WorkerExit, TypeOK, connVars, procVars, sockVars
<1>2. ASSUME SearchStep(t)
      PROVE  TypeOK'
  <2>1. CASE RecvRequest(t)
    <3>1. pc' \in [Thread -> Pc] /\ req' \in [Thread -> Url]
      BY <2>1, <1>a DEF RecvRequest, TypeOK
    <3> QED
      BY <2>1, <1>a, <1>e, <3>1 DEF RecvRequest, TypeOK, sockVars
  <2>5. CASE LockSearchCreate(t)
    <3>1. pc' \in [Thread -> Pc]
      BY <2>5, <1>a DEF LockSearchCreate, TypeOK
    <3> QED
      BY <2>5, <1>a, <1>e, <3>1 DEF LockSearchCreate, TypeOK, connVars, sockVars
  <2>2. CASE RejectRequest(t)
    BY <2>2, <1>e, <1>f, <1>g, <1>h DEF RejectRequest
  <2>3. CASE LookupHit(t)
    <3>1. PICK f \in live : /\ cache_lookup_hit(req[t], f)
                            /\ entry' = [entry EXCEPT ![t] = f]
      BY <2>3 DEF LookupHit
    <3>2. f \in Entry /\ req[t] \in Url
      BY <1>a DEF TypeOK, CacheTypeOK
    <3>3. CacheTypeOK'
      BY <1>a, <3>1, <3>2, CacheCallTypes
    <3> QED
      BY <2>3, <1>a, <3>1, <3>2, <3>3
         DEF LookupHit, TypeOK, connVars, sockVars, EntryOrNull
  <2>4. CASE LookupMiss(t)
    BY <2>4, <1>a, <1>e
       DEF LookupMiss, cache_lookup_miss, TypeOK, connVars, procVars, sockVars
  <2> QED
    BY <1>2, <2>1, <2>2, <2>3, <2>4, <2>5 DEF SearchStep
<1>3. ASSUME ReaderStep(t)
      PROVE  TypeOK'
  <2>1. CASE ReadEntry(t)
    <3>1. e \in Entry
      BY <2>1, <1>b DEF ReadEntry, WithEntryPc
    <3>2. CASE cache_entry_read_wait(e, t) /\ Goto(t, "wait") /\ UNCHANGED procVars
      <4>1. CacheTypeOK'
        BY <1>a, <3>1, <3>2, CacheCallTypes
      <4> QED
        BY <1>a, <3>2, <4>1 DEF TypeOK, connVars, procVars, sockVars
    <3>3. CASE Goto(t, "failed") /\ UNCHANGED <<cacheVars, procVars>>
      BY <1>a, <1>e, <3>3 DEF TypeOK, connVars, procVars, sockVars
    <3>4. ASSUME NEW b, b = ReadBytes(e, Len(sent[t]), BUFFER_SIZE),
                 buf' = [buf EXCEPT ![t] = b],
                 Goto(t, "served") \/ Goto(t, "send_cached"),
                 UNCHANGED <<cacheVars, req, expect, recvd, sent, entry,
                             sockVars, searchCreateMutex, resp, main_pc>>
          PROVE  TypeOK'
      <4>1. data[e] \in Seq(Nat) /\ Len(sent[t]) \in Nat
        BY <1>a, <3>1 DEF TypeOK, CacheTypeOK
      <4>2. b \in Seq(Nat)
        BY <3>1, <3>4, <4>1, ReadBytesType, ProxyAssumption
      <4> QED
        BY <1>a, <1>e, <3>4, <4>2 DEF TypeOK, sockVars
    <3> QED
      BY <2>1, <3>2, <3>3, <3>4 DEF ReadEntry, e
  <2>2. CASE ReadTimeout(t) \/ ReadSpurious(t)
    <3>1. e \in Entry
      BY <2>2, <1>b DEF ReadTimeout, ReadSpurious, WithEntryPc
    <3>2. CacheTypeOK'
      BY <1>a, <2>2, <3>1, CacheCallTypes DEF ReadTimeout, ReadSpurious, e
    <3>3. CASE ReadTimeout(t)
      BY <1>i, <3>2, <3>3 DEF ReadTimeout
    <3>4. CASE ReadSpurious(t)
      BY <1>a, <3>2, <3>4
         DEF ReadSpurious, TypeOK, connVars, procVars, sockVars
    <3> QED
      BY <2>2, <3>3, <3>4
  <2>3. CASE SendCached(t)
    <3>1. sent[t] \o buf[t] \in Seq(Nat)
      BY <1>a DEF TypeOK
    <3>2. CacheTypeOK'
      BY <1>e, <2>3 DEF SendCached
    <3>3. sent' \in [Thread -> Seq(Nat)]
      <4> DEFINE q == sent[t] \o buf[t]
      <4>1. sent' = [sent EXCEPT ![t] = q] \/ sent' = sent
        BY <2>3 DEF SendCached
      <4>2. sent \in [Thread -> Seq(Nat)] /\ q \in Seq(Nat)
        BY <1>a, <3>1 DEF TypeOK
      <4> HIDE DEF q
      <4> QED
        BY <4>1, <4>2
    <3>4. buf' \in [Thread -> Seq(Nat)]
      BY <1>a, <1>d, <2>3 DEF SendCached, TypeOK
    <3>5. pc' \in [Thread -> Pc]
      BY <1>a, <2>3 DEF SendCached, TypeOK
    <3> QED
      BY <1>a, <2>3, <3>2, <3>3, <3>4, <3>5 DEF SendCached, TypeOK, sockVars
  <2>4. CASE ReaderRelease(t)
    <3>1. e \in Entry /\ refcount[e] - 1 \in Nat
      BY <2>4, <1>b, <1>c DEF ReaderRelease, WithEntryPc
    <3>2. CacheTypeOK'
      BY <1>a, <2>4, <3>1, CacheCallTypes DEF ReaderRelease, e
    <3> QED
      BY <1>f, <1>g, <1>h, <2>4, <3>2 DEF ReaderRelease
  <2> QED
    BY <1>3, <2>1, <2>2, <2>3, <2>4 DEF ReaderStep
<1>4. ASSUME WriterStep(t)
      PROVE  TypeOK'
  <2>1. CASE Connect(t)
    <3>1. CASE /\ remote' = [remote EXCEPT ![t] = TRUE]
               /\ Goto(t, "send_request")
               /\ UNCHANGED <<connVars, entry, client, searchCreateMutex, resp,
                              main_pc>>
      BY <1>a, <1>e, <2>1, <3>1 DEF Connect, TypeOK, connVars
    <3>2. CASE /\ Unlock /\ DisconnectClient(t) /\ Return(t) /\ UNCHANGED remote
      BY <1>e, <1>f, <1>g, <1>h, <2>1, <3>2 DEF Connect
    <3> QED
      BY <2>1, <3>1, <3>2 DEF Connect
  <2>11. CASE SendRequest(t)
    <3>1. "recv_headers" \in Pc /\ CacheTypeOK'
      BY <1>e, <2>11 DEF SendRequest
    <3> QED
      BY <1>f, <1>h, <1>i, <2>11, <3>1 DEF SendRequest
  <2>2. CASE RecvHeaders(t)
    <3>1. \A n \in 1 .. MaxResp : n \in Nat /\ Bytes(0, n) \in Seq(Nat)
      BY BytesType, ProxyAssumption
    <3>2. PICK n \in 1 .. MaxResp, len \in ContentLength :
            /\ expect' = [expect EXCEPT ![t] = len]
            /\ recvd' = [recvd EXCEPT ![t] = n]
            /\ buf' = [buf EXCEPT ![t] = Bytes(0, n)]
      BY <2>2 DEF RecvHeaders
    <3>3. len \in Nat \cup {NoLength}
      BY ProxyAssumption
    <3> QED
      BY <1>a, <1>e, <2>2, <3>1, <3>2, <3>3 DEF RecvHeaders, TypeOK, sockVars
  <2>3. CASE RecvHeadersFails(t) \/ InsertFails(t)
    BY <1>e, <1>f, <1>h, <2>3 DEF RecvHeadersFails, InsertFails
  <2>4. CASE Insert(t)
    <3>1. PICK f \in Entry : /\ cache_insert(f, req[t])
                             /\ entry' = [entry EXCEPT ![t] = f]
                             /\ resp' = [resp EXCEPT ![f] = expect[t]]
      BY <2>4 DEF Insert
    <3>2. req[t] \in Url
      BY <1>a DEF TypeOK
    <3>3. CacheTypeOK'
      BY <1>a, <3>1, <3>2, CacheCallTypes
    <3> QED
      BY <1>a, <2>4, <3>1, <3>3 DEF Insert, TypeOK, connVars, sockVars, EntryOrNull
  <2>5. CASE InsertLru(t)
    <3>1. e \in Entry
      BY <2>5, <1>b DEF InsertLru, WithEntryPc
    <3>2. CacheTypeOK'
      BY <1>a, <2>5, <3>1, CacheCallTypes DEF InsertLru, e
    <3> QED
      BY <1>a, <2>5, <3>2 DEF InsertLru, TypeOK, connVars, sockVars
  <2>6. CASE AppendFirst(t) \/ AppendBody(t)
    <3>1. e \in Entry /\ buf[t] \in Seq(Nat)
      BY <1>a, <2>6, <1>b DEF AppendFirst, AppendBody, WithEntryPc, TypeOK
    <3>2. cache_entry_append_chunk(e, buf[t]) => CacheTypeOK'
      BY <1>a, <3>1, CacheCallTypes
    <3>3. CacheTypeOK'
      BY <1>e, <2>6, <3>2 DEF AppendFirst, AppendBody, AppendChunk, e
    <3> QED
      BY <1>a, <2>6, <3>3
         DEF AppendFirst, AppendBody, TypeOK, connVars, procVars, sockVars
  <2>7. \A p \in Pc : Finish(t, p) /\ UNCHANGED cacheVars => TypeOK'
    <3> SUFFICES ASSUME NEW p \in Pc, Finish(t, p), UNCHANGED cacheVars
                 PROVE  TypeOK'
      OBVIOUS
    <3>1. CacheTypeOK'
      BY <1>e
    <3>2. CASE Goto(t, p) /\ UNCHANGED procVars
      BY <1>i, <3>1, <3>2
    <3>3. CASE DisconnectBoth(t) /\ Return(t) /\ UNCHANGED searchCreateMutex
      BY <1>f, <1>g, <1>h, <3>1, <3>3
    <3> QED
      BY <3>2, <3>3 DEF Finish
  <2>8. CASE Sent(t)
    <3>1. CASE Finish(t, "complete")
      BY <2>7, <2>8, <3>1 DEF Sent
    <3>2. CASE Goto(t, "recv_body") /\ ~Finish(t, "complete")
      <4>1. CacheTypeOK'
        BY <1>e, <2>8 DEF Sent
      <4>2. pc' \in [Thread -> Pc]
        BY <1>a, <3>2 DEF TypeOK
      <4>3. buf' \in [Thread -> Seq(Nat)]
        BY <1>a, <1>d, <2>8, <3>2 DEF Sent, TypeOK
      <4> QED
        BY <1>a, <2>8, <3>2, <4>1, <4>2, <4>3 DEF Sent, TypeOK, sockVars
    <3> QED
      BY <2>8, <3>1, <3>2 DEF Sent
  <2>9. CASE SendFails(t) \/ RemoteCloses(t) \/ RecvFails(t)
    BY <2>7, <2>9 DEF SendFails, RemoteCloses, RecvFails
  <2>10. CASE RecvBody(t)
    <3>1. recvd[t] \in Nat
      BY <1>a DEF TypeOK
    <3>2. PICK n \in 1 .. MaxResp - recvd[t] :
            /\ recvd' = [recvd EXCEPT ![t] = @ + n]
            /\ buf' = [buf EXCEPT ![t] = Bytes(recvd[t], recvd[t] + n)]
      BY <2>10 DEF RecvBody
    <3>3. recvd[t] + n \in Nat /\ Bytes(recvd[t], recvd[t] + n) \in Seq(Nat)
      <4>1. n \in Nat /\ recvd[t] + n \in Nat /\ recvd[t] <= recvd[t] + n
        BY <3>1, ProxyAssumption
      <4> QED
        BY <3>1, <4>1, BytesType
    <3> QED
      BY <1>a, <1>e, <2>10, <3>2, <3>3 DEF RecvBody, TypeOK, sockVars
  <2> QED
    BY <1>4, <2>1, <2>2, <2>3, <2>4, <2>5, <2>6, <2>8, <2>9, <2>10, <2>11
       DEF WriterStep
<1>5. ASSUME FinishStep(t)
      PROVE  TypeOK'
  <2>1. e \in Entry
    BY <1>5, <1>b
       DEF FinishStep, Complete, Release, CancelThenRelease, ReleaseThenCancel,
           Cancel, WithEntryPc
  <2>2. ~At(t, "cancel") => refcount[e] - 1 \in Nat
    BY <1>5, <1>c
       DEF FinishStep, Complete, Release, CancelThenRelease, ReleaseThenCancel,
           Cancel, WithEntryPc
  <2>3. CacheTypeOK'
    <3>1. cache_entry_complete(e) \/ cache_entry_cancel(e) => CacheTypeOK'
      BY <1>a, <2>1, CacheCallTypes
    <3>2. ~At(t, "cancel") /\ cache_entry_release(e) => CacheTypeOK'
      BY <1>a, <2>1, <2>2, CacheCallTypes
    <3> QED
      BY <1>5, <3>1, <3>2
         DEF FinishStep, Complete, Release, CancelThenRelease,
             ReleaseThenCancel, Cancel, e
  <2>4. CASE Complete(t)
    BY <1>a, <2>1, <2>3, <2>4 DEF Complete, TypeOK, connVars, sockVars, e
  <2>5. CASE CancelThenRelease(t) \/ ReleaseThenCancel(t)
    BY <1>a, <2>3, <2>5
       DEF CancelThenRelease, ReleaseThenCancel, TypeOK, connVars, procVars,
           sockVars
  <2>6. CASE Release(t) \/ Cancel(t)
    BY <1>f, <1>g, <1>h, <2>3, <2>6 DEF Release, Cancel
  <2> QED
    BY <1>5, <2>4, <2>5, <2>6 DEF FinishStep
<1> QED
  BY <1>1, <1>2, <1>3, <1>4, <1>5 DEF WorkerNext

\* Every step keeps the types.
LEMMA StepTypeOK == IInv /\ [Next]_vars => TypeOK'
<1> SUFFICES ASSUME IInv, [Next]_vars
             PROVE  TypeOK'
  OBVIOUS
<1>a. TypeOK /\ CacheTypeOK /\ Chains
  BY DEF IInv, TypeOK
<1>1. CASE \E t \in Thread : WorkerNext(t)
  BY <1>1, WorkerTypes
<1>2. CASE CollectorNext /\ UNCHANGED <<pc, procVars>>
  BY <1>2, <1>a, CollectorTypes DEF TypeOK, connVars, procVars, sockVars
<1>3. CASE MainNext
  <2>1. CASE ThreadpoolShutdown \/ JoinWorkers
    BY <1>a, <2>1
       DEF ThreadpoolShutdown, JoinWorkers, TypeOK, CacheTypeOK, cacheVars,
           entryVars, collectorVars, connVars, sockVars, MainPc
  <2>2. CASE StopCollector \/ FreeCache
    BY <1>a, <2>2, ShutdownTypes
       DEF StopCollector, FreeCache, TypeOK, connVars, sockVars, MainPc
  <2> QED
    BY <1>3, <2>1, <2>2 DEF MainNext
<1>4. CASE UNCHANGED vars
  BY <1>4, <1>a
     DEF TypeOK, CacheTypeOK, vars, cacheVars, entryVars, collectorVars,
         procVars, connVars, sockVars
<1> QED
  BY <1>1, <1>2, <1>3, <1>4 DEF Next, Terminated
-----------------------------------------------------------------------------
(* Quiet steps: most steps of a worker move its pc, and perhaps the mutex,  *)
(* and change nothing else that the invariant is about.                     *)

\* Thread t goes to p; the mutex stays, or is taken or given back by t.
Moves(t, p) ==
  /\ pc[t] # "exited"
  /\ pc' = [pc EXCEPT ![t] = p]
  /\ p \in SearchPc <=> searchCreateMutex' = t
  /\ \/ searchCreateMutex' = searchCreateMutex
     \/ searchCreateMutex = NULL /\ searchCreateMutex' = t
     \/ searchCreateMutex = t /\ searchCreateMutex' = NULL
  /\ UNCHANGED <<main_pc, cache_freed>>

Quiet(t) ==
  \E p \in Pc :
    /\ Moves(t, p)
    /\ "cancel" \notin {pc[t], p}
    /\ p \in WithEntryPc => entry[t] # NULL
    /\ p \in NoEntryPc => entry[t] = NULL
    /\ entry[t] # NULL => (p \in UnfinishedPc <=> pc[t] \in UnfinishedPc)
    /\ p \in MissPc => pc[t] \in MissPc /\ req'[t] = req[t]
    /\ \A w \in Thread \ {t} : req'[w] = req[w]
    /\ UNCHANGED <<live, url, state, refcount, buckets, entry>>

\* A worker's step is quiet, or one of nine.
Loud(t) ==
  \/ LookupHit(t) \/ LookupMiss(t) \/ Insert(t)
  \/ ReaderRelease(t) \/ FinishStep(t)

LEMMA QuietOrLoud ==
  ASSUME IInv, NEW t \in Thread, WorkerNext(t)
  PROVE  Quiet(t) \/ Loud(t)
<1>a. TypeOK /\ EntryAtPc /\ MutexAtPc
  BY DEF IInv, Control
<1>b. /\ pc \in [Thread -> Pc] /\ entry \in [Thread -> EntryOrNull]
      /\ req \in [Thread -> Url]
      /\ NULL \notin Thread
  BY <1>a, HttpCacheAssumption DEF TypeOK
<1>c. /\ pc[t] \in WithEntryPc => entry[t] # NULL
      /\ pc[t] \in NoEntryPc => entry[t] = NULL
      /\ pc[t] \in SearchPc <=> searchCreateMutex = t
  BY <1>a DEF EntryAtPc, MutexAtPc
<1>d. UNCHANGED cacheVars =>
        UNCHANGED <<live, url, state, refcount, buckets, cache_freed>>
  BY DEF cacheVars, entryVars, collectorVars
<1>e. UNCHANGED procVars =>
        UNCHANGED <<req, entry, main_pc, searchCreateMutex>>
  BY DEF procVars, connVars
<1>f. ASSUME NEW p \in Pc, Goto(t, p), UNCHANGED procVars,
             UNCHANGED <<live, url, state, refcount, buckets, cache_freed>>,
             pc[t] # "exited", "cancel" \notin {pc[t], p},
             p \in SearchPc <=> pc[t] \in SearchPc,
             p \in WithEntryPc => entry[t] # NULL,
             p \in NoEntryPc => entry[t] = NULL,
             entry[t] # NULL => (p \in UnfinishedPc <=> pc[t] \in UnfinishedPc),
             p \in MissPc => pc[t] \in MissPc
      PROVE  Quiet(t)
  BY <1>b, <1>c, <1>e, <1>f DEF Quiet, Moves, Goto
<1>g. ASSUME Return(t), entry[t] = NULL, pc[t] \notin {"exited", "cancel"},
             UNCHANGED <<live, url, state, refcount, buckets, cache_freed>>,
             \/ Unlock /\ searchCreateMutex = t
             \/ UNCHANGED searchCreateMutex /\ searchCreateMutex # t
      PROVE  Quiet(t)
  <2>1. entry' = entry
    BY <1>b, <1>g DEF Return
  <2>2. /\ "idle" \in Pc
        /\ "idle" \notin SearchPc \cup WithEntryPc \cup UnfinishedPc \cup MissPc
    BY DEF Pc, SearchPc, WithEntryPc, ReaderPc, FinishPc, UnfinishedPc, FillPc,
           MissPc
  <2>3. Moves(t, "idle")
    BY <1>b, <1>g, <2>2 DEF Moves, Return, Goto, Unlock
  <2> QED
    BY <1>b, <1>g, <2>1, <2>2, <2>3 DEF Quiet, Return
<1>h. ASSUME NEW p \in {"complete", "release_cancel", "cancel_release"},
             pc[t] \in {"send_first", "send_body", "recv_body"},
             Finish(t, p), UNCHANGED cacheVars
      PROVE  Quiet(t)
  <2>1. CASE entry[t] # NULL /\ Goto(t, p) /\ UNCHANGED procVars
    BY <1>d, <1>f, <1>h, <2>1
       DEF Pc, SearchPc, WithEntryPc, ReaderPc, FinishPc, UnfinishedPc, FillPc,
           MissPc, NoEntryPc
  <2>2. CASE entry[t] = NULL /\ Return(t) /\ UNCHANGED searchCreateMutex
    BY <1>c, <1>d, <1>g, <1>h, <2>2 DEF SearchPc
  <2> QED
    BY <1>h, <2>1, <2>2 DEF Finish
<1>1. CASE PollIn(t) \/ RecvRequest(t) \/ LockSearchCreate(t) \/ WorkerExit(t)
  <2> USE DEF Quiet, Moves, At, Goto, Pc, SearchPc, WithEntryPc, ReaderPc,
              FinishPc, UnfinishedPc, FillPc, MissPc, NoEntryPc
  <2>1. CASE PollIn(t)
    <3>1. Moves(t, "request")
      BY <1>b, <1>c, <1>d, <2>1 DEF PollIn
    <3> QED
      BY <1>b, <1>c, <1>d, <2>1, <3>1 DEF PollIn, connVars
  <2>2. CASE RecvRequest(t)
    <3>1. Moves(t, "lock")
      BY <1>b, <1>c, <1>d, <2>2 DEF RecvRequest
    <3> QED
      BY <1>b, <1>c, <1>d, <2>2, <3>1 DEF RecvRequest
  <2>3. CASE LockSearchCreate(t)
    <3>1. Moves(t, "lookup")
      BY <1>b, <1>c, <1>d, <2>3 DEF LockSearchCreate
    <3> QED
      BY <1>b, <1>c, <1>d, <2>3, <3>1 DEF LockSearchCreate, connVars
  <2>4. CASE WorkerExit(t)
    BY <1>c, <1>d, <1>f, <2>4 DEF WorkerExit
  <2> QED
    BY <1>1, <2>1, <2>2, <2>3, <2>4
<1>2. CASE RejectRequest(t)
  BY <1>2, <1>c, <1>d, <1>g DEF RejectRequest, At, NoEntryPc, SearchPc
<1>3. CASE ReadEntry(t) \/ ReadTimeout(t) \/ ReadSpurious(t) \/ SendCached(t)
  <2> USE DEF Pc, SearchPc, WithEntryPc, ReaderPc,
              FinishPc, UnfinishedPc, FillPc, MissPc, NoEntryPc
  <2>1. pc[t] \in ReaderPc /\ pc[t] \in WithEntryPc /\ entry[t] # NULL
    BY <1>3, <1>c DEF ReadEntry, ReadTimeout, ReadSpurious, SendCached, At
  <2>2. PICK p \in ReaderPc : pc' = [pc EXCEPT ![t] = p]
    <3>1. CASE ReadEntry(t)
      BY <3>1 DEF ReadEntry, Goto
    <3>2. CASE ReadTimeout(t)
      BY <3>2 DEF ReadTimeout, Goto
    <3>3. CASE ReadSpurious(t)
      BY <3>3, <1>b DEF ReadSpurious, At
    <3>4. CASE SendCached(t)
      BY <3>4 DEF SendCached, Goto
    <3> QED
      BY <1>3, <3>1, <3>2, <3>3, <3>4
  <2>3. /\ UNCHANGED <<live, url, state, refcount, buckets, cache_freed>>
        /\ UNCHANGED <<req, entry, main_pc, searchCreateMutex>>
    BY <1>3, <1>d, <1>e
       DEF ReadEntry, ReadTimeout, ReadSpurious, SendCached,
           cache_entry_read_wait, cache_entry_read_wake, collectorVars
  <2>4. Moves(t, p)
    BY <1>c, <2>1, <2>2, <2>3 DEF Moves
  <2> QED
    BY <2>1, <2>2, <2>3, <2>4 DEF Quiet
<1>4. CASE Connect(t)
  <2> USE DEF Pc, SearchPc, WithEntryPc, ReaderPc,
              FinishPc, UnfinishedPc, FillPc, MissPc, NoEntryPc, At
  <2>1. CASE Unlock /\ Return(t)
    BY <1>4, <2>1, <1>c, <1>d, <1>g DEF Connect
  <2>2. CASE /\ Goto(t, "send_request")
             /\ UNCHANGED <<connVars, entry, searchCreateMutex, main_pc>>
    <3>1. Moves(t, "send_request")
      BY <1>4, <2>2, <1>c, <1>d DEF Connect, Moves, Goto
    <3> QED
      BY <1>4, <2>2, <1>c, <1>d, <3>1 DEF Connect, Quiet, connVars
  <2> QED
    BY <1>4, <2>1, <2>2 DEF Connect
<1>5. CASE SendRequest(t)
  <2> USE DEF Pc, SearchPc, WithEntryPc, ReaderPc,
              FinishPc, UnfinishedPc, FillPc, MissPc, NoEntryPc, At
  <2>1. CASE Unlock /\ Return(t)
    BY <1>5, <2>1, <1>c, <1>d, <1>g DEF SendRequest
  <2>2. CASE Goto(t, "recv_headers") /\ UNCHANGED procVars
    BY <1>5, <2>2, <1>c, <1>d, <1>f DEF SendRequest
  <2> QED
    BY <1>5, <2>1, <2>2 DEF SendRequest
<1>6. CASE RecvHeadersFails(t) \/ InsertFails(t)
  BY <1>6, <1>c, <1>d, <1>g
     DEF RecvHeadersFails, InsertFails, SearchPc, NoEntryPc, At
<1>7. CASE RecvHeaders(t) \/ InsertLru(t)
  <2> USE DEF Pc, SearchPc, WithEntryPc, ReaderPc,
              FinishPc, UnfinishedPc, FillPc, MissPc, NoEntryPc, At
  <2>1. CASE InsertLru(t)
    <3>1. Moves(t, "append_first")
      BY <2>1, <1>b, <1>c
         DEF InsertLru, cache_insert_lru, Moves, Goto, Unlock, collectorVars
    <3> QED
      BY <2>1, <1>c, <3>1
         DEF InsertLru, cache_insert_lru, entryVars, Quiet, connVars
  <2>2. CASE RecvHeaders(t)
    <3>1. /\ pc[t] = "recv_headers" /\ entry[t] = NULL /\ searchCreateMutex = t
          /\ UNCHANGED <<live, url, state, refcount, buckets, cache_freed>>
          /\ UNCHANGED <<req, entry, main_pc>>
      BY <2>2, <1>c, <1>d DEF RecvHeaders
    <3>2. CASE Goto(t, "insert") /\ UNCHANGED searchCreateMutex
      <4>1. Moves(t, "insert")
        BY <3>1, <3>2 DEF Moves, Goto
      <4> QED
        BY <3>1, <4>1 DEF Quiet
    <3>3. CASE Goto(t, "send_first") /\ Unlock
      <4>1. Moves(t, "send_first")
        BY <1>b, <3>1, <3>3 DEF Moves, Goto, Unlock
      <4> QED
        BY <3>1, <4>1 DEF Quiet
    <3> QED
      BY <2>2, <3>2, <3>3 DEF RecvHeaders
  <2> QED
    BY <1>7, <2>1, <2>2
<1>8. CASE AppendFirst(t) \/ AppendBody(t)
  <2> USE DEF Pc, SearchPc, WithEntryPc, ReaderPc,
              FinishPc, UnfinishedPc, FillPc, MissPc, NoEntryPc, At
  <2>1. UNCHANGED <<live, url, state, refcount, buckets, cache_freed>>
    BY <1>8, <1>d
       DEF AppendFirst, AppendBody, AppendChunk, cache_entry_append_chunk,
           collectorVars
  <2>2. CASE AppendFirst(t)
    BY <2>1, <2>2, <1>c, <1>f DEF AppendFirst
  <2>3. CASE AppendBody(t)
    BY <2>1, <2>3, <1>c, <1>f DEF AppendBody
  <2> QED
    BY <1>8, <2>2, <2>3
<1>9. CASE Sent(t) \/ RecvBody(t)
  <2> USE DEF Pc, SearchPc, WithEntryPc, ReaderPc,
              FinishPc, UnfinishedPc, FillPc, MissPc, NoEntryPc, At
  <2>1. CASE Sent(t)
    <3>1. CASE Finish(t, "complete")
      BY <2>1, <3>1, <1>h DEF Sent
    <3>2. CASE /\ Goto(t, "recv_body")
               /\ UNCHANGED <<req, entry, searchCreateMutex, main_pc>>
      <4>1. Moves(t, "recv_body")
        BY <2>1, <3>2, <1>c, <1>d DEF Sent, Moves, Goto
      <4> QED
        BY <2>1, <3>2, <1>c, <1>d, <4>1 DEF Sent, Quiet
    <3> QED
      BY <2>1, <3>1, <3>2 DEF Sent
  <2>2. CASE RecvBody(t)
    <3>1. PICK p \in {"append_body", "send_body"} :
            pc' = [pc EXCEPT ![t] = p] /\ (p = "append_body" => entry[t] # NULL)
      BY <2>2 DEF RecvBody, Goto
    <3>2. Moves(t, p)
      BY <2>2, <3>1, <1>c, <1>d DEF RecvBody, Moves
    <3> QED
      BY <2>2, <3>1, <3>2, <1>c, <1>d DEF RecvBody, Quiet
  <2> QED
    BY <1>9, <2>1, <2>2
<1>10. CASE SendFails(t) \/ RemoteCloses(t) \/ RecvFails(t)
  BY <1>10, <1>h DEF SendFails, RemoteCloses, RecvFails, At
<1> QED
  BY <1>1, <1>2, <1>3, <1>4, <1>5, <1>6, <1>7, <1>8, <1>9, <1>10
     DEF WorkerNext, SearchStep, ReaderStep, WriterStep, Loud
\* A thread that moves keeps the control invariant if its new place and its
\* new entry fit.
LEMMA MoveControl ==
  ASSUME TypeOK, Control, NEW t \in Thread, NEW p \in Pc, NEW x,
         Moves(t, p), entry' = [entry EXCEPT ![t] = x],
         p \in WithEntryPc => x # NULL, p \in NoEntryPc => x = NULL
  PROVE  Control'
<1>1. /\ pc' \in [Thread -> Pc] /\ pc'[t] = p /\ entry'[t] = x
      /\ \A w \in Thread \ {t} : pc'[w] = pc[w] /\ entry'[w] = entry[w]
  BY DEF TypeOK, Moves
<1>2. EntryAtPc'
  BY <1>1 DEF Control, EntryAtPc
<1>3. MutexAtPc'
  BY <1>1, HttpCacheAssumption DEF Control, MutexAtPc, Moves
<1>4. ExitedAtEnd'
  <2>1. main_pc \notin {"stop", "join_collector", "done"} /\ ~cache_freed
    BY DEF Control, ExitedAtEnd, Moves, At
  <2> QED
    BY <2>1 DEF ExitedAtEnd, Moves
<1> QED
  BY <1>2, <1>3, <1>4 DEF Control

\* A quiet step keeps all of the invariant.
LEMMA QuietKeeps ==
  ASSUME IInv, NEW t \in Thread, Quiet(t)
  PROVE  Control' /\ References' /\ Fillers' /\ Chains' /\ Unique'
<1>a. TypeOK /\ Control /\ References /\ Fillers /\ Chains /\ Unique
  BY DEF IInv
<1>1. PICK p \in Pc :
        /\ Moves(t, p)
        /\ "cancel" \notin {pc[t], p}
        /\ p \in WithEntryPc => entry[t] # NULL
        /\ p \in NoEntryPc => entry[t] = NULL
        /\ entry[t] # NULL => (p \in UnfinishedPc <=> pc[t] \in UnfinishedPc)
        /\ p \in MissPc => pc[t] \in MissPc /\ req'[t] = req[t]
        /\ \A w \in Thread \ {t} : req'[w] = req[w]
        /\ UNCHANGED <<live, url, state, refcount, buckets, entry>>
  BY DEF Quiet
<1>2. /\ pc'[t] = p /\ \A w \in Thread \ {t} : pc'[w] = pc[w]
      /\ entry' = [entry EXCEPT ![t] = entry[t]]
  BY <1>a, <1>1 DEF TypeOK, Moves
<1>3. Control'
  BY <1>a, <1>1, <1>2, MoveControl
<1>4. References'
  <2>1. \A e : Holders(e)' = Holders(e)
    BY <1>1, <1>2 DEF Holders, At
  <2> QED
    BY <1>a, <1>1, <2>1 DEF References, NoDanglingEntry, RefcountExact
<1>5. Fillers'
  <2>1. \A w \in Thread : Filling(w)' => Filling(w)
    BY <1>1, <1>2 DEF Filling
  <2> QED
    BY <1>a, <1>1, <2>1 DEF Fillers, FillsIncomplete, OneFiller
<1>6. Chains'
  BY <1>a, <1>1 DEF Chains, ChainsLive, ChainsDistinct, LiveInChain
<1>7. Unique'
  <2>1. \A w \in Thread : pc'[w] \in MissPc => pc[w] \in MissPc /\ req'[w] = req[w]
    BY <1>1, <1>2
  <2> QED
    BY <1>a, <1>1, <2>1 DEF Unique, MissStays, OneUsableEntryPerUrl
<1> QED
  BY <1>3, <1>4, <1>5, <1>6, <1>7

-----------------------------------------------------------------------------
(* The other steps of a worker. *)

\* A step that neither creates an entry nor revives a cancelled one, and sends
\* nobody to the points between a miss and the insertion, keeps uniqueness.
LEMMA UniqueKept ==
  ASSUME Unique, live' \subseteq live,
         \A e \in live' : /\ url'[e] = url[e]
                          /\ state[e] = "CANCELLED" => state'[e] = "CANCELLED",
         \A w \in Thread : pc'[w] \in MissPc => pc[w] \in MissPc /\ req'[w] = req[w]
  PROVE  Unique'
BY DEF Unique, MissStays, OneUsableEntryPerUrl

LEMMA LookupHitKeeps ==
  ASSUME IInv, NEW t \in Thread, LookupHit(t)
  PROVE  Control' /\ References' /\ Fillers' /\ Chains' /\ Unique'
<1>a. TypeOK /\ Control /\ References /\ Fillers /\ Chains /\ Unique
  BY DEF IInv
<1>1. PICK e \in live : /\ cache_lookup_hit(req[t], e)
                        /\ entry' = [entry EXCEPT ![t] = e]
  BY DEF LookupHit
<1>2. /\ pc[t] = "lookup" /\ entry[t] = NULL /\ searchCreateMutex = t
      /\ e \in Entry /\ e # NULL
  BY <1>a, HttpCacheAssumption
     DEF LookupHit, Control, EntryAtPc, MutexAtPc, At, NoEntryPc, SearchPc,
         TypeOK, CacheTypeOK
<1>3. /\ UNCHANGED <<live, url, state, buckets, cache_freed, main_pc, req>>
      /\ refcount' = [refcount EXCEPT ![e] = @ + 1]
  BY <1>1 DEF LookupHit, cache_lookup_hit, collectorVars, connVars
<1>4. /\ pc'[t] = "read" /\ entry'[t] = e
      /\ \A w \in Thread \ {t} : pc'[w] = pc[w] /\ entry'[w] = entry[w]
  BY <1>a, <1>1 DEF TypeOK, LookupHit, Goto
<1>5. Control'
  <2>1. Moves(t, "read")
    BY <1>2, <1>3, HttpCacheAssumption
       DEF Moves, LookupHit, Goto, Unlock, SearchPc
  <2>2. "read" \in Pc /\ "read" \notin NoEntryPc
    BY DEF Pc, ReaderPc, NoEntryPc
  <2> QED
    BY <1>a, <1>1, <1>2, <2>1, <2>2, MoveControl
<1>6. References'
  <2>1. t \notin Holders(e) /\ Holders(e)' = Holders(e) \cup {t}
    BY <1>2, <1>4 DEF Holders, At
  <2>2. \A f \in live \ {e} : Holders(f)' = Holders(f)
    <3>1. \A f \in live : f # NULL
      BY <1>a, HttpCacheAssumption DEF TypeOK, CacheTypeOK
    <3> QED
      BY <1>2, <1>4, <3>1 DEF Holders, At
  <2>3. IsFiniteSet(Holders(e))
    BY HoldersFinite
  <2>4. Cardinality(Holders(e) \cup {t}) = Cardinality(Holders(e)) + 1
    BY <2>1, <2>3, FS_AddElement
  <2>5. RefcountExact'
    BY <1>a, <1>2, <1>3, <2>1, <2>2, <2>4
       DEF References, RefcountExact, TypeOK, CacheTypeOK
  <2>6. NoDanglingEntry'
    BY <1>a, <1>3, <1>4 DEF References, NoDanglingEntry
  <2> QED
    BY <2>5, <2>6 DEF References
<1>7. Fillers'
  <2>1. \A w \in Thread : Filling(w)' => Filling(w) /\ entry'[w] = entry[w]
    BY <1>4 DEF Filling, UnfinishedPc, FillPc
  <2> QED
    BY <1>a, <1>3, <2>1 DEF Fillers, FillsIncomplete, OneFiller
<1>8. Chains'
  BY <1>a, <1>3 DEF Chains, ChainsLive, ChainsDistinct, LiveInChain
<1>9. Unique'
  <2>1. \A w \in Thread : pc'[w] \in MissPc => pc[w] \in MissPc /\ req'[w] = req[w]
    BY <1>3, <1>4 DEF MissPc
  <2> QED
    BY <1>a, <1>3, <2>1, UniqueKept
<1> QED
  BY <1>5, <1>6, <1>7, <1>8, <1>9

\* An empty search of the chain finds no usable entry of the url at all.
LEMMA LookupMissKeeps ==
  ASSUME IInv, NEW t \in Thread, LookupMiss(t)
  PROVE  Control' /\ References' /\ Fillers' /\ Chains' /\ Unique'
<1>a. TypeOK /\ Control /\ References /\ Fillers /\ Chains /\ Unique
  BY DEF IInv
<1>1. /\ pc[t] = "lookup" /\ entry[t] = NULL /\ searchCreateMutex = t
  BY <1>a
     DEF LookupMiss, Control, EntryAtPc, MutexAtPc, At, NoEntryPc, SearchPc
<1>2. /\ UNCHANGED <<live, url, state, refcount, buckets, cache_freed>>
      /\ UNCHANGED <<entry, main_pc, req, searchCreateMutex>>
  BY DEF LookupMiss, cache_lookup_miss, cacheVars, entryVars, collectorVars,
         procVars, connVars
<1>3. /\ pc'[t] = "connect" /\ \A w \in Thread \ {t} : pc'[w] = pc[w]
      /\ entry' = [entry EXCEPT ![t] = NULL]
  BY <1>a, <1>1, <1>2 DEF TypeOK, LookupMiss, Goto
<1>4. Control'
  <2>1. Moves(t, "connect")
    BY <1>1, <1>2 DEF Moves, LookupMiss, Goto, SearchPc
  <2>2. "connect" \in Pc /\ "connect" \notin WithEntryPc
    BY DEF Pc, SearchPc, WithEntryPc, ReaderPc, FinishPc
  <2> QED
    BY <1>a, <1>3, <2>1, <2>2, MoveControl
<1>5. References'
  <2>1. \A e : Holders(e)' = Holders(e)
    BY <1>1, <1>2, <1>3 DEF Holders, At
  <2> QED
    BY <1>a, <1>2, <2>1 DEF References, NoDanglingEntry, RefcountExact
<1>6. Fillers'
  <2>1. \A w \in Thread : Filling(w)' => Filling(w)
    BY <1>2, <1>3 DEF Filling, UnfinishedPc, FillPc
  <2> QED
    BY <1>a, <1>2, <2>1 DEF Fillers, FillsIncomplete, OneFiller
<1>7. Chains'
  BY <1>a, <1>2 DEF Chains, ChainsLive, ChainsDistinct, LiveInChain
<1>8. Unique'
  <2>1. \A e \in live : url[e] = req[t] => state[e] = "CANCELLED"
    <3> SUFFICES ASSUME NEW e \in live, url[e] = req[t],
                        state[e] # "CANCELLED"
                 PROVE  FALSE
      OBVIOUS
    <3> DEFINE b == BucketIdx(req[t])
    <3>1. b \in Bucket
      BY <1>a, BucketOfUrl DEF TypeOK
    <3>2. e \in ToSet(buckets[b])
      BY <1>a, <3>1 DEF Chains, LiveInChain
    <3>3. PICK i \in DOMAIN buckets[b] : buckets[b][i] = e
      BY <3>2 DEF ToSet
    <3>4. i \in Hits(req[t])
      BY <3>3 DEF Hits
    <3> QED
      BY <3>4 DEF LookupMiss, cache_lookup_miss
  <2>2. MissStays'
    BY <1>a, <1>2, <1>3, <2>1 DEF Unique, MissStays
  <2> QED
    BY <1>a, <1>2, <2>2 DEF Unique, OneUsableEntryPerUrl
<1> QED
  BY <1>4, <1>5, <1>6, <1>7, <1>8
\* The new entry is referenced by its creator alone, is the only usable one of
\* its url, and is at the head of one chain.
LEMMA InsertKeeps ==
  ASSUME IInv, NEW t \in Thread, Insert(t)
  PROVE  Control' /\ References' /\ Fillers' /\ Chains' /\ Unique'
<1>a. TypeOK /\ Control /\ References /\ Fillers /\ Chains /\ Unique
  BY DEF IInv
<1> DEFINE u == req[t]
           b == BucketIdx(u)
<1>1. PICK e \in Entry : /\ cache_insert(e, u)
                         /\ entry' = [entry EXCEPT ![t] = e]
  BY DEF Insert
<1>2. /\ pc[t] = "insert" /\ entry[t] = NULL /\ searchCreateMutex = t
      /\ e \notin live /\ e # NULL /\ u \in Url /\ b \in Bucket
  BY <1>a, <1>1, HttpCacheAssumption, BucketOfUrl
     DEF Insert, cache_insert, Control, EntryAtPc, MutexAtPc, At, NoEntryPc,
         SearchPc, TypeOK
<1> HIDE DEF u, b
<1>3. /\ live' = live \cup {e}
      /\ url' = [url EXCEPT ![e] = u]
      /\ state' = [state EXCEPT ![e] = "INCOMPLETE"]
      /\ refcount' = [refcount EXCEPT ![e] = 1]
      /\ buckets' = [buckets EXCEPT ![b] = Cons(e, @)]
      /\ UNCHANGED <<req, main_pc, cache_freed, searchCreateMutex>>
  BY <1>1 DEF Insert, cache_insert, collectorVars, connVars, b
<1>4. /\ pc'[t] = "insert_lru" /\ entry'[t] = e
      /\ \A w \in Thread \ {t} : pc'[w] = pc[w] /\ entry'[w] = entry[w]
  BY <1>a, <1>1 DEF TypeOK, Insert, Goto
<1>5. /\ url'[e] = u /\ state'[e] = "INCOMPLETE" /\ refcount'[e] = 1
      /\ \A f \in Entry \ {e} : /\ url'[f] = url[f] /\ state'[f] = state[f]
                                /\ refcount'[f] = refcount[f]
      /\ live \subseteq Entry \ {e}
  BY <1>a, <1>2, <1>3 DEF TypeOK, CacheTypeOK
<1>6. \A w \in Thread : entry[w] # e
  BY <1>a, <1>2 DEF References, NoDanglingEntry
<1>7. Control'
  <2>1. Moves(t, "insert_lru")
    BY <1>2, <1>3 DEF Moves, Insert, Goto, SearchPc
  <2>2. "insert_lru" \in Pc /\ "insert_lru" \notin NoEntryPc
    BY DEF Pc, SearchPc, NoEntryPc
  <2> QED
    BY <1>a, <1>1, <1>2, <2>1, <2>2, MoveControl
<1>8. References'
  <2>1. Holders(e)' = {t}
    BY <1>4, <1>6 DEF Holders, At
  <2>2. Cardinality({t}) = 1
    BY FS_Singleton
  <2>3. \A f \in live : Holders(f)' = Holders(f)
    <3>1. \A f \in live : f # NULL
      BY <1>a, HttpCacheAssumption DEF TypeOK, CacheTypeOK
    <3> QED
      BY <1>2, <1>4, <3>1 DEF Holders, At
  <2>4. RefcountExact'
    BY <1>a, <1>3, <1>5, <2>1, <2>2, <2>3 DEF References, RefcountExact
  <2>5. NoDanglingEntry'
    BY <1>a, <1>3, <1>4 DEF References, NoDanglingEntry
  <2> QED
    BY <2>4, <2>5 DEF References
<1>9. Fillers'
  <2>1. \A w \in Thread \ {t} :
          Filling(w)' => Filling(w) /\ entry'[w] = entry[w] /\ entry[w] \in live
    BY <1>a, <1>4 DEF Filling, References, NoDanglingEntry
  <2>2. FillsIncomplete'
    BY <1>a, <1>4, <1>5, <2>1 DEF Fillers, FillsIncomplete
  <2>3. OneFiller'
    BY <1>a, <1>2, <1>4, <2>1 DEF Fillers, OneFiller
  <2> QED
    BY <2>2, <2>3 DEF Fillers
<1>10. Chains'
  <2>1. buckets[b] \in Seq(Entry) /\ IsInjective(buckets[b])
    BY <1>a, <1>2 DEF TypeOK, CacheTypeOK, Chains, ChainsDistinct
  <2>2. e \notin ToSet(buckets[b])
    BY <1>a, <1>2 DEF Chains, ChainsLive
  <2>3. /\ buckets'[b] = Cons(e, buckets[b])
        /\ \A c \in Bucket \ {b} : buckets'[c] = buckets[c]
    BY <1>a, <1>2, <1>3 DEF TypeOK, CacheTypeOK
  <2>4. /\ ToSet(buckets'[b]) = ToSet(buckets[b]) \cup {e}
        /\ IsInjective(buckets'[b])
    BY <2>1, <2>2, <2>3, ConsChain
  <2>5. ChainsLive'
    BY <1>a, <1>3, <2>3, <2>4 DEF Chains, ChainsLive
  <2>6. ChainsDistinct'
    BY <1>a, <2>3, <2>4 DEF Chains, ChainsDistinct
  <2>7. LiveInChain'
    <3> SUFFICES ASSUME NEW c \in Bucket, NEW f \in live'
                 PROVE  f \in ToSet(buckets'[c]) <=> c = BucketIdx(url'[f])
      BY DEF LiveInChain, BucketIdx
    <3>1. CASE f = e
      <4>1. BucketIdx(url'[f]) = b
        BY <3>1, <1>5 DEF b
      <4>2. c # b => f \notin ToSet(buckets'[c])
        BY <1>a, <1>2, <2>3, <3>1 DEF Chains, ChainsLive
      <4> QED
        BY <2>4, <3>1, <4>1, <4>2
    <3>2. CASE f # e
      <4>1. f \in live /\ url'[f] = url[f]
        BY <1>3, <1>5, <3>2
      <4>2. f \in ToSet(buckets[c]) <=> c = BucketIdx(url[f])
        BY <1>a, <4>1 DEF Chains, LiveInChain
      <4>3. f \in ToSet(buckets'[c]) <=> f \in ToSet(buckets[c])
        BY <2>3, <2>4, <3>2
      <4> QED
        BY <4>1, <4>2, <4>3
    <3> QED
      BY <3>1, <3>2
  <2> QED
    BY <2>5, <2>6, <2>7 DEF Chains
<1>11. Unique'
  <2>1. \A w \in Thread : pc'[w] \notin MissPc
    BY <1>a, <1>2, <1>4 DEF Control, MutexAtPc, MissPc, SearchPc
  <2>2. \A f \in live : url[f] = u => state[f] = "CANCELLED"
    BY <1>a, <1>2 DEF Unique, MissStays, MissPc, u
  <2>3. OneUsableEntryPerUrl'
    BY <1>a, <1>3, <1>5, <2>2 DEF Unique, OneUsableEntryPerUrl
  <2> QED
    BY <2>1, <2>3 DEF Unique, MissStays
<1> QED
  BY <1>7, <1>8, <1>9, <1>10, <1>11

\* Giving up a reference: the thread forgets the entry, or goes on to cancel it.
LEMMA ReleaseReferences ==
  ASSUME TypeOK, References, NEW t \in Thread, entry[t] # NULL, ~At(t, "cancel"),
         cache_entry_release(entry[t]),
         \/ entry'[t] = NULL
         \/ entry'[t] = entry[t] /\ pc'[t] = "cancel",
         \A w \in Thread \ {t} : pc'[w] = pc[w] /\ entry'[w] = entry[w]
  PROVE  References'
<1>0. PICK e \in Entry : e = entry[t]
  BY HeldIsCounted
<1>1. e \in live /\ refcount[e] - 1 = Cardinality(Holders(e) \ {t})
  BY <1>0, HeldIsCounted
<1>2. live' = live /\ refcount' = [refcount EXCEPT ![e] = @ - 1]
  BY <1>0 DEF cache_entry_release
<1>3. \A f \in live : f # NULL /\ f \in Entry
  BY HttpCacheAssumption DEF TypeOK, CacheTypeOK
<1>4. Holders(e)' = Holders(e) \ {t}
  BY <1>0, <1>1, <1>3 DEF Holders, At
<1>5. \A f \in live \ {e} : Holders(f)' = Holders(f)
  BY <1>0, <1>3 DEF Holders, At
<1>6. RefcountExact'
  BY <1>1, <1>2, <1>3, <1>4, <1>5
     DEF References, RefcountExact, TypeOK, CacheTypeOK
<1>7. NoDanglingEntry'
  BY <1>0, <1>1, <1>2 DEF References, NoDanglingEntry
<1> QED
  BY <1>6, <1>7 DEF References

\* A reader or a writer releases its entry; a writer may go on to cancel it.
LEMMA ReleaseKeeps ==
  ASSUME IInv, NEW t \in Thread,
         ReaderRelease(t) \/ Release(t) \/ ReleaseThenCancel(t)
  PROVE  Control' /\ References' /\ Fillers' /\ Chains' /\ Unique'
<1>a. TypeOK /\ Control /\ References /\ Fillers /\ Chains /\ Unique
  BY DEF IInv
<1>1. /\ pc[t] \in {"served", "failed", "release", "release_cancel"}
      /\ cache_entry_release(entry[t])
  BY DEF ReaderRelease, Release, ReleaseThenCancel, At
<1>2. entry[t] # NULL /\ searchCreateMutex # t
  BY <1>a, <1>1
     DEF Control, EntryAtPc, MutexAtPc, WithEntryPc, ReaderPc, FinishPc, SearchPc
<1>3. UNCHANGED <<live, url, state, buckets, cache_freed>>
  BY <1>1 DEF cache_entry_release, collectorVars
<1>4. UNCHANGED <<req, main_pc, searchCreateMutex>>
  BY DEF ReaderRelease, Release, ReleaseThenCancel, Return, procVars, connVars
<1>5. PICK p \in {"idle", "cancel"}, x \in {NULL, entry[t]} :
        /\ p = "idle" => x = NULL
        /\ p = "cancel" => x = entry[t] /\ pc[t] = "release_cancel"
        /\ pc' = [pc EXCEPT ![t] = p]
        /\ entry' = [entry EXCEPT ![t] = x]
  <2>1. CASE ReaderRelease(t) \/ Release(t)
    BY <2>1 DEF ReaderRelease, Release, Return, Goto
  <2>2. CASE ReleaseThenCancel(t)
    BY <2>2, <1>a DEF ReleaseThenCancel, Goto, procVars, TypeOK, At
  <2> QED
    BY <2>1, <2>2
<1>6. /\ pc'[t] = p /\ entry'[t] = x
      /\ \A w \in Thread \ {t} : pc'[w] = pc[w] /\ entry'[w] = entry[w]
  BY <1>a, <1>5 DEF TypeOK
<1>7. Control'
  <2>1. Moves(t, p)
    BY <1>1, <1>2, <1>3, <1>4, <1>5 DEF Moves, SearchPc
  <2>2. p \in Pc /\ "idle" \notin WithEntryPc /\ "cancel" \notin NoEntryPc
    BY <1>5 DEF Pc, FinishPc, ReaderPc, WithEntryPc, NoEntryPc
  <2> QED
    BY <1>a, <1>2, <1>5, <2>1, <2>2, MoveControl
<1>8. References'
  BY <1>a, <1>1, <1>2, <1>5, <1>6, ReleaseReferences DEF At
<1>9. Fillers'
  <2>1. \A w \in Thread : Filling(w)' => Filling(w) /\ entry'[w] = entry[w]
    BY <1>5, <1>6 DEF Filling, UnfinishedPc, FillPc
  <2> QED
    BY <1>a, <1>3, <2>1 DEF Fillers, FillsIncomplete, OneFiller
<1>10. Chains'
  BY <1>a, <1>3 DEF Chains, ChainsLive, ChainsDistinct, LiveInChain
<1>11. Unique'
  <2>1. \A w \in Thread : pc'[w] \in MissPc => pc[w] \in MissPc /\ req'[w] = req[w]
    BY <1>4, <1>5, <1>6 DEF MissPc
  <2> QED
    BY <1>a, <1>3, <2>1, UniqueKept
<1> QED
  BY <1>7, <1>8, <1>9, <1>10, <1>11

\* A writer finishes its entry, completing or cancelling it.
LEMMA EndKeeps ==
  ASSUME IInv, NEW t \in Thread,
         Complete(t) \/ CancelThenRelease(t) \/ Cancel(t)
  PROVE  Control' /\ References' /\ Fillers' /\ Chains' /\ Unique'
<1>a. TypeOK /\ Control /\ References /\ Fillers /\ Chains /\ Unique
  BY DEF IInv
<1> DEFINE e == entry[t]
<1>1. /\ pc[t] \in {"complete", "cancel_release", "cancel"}
      /\ cache_entry_complete(e) \/ cache_entry_cancel(e)
  BY DEF Complete, CancelThenRelease, Cancel, At
<1>2. e # NULL /\ e \in Entry /\ Filling(t) /\ searchCreateMutex # t
  BY <1>a, <1>1
     DEF Control, EntryAtPc, MutexAtPc, WithEntryPc, FinishPc, SearchPc, Filling,
         UnfinishedPc, TypeOK, EntryOrNull
<1>3. state[e] = "INCOMPLETE"
  BY <1>a, <1>2 DEF Fillers, FillsIncomplete
<1>4. PICK s \in {"COMPLETE", "CANCELLED"} :
        /\ state' = [state EXCEPT ![e] = s]
        /\ UNCHANGED <<live, url, refcount, buckets, cache_freed>>
  BY <1>1 DEF cache_entry_complete, cache_entry_cancel, collectorVars
<1>5. \A f \in Entry \ {e} : state'[f] = state[f]
  BY <1>a, <1>4 DEF TypeOK, CacheTypeOK
<1>6. UNCHANGED <<req, main_pc, searchCreateMutex>>
  BY DEF Complete, CancelThenRelease, Cancel, Return, procVars, connVars
<1>7. PICK p \in {"idle", "release"}, x \in {NULL, e} :
        /\ p = "idle" => x = NULL /\ pc[t] = "cancel"
        /\ p = "release" => x = e /\ pc[t] # "cancel"
        /\ pc' = [pc EXCEPT ![t] = p]
        /\ entry' = [entry EXCEPT ![t] = x]
  <2>1. CASE Complete(t)
    BY <2>1, <1>a DEF Complete, Goto, TypeOK, At
  <2>2. CASE CancelThenRelease(t)
    BY <2>2, <1>a DEF CancelThenRelease, Goto, procVars, TypeOK, At
  <2>3. CASE Cancel(t)
    BY <2>3 DEF Cancel, Return, Goto, At
  <2> QED
    BY <2>1, <2>2, <2>3
<1>8. /\ pc'[t] = p /\ entry'[t] = x
      /\ \A w \in Thread \ {t} : pc'[w] = pc[w] /\ entry'[w] = entry[w]
  BY <1>a, <1>7 DEF TypeOK
<1> HIDE DEF e
<1>9. Control'
  <2>1. Moves(t, p)
    BY <1>1, <1>2, <1>4, <1>6, <1>7 DEF Moves, SearchPc
  <2>2. p \in Pc /\ "idle" \notin WithEntryPc /\ "release" \notin NoEntryPc
    BY <1>7 DEF Pc, FinishPc, ReaderPc, WithEntryPc, NoEntryPc
  <2> QED
    BY <1>a, <1>2, <1>7, <2>1, <2>2, MoveControl
<1>10. References'
  <2>1. \A f \in live : f # NULL
    BY <1>a, HttpCacheAssumption DEF TypeOK, CacheTypeOK
  <2>2. \A f \in live : Holders(f)' = Holders(f)
    BY <1>7, <1>8, <2>1 DEF Holders, At, e
  <2>3. RefcountExact'
    BY <1>a, <1>4, <2>2 DEF References, RefcountExact
  <2>4. NoDanglingEntry'
    BY <1>a, <1>4, <1>7, <1>8 DEF References, NoDanglingEntry, e
  <2> QED
    BY <2>3, <2>4 DEF References
<1>11. Fillers'
  <2>1. ~Filling(t)'
    BY <1>7, <1>8 DEF Filling, UnfinishedPc, FillPc
  <2>2. \A w \in Thread \ {t} :
          Filling(w)' => /\ Filling(w) /\ entry'[w] = entry[w]
                         /\ entry[w] # e /\ entry[w] \in Entry
    BY <1>a, <1>2, <1>8
       DEF Filling, Fillers, OneFiller, TypeOK, EntryOrNull, e
  <2>3. FillsIncomplete'
    BY <1>a, <1>5, <2>1, <2>2 DEF Fillers, FillsIncomplete
  <2>4. OneFiller'
    BY <1>a, <2>1, <2>2 DEF Fillers, OneFiller
  <2> QED
    BY <2>3, <2>4 DEF Fillers
<1>12. Chains'
  BY <1>a, <1>4 DEF Chains, ChainsLive, ChainsDistinct, LiveInChain
<1>13. Unique'
  <2>1. \A w \in Thread : pc'[w] \in MissPc => pc[w] \in MissPc /\ req'[w] = req[w]
    BY <1>6, <1>7, <1>8 DEF MissPc
  <2>2. \A f \in live : state[f] = "CANCELLED" => state'[f] = "CANCELLED"
    BY <1>a, <1>3, <1>5 DEF TypeOK, CacheTypeOK
  <2> QED
    BY <1>a, <1>4, <2>1, <2>2, UniqueKept
<1> QED
  BY <1>9, <1>10, <1>11, <1>12, <1>13
\* Every step of a worker keeps the invariant.
LEMMA WorkerKeeps ==
  ASSUME IInv, NEW t \in Thread, WorkerNext(t)
  PROVE  Control' /\ References' /\ Fillers' /\ Chains' /\ Unique'
<1>1. Quiet(t) \/ Loud(t)
  BY QuietOrLoud
<1>2. CASE Quiet(t)
  BY <1>2, QuietKeeps
<1>3. CASE LookupHit(t)
  BY <1>3, LookupHitKeeps
<1>4. CASE LookupMiss(t)
  BY <1>4, LookupMissKeeps
<1>5. CASE Insert(t)
  BY <1>5, InsertKeeps
<1>6. CASE ReaderRelease(t) \/ Release(t) \/ ReleaseThenCancel(t)
  BY <1>6, ReleaseKeeps
<1>7. CASE Complete(t) \/ CancelThenRelease(t) \/ Cancel(t)
  BY <1>7, EndKeeps
<1> QED
  BY <1>1, <1>2, <1>3, <1>4, <1>5, <1>6, <1>7 DEF Loud, FinishStep

-----------------------------------------------------------------------------
(* The collector and the end of the program. *)

\* What the collector frees is referenced by nobody, not even by a writer that
\* has released it and is about to cancel it.
LEMMA RemoveUnreferenced ==
  ASSUME IInv, cleanup_remove
  PROVE  \A t \in Thread : entry[t] # Visited
<1>1. TypeOK /\ References /\ Fillers
  BY DEF IInv
<1>2. Visited \in Entry /\ Visited \in live
  <2>1. collector.i \in Bucket /\ collector.pos \in DOMAIN buckets[collector.i]
    BY <1>1 DEF cleanup_remove, TypeOK, CacheTypeOK, CollectorType
  <2>2. Visited \in ToSet(buckets[collector.i])
    BY <2>1 DEF Visited, ToSet
  <2> QED
    BY <1>1, <2>1, <2>2 DEF IInv, Chains, ChainsLive, TypeOK, CacheTypeOK
<1>3. state[Visited] = "CANCELLED" /\ refcount[Visited] = 0
  BY DEF cleanup_remove, Collectable
<1>4. Holders(Visited) = {}
  <2>1. Cardinality(Holders(Visited)) = 0
    BY <1>1, <1>2, <1>3 DEF References, RefcountExact
  <2>2. IsFiniteSet(Holders(Visited))
    BY HoldersFinite
  <2> QED
    BY <2>1, <2>2, FS_EmptySet
<1> SUFFICES ASSUME NEW t \in Thread, entry[t] = Visited
             PROVE  FALSE
  OBVIOUS
<1>5. At(t, "cancel")
  BY <1>4 DEF Holders
<1>6. Filling(t)
  BY <1>2, <1>5, HttpCacheAssumption DEF Filling, At, UnfinishedPc
<1> QED
  BY <1>1, <1>3, <1>6 DEF Fillers, FillsIncomplete

LEMMA CollectorKeeps ==
  ASSUME IInv, CollectorNext, UNCHANGED <<pc, procVars>>
  PROVE  Control' /\ References' /\ Fillers' /\ Chains' /\ Unique'
<1>a. TypeOK /\ Control /\ References /\ Fillers /\ Chains /\ Unique
  BY DEF IInv
<1>b. UNCHANGED <<pc, entry, req, searchCreateMutex, main_pc, cache_freed>>
  BY DEF procVars, connVars, CollectorNext, collector_wait, collector_timeout,
         collector_check, cleanup_lock_bucket, cleanup_keep, cleanup_remove,
         cleanup_unlock_bucket, collectorVars
<1>c. Control'
  <2>1. ~CollectorAt("exited")
    BY DEF CollectorNext, collector_wait, collector_timeout, collector_check,
           cleanup_lock_bucket, cleanup_keep, cleanup_remove,
           cleanup_unlock_bucket, CollectorAt
  <2>2. ~cache_freed
    BY <1>a, <2>1 DEF Control, ExitedAtEnd
  <2> QED
    BY <1>a, <1>b, <2>2
       DEF Control, EntryAtPc, MutexAtPc, ExitedAtEnd, At
<1>d. \A e : Holders(e)' = Holders(e)
  BY <1>b DEF Holders, At
<1>e. \A t \in Thread : Filling(t)' <=> Filling(t)
  BY <1>b DEF Filling
<1>1. CASE UNCHANGED <<live, url, state, refcount, buckets>>
  <2>1. References'
    BY <1>a, <1>b, <1>d, <1>1 DEF References, NoDanglingEntry, RefcountExact
  <2>2. Fillers'
    BY <1>a, <1>b, <1>e, <1>1 DEF Fillers, FillsIncomplete, OneFiller
  <2>3. Chains'
    BY <1>a, <1>1 DEF Chains, ChainsLive, ChainsDistinct, LiveInChain
  <2>4. Unique'
    BY <1>a, <1>b, <1>1, UniqueKept
  <2> QED
    BY <1>c, <2>1, <2>2, <2>3, <2>4
<1>2. CASE cleanup_remove
  <2>1. PICK v \in Entry, b \in Bucket, k \in Nat :
          /\ v = Visited /\ b = collector.i /\ k = collector.pos
          /\ k \in DOMAIN buckets[b]
          /\ v = buckets[b][k]
    BY <1>2, <1>a DEF cleanup_remove, Visited, TypeOK, CacheTypeOK, CollectorType
  <2>2. /\ live' = live \ {v}
        /\ state' = [state EXCEPT ![v] = "INCOMPLETE"]
        /\ buckets' = [buckets EXCEPT ![b] = RemoveAt(@, k)]
        /\ UNCHANGED <<url, refcount>>
    BY <1>2, <2>1 DEF cleanup_remove
  <2>3. \A t \in Thread : entry[t] # v
    BY <1>2, <2>1, RemoveUnreferenced
  <2>4. \A f \in Entry \ {v} : state'[f] = state[f]
    BY <1>a, <2>2 DEF TypeOK, CacheTypeOK
  <2>5. References'
    BY <1>a, <1>b, <1>d, <2>2, <2>3
       DEF References, NoDanglingEntry, RefcountExact
  <2>6. Fillers'
    <3>1. \A t \in Thread : Filling(t) => entry[t] \in Entry \ {v}
      BY <1>a, <2>3 DEF Filling, TypeOK, EntryOrNull
    <3> QED
      BY <1>a, <1>b, <1>e, <2>4, <3>1 DEF Fillers, FillsIncomplete, OneFiller
  <2>7. Chains'
    <3>1. buckets[b] \in Seq(Entry) /\ IsInjective(buckets[b])
      BY <1>a DEF TypeOK, CacheTypeOK, Chains, ChainsDistinct
    <3>2. /\ buckets'[b] = RemoveAt(buckets[b], k)
          /\ \A c \in Bucket \ {b} : buckets'[c] = buckets[c]
      BY <1>a, <2>2 DEF TypeOK, CacheTypeOK
    <3>3. /\ ToSet(buckets'[b]) = ToSet(buckets[b]) \ {v}
          /\ IsInjective(buckets'[b])
      BY <2>1, <3>1, <3>2, RemoveAtChain
    <3>4. v \in ToSet(buckets[b]) /\ v \in live /\ b = BucketIdx(url[v])
      <4>1. v \in ToSet(buckets[b])
        BY <2>1 DEF ToSet
      <4> QED
        BY <1>a, <4>1 DEF Chains, ChainsLive, LiveInChain
    <3>5. \A c \in Bucket \ {b} : v \notin ToSet(buckets[c])
      BY <1>a, <3>4 DEF Chains, LiveInChain
    <3>6. ChainsLive'
      BY <1>a, <2>2, <3>2, <3>3, <3>5 DEF Chains, ChainsLive
    <3>7. ChainsDistinct'
      BY <1>a, <3>2, <3>3 DEF Chains, ChainsDistinct
    <3>8. LiveInChain'
      <4> SUFFICES ASSUME NEW c \in Bucket, NEW f \in live'
                   PROVE  f \in ToSet(buckets'[c]) <=> c = BucketIdx(url'[f])
        BY DEF LiveInChain, BucketIdx
      <4>1. f \in live /\ f # v /\ url'[f] = url[f]
        BY <2>2
      <4>2. f \in ToSet(buckets[c]) <=> c = BucketIdx(url[f])
        BY <1>a, <4>1 DEF Chains, LiveInChain
      <4>3. f \in ToSet(buckets'[c]) <=> f \in ToSet(buckets[c])
        BY <3>2, <3>3, <4>1
      <4> QED
        BY <4>1, <4>2, <4>3
    <3> QED
      BY <3>6, <3>7, <3>8 DEF Chains
  <2>8. Unique'
    <3>1. \A f \in live' : state'[f] = state[f]
      BY <1>a, <2>2, <2>4 DEF TypeOK, CacheTypeOK
    <3> QED
      BY <1>a, <1>b, <2>2, <3>1, UniqueKept
  <2> QED
    BY <1>c, <2>5, <2>6, <2>7, <2>8
<1> QED
  BY <1>1, <1>2
     DEF CollectorNext, collector_wait, collector_timeout, collector_check,
         cleanup_lock_bucket, cleanup_keep, cleanup_unlock_bucket, entryVars

LEMMA MainKeeps ==
  ASSUME IInv, MainNext
  PROVE  Control' /\ References' /\ Fillers' /\ Chains' /\ Unique'
<1>a. TypeOK /\ Control /\ References /\ Fillers /\ Chains /\ Unique
  BY DEF IInv
<1>b. UNCHANGED <<pc, entry, req, searchCreateMutex>>
  BY DEF MainNext, ThreadpoolShutdown, JoinWorkers, StopCollector, FreeCache,
         connVars
<1>c. EntryAtPc' /\ MutexAtPc'
  BY <1>a, <1>b DEF Control, EntryAtPc, MutexAtPc
<1>d. \A e : Holders(e)' = Holders(e)
  BY <1>b DEF Holders, At
<1>e. \A t \in Thread : Filling(t)' <=> Filling(t)
  BY <1>b DEF Filling
<1>1. CASE ThreadpoolShutdown \/ JoinWorkers \/ StopCollector
  <2>1. UNCHANGED <<live, url, state, refcount, buckets, cache_freed>>
    BY <1>1
       DEF ThreadpoolShutdown, JoinWorkers, StopCollector, cacheVars, entryVars,
           collectorVars, http_cache_shutdown_stop
  <2>2. ExitedAtEnd'
    BY <1>a, <1>b, <1>1, <2>1
       DEF Control, ExitedAtEnd, ThreadpoolShutdown, JoinWorkers, StopCollector, At
  <2>3. References'
    BY <1>a, <1>b, <1>d, <2>1 DEF References, NoDanglingEntry, RefcountExact
  <2>4. Fillers'
    BY <1>a, <1>b, <1>e, <2>1 DEF Fillers, FillsIncomplete, OneFiller
  <2>5. Chains'
    BY <1>a, <2>1 DEF Chains, ChainsLive, ChainsDistinct, LiveInChain
  <2>6. Unique'
    BY <1>a, <1>b, <2>1, UniqueKept
  <2> QED
    BY <1>c, <2>2, <2>3, <2>4, <2>5, <2>6 DEF Control
<1>2. CASE FreeCache
  <2>1. \A t \in Thread : pc[t] = "exited" /\ entry[t] = NULL
    BY <1>a, <1>2
       DEF FreeCache, Control, ExitedAtEnd, EntryAtPc, NoEntryPc, At
  <2>2. /\ live' = {} /\ main_pc' = "done" /\ CollectorAt("exited")'
        /\ buckets' = [b \in Bucket |-> <<>>]
    BY <1>2 DEF FreeCache, http_cache_shutdown_free, CollectorAt
  <2>3. ExitedAtEnd'
    BY <1>b, <2>1, <2>2 DEF ExitedAtEnd, At
  <2>4. References'
    BY <1>b, <2>1, <2>2 DEF References, NoDanglingEntry, RefcountExact
  <2>5. Fillers'
    <3>1. \A t \in Thread : ~Filling(t)'
      BY <1>b, <2>1 DEF Filling
    <3> QED
      BY <3>1 DEF Fillers, FillsIncomplete, OneFiller
  <2>6. Chains'
    BY <2>2
       DEF Chains, ChainsLive, ChainsDistinct, LiveInChain, ToSet, IsInjective
  <2>7. Unique'
    BY <2>2 DEF Unique, MissStays, OneUsableEntryPerUrl
  <2> QED
    BY <1>c, <2>3, <2>4, <2>5, <2>6, <2>7 DEF Control
<1> QED
  BY <1>1, <1>2 DEF MainNext

\* The invariant is inductive.
LEMMA StepIInv == IInv /\ [Next]_vars => IInv'
<1> SUFFICES ASSUME IInv, [Next]_vars
             PROVE  IInv'
  OBVIOUS
<1>1. TypeOK'
  BY StepTypeOK
<1>2. CASE \E t \in Thread : WorkerNext(t)
  BY <1>1, <1>2, WorkerKeeps DEF IInv
<1>3. CASE CollectorNext /\ UNCHANGED <<pc, procVars>>
  BY <1>1, <1>3, CollectorKeeps DEF IInv
<1>4. CASE MainNext
  BY <1>1, <1>4, MainKeeps DEF IInv
<1>5. CASE UNCHANGED vars
  <2>1. /\ UNCHANGED <<live, url, state, refcount, buckets, cache_freed, pc>>
        /\ UNCHANGED <<entry, req, searchCreateMutex, main_pc, collector>>
    BY <1>5 DEF vars, cacheVars, entryVars, collectorVars, procVars, connVars
  <2>2. Control'
    BY <2>1
       DEF IInv, Control, EntryAtPc, MutexAtPc, ExitedAtEnd, At, CollectorAt
  <2>3. References'
    <3>1. \A e : Holders(e)' = Holders(e)
      BY <2>1 DEF Holders, At
    <3> QED
      BY <2>1, <3>1 DEF IInv, References, NoDanglingEntry, RefcountExact
  <2>4. Fillers' /\ Chains' /\ Unique'
    BY <2>1
       DEF IInv, Fillers, FillsIncomplete, OneFiller, Filling, Chains,
           ChainsLive, ChainsDistinct, LiveInChain, Unique, MissStays,
           OneUsableEntryPerUrl
  <2> QED
    BY <1>1, <2>2, <2>3, <2>4 DEF IInv
<1> QED
  BY <1>2, <1>3, <1>4, <1>5 DEF Next, Terminated

-----------------------------------------------------------------------------
(* Theorems. *)

\* IInv is an invariant of the proxy.
THEOREM Invariance == Spec => []IInv
BY InitIInv, StepIInv, PTL DEF Spec

\* Every variable of the cache, of the workers and of the main thread keeps its
\* type; in particular no refcount ever drops below zero.
THEOREM TypeCorrect == Spec => []TypeOK
<1>1. IInv => TypeOK
  BY DEF IInv
<1> QED
  BY <1>1, Invariance, PTL

\* The refcount kept by cache_lookup, cache_insert and cache_entry_release is
\* the number of requests that own a reference.
THEOREM RefcountsExact == Spec => []RefcountExact
<1>1. IInv => RefcountExact
  BY DEF IInv, References
<1> QED
  BY <1>1, Invariance, PTL

\* The collector never frees an entry that a worker still points to.
THEOREM EntriesNotDangling == Spec => []NoDanglingEntry
<1>1. IInv => NoDanglingEntry
  BY DEF IInv, References
<1> QED
  BY <1>1, Invariance, PTL

\* Under searchCreateMutex a url never has two usable entries.
THEOREM UsableEntryUnique == Spec => []OneUsableEntryPerUrl
<1>1. IInv => OneUsableEntryPerUrl
  BY DEF IInv, Unique
<1> QED
  BY <1>1, Invariance, PTL

\* cache_entry_append_chunk is only called on an entry that is not cancelled
\* and not complete.
THEOREM AppendsFindIncomplete == Spec => []AppendNotCancelled
<1>1. IInv => AppendNotCancelled
  BY DEF IInv, Control, EntryAtPc, WithEntryPc, Fillers, FillsIncomplete,
         Filling, UnfinishedPc, FillPc, AppendNotCancelled
<1> QED
  BY <1>1, Invariance, PTL

\* http_cache_shutdown frees the cache after every thread that uses it.
THEOREM ShutdownLast == Spec => []NoUseAfterShutdown
<1>1. IInv => NoUseAfterShutdown
  BY DEF IInv, Control, ExitedAtEnd, EntryAtPc, NoEntryPc, At,
         NoUseAfterShutdown
<1> QED
  BY <1>1, Invariance, PTL

\* The only steps that change the state of an entry that stays in the cache
\* find it INCOMPLETE.
LEMMA StateSteps ==
  ASSUME IInv, [Next]_vars, NEW e \in live, e \in live',
         state[e] # "INCOMPLETE"
  PROVE  state'[e] = state[e]
<1>a. TypeOK /\ e \in Entry
  BY DEF IInv, TypeOK, CacheTypeOK
<1>1. ASSUME NEW t \in Thread, WorkerNext(t)
      PROVE  state'[e] = state[e]
  <2>1. CASE Quiet(t)
    BY <2>1 DEF Quiet
  <2>2. CASE LookupHit(t) \/ LookupMiss(t)
    BY <2>2
       DEF LookupHit, cache_lookup_hit, LookupMiss, cache_lookup_miss, cacheVars,
           entryVars
  <2>3. CASE Insert(t)
    BY <1>a, <2>3 DEF Insert, cache_insert, TypeOK, CacheTypeOK
  <2>4. CASE ReaderRelease(t) \/ Release(t) \/ ReleaseThenCancel(t)
    BY <2>4 DEF ReaderRelease, Release, ReleaseThenCancel, cache_entry_release
  <2>5. CASE Complete(t) \/ CancelThenRelease(t) \/ Cancel(t)
    <3>1. entry[t] # NULL /\ Filling(t)
      BY <2>5
         DEF Complete, CancelThenRelease, Cancel, At, IInv, Control, EntryAtPc,
             WithEntryPc, FinishPc, Filling, UnfinishedPc
    <3>2. state[entry[t]] = "INCOMPLETE"
      BY <3>1 DEF IInv, Fillers, FillsIncomplete
    <3>3. e # entry[t]
      BY <3>2
    <3>4. cache_entry_complete(entry[t]) \/ cache_entry_cancel(entry[t])
      BY <2>5 DEF Complete, CancelThenRelease, Cancel
    <3> QED
      BY <1>a, <3>3, <3>4
         DEF cache_entry_complete, cache_entry_cancel, TypeOK, CacheTypeOK
  <2> QED
    BY <1>1, <2>1, <2>2, <2>3, <2>4, <2>5, QuietOrLoud DEF Loud, FinishStep
<1>2. CASE CollectorNext
  <2>1. CASE cleanup_remove
    <3>1. e # Visited /\ state' = [state EXCEPT ![Visited] = "INCOMPLETE"]
      BY <2>1 DEF cleanup_remove
    <3> QED
      BY <1>a, <3>1 DEF TypeOK, CacheTypeOK
  <2>2. CASE ~cleanup_remove
    BY <1>2, <2>2
       DEF CollectorNext, collector_wait, collector_timeout, collector_check,
           cleanup_lock_bucket, cleanup_keep, cleanup_unlock_bucket, entryVars
  <2> QED
    BY <2>1, <2>2
<1>3. CASE MainNext
  <2>1. CASE FreeCache
    BY <2>1 DEF FreeCache, http_cache_shutdown_free
  <2>2. CASE ThreadpoolShutdown \/ JoinWorkers \/ StopCollector
    BY <2>2
       DEF ThreadpoolShutdown, JoinWorkers, StopCollector, cacheVars, entryVars,
           http_cache_shutdown_stop
  <2> QED
    BY <1>3, <2>1, <2>2 DEF MainNext
<1>4. CASE UNCHANGED vars
  BY <1>4 DEF vars, cacheVars, entryVars
<1> QED
  BY <1>1, <1>2, <1>3, <1>4 DEF Next, Terminated

\* COMPLETE and CANCELLED are final for as long as an entry is in the cache.
THEOREM StatesFinal == Spec => FinalStatesAreFinal
<1>1. IInv /\ [Next]_vars =>
        [\A e \in live \cap live' :
           state[e] # "INCOMPLETE" => state'[e] = state[e]]_vars
  BY StateSteps
<1> QED
  BY <1>1, Invariance, PTL DEF Spec, FinalStatesAreFinal


-----------------------------------------------------------------------------
(* No entry is abandoned. *)

\* Every entry that is still INCOMPLETE has a request that fills it and will
\* complete or cancel it, whatever failed on the way: no path out of
\* process_request forgets cache_entry_complete or cache_entry_cancel, and no
\* reader can find an entry that nobody will ever finish.
NoneAbandoned ==
  \A e \in live : state[e] = "INCOMPLETE" =>
    \E t \in Thread : Filling(t) /\ entry[t] = e

\* A step that neither creates an entry nor makes one INCOMPLETE, and lets the
\* threads that fill one of those that stay INCOMPLETE go on.
LEMMA NoneAbandonedKept ==
  ASSUME NoneAbandoned, live' \subseteq live,
         \A e \in live' : state'[e] = "INCOMPLETE" => state[e] = "INCOMPLETE",
         \A e \in live' : \A w \in Thread :
           state'[e] = "INCOMPLETE" /\ Filling(w) /\ entry[w] = e =>
             Filling(w)' /\ entry'[w] = e
  PROVE  NoneAbandoned'
BY DEF NoneAbandoned

LEMMA WorkerAbandonsNone ==
  ASSUME IInv, NoneAbandoned, NEW t \in Thread, WorkerNext(t)
  PROVE  NoneAbandoned'
<1>a. /\ TypeOK /\ EntryAtPc /\ NULL \notin Entry
      /\ pc \in [Thread -> Pc] /\ entry \in [Thread -> EntryOrNull]
      /\ state \in [Entry -> State] /\ live \subseteq Entry
  BY HttpCacheAssumption DEF IInv, Control, TypeOK, CacheTypeOK
<1>1. CASE Quiet(t)
  <2>1. PICK p \in Pc :
          /\ Moves(t, p)
          /\ entry[t] # NULL => (p \in UnfinishedPc <=> pc[t] \in UnfinishedPc)
          /\ UNCHANGED <<live, url, state, refcount, buckets, entry>>
    BY <1>1 DEF Quiet
  <2>2. pc'[t] = p /\ \A w \in Thread \ {t} : pc'[w] = pc[w]
    BY <1>a, <2>1 DEF Moves
  <2>3. \A w \in Thread : Filling(w) => Filling(w)'
    BY <2>1, <2>2 DEF Filling
  <2> QED
    BY <2>1, <2>3, NoneAbandonedKept
<1>2. CASE LookupHit(t) \/ LookupMiss(t)
  <2>1. /\ ~Filling(t) /\ UNCHANGED <<live, state>>
        /\ \A w \in Thread \ {t} : pc'[w] = pc[w] /\ entry'[w] = entry[w]
    BY <1>2, <1>a
       DEF LookupHit, LookupMiss, cache_lookup_hit, cache_lookup_miss, cacheVars,
           entryVars, procVars, Goto, At, Filling, UnfinishedPc, FillPc
  <2>2. \A w \in Thread : Filling(w) => Filling(w)' /\ entry'[w] = entry[w]
    BY <2>1 DEF Filling
  <2> QED
    BY <2>1, <2>2, NoneAbandonedKept
<1>3. CASE Insert(t)
  <2>1. PICK f \in Entry :
          /\ cache_insert(f, req[t]) /\ entry' = [entry EXCEPT ![t] = f]
    BY <1>3 DEF Insert
  <2>2. /\ pc' = [pc EXCEPT ![t] = "insert_lru"] /\ pc[t] = "insert"
        /\ f \notin live /\ live' = live \cup {f}
        /\ state' = [state EXCEPT ![f] = "INCOMPLETE"]
    BY <1>3, <2>1 DEF Insert, Goto, At, cache_insert
  <2>3. /\ Filling(t)' /\ entry'[t] = f /\ ~Filling(t)
        /\ \A w \in Thread \ {t} : pc'[w] = pc[w] /\ entry'[w] = entry[w]
    BY <1>a, <2>1, <2>2 DEF Filling, UnfinishedPc, FillPc
  <2>4. \A w \in Thread : Filling(w) => Filling(w)' /\ entry'[w] = entry[w]
    BY <2>3 DEF Filling
  <2>5. \A e \in live : state'[e] = state[e]
    BY <1>a, <2>2
  <2> QED
    BY <2>2, <2>3, <2>4, <2>5 DEF NoneAbandoned
<1>4. CASE ReaderRelease(t) \/ Release(t) \/ ReleaseThenCancel(t)
  <2>1. UNCHANGED <<live, state>>
    BY <1>4 DEF ReaderRelease, Release, ReleaseThenCancel, cache_entry_release
  <2>2. \A w \in Thread \ {t} : pc'[w] = pc[w] /\ entry'[w] = entry[w]
    BY <1>4, <1>a
       DEF ReaderRelease, Release, ReleaseThenCancel, Return, Goto, procVars
  <2>3. Filling(t) => Filling(t)' /\ entry'[t] = entry[t]
    BY <1>4, <1>a
       DEF ReaderRelease, Release, ReleaseThenCancel, Goto, procVars, At, Filling,
           UnfinishedPc, FillPc
  <2>4. \A w \in Thread : Filling(w) => Filling(w)' /\ entry'[w] = entry[w]
    BY <2>2, <2>3 DEF Filling
  <2> QED
    BY <2>1, <2>4, NoneAbandonedKept
<1>5. CASE Complete(t) \/ CancelThenRelease(t) \/ Cancel(t)
  <2>1. entry[t] \in Entry
    BY <1>5, <1>a
       DEF Complete, CancelThenRelease, Cancel, At, EntryAtPc, WithEntryPc,
           FinishPc, EntryOrNull
  <2>2. cache_entry_complete(entry[t]) \/ cache_entry_cancel(entry[t])
    BY <1>5 DEF Complete, CancelThenRelease, Cancel
  <2>3. /\ live' = live /\ state'[entry[t]] # "INCOMPLETE"
        /\ \A e \in Entry \ {entry[t]} : state'[e] = state[e]
    BY <1>a, <2>1, <2>2 DEF cache_entry_complete, cache_entry_cancel
  <2>4. \A w \in Thread \ {t} : pc'[w] = pc[w] /\ entry'[w] = entry[w]
    BY <1>5, <1>a
       DEF Complete, CancelThenRelease, Cancel, Return, Goto, procVars
  <2>5. \A e \in live' : state'[e] = "INCOMPLETE" =>
          e # entry[t] /\ state[e] = "INCOMPLETE"
    BY <1>a, <2>3
  <2>6. \A e \in live' : \A w \in Thread :
          state'[e] = "INCOMPLETE" /\ Filling(w) /\ entry[w] = e =>
            Filling(w)' /\ entry'[w] = e
    BY <2>4, <2>5 DEF Filling
  <2> QED
    BY <2>3, <2>5, <2>6, NoneAbandonedKept
<1> QED
  BY <1>1, <1>2, <1>3, <1>4, <1>5, QuietOrLoud DEF Loud, FinishStep

LEMMA StepNoneAbandoned ==
  IInv /\ NoneAbandoned /\ [Next]_vars => NoneAbandoned'
<1> SUFFICES ASSUME IInv, NoneAbandoned, [Next]_vars
             PROVE  NoneAbandoned'
  OBVIOUS
<1>a. state \in [Entry -> State] /\ live \subseteq Entry
  BY DEF IInv, TypeOK, CacheTypeOK
<1>1. CASE \E t \in Thread : WorkerNext(t)
  BY <1>1, WorkerAbandonsNone
<1>2. CASE CollectorNext /\ UNCHANGED <<pc, procVars>>
  <2>1. \A w \in Thread : (Filling(w)' <=> Filling(w)) /\ entry'[w] = entry[w]
    BY <1>2 DEF procVars, Filling
  <2>2. live' \subseteq live /\ \A e \in live' : state'[e] = state[e]
    <3>1. CASE cleanup_remove
      BY <1>a, <3>1 DEF cleanup_remove
    <3>2. CASE ~cleanup_remove
      BY <1>2, <3>2
         DEF CollectorNext, collector_wait, collector_timeout, collector_check,
             cleanup_lock_bucket, cleanup_keep, cleanup_unlock_bucket, entryVars
    <3> QED
      BY <3>1, <3>2
  <2> QED
    BY <2>1, <2>2, NoneAbandonedKept
<1>3. CASE MainNext
  <2>1. \A w \in Thread : (Filling(w)' <=> Filling(w)) /\ entry'[w] = entry[w]
    BY <1>3
       DEF MainNext, ThreadpoolShutdown, JoinWorkers, StopCollector, FreeCache,
           Filling
  <2>2. live' \subseteq live /\ \A e \in live' : state'[e] = state[e]
    BY <1>3
       DEF MainNext, ThreadpoolShutdown, JoinWorkers, StopCollector, FreeCache,
           cacheVars, entryVars, http_cache_shutdown_stop,
           http_cache_shutdown_free
  <2> QED
    BY <2>1, <2>2, NoneAbandonedKept
<1>4. CASE UNCHANGED vars
  BY <1>4 DEF vars, cacheVars, entryVars, procVars, NoneAbandoned, Filling
<1> QED
  BY <1>1, <1>2, <1>3, <1>4 DEF Next, Terminated

\* No entry stays INCOMPLETE without a request at work on it.
THEOREM EntriesAttended == Spec => []NoneAbandoned
<1>1. Init => NoneAbandoned
  BY DEF Init, http_cache_init, NoneAbandoned
<1> QED
  BY <1>1, Invariance, StepNoneAbandoned, PTL DEF Spec
=============================================================================
