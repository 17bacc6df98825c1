----------------------------- MODULE SharedList ------------------------------
(***************************************************************************)
(* The linked list of lab 2.3 (2/2.3/mutex, 2/2.3/spinlock, 2/2.3/rwlock)  *)
(* that three counters walk while three swappers exchange neighbours, all  *)
(* of them hand over hand with one lock per node.                          *)
(*                                                                         *)
(* The three programs differ in the lock only: counters of the rwlock      *)
(* version share a node, everything else is exclusive.  A step takes one   *)
(* lock or gives locks back.  The strings decide nothing but the printed   *)
(* statistics and are left out; so are the statistics.                     *)
(***************************************************************************)
EXTENDS Integers, Sequences, FiniteSets, SequencesExt, PointerWalk

CONSTANTS
  Counter,       \* count_asc, count_desc, count_eq
  Swapper,       \* swapper1, swapper2, swapper3
  STORAGE_SIZE,
  LockKinds      \* the programs that run: "exclusive", "rwlock"

ASSUME SharedListAssumption ==
  /\ STORAGE_SIZE \in Nat \ {0}
  /\ LockKinds \subseteq {"exclusive", "rwlock"}
  /\ Counter \cap Swapper = {}

Thread == Counter \cup Swapper
Node == 1 .. STORAGE_SIZE
NULL == 0

VARIABLES
  kind,     \* of the locks: mutexes and spin locks, or rwlocks
  next,     \* node->next
  holders,  \* the threads that hold the lock of a node
  pc,
  prev,     \* of a swapper
  cur,      \* of every thread
  visited   \* history: the nodes of a counter's pass so far

vars == <<kind, next, holders, pc, prev, cur, visited>>

\* init_storage puts every new node in front.
first == STORAGE_SIZE

Init ==
  /\ kind \in LockKinds
  /\ next = [n \in Node |-> n - 1]
  /\ holders = [n \in Node |-> {}]
  /\ pc = [t \in Thread |-> "start"]
  /\ prev = [t \in Thread |-> NULL]
  /\ cur = [t \in Thread |-> NULL]
  /\ visited = [t \in Counter |-> {}]

At(t, p) == pc[t] = p
Goto(t, p) == pc' = [pc EXCEPT ![t] = p]

\* Whether t can have the lock of n now: readers share it with readers.
CanLock(t, n) ==
  IF kind = "rwlock" /\ t \in Counter THEN holders[n] \subseteq Counter
  ELSE holders[n] = {}
Lock(t, n) == CanLock(t, n) /\ holders' = [holders EXCEPT ![n] = @ \cup {t}]
Unlock(t, N) ==
  holders' = [n \in Node |-> IF n \in N THEN holders[n] \ {t} ELSE holders[n]]

-----------------------------------------------------------------------------
(* count_asc, count_desc and count_eq *)

count_start(t) ==
  /\ At(t, "start")
  /\ Lock(t, first)
  /\ cur' = [cur EXCEPT ![t] = first]
  /\ visited' = [visited EXCEPT ![t] = {first}]
  /\ Goto(t, "at")
  /\ UNCHANGED <<next, prev>>

\* Fault: the current node is given back before the next one is taken.
count_lock_next_early(t) ==
  /\ At(t, "at")
  /\ next[cur[t]] # NULL
  /\ Unlock(t, {cur[t]})
  /\ Goto(t, "compare")
  /\ UNCHANGED <<next, prev, cur, visited>>

count_lock_next(t) ==
  /\ At(t, "at")
  /\ next[cur[t]] # NULL
  /\ Lock(t, next[cur[t]])
  /\ Goto(t, "compare")
  /\ UNCHANGED <<next, prev, cur, visited>>

\* The two strings are compared; then the older node is given back.
count_compare(t) ==
  LET n == next[cur[t]]
  IN /\ At(t, "compare")
     /\ Unlock(t, {cur[t]})
     /\ cur' = [cur EXCEPT ![t] = n]
     /\ visited' = [visited EXCEPT ![t] = @ \cup {n}]
     /\ Goto(t, "at")
     /\ UNCHANGED <<next, prev>>

count_end(t) ==
  /\ At(t, "at")
  /\ next[cur[t]] = NULL
  /\ Unlock(t, {cur[t]})
  /\ cur' = [cur EXCEPT ![t] = NULL]
  /\ visited' = [visited EXCEPT ![t] = {}]
  /\ Goto(t, "start")
  /\ UNCHANGED <<next, prev>>

-----------------------------------------------------------------------------
(* swapper1, swapper2 and swapper3 *)

swap_start(t) ==
  /\ At(t, "start")
  /\ Lock(t, first)
  /\ prev' = [prev EXCEPT ![t] = first]
  /\ Goto(t, "prev")
  /\ UNCHANGED <<next, cur, visited>>

swap_lock_cur(t) ==
  /\ At(t, "prev")
  /\ next[prev[t]] # NULL
  /\ Lock(t, next[prev[t]])
  /\ cur' = [cur EXCEPT ![t] = next[prev[t]]]
  /\ Goto(t, "cur")
  /\ UNCHANGED <<next, prev, visited>>

swap_lock_next(t) ==
  /\ At(t, "cur")
  /\ next[cur[t]] # NULL
  /\ Lock(t, next[cur[t]])
  /\ Goto(t, "next")
  /\ UNCHANGED <<next, prev, cur, visited>>

\* Fault: next->next is overwritten before it is read.
Exchange_overwrites(p, c, n) ==
  [next EXCEPT ![p] = n, ![n] = c, ![c] = c]

\* prev, cur, next becomes prev, next, cur.
Exchange(p, c, n) == [next EXCEPT ![p] = n, ![c] = next[n], ![n] = c]

\* Fault: prev does not move on; cur is given back instead.
swap_nodes_stays(t) ==
  LET n == next[cur[t]]
  IN /\ At(t, "next")
     /\ next' \in {next, Exchange(prev[t], cur[t], n)}
     /\ Unlock(t, {n, cur[t]})
     /\ cur' = [cur EXCEPT ![t] = NULL]
     /\ Goto(t, "prev")
     /\ UNCHANGED <<prev, visited>>

\* By chance the nodes are exchanged or not; next and prev are given back, and
\* cur, still locked, is the new prev.
swap_nodes(t) ==
  LET n == next[cur[t]]
  IN /\ At(t, "next")
     /\ next' \in {next, Exchange(prev[t], cur[t], n)}
     /\ Unlock(t, {n, prev[t]})
     /\ prev' = [prev EXCEPT ![t] = cur[t]]
     /\ cur' = [cur EXCEPT ![t] = NULL]
     /\ Goto(t, "prev")
     /\ UNCHANGED visited

\* prev, or cur behind it, is the last node.
swap_end(t) ==
  /\ \/ At(t, "prev") /\ next[prev[t]] = NULL
     \/ At(t, "cur") /\ next[cur[t]] = NULL
  /\ Unlock(t, {cur[t], prev[t]})
  /\ prev' = [prev EXCEPT ![t] = NULL]
  /\ cur' = [cur EXCEPT ![t] = NULL]
  /\ Goto(t, "start")
  /\ UNCHANGED <<next, visited>>

-----------------------------------------------------------------------------
CounterNext(t) ==
  \/ count_start(t)
  \/ count_lock_next(t)
  \/ count_compare(t)
  \/ count_end(t)

SwapperNext(t) ==
  \/ swap_start(t)
  \/ swap_lock_cur(t)
  \/ swap_lock_next(t)
  \/ swap_nodes(t)
  \/ swap_end(t)

Next ==
  /\ \/ \E t \in Counter : CounterNext(t)
     \/ \E t \in Swapper : SwapperNext(t)
  /\ UNCHANGED kind

Spec == Init /\ [][Next]_vars

\* Some thread that can run does run.  No single thread is promised a lock:
\* neither the mutexes nor the spin locks are fair.
FairSpec == Spec /\ WF_vars(Next)

-----------------------------------------------------------------------------
\* The nodes from first on, following next for at most STORAGE_SIZE nodes.
Order == Walk(first, next, NULL, STORAGE_SIZE)

\* Whatever the swappers do, the list still holds every node once and ends.
ListIntact ==
  /\ IsInjective(Order) /\ ToSet(Order) = Node
  /\ next[Order[Len(Order)]] = NULL

\* A counter has seen exactly the nodes up to its position: no swap carries a
\* node past a counter, so that a pass compares all STORAGE_SIZE - 1 pairs of
\* neighbours and sees no node twice.
SeenUpToPosition ==
  \A t \in Counter : At(t, "at") =>
    \E k \in DOMAIN Order :
      Order[k] = cur[t] /\ visited[t] = {Order[j] : j \in 1 .. k}

\* The swappers reorder the nodes while others wait for them, and still nobody
\* waits for a lock behind his own position: again and again a pass ends.
SomePassEnds ==
  []<><<\/ \E t \in Counter : count_end(t)
        \/ \E t \in Swapper : swap_end(t)>>_vars
=============================================================================
