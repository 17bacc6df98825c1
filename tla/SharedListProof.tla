--------------------------- MODULE SharedListProof ---------------------------
(***************************************************************************)
(* The list of lab 2.3, for any number of counters, swappers and nodes and *)
(* for every kind of lock.                                                 *)
(*                                                                         *)
(* A thread holds the locks of the nodes it looks at, and a node that a    *)
(* swapper holds is held by nobody else.  So a swapper finds its three     *)
(* nodes still in a row when it exchanges two of them, and no counter is   *)
(* at one of the three: the nodes behind it stay the same set.             *)
(***************************************************************************)
EXTENDS SharedList, PointerWalkProof

Place == 1 .. STORAGE_SIZE

\* The links nx order the nodes as q does.
Ordered(nx, q) ==
  /\ q \in [Place -> Node]
  /\ \A j, k \in Place : q[j] = q[k] => j = k
  /\ \A n \in Node : \E k \in Place : q[k] = n
  /\ q[1] = first
  /\ \A k \in Place : nx[q[k]] = IF k = STORAGE_SIZE THEN NULL ELSE q[k + 1]

\* The nodes up to place k.
UpTo(q, k) == {q[j] : j \in 1 .. k}

\* A counter has seen the nodes up to its own.
SeenTo(t, q) ==
  pc[t] \in {"at", "compare"} =>
    \E k \in Place : q[k] = cur[t] /\ visited[t] = UpTo(q, k)

\* Where a thread is, and the locks that it has there.
CounterHolds(t) ==
  /\ pc[t] \in {"start", "at", "compare"}
  /\ pc[t] # "start" => cur[t] \in Node /\ t \in holders[cur[t]]
  /\ pc[t] = "compare" =>
       next[cur[t]] \in Node /\ t \in holders[next[cur[t]]]
SwapperHolds(t) ==
  /\ pc[t] \in {"start", "prev", "cur", "next"}
  /\ pc[t] # "start" => prev[t] \in Node /\ t \in holders[prev[t]]
  /\ pc[t] \in {"cur", "next"} =>
       cur[t] \in Node /\ t \in holders[cur[t]] /\ next[prev[t]] = cur[t]
  /\ pc[t] = "next" =>
       next[cur[t]] \in Node /\ t \in holders[next[cur[t]]]

\* Nobody shares a node with a swapper.
SwappersAlone ==
  \A n \in Node : \A t \in Swapper : t \in holders[n] => holders[n] = {t}

Types ==
  /\ next \in [Node -> Node \cup {NULL}]
  /\ holders \in [Node -> SUBSET Thread]
  /\ DOMAIN pc = Thread /\ DOMAIN prev = Thread /\ DOMAIN cur = Thread
  /\ DOMAIN visited = Counter

Locks ==
  /\ Types
  /\ SwappersAlone
  /\ \A t \in Counter : CounterHolds(t)
  /\ \A t \in Swapper : SwapperHolds(t)

Listed(q) == Ordered(next, q) /\ \A t \in Counter : SeenTo(t, q)

\* The inductive invariant.
IInv == Locks /\ \E q : Listed(q)

LEMMA Basics ==
  /\ NULL \notin Node /\ first \in Node /\ 1 \in Place
  /\ \A t \in Counter : t \in Thread /\ t \notin Swapper
  /\ \A t \in Swapper : t \in Thread /\ t \notin Counter
  /\ \A t \in Thread : t \in Counter \/ t \in Swapper
BY SharedListAssumption DEF Node, NULL, first, Place, Thread

\* The exchange of two neighbours behind a third keeps a list, and the same
\* nodes come before every other place.
LEMMA ExchangeOrders ==
  ASSUME next \in [Node -> Node \cup {NULL}], NEW q, Ordered(next, q),
         NEW p \in Node, NEW c \in Node, NEW n \in Node,
         next[p] = c, next[c] = n
  PROVE  \E r : /\ Ordered(Exchange(p, c, n), r)
                /\ \A k \in Place : q[k] \notin {p, c, n} =>
                     r[k] = q[k] /\ UpTo(r, k) = UpTo(q, k)
<1> DEFINE N == STORAGE_SIZE
<1>1. /\ N \in Nat /\ N >= 1 /\ Place = 1 .. N
      /\ q \in [Place -> Node]
      /\ \A j, k \in Place : q[j] = q[k] => j = k
      /\ \A m \in Node : \E k \in Place : q[k] = m
      /\ q[1] = first
      /\ \A k \in Place : next[q[k]] = IF k = N THEN NULL ELSE q[k + 1]
  BY SharedListAssumption DEF Ordered, Place
<1> HIDE DEF N
<1>2. PICK k \in Place : q[k] = p
  BY <1>1
<1>3. k # N /\ k + 1 \in Place /\ q[k + 1] = c
  <2>1. k # N /\ q[k + 1] = c
    BY <1>1, <1>2, Basics
  <2> QED
    BY <1>1, <2>1
<1>4. k + 1 # N /\ k + 2 \in Place /\ q[k + 2] = n
  <2>1. k + 1 # N /\ q[(k + 1) + 1] = n
    BY <1>1, <1>3, Basics
  <2>2. (k + 1) + 1 = k + 2
    BY <1>1
  <2> QED
    BY <1>1, <1>3, <2>1, <2>2
<1> DEFINE s(j) == IF j = k + 1 THEN k + 2 ELSE IF j = k + 2 THEN k + 1 ELSE j
           r == [j \in Place |-> q[s(j)]]
<1>5. \A j \in Place : s(j) \in Place /\ s(s(j)) = j
  BY <1>1, <1>3, <1>4
<1>6. /\ s(1) = 1
      /\ s(k) = k /\ s(k + 1) = k + 2 /\ s(k + 2) = k + 1
      /\ \A j \in Place : j \notin {k + 1, k + 2} => s(j) = j
  BY <1>1, <1>3, <1>4
<1>7. \A j \in Place : r[j] = q[s(j)]
  OBVIOUS
<1>8. r \in [Place -> Node]
  BY <1>1, <1>5
<1> HIDE DEF s, r
<1>9. \A i, j \in Place : r[i] = r[j] => i = j
  BY <1>1, <1>5, <1>7
<1>10. \A m \in Node : \E j \in Place : r[j] = m
  <2> SUFFICES ASSUME NEW m \in Node
               PROVE  \E j \in Place : r[j] = m
    OBVIOUS
  <2>1. PICK j \in Place : q[j] = m
    BY <1>1
  <2>2. s(j) \in Place /\ r[s(j)] = m
    BY <1>5, <1>7, <2>1
  <2> QED
    BY <2>2
<1>11. r[1] = first
  BY <1>1, <1>6, <1>7, Basics
<1> DEFINE x == Exchange(p, c, n)
<1>12. /\ p # c /\ p # n /\ c # n
  <2>1. k # k + 1 /\ k # k + 2 /\ k + 1 # k + 2
    BY <1>1
  <2> QED
    BY <1>1, <1>2, <1>3, <1>4, <2>1
<1>13. /\ x[p] = n /\ x[n] = c /\ x[c] = next[n]
       /\ \A m \in Node \ {p, c, n} : x[m] = next[m]
  BY <1>12 DEF Exchange
<1> HIDE DEF x
<1>14. r[k] = p /\ r[k + 1] = n /\ r[k + 2] = c
  BY <1>2, <1>3, <1>4, <1>6, <1>7
<1>15. \A j \in Place : j \notin {k, k + 1, k + 2} =>
         /\ r[j] = q[j] /\ r[j] \in Node \ {p, c, n}
         /\ j + 1 \notin {k + 1, k + 2}
  <2> SUFFICES ASSUME NEW j \in Place, j \notin {k, k + 1, k + 2}
               PROVE  /\ r[j] = q[j] /\ r[j] \in Node \ {p, c, n}
                      /\ j + 1 \notin {k + 1, k + 2}
    OBVIOUS
  <2>1. r[j] = q[j] /\ r[j] \in Node
    BY <1>6, <1>7, <1>8
  <2>2. q[j] \notin {p, c, n}
    BY <1>1, <1>2, <1>3, <1>4
  <2>3. j + 1 \notin {k + 1, k + 2}
    BY <1>1
  <2> QED
    BY <2>1, <2>2, <2>3
<1>16. \A j \in Place : x[r[j]] = IF j = N THEN NULL ELSE r[j + 1]
  <2> SUFFICES ASSUME NEW j \in Place
               PROVE  x[r[j]] = IF j = N THEN NULL ELSE r[j + 1]
    OBVIOUS
  <2>1. CASE j = k
    BY <1>3, <1>13, <1>14, <2>1
  <2>2. CASE j = k + 1
    <3>1. j + 1 = k + 2
      BY <1>1, <2>2
    <3> QED
      BY <1>4, <1>13, <1>14, <2>2, <3>1
  <2>3. CASE j = k + 2
    <3>1. x[r[j]] = IF k + 2 = N THEN NULL ELSE q[(k + 2) + 1]
      BY <1>1, <1>4, <1>13, <1>14, <2>3
    <3>2. k + 2 # N => /\ (k + 2) + 1 \in Place
                       /\ (k + 2) + 1 \notin {k + 1, k + 2}
      BY <1>1, <1>4
    <3>3. k + 2 # N => r[(k + 2) + 1] = q[(k + 2) + 1]
      BY <1>6, <1>7, <3>2
    <3> QED
      BY <2>3, <3>1, <3>3
  <2>4. CASE j \notin {k, k + 1, k + 2}
    <3>1. x[r[j]] = IF j = N THEN NULL ELSE q[j + 1]
      BY <1>1, <1>13, <1>15, <2>4
    <3>2. j # N => j + 1 \in Place /\ j + 1 \notin {k + 1, k + 2}
      BY <1>1, <1>15, <2>4
    <3>3. j # N => r[j + 1] = q[j + 1]
      BY <1>6, <1>7, <3>2
    <3> QED
      BY <3>1, <3>3
  <2> QED
    BY <2>1, <2>2, <2>3, <2>4
<1>17. Ordered(x, r)
  BY <1>8, <1>9, <1>10, <1>11, <1>16 DEF Ordered, N
<1>18. ASSUME NEW m \in Place, q[m] \notin {p, c, n}
       PROVE  r[m] = q[m] /\ UpTo(r, m) = UpTo(q, m)
  <2>1. m \notin {k, k + 1, k + 2}
    BY <1>2, <1>3, <1>4, <1>18
  <2>2. \A j \in 1 .. m : j \in Place /\ s(j) \in 1 .. m
    BY <1>1, <2>1 DEF s
  <2>3. \A j \in 1 .. m : r[j] = q[s(j)] /\ s(s(j)) = j
    BY <1>5, <1>7, <2>2
  <2>4. {r[j] : j \in 1 .. m} = {q[j] : j \in 1 .. m}
    <3>1. ASSUME NEW j \in 1 .. m
          PROVE  q[j] \in {r[i] : i \in 1 .. m}
      <4>1. s(j) \in 1 .. m /\ r[s(j)] = q[j]
        BY <2>2, <2>3
      <4> QED
        BY <4>1
    <3>2. ASSUME NEW j \in 1 .. m
          PROVE  r[j] \in {q[i] : i \in 1 .. m}
      BY <2>2, <2>3
    <3> QED
      BY <3>1, <3>2
  <2> QED
    BY <1>15, <2>1, <2>4 DEF UpTo
<1> QED
  BY <1>17, <1>18 DEF x

-----------------------------------------------------------------------------
(* The locks. *)

\* A thread that takes or gives back locks changes nobody else's, and does not
\* join a swapper at a node.
OwnLocksOnly(t) ==
  /\ holders' \in [Node -> SUBSET Thread]
  /\ \A m \in Node : \A u \in Thread \ {t} : u \in holders'[m] <=> u \in holders[m]
  /\ SwappersAlone'

LEMMA LockKeeps ==
  ASSUME Locks, NEW t \in Thread, NEW n \in Node, Lock(t, n)
  PROVE  /\ OwnLocksOnly(t)
         /\ t \in holders'[n]
         /\ \A m \in Node : t \in holders[m] => t \in holders'[m]
<1>1. /\ holders \in [Node -> SUBSET Thread]
      /\ holders' = [holders EXCEPT ![n] = @ \cup {t}]
  BY DEF Locks, Types, Lock
<1>2. \A m \in Node : holders'[m] = IF m = n THEN holders[n] \cup {t} ELSE holders[m]
  BY <1>1
<1>3. \A u \in holders[n] : u \in Counter /\ t \in Counter
  BY Basics DEF Lock, CanLock
<1>4. SwappersAlone'
  <2> SUFFICES ASSUME NEW m \in Node, NEW u \in Swapper, u \in holders'[m]
               PROVE  holders'[m] = {u}
    BY DEF SwappersAlone
  <2>1. CASE m # n
    BY <1>2, <2>1 DEF Locks, SwappersAlone
  <2>2. CASE m = n
    BY <1>2, <1>3, <2>2, Basics
  <2> QED
    BY <2>1, <2>2
<1> QED
  BY <1>1, <1>2, <1>4 DEF OwnLocksOnly

LEMMA UnlockKeeps ==
  ASSUME Locks, NEW t \in Thread, NEW M, Unlock(t, M)
  PROVE  /\ OwnLocksOnly(t)
         /\ \A m \in Node : m \notin M => holders'[m] = holders[m]
<1>1. /\ holders \in [Node -> SUBSET Thread]
      /\ \A m \in Node :
           holders'[m] = IF m \in M THEN holders[m] \ {t} ELSE holders[m]
      /\ holders' \in [Node -> SUBSET Thread]
  BY DEF Locks, Types, Unlock
<1>2. SwappersAlone'
  BY <1>1 DEF Locks, SwappersAlone
<1> QED
  BY <1>1, <1>2 DEF OwnLocksOnly

\* A step of t leaves the variables of the others alone, and of the links only
\* those of the nodes which t, a swapper, has locked.
OthersKept(t) ==
  /\ \A u \in Thread \ {t} : pc'[u] = pc[u] /\ prev'[u] = prev[u] /\ cur'[u] = cur[u]
  /\ \A u \in Counter \ {t} : visited'[u] = visited[u]
  /\ \A m \in Node : next'[m] = next[m] \/ (t \in Swapper /\ t \in holders[m])

\* What a step of t keeps of the invariant, apart from what t itself holds.
LEMMA OthersHold ==
  ASSUME Locks, NEW t \in Thread, OwnLocksOnly(t), OthersKept(t)
  PROVE  /\ SwappersAlone'
         /\ \A u \in Counter \ {t} : CounterHolds(u)'
         /\ \A u \in Swapper \ {t} : SwapperHolds(u)'
<1>1. ASSUME NEW u \in Thread \ {t}, NEW m \in Node, u \in holders[m]
      PROVE  next'[m] = next[m] /\ u \in holders'[m]
  BY <1>1 DEF OthersKept, OwnLocksOnly, Locks, SwappersAlone
<1>2. ASSUME NEW u \in Counter \ {t}
      PROVE  CounterHolds(u)'
  <2>1. /\ CounterHolds(u) /\ u \in Thread \ {t}
        /\ pc'[u] = pc[u] /\ cur'[u] = cur[u]
    BY Basics DEF Locks, OthersKept
  <2> QED
    BY <1>1, <2>1 DEF CounterHolds
<1>3. ASSUME NEW u \in Swapper \ {t}
      PROVE  SwapperHolds(u)'
  <2>1. /\ SwapperHolds(u) /\ u \in Thread \ {t}
        /\ pc'[u] = pc[u] /\ cur'[u] = cur[u] /\ prev'[u] = prev[u]
    BY Basics DEF Locks, OthersKept
  <2> QED
    BY <1>1, <2>1 DEF SwapperHolds
<1> QED
  BY <1>2, <1>3 DEF OwnLocksOnly

\* Three nodes in a row are three nodes.
Apart ==
  \A m \in Node : /\ next[m] # m
                  /\ next[m] \in Node => next[next[m]] # m

LEMMA OrderedApart ==
  ASSUME NEW q, Ordered(next, q)
  PROVE  Apart
<1> SUFFICES ASSUME NEW m \in Node
             PROVE  /\ next[m] # m
                    /\ next[m] \in Node => next[next[m]] # m
  BY DEF Apart
<1>1. /\ STORAGE_SIZE \in Nat /\ Place = 1 .. STORAGE_SIZE
      /\ \A j, k \in Place : q[j] = q[k] => j = k
      /\ \A k \in Place :
           next[q[k]] = IF k = STORAGE_SIZE THEN NULL ELSE q[k + 1]
  BY SharedListAssumption DEF Ordered, Place
<1>2. PICK k \in Place : q[k] = m
  BY DEF Ordered
<1>3. CASE k = STORAGE_SIZE
  BY <1>1, <1>2, <1>3, Basics
<1>4. CASE k # STORAGE_SIZE
  <2>1. /\ k + 1 \in Place /\ k + 1 # k /\ (k + 1) + 1 # k
        /\ k + 1 # STORAGE_SIZE => (k + 1) + 1 \in Place
    BY <1>1, <1>4
  <2>2. /\ next[m] = q[k + 1] /\ next[m] # m
    BY <1>1, <1>2, <1>4, <2>1
  <2>3. next[q[k + 1]] # m
    BY <1>1, <1>2, <2>1, Basics
  <2> QED
    BY <2>2, <2>3
<1> QED
  BY <1>3, <1>4

\* From f to g only the value for t has changed.
OwnOnly(f, g, t) == DOMAIN g = DOMAIN f /\ \A u \in DOMAIN f \ {t} : g[u] = f[u]

\* A step of t that changes its own variables.
LEMMA OwnMove ==
  ASSUME Types, NEW t \in Thread, OwnLocksOnly(t),
         OwnOnly(pc, pc', t), OwnOnly(prev, prev', t), OwnOnly(cur, cur', t),
         OwnOnly(visited, visited', t),
         next' \in [Node -> Node \cup {NULL}],
         \A m \in Node : next'[m] = next[m] \/ (t \in Swapper /\ t \in holders[m])
  PROVE  Types' /\ OthersKept(t)
BY DEF Types, OthersKept, OwnOnly, OwnLocksOnly

LEMMA CounterLocks ==
  ASSUME Locks, Apart, NEW t \in Counter, CounterNext(t)
  PROVE  Locks' /\ OthersKept(t)
<1> SUFFICES Types' /\ CounterHolds(t)' /\ OwnLocksOnly(t) /\ OthersKept(t)
  BY OthersHold, Basics DEF Locks
<1>1. /\ Types /\ CounterHolds(t) /\ t \in Thread
      /\ next \in [Node -> Node \cup {NULL}]
  BY Basics DEF Locks, Types
<1>2. CASE count_start(t)
  <2>1. OwnLocksOnly(t) /\ t \in holders'[first] /\ first \in Node
    BY <1>1, <1>2, LockKeeps, Basics DEF count_start
  <2>2. /\ pc' = [pc EXCEPT ![t] = "at"] /\ cur' = [cur EXCEPT ![t] = first]
        /\ visited' = [visited EXCEPT ![t] = {first}] /\ UNCHANGED <<next, prev>>
    BY <1>2 DEF count_start, Goto
  <2>3. Types' /\ OthersKept(t) /\ pc'[t] = "at" /\ cur'[t] = first
    <3>1. /\ OwnOnly(pc, pc', t) /\ OwnOnly(prev, prev', t)
          /\ OwnOnly(cur, cur', t) /\ OwnOnly(visited, visited', t)
          /\ pc'[t] = "at" /\ cur'[t] = first
      BY <1>1, <2>2 DEF OwnOnly, Types
    <3>2. /\ next' \in [Node -> Node \cup {NULL}]
          /\ \A m \in Node :
               next'[m] = next[m] \/ (t \in Swapper /\ t \in holders[m])
      BY <1>1, <2>1, <2>2
    <3>3. Types' /\ OthersKept(t)
      BY <1>1, <2>1, <2>2, <3>1, <3>2, OwnMove
    <3> QED
      BY <3>1, <3>3
  <2> QED
    BY <2>1, <2>3 DEF CounterHolds
<1>3. CASE count_lock_next(t)
  <2>1. pc[t] = "at" /\ cur[t] \in Node /\ next[cur[t]] \in Node
    BY <1>1, <1>3 DEF count_lock_next, At, CounterHolds
  <2>2. /\ OwnLocksOnly(t) /\ t \in holders'[next[cur[t]]]
        /\ t \in holders'[cur[t]]
    BY <1>1, <1>3, <2>1, LockKeeps DEF count_lock_next, CounterHolds
  <2>3. /\ pc' = [pc EXCEPT ![t] = "compare"]
        /\ UNCHANGED <<next, prev, cur, visited>>
    BY <1>3 DEF count_lock_next, Goto
  <2>4. Types' /\ OthersKept(t) /\ pc'[t] = "compare"
    <3>1. /\ OwnOnly(pc, pc', t) /\ OwnOnly(prev, prev', t)
          /\ OwnOnly(cur, cur', t) /\ OwnOnly(visited, visited', t)
          /\ pc'[t] = "compare"
      BY <1>1, <2>3 DEF OwnOnly, Types
    <3>2. /\ next' \in [Node -> Node \cup {NULL}]
          /\ \A m \in Node :
               next'[m] = next[m] \/ (t \in Swapper /\ t \in holders[m])
      BY <1>1, <2>2, <2>3
    <3>3. Types' /\ OthersKept(t)
      BY <1>1, <2>2, <2>3, <3>1, <3>2, OwnMove
    <3> QED
      BY <3>1, <3>3
  <2> QED
    BY <2>1, <2>2, <2>3, <2>4 DEF CounterHolds
<1>4. CASE count_compare(t)
  <2>1. PICK n : n = next[cur[t]]
    OBVIOUS
  <2>2. /\ pc[t] = "compare" /\ n \in Node /\ cur[t] \in Node /\ n # cur[t]
        /\ t \in holders[n]
    BY <1>1, <1>4, <2>1 DEF count_compare, At, CounterHolds, Apart
  <2>3. OwnLocksOnly(t) /\ t \in holders'[n]
    BY <1>1, <1>4, <2>2, UnlockKeeps DEF count_compare
  <2>4. /\ cur' = [cur EXCEPT ![t] = n] /\ pc' = [pc EXCEPT ![t] = "at"]
        /\ visited' = [visited EXCEPT ![t] = @ \cup {n}]
        /\ UNCHANGED <<next, prev>>
    BY <1>4, <2>1 DEF count_compare, Goto
  <2>5. Types' /\ OthersKept(t) /\ pc'[t] = "at" /\ cur'[t] = n
    <3>1. /\ OwnOnly(pc, pc', t) /\ OwnOnly(prev, prev', t)
          /\ OwnOnly(cur, cur', t) /\ OwnOnly(visited, visited', t)
          /\ pc'[t] = "at" /\ cur'[t] = n
      BY <1>1, <2>4 DEF OwnOnly, Types
    <3>2. /\ next' \in [Node -> Node \cup {NULL}]
          /\ \A m \in Node :
               next'[m] = next[m] \/ (t \in Swapper /\ t \in holders[m])
      BY <1>1, <2>3, <2>4
    <3>3. Types' /\ OthersKept(t)
      BY <1>1, <2>3, <2>4, <3>1, <3>2, OwnMove
    <3> QED
      BY <3>1, <3>3
  <2> QED
    BY <2>2, <2>3, <2>5 DEF CounterHolds
<1>5. CASE count_end(t)
  <2>1. OwnLocksOnly(t)
    BY <1>1, <1>5, UnlockKeeps DEF count_end
  <2>2. /\ cur' = [cur EXCEPT ![t] = NULL] /\ pc' = [pc EXCEPT ![t] = "start"]
        /\ visited' = [visited EXCEPT ![t] = {}] /\ UNCHANGED <<next, prev>>
    BY <1>5 DEF count_end, Goto
  <2>3. Types' /\ OthersKept(t) /\ pc'[t] = "start"
    <3>1. /\ OwnOnly(pc, pc', t) /\ OwnOnly(prev, prev', t)
          /\ OwnOnly(cur, cur', t) /\ OwnOnly(visited, visited', t)
          /\ pc'[t] = "start"
      BY <1>1, <2>2 DEF OwnOnly, Types
    <3>2. /\ next' \in [Node -> Node \cup {NULL}]
          /\ \A m \in Node :
               next'[m] = next[m] \/ (t \in Swapper /\ t \in holders[m])
      BY <1>1, <2>1, <2>2
    <3>3. Types' /\ OthersKept(t)
      BY <1>1, <2>1, <2>2, <3>1, <3>2, OwnMove
    <3> QED
      BY <3>1, <3>3
  <2> QED
    BY <2>1, <2>3 DEF CounterHolds
<1> QED
  BY <1>2, <1>3, <1>4, <1>5 DEF CounterNext

LEMMA SwapperLocks ==
  ASSUME Locks, Apart, NEW t \in Swapper, SwapperNext(t)
  PROVE  Locks' /\ OthersKept(t)
<1> SUFFICES Types' /\ SwapperHolds(t)' /\ OwnLocksOnly(t) /\ OthersKept(t)
  BY OthersHold, Basics DEF Locks
<1>1. /\ Types /\ SwapperHolds(t) /\ t \in Thread
      /\ next \in [Node -> Node \cup {NULL}]
  BY Basics DEF Locks, Types
<1>2. CASE swap_start(t)
  <2>1. OwnLocksOnly(t) /\ t \in holders'[first] /\ first \in Node
    BY <1>1, <1>2, LockKeeps, Basics DEF swap_start
  <2>2. /\ pc' = [pc EXCEPT ![t] = "prev"] /\ prev' = [prev EXCEPT ![t] = first]
        /\ UNCHANGED <<next, cur, visited>>
    BY <1>2 DEF swap_start, Goto
  <2>3. Types' /\ OthersKept(t) /\ pc'[t] = "prev" /\ prev'[t] = first
    <3>1. /\ OwnOnly(pc, pc', t) /\ OwnOnly(prev, prev', t)
          /\ OwnOnly(cur, cur', t) /\ OwnOnly(visited, visited', t)
          /\ pc'[t] = "prev" /\ prev'[t] = first
      BY <1>1, <2>2 DEF OwnOnly, Types
    <3>2. /\ next' \in [Node -> Node \cup {NULL}]
          /\ \A m \in Node :
               next'[m] = next[m] \/ (t \in Swapper /\ t \in holders[m])
      BY <1>1, <2>1, <2>2
    <3>3. Types' /\ OthersKept(t)
      BY <1>1, <2>1, <2>2, <3>1, <3>2, OwnMove
    <3> QED
      BY <3>1, <3>3
  <2> QED
    BY <2>1, <2>3 DEF SwapperHolds
<1>3. CASE swap_lock_cur(t)
  <2>1. PICK n : n = next[prev[t]]
    OBVIOUS
  <2>2. /\ pc[t] = "prev" /\ prev[t] \in Node /\ n \in Node
        /\ t \in holders[prev[t]]
    BY <1>1, <1>3, <2>1 DEF swap_lock_cur, At, SwapperHolds
  <2>3. OwnLocksOnly(t) /\ t \in holders'[n] /\ t \in holders'[prev[t]]
    BY <1>1, <1>3, <2>1, <2>2, LockKeeps DEF swap_lock_cur
  <2>4. /\ cur' = [cur EXCEPT ![t] = n] /\ pc' = [pc EXCEPT ![t] = "cur"]
        /\ UNCHANGED <<next, prev, visited>>
    BY <1>3, <2>1 DEF swap_lock_cur, Goto
  <2>5. Types' /\ OthersKept(t) /\ pc'[t] = "cur" /\ cur'[t] = n
    <3>1. /\ OwnOnly(pc, pc', t) /\ OwnOnly(prev, prev', t)
          /\ OwnOnly(cur, cur', t) /\ OwnOnly(visited, visited', t)
          /\ pc'[t] = "cur" /\ cur'[t] = n
      BY <1>1, <2>4 DEF OwnOnly, Types
    <3>2. /\ next' \in [Node -> Node \cup {NULL}]
          /\ \A m \in Node :
               next'[m] = next[m] \/ (t \in Swapper /\ t \in holders[m])
      BY <1>1, <2>3, <2>4
    <3>3. Types' /\ OthersKept(t)
      BY <1>1, <2>3, <2>4, <3>1, <3>2, OwnMove
    <3> QED
      BY <3>1, <3>3
  <2> QED
    BY <2>1, <2>2, <2>3, <2>4, <2>5 DEF SwapperHolds
<1>4. CASE swap_lock_next(t)
  <2>1. PICK n : n = next[cur[t]]
    OBVIOUS
  <2>2. /\ pc[t] = "cur" /\ prev[t] \in Node /\ cur[t] \in Node /\ n \in Node
        /\ t \in holders[prev[t]] /\ t \in holders[cur[t]]
        /\ next[prev[t]] = cur[t]
    BY <1>1, <1>4, <2>1 DEF swap_lock_next, At, SwapperHolds
  <2>3. /\ OwnLocksOnly(t) /\ t \in holders'[n] /\ t \in holders'[prev[t]]
        /\ t \in holders'[cur[t]]
    BY <1>1, <1>4, <2>1, <2>2, LockKeeps DEF swap_lock_next
  <2>4. /\ pc' = [pc EXCEPT ![t] = "next"]
        /\ UNCHANGED <<next, prev, cur, visited>>
    BY <1>4, <2>1 DEF swap_lock_next, Goto
  <2>5. Types' /\ OthersKept(t) /\ pc'[t] = "next"
    <3>1. /\ OwnOnly(pc, pc', t) /\ OwnOnly(prev, prev', t)
          /\ OwnOnly(cur, cur', t) /\ OwnOnly(visited, visited', t)
          /\ pc'[t] = "next"
      BY <1>1, <2>4 DEF OwnOnly, Types
    <3>2. /\ next' \in [Node -> Node \cup {NULL}]
          /\ \A m \in Node :
               next'[m] = next[m] \/ (t \in Swapper /\ t \in holders[m])
      BY <1>1, <2>3, <2>4
    <3>3. Types' /\ OthersKept(t)
      BY <1>1, <2>3, <2>4, <3>1, <3>2, OwnMove
    <3> QED
      BY <3>1, <3>3
  <2> QED
    BY <2>1, <2>2, <2>3, <2>4, <2>5 DEF SwapperHolds
<1>5. CASE swap_nodes(t)
  <2>1. PICK p, c, n : p = prev[t] /\ c = cur[t] /\ n = next[cur[t]]
    OBVIOUS
  <2>2. /\ pc[t] = "next" /\ p \in Node /\ c \in Node /\ n \in Node
        /\ t \in holders[p] /\ t \in holders[c] /\ t \in holders[n]
        /\ next[p] = c /\ next[c] = n
    BY <1>1, <1>5, <2>1 DEF swap_nodes, At, SwapperHolds
  <2>3. p # c /\ c # n /\ p # n
    BY <2>2 DEF Apart
  <2>4. OwnLocksOnly(t) /\ t \in holders'[c]
    BY <1>1, <1>5, <2>1, <2>2, <2>3, UnlockKeeps DEF swap_nodes
  <2>5. /\ prev' = [prev EXCEPT ![t] = c] /\ cur' = [cur EXCEPT ![t] = NULL]
        /\ pc' = [pc EXCEPT ![t] = "prev"] /\ UNCHANGED visited
        /\ next' \in {next, Exchange(p, c, n)}
    BY <1>5, <2>1 DEF swap_nodes, Goto
  <2>6. /\ next' \in [Node -> Node \cup {NULL}]
        /\ \A m \in Node : next'[m] = next[m] \/ m \in {p, c, n}
    BY <1>1, <2>2, <2>5 DEF Exchange
  <2>7. Types' /\ OthersKept(t) /\ pc'[t] = "prev" /\ prev'[t] = c
    <3>1. /\ OwnOnly(pc, pc', t) /\ OwnOnly(prev, prev', t)
          /\ OwnOnly(cur, cur', t) /\ OwnOnly(visited, visited', t)
          /\ pc'[t] = "prev" /\ prev'[t] = c
      BY <1>1, <2>5 DEF OwnOnly, Types
    <3>2. /\ next' \in [Node -> Node \cup {NULL}]
          /\ \A m \in Node :
               next'[m] = next[m] \/ (t \in Swapper /\ t \in holders[m])
      BY <1>1, <2>2, <2>4, <2>5, <2>6
    <3>3. Types' /\ OthersKept(t)
      BY <1>1, <2>2, <2>4, <2>5, <2>6, <3>1, <3>2, OwnMove
    <3> QED
      BY <3>1, <3>3
  <2> QED
    BY <2>2, <2>4, <2>7 DEF SwapperHolds
<1>6. CASE swap_end(t)
  <2>1. OwnLocksOnly(t)
    BY <1>1, <1>6, UnlockKeeps DEF swap_end
  <2>2. /\ prev' = [prev EXCEPT ![t] = NULL] /\ cur' = [cur EXCEPT ![t] = NULL]
        /\ pc' = [pc EXCEPT ![t] = "start"] /\ UNCHANGED <<next, visited>>
    BY <1>6 DEF swap_end, Goto
  <2>3. Types' /\ OthersKept(t) /\ pc'[t] = "start"
    <3>1. /\ OwnOnly(pc, pc', t) /\ OwnOnly(prev, prev', t)
          /\ OwnOnly(cur, cur', t) /\ OwnOnly(visited, visited', t)
          /\ pc'[t] = "start"
      BY <1>1, <2>2 DEF OwnOnly, Types
    <3>2. /\ next' \in [Node -> Node \cup {NULL}]
          /\ \A m \in Node :
               next'[m] = next[m] \/ (t \in Swapper /\ t \in holders[m])
      BY <1>1, <2>1, <2>2
    <3>3. Types' /\ OthersKept(t)
      BY <1>1, <2>1, <2>2, <3>1, <3>2, OwnMove
    <3> QED
      BY <3>1, <3>3
  <2> QED
    BY <2>1, <2>3 DEF SwapperHolds
<1> QED
  BY <1>2, <1>3, <1>4, <1>5, <1>6 DEF SwapperNext

-----------------------------------------------------------------------------
(* The order. *)

\* A counter moves on, and has then seen one node more.
LEMMA CounterSees ==
  ASSUME Locks, NEW q, Listed(q), NEW t \in Counter, CounterNext(t)
  PROVE  SeenTo(t, q)' /\ next' = next
<1>1. /\ Types /\ CounterHolds(t) /\ t \in Thread /\ Ordered(next, q)
      /\ SeenTo(t, q)
  BY Basics DEF Locks, Listed
<1>2. CASE count_start(t)
  <2>1. pc'[t] = "at" /\ cur'[t] = first /\ visited'[t] = {first} /\ next' = next
    BY <1>1, <1>2 DEF count_start, Goto, Types
  <2>2. q[1] = first /\ 1 \in Place /\ UpTo(q, 1) = {q[1]}
    BY <1>1, Basics DEF Ordered, UpTo
  <2> QED
    BY <2>1, <2>2 DEF SeenTo
<1>3. CASE count_lock_next(t)
  <2>1. /\ pc[t] = "at" /\ pc'[t] = "compare" /\ next' = next /\ cur' = cur
        /\ visited' = visited
    BY <1>1, <1>3 DEF count_lock_next, At, Goto, Types
  <2> QED
    BY <1>1, <2>1 DEF SeenTo
<1>4. CASE count_compare(t)
  <2>1. PICK n : n = next[cur[t]]
    OBVIOUS
  <2>2. /\ pc[t] = "compare" /\ n \in Node /\ pc'[t] = "at" /\ cur'[t] = n
        /\ visited'[t] = visited[t] \cup {n} /\ next' = next
    BY <1>1, <1>4, <2>1
       DEF count_compare, At, Goto, CounterHolds, Types
  <2>3. PICK k \in Place : q[k] = cur[t] /\ visited[t] = UpTo(q, k)
    BY <1>1, <2>2 DEF SeenTo
  <2>4. k # STORAGE_SIZE /\ q[k + 1] = n
    BY <1>1, <2>1, <2>2, <2>3, Basics DEF Ordered
  <2>5. /\ k + 1 \in Place
        /\ \A j : j \in 1 .. k + 1 <=> (j \in 1 .. k \/ j = k + 1)
    BY <2>4, SharedListAssumption DEF Place
  <2>6. visited'[t] = UpTo(q, k + 1)
    BY <2>2, <2>3, <2>4, <2>5 DEF UpTo
  <2> QED
    BY <2>2, <2>4, <2>5, <2>6 DEF SeenTo
<1>5. CASE count_end(t)
  BY <1>1, <1>5 DEF count_end, Goto, Types, SeenTo
<1> QED
  BY <1>2, <1>3, <1>4, <1>5 DEF CounterNext

\* No swap carries a node past a counter.
LEMMA SwapUnseen ==
  ASSUME Locks, NEW q, Listed(q), NEW t \in Swapper, SwapperNext(t),
         OthersKept(t)
  PROVE  \E r : Listed(r)'
<1>1. /\ Types /\ SwapperHolds(t) /\ t \in Thread /\ Ordered(next, q)
      /\ \A u \in Counter : SeenTo(u, q)
  BY Basics DEF Locks, Listed
<1>2. \A u \in Counter : /\ pc'[u] = pc[u] /\ cur'[u] = cur[u]
                         /\ visited'[u] = visited[u]
  BY Basics DEF OthersKept
<1>3. CASE next' = next
  <2>1. Listed(q)'
    BY <1>1, <1>2, <1>3 DEF Listed, Ordered, SeenTo, first
  <2> QED
    BY <2>1
<1>4. CASE swap_nodes(t) /\ next' # next
  <2>1. PICK p, c, n : p = prev[t] /\ c = cur[t] /\ n = next[cur[t]]
    OBVIOUS
  <2>2. /\ p \in Node /\ c \in Node /\ n \in Node
        /\ t \in holders[p] /\ t \in holders[c] /\ t \in holders[n]
        /\ next[p] = c /\ next[c] = n
    BY <1>1, <1>4, <2>1 DEF swap_nodes, At, SwapperHolds
  <2>3. next' = Exchange(p, c, n)
    BY <1>4, <2>1 DEF swap_nodes
  <2>4. PICK r : /\ Ordered(Exchange(p, c, n), r)
                 /\ \A k \in Place : q[k] \notin {p, c, n} =>
                      r[k] = q[k] /\ UpTo(r, k) = UpTo(q, k)
    BY <1>1, <2>2, ExchangeOrders DEF Types
  <2>5. ASSUME NEW u \in Counter, pc[u] \in {"at", "compare"}
        PROVE  \E k \in Place : r[k] = cur[u] /\ visited[u] = UpTo(r, k)
    <3>1. cur[u] \notin {p, c, n}
      <4>1. u \in holders[cur[u]] /\ u # t
        BY <2>5, Basics DEF Locks, CounterHolds
      <4>2. \A m \in Node : t \in holders[m] => u \notin holders[m]
        BY <4>1 DEF Locks, SwappersAlone
      <4> QED
        BY <2>2, <4>1, <4>2
    <3>2. PICK k \in Place : q[k] = cur[u] /\ visited[u] = UpTo(q, k)
      BY <1>1, <2>5 DEF SeenTo
    <3>3. r[k] = cur[u] /\ visited[u] = UpTo(r, k)
      BY <2>4, <3>1, <3>2
    <3> QED
      BY <3>3
  <2>6. \A u \in Counter : SeenTo(u, r)'
    BY <1>2, <2>5 DEF SeenTo
  <2>7. Listed(r)'
    BY <2>3, <2>4, <2>6 DEF Listed
  <2> QED
    BY <2>7
<1> QED
  BY <1>3, <1>4
     DEF SwapperNext, swap_start, swap_lock_cur, swap_lock_next, swap_end

LEMMA InitIInv == Init => IInv
<1> SUFFICES ASSUME Init
             PROVE  IInv
  OBVIOUS
<1>1. Locks
  <2>1. Types
    BY SharedListAssumption DEF Init, Types, Node, NULL
  <2>2. SwappersAlone
    BY DEF Init, SwappersAlone
  <2>3. /\ \A t \in Counter : CounterHolds(t)
        /\ \A t \in Swapper : SwapperHolds(t)
    BY Basics DEF Init, CounterHolds, SwapperHolds
  <2> QED
    BY <2>1, <2>2, <2>3 DEF Locks
<1> DEFINE N == STORAGE_SIZE
           q == [k \in Place |-> N - k + 1]
<1>2. N \in Nat /\ N >= 1 /\ Place = 1 .. N /\ Node = 1 .. N /\ first = N
  BY SharedListAssumption DEF Place, Node, first
<1>3. Ordered(next, q)
  <2>1. /\ q \in [Place -> Node]
        /\ \A k \in Place : q[k] = N - k + 1
    BY <1>2
  <2>2. \A n \in Node : N - n + 1 \in Place /\ N - (N - n + 1) + 1 = n
    BY <1>2
  <2>3. \A n \in Node : next[n] = n - 1
    BY DEF Init
  <2> HIDE DEF q
  <2>4. \A j, k \in Place : q[j] = q[k] => j = k
    BY <1>2, <2>1
  <2>5. \A n \in Node : \E k \in Place : q[k] = n
    BY <2>1, <2>2
  <2>6. q[1] = first
    BY <1>2, <2>1
  <2>7. \A k \in Place : next[q[k]] = IF k = N THEN NULL ELSE q[k + 1]
    <3> SUFFICES ASSUME NEW k \in Place
                 PROVE  next[q[k]] = IF k = N THEN NULL ELSE q[k + 1]
      OBVIOUS
    <3>1. next[q[k]] = (N - k + 1) - 1
      BY <2>1, <2>3
    <3>2. CASE k = N
      BY <1>2, <3>1, <3>2 DEF NULL
    <3>3. CASE k # N
      <4>1. k + 1 \in Place
        BY <1>2, <3>3
      <4>2. q[k + 1] = N - (k + 1) + 1
        BY <2>1, <4>1
      <4> QED
        BY <1>2, <3>1, <3>3, <4>2
    <3> QED
      BY <3>2, <3>3
  <2> QED
    BY <2>1, <2>4, <2>5, <2>6, <2>7 DEF Ordered
<1>4. Listed(q)
  BY <1>3, Basics DEF Listed, SeenTo, Init
<1> QED
  BY <1>1, <1>4 DEF IInv

LEMMA StepIInv == IInv /\ [Next]_vars => IInv'
<1> SUFFICES ASSUME IInv, [Next]_vars
             PROVE  IInv'
  OBVIOUS
<1>1. PICK q : Listed(q)
  BY DEF IInv
<1>2. Locks /\ Apart
  BY <1>1, OrderedApart DEF IInv, Listed
<1>3. CASE \E t \in Counter : CounterNext(t)
  <2>1. PICK t \in Counter : CounterNext(t)
    BY <1>3
  <2>2. Locks' /\ OthersKept(t)
    BY <1>2, <2>1, CounterLocks
  <2>3. SeenTo(t, q)' /\ next' = next
    BY <1>1, <1>2, <2>1, CounterSees
  <2>4. \A u \in Counter \ {t} : SeenTo(u, q)'
    BY <1>1, <2>2, Basics DEF Listed, OthersKept, SeenTo
  <2>5. Listed(q)'
    BY <1>1, <2>3, <2>4 DEF Listed, Ordered, first
  <2> QED
    BY <2>2, <2>5 DEF IInv
<1>4. CASE \E t \in Swapper : SwapperNext(t)
  <2>1. PICK t \in Swapper : SwapperNext(t)
    BY <1>4
  <2>2. Locks' /\ OthersKept(t)
    BY <1>2, <2>1, SwapperLocks
  <2>3. \E r : Listed(r)'
    BY <1>1, <1>2, <2>1, <2>2, SwapUnseen
  <2> QED
    BY <2>2, <2>3 DEF IInv
<1>5. CASE UNCHANGED vars
  <2>1. Locks'
    BY <1>2, <1>5
       DEF Locks, Types, SwappersAlone, CounterHolds, SwapperHolds, vars
  <2>2. Listed(q)'
    BY <1>1, <1>5 DEF Listed, Ordered, SeenTo, first, vars
  <2> QED
    BY <2>1, <2>2 DEF IInv
<1> QED
  BY <1>3, <1>4, <1>5 DEF Next

\* IInv is an invariant of the three programs.
THEOREM Invariance == Spec => []IInv
BY InitIInv, StepIInv, PTL DEF Spec

\* What Order reads off the links is the order that they hold.
LEMMA OrderIs ==
  ASSUME NEW q, Ordered(next, q)
  PROVE  /\ Order = q /\ q \in Seq(Node) /\ Len(q) = STORAGE_SIZE
         /\ DOMAIN q = Place /\ Place = 1 .. STORAGE_SIZE
         /\ STORAGE_SIZE \in Place
<1>1. /\ STORAGE_SIZE \in Nat /\ STORAGE_SIZE >= 1 /\ Place = 1 .. STORAGE_SIZE
      /\ q \in [Place -> Node]
  BY SharedListAssumption DEF Ordered, Place
<1>2. q \in Seq(Node) /\ Len(q) = STORAGE_SIZE /\ DOMAIN q = Place
  BY <1>1
<1>3. Linked(first, next, NULL, q)
  <2>1. q # <<>>
    BY <1>1, <1>2
  <2> QED
    BY <1>1, <1>2, <2>1 DEF Linked, Ordered
<1>4. Order = q
  BY <1>1, <1>2, <1>3, WalkFindsList, Basics DEF Order
<1> QED
  BY <1>1, <1>2, <1>4

\* Whatever is exchanged, and whoever walks along, the list keeps every node
\* exactly once and ends.
THEOREM ListStaysIntact == Spec => []ListIntact
<1>1. IInv => ListIntact
  <2> SUFFICES ASSUME NEW q, Ordered(next, q)
               PROVE  ListIntact
    BY DEF IInv, Listed
  <2>1. /\ Order = q /\ Len(q) = STORAGE_SIZE /\ DOMAIN q = Place
        /\ STORAGE_SIZE \in Place
    BY OrderIs
  <2>2. IsInjective(q) /\ ToSet(q) = Node
    BY <2>1 DEF Ordered, IsInjective, ToSet
  <2>3. next[q[STORAGE_SIZE]] = NULL
    BY <2>1 DEF Ordered
  <2> QED
    BY <2>1, <2>2, <2>3 DEF ListIntact
<1> QED
  BY <1>1, Invariance, PTL

\* A counter misses no node and sees none twice.
THEOREM CountersMissNothing == Spec => []SeenUpToPosition
<1>1. IInv => SeenUpToPosition
  <2> SUFFICES ASSUME NEW q, Listed(q)
               PROVE  SeenUpToPosition
    BY DEF IInv
  <2>1. Order = q /\ DOMAIN q = Place
    BY OrderIs DEF Listed
  <2> QED
    BY <2>1 DEF SeenUpToPosition, Listed, SeenTo, UpTo, At
<1> QED
  BY <1>1, Invariance, PTL

-----------------------------------------------------------------------------
(* Nobody waits in a circle. *)

\* The nodes that a thread looks at.
Looks(t) ==
  CASE pc[t] = "at" -> {cur[t]}
    [] pc[t] = "compare" -> {cur[t], next[cur[t]]}
    [] pc[t] = "prev" -> {prev[t]}
    [] pc[t] = "cur" -> {prev[t], cur[t]}
    [] pc[t] = "next" -> {prev[t], cur[t], next[cur[t]]}
    [] OTHER -> {}

\* A thread holds no other lock: every pass gives back what it has taken.
HoldsNoMore(t) == \A m \in Node : t \in holders[m] => m \in Looks(t)
NothingLeaked == \A t \in Thread : HoldsNoMore(t)

\* The node whose lock a thread has to take for its next step, if any.
Wanted(t) ==
  CASE pc[t] = "start" -> first
    [] pc[t] = "at" -> next[cur[t]]
    [] pc[t] = "prev" -> next[prev[t]]
    [] pc[t] = "cur" -> next[cur[t]]
    [] OTHER -> NULL
CanGoOn(t) == Wanted(t) = NULL \/ CanLock(t, Wanted(t))

\* However the swappers reorder the nodes that others wait for, the threads
\* never all wait for each other.
NoCircularWait == \A t \in Thread : \E u \in Thread : CanGoOn(u)

\* Taking a lock adds that node, giving locks back takes them away.
LEMMA OwnHeld ==
  ASSUME Locks, NEW t \in Thread
  PROVE  /\ \A n \in Node : Lock(t, n) =>
              \A m \in Node : t \in holders'[m] => t \in holders[m] \/ m = n
         /\ \A M : Unlock(t, M) =>
              \A m \in Node : t \in holders'[m] => t \in holders[m] /\ m \notin M
<1>1. holders \in [Node -> SUBSET Thread]
  BY DEF Locks, Types
<1>2. ASSUME NEW n \in Node, Lock(t, n), NEW m \in Node, t \in holders'[m]
      PROVE  t \in holders[m] \/ m = n
  BY <1>1, <1>2 DEF Lock
<1>3. ASSUME NEW M, Unlock(t, M), NEW m \in Node, t \in holders'[m]
      PROVE  t \in holders[m] /\ m \notin M
  BY <1>1, <1>3 DEF Unlock
<1> QED
  BY <1>2, <1>3

\* A step of t leaves the others with the nodes that they look at.
LEMMA OthersHoldNoMore ==
  ASSUME Locks, NothingLeaked, NEW t \in Thread, OwnLocksOnly(t), OthersKept(t),
         NEW u \in Thread \ {t}
  PROVE  HoldsNoMore(u)'
<1>1. /\ pc'[u] = pc[u] /\ prev'[u] = prev[u] /\ cur'[u] = cur[u]
      /\ \A m \in Node : u \in holders'[m] => u \in holders[m]
  BY DEF OthersKept, OwnLocksOnly
<1>2. ASSUME pc[u] \in {"compare", "next"}
      PROVE  next'[cur[u]] = next[cur[u]]
  <2>1. cur[u] \in Node /\ u \in holders[cur[u]]
    BY <1>2, Basics DEF Locks, CounterHolds, SwapperHolds
  <2> QED
    BY <2>1 DEF OthersKept, Locks, SwappersAlone
<1>3. Looks(u)' = Looks(u)
  <2>1. CASE pc[u] = "compare"
    BY <1>1, <1>2, <2>1 DEF Looks
  <2>2. CASE pc[u] = "next"
    BY <1>1, <1>2, <2>2 DEF Looks
  <2>3. CASE pc[u] \notin {"compare", "next"}
    BY <1>1, <2>3 DEF Looks
  <2> QED
    BY <2>1, <2>2, <2>3
<1> QED
  BY <1>1, <1>3 DEF NothingLeaked, HoldsNoMore

\* A step of a counter.
LEMMA CounterHoldsNoMore ==
  ASSUME Locks, NEW t \in Counter, HoldsNoMore(t), CounterNext(t)
  PROVE  HoldsNoMore(t)' /\ OwnLocksOnly(t)
<1>1. /\ t \in Thread /\ CounterHolds(t)
      /\ t \in DOMAIN pc /\ t \in DOMAIN cur
      /\ next \in [Node -> Node \cup {NULL}]
  BY Basics DEF Locks, Types
<1>2. CASE count_start(t)
  <2>1. pc'[t] = "at" /\ cur'[t] = first /\ pc[t] = "start"
    BY <1>1, <1>2 DEF count_start, At, Goto
  <2>2. Looks(t) = {} /\ Looks(t)' = {first} /\ first \in Node
    BY <2>1, Basics DEF Looks
  <2>3. OwnLocksOnly(t)
    BY <1>1, <1>2, <2>2, LockKeeps DEF count_start
  <2> QED
    BY <1>1, <1>2, <2>2, <2>3, OwnHeld DEF count_start, HoldsNoMore
<1>3. CASE count_lock_next(t)
  <2>1. /\ pc'[t] = "compare" /\ cur'[t] = cur[t] /\ pc[t] = "at" /\ next' = next
    BY <1>1, <1>3 DEF count_lock_next, At, Goto
  <2>2. cur[t] \in Node /\ next[cur[t]] \in Node
    BY <1>1, <1>3, <2>1 DEF count_lock_next, CounterHolds
  <2>3. Looks(t) = {cur[t]} /\ Looks(t)' = {cur[t], next[cur[t]]}
    BY <2>1 DEF Looks
  <2>4. OwnLocksOnly(t)
    BY <1>1, <1>3, <2>2, LockKeeps DEF count_lock_next
  <2> QED
    BY <1>1, <1>3, <2>2, <2>3, <2>4, OwnHeld DEF count_lock_next, HoldsNoMore
<1>4. CASE count_compare(t)
  <2>1. /\ pc'[t] = "at" /\ cur'[t] = next[cur[t]] /\ pc[t] = "compare"
    BY <1>1, <1>4 DEF count_compare, At, Goto
  <2>2. Looks(t) = {cur[t], next[cur[t]]} /\ Looks(t)' = {next[cur[t]]}
    BY <2>1 DEF Looks
  <2>3. OwnLocksOnly(t)
    BY <1>1, <1>4, UnlockKeeps DEF count_compare
  <2>4. Unlock(t, {cur[t]})
    BY <1>4 DEF count_compare
  <2> QED
    BY <1>1, <2>2, <2>3, <2>4, OwnHeld DEF HoldsNoMore
<1>5. CASE count_end(t)
  <2>1. pc'[t] = "start" /\ pc[t] = "at"
    BY <1>1, <1>5 DEF count_end, At, Goto
  <2>2. Looks(t) = {cur[t]} /\ Looks(t)' = {}
    BY <2>1 DEF Looks
  <2>3. OwnLocksOnly(t)
    BY <1>1, <1>5, UnlockKeeps DEF count_end
  <2>4. Unlock(t, {cur[t]})
    BY <1>5 DEF count_end
  <2> QED
    BY <1>1, <2>2, <2>3, <2>4, OwnHeld DEF HoldsNoMore
<1> QED
  BY <1>2, <1>3, <1>4, <1>5 DEF CounterNext

\* A step of a swapper.
LEMMA SwapperHoldsNoMore ==
  ASSUME Locks, NEW t \in Swapper, HoldsNoMore(t), SwapperNext(t)
  PROVE  HoldsNoMore(t)' /\ OwnLocksOnly(t)
<1>1. /\ t \in Thread /\ SwapperHolds(t)
      /\ t \in DOMAIN pc /\ t \in DOMAIN cur /\ t \in DOMAIN prev
      /\ next \in [Node -> Node \cup {NULL}]
  BY Basics DEF Locks, Types
<1>2. CASE swap_start(t)
  <2>1. pc'[t] = "prev" /\ prev'[t] = first /\ pc[t] = "start"
    BY <1>1, <1>2 DEF swap_start, At, Goto
  <2>2. Looks(t) = {} /\ Looks(t)' = {first} /\ first \in Node
    BY <2>1, Basics DEF Looks
  <2>3. OwnLocksOnly(t)
    BY <1>1, <1>2, <2>2, LockKeeps DEF swap_start
  <2> QED
    BY <1>1, <1>2, <2>2, <2>3, OwnHeld DEF swap_start, HoldsNoMore
<1>3. CASE swap_lock_cur(t)
  <2>1. /\ pc'[t] = "cur" /\ cur'[t] = next[prev[t]] /\ prev'[t] = prev[t]
        /\ pc[t] = "prev"
    BY <1>1, <1>3 DEF swap_lock_cur, At, Goto
  <2>2. prev[t] \in Node /\ next[prev[t]] \in Node
    BY <1>1, <1>3, <2>1 DEF swap_lock_cur, SwapperHolds
  <2>3. Looks(t) = {prev[t]} /\ Looks(t)' = {prev[t], next[prev[t]]}
    BY <2>1 DEF Looks
  <2>4. OwnLocksOnly(t)
    BY <1>1, <1>3, <2>2, LockKeeps DEF swap_lock_cur
  <2> QED
    BY <1>1, <1>3, <2>2, <2>3, <2>4, OwnHeld DEF swap_lock_cur, HoldsNoMore
<1>4. CASE swap_lock_next(t)
  <2>1. /\ pc'[t] = "next" /\ cur'[t] = cur[t] /\ prev'[t] = prev[t]
        /\ pc[t] = "cur" /\ next' = next
    BY <1>1, <1>4 DEF swap_lock_next, At, Goto
  <2>2. cur[t] \in Node /\ next[cur[t]] \in Node
    BY <1>1, <1>4, <2>1 DEF swap_lock_next, SwapperHolds
  <2>3. /\ Looks(t) = {prev[t], cur[t]}
        /\ Looks(t)' = {prev[t], cur[t], next[cur[t]]}
    BY <2>1 DEF Looks
  <2>4. OwnLocksOnly(t)
    BY <1>1, <1>4, <2>2, LockKeeps DEF swap_lock_next
  <2> QED
    BY <1>1, <1>4, <2>2, <2>3, <2>4, OwnHeld DEF swap_lock_next, HoldsNoMore
<1>5. CASE swap_nodes(t)
  <2>1. /\ pc'[t] = "prev" /\ prev'[t] = cur[t] /\ pc[t] = "next"
    BY <1>1, <1>5 DEF swap_nodes, At, Goto
  <2>2. Looks(t) = {prev[t], cur[t], next[cur[t]]} /\ Looks(t)' = {cur[t]}
    BY <2>1 DEF Looks
  <2>3. OwnLocksOnly(t)
    BY <1>1, <1>5, UnlockKeeps DEF swap_nodes
  <2>4. Unlock(t, {next[cur[t]], prev[t]})
    BY <1>5 DEF swap_nodes
  <2> QED
    BY <1>1, <2>2, <2>3, <2>4, OwnHeld DEF HoldsNoMore
<1>6. CASE swap_end(t)
  <2>1. pc'[t] = "start" /\ pc[t] \in {"prev", "cur"}
    BY <1>1, <1>6 DEF swap_end, At, Goto
  <2>2. Looks(t) \subseteq {cur[t], prev[t]} /\ Looks(t)' = {}
    <3>1. CASE pc[t] = "prev"
      BY <2>1, <3>1 DEF Looks
    <3>2. CASE pc[t] = "cur"
      BY <2>1, <3>2 DEF Looks
    <3> QED
      BY <2>1, <3>1, <3>2
  <2>3. OwnLocksOnly(t)
    BY <1>1, <1>6, UnlockKeeps DEF swap_end
  <2>4. Unlock(t, {cur[t], prev[t]})
    BY <1>6 DEF swap_end
  <2> QED
    BY <1>1, <2>2, <2>3, <2>4, OwnHeld DEF HoldsNoMore
<1> QED
  BY <1>2, <1>3, <1>4, <1>5, <1>6 DEF SwapperNext

\* No step leaves a lock behind.
LEMMA StepNothingLeaked ==
  IInv /\ NothingLeaked /\ [Next]_vars => NothingLeaked'
<1> SUFFICES ASSUME IInv, NothingLeaked, [Next]_vars
             PROVE  NothingLeaked'
  OBVIOUS
<1>1. Locks /\ Apart
  BY OrderedApart DEF IInv, Listed
<1>2. ASSUME NEW t \in Counter, CounterNext(t)
      PROVE  NothingLeaked'
  <2>1. OthersKept(t) /\ t \in Thread
    BY <1>1, <1>2, CounterLocks, Basics
  <2>2. HoldsNoMore(t)' /\ OwnLocksOnly(t)
    BY <1>1, <1>2, <2>1, CounterHoldsNoMore DEF NothingLeaked
  <2>3. \A u \in Thread \ {t} : HoldsNoMore(u)'
    BY <1>1, <2>1, <2>2, OthersHoldNoMore
  <2> QED
    BY <2>2, <2>3 DEF NothingLeaked, Thread
<1>3. ASSUME NEW t \in Swapper, SwapperNext(t)
      PROVE  NothingLeaked'
  <2>1. OthersKept(t) /\ t \in Thread
    BY <1>1, <1>3, SwapperLocks, Basics
  <2>2. HoldsNoMore(t)' /\ OwnLocksOnly(t)
    BY <1>1, <1>3, <2>1, SwapperHoldsNoMore DEF NothingLeaked
  <2>3. \A u \in Thread \ {t} : HoldsNoMore(u)'
    BY <1>1, <2>1, <2>2, OthersHoldNoMore
  <2> QED
    BY <2>2, <2>3 DEF NothingLeaked, Thread
<1>4. CASE UNCHANGED vars
  BY <1>4 DEF vars, NothingLeaked, HoldsNoMore, Looks, Thread
<1> QED
  BY <1>2, <1>3, <1>4 DEF Next

\* Behind the last locked node nothing is locked, and that is where its holder
\* wants to go.
LEMMA LastHolderGoesOn ==
  ASSUME IInv, NothingLeaked
  PROVE  NoCircularWait
<1> SUFFICES ASSUME NEW t \in Thread
             PROVE  \E u \in Thread : CanGoOn(u)
  BY DEF NoCircularWait
<1> DEFINE N == STORAGE_SIZE
<1>1. PICK q : Ordered(next, q)
  BY DEF IInv, Listed
<1>2. /\ N \in Nat /\ N >= 1 /\ Place = 1 .. N
      /\ q \in [Place -> Node]
      /\ \A j, k \in Place : q[j] = q[k] => j = k
      /\ \A m \in Node : \E k \in Place : q[k] = m
      /\ \A k \in Place : next[q[k]] = IF k = N THEN NULL ELSE q[k + 1]
  BY <1>1, SharedListAssumption DEF Ordered, Place
<1> HIDE DEF N
<1>3. Locks
  BY DEF IInv
<1>4. ASSUME NEW u \in Thread, NEW m \in Node, Wanted(u) = m, holders[m] = {}
      PROVE  CanGoOn(u)
  BY <1>4 DEF CanGoOn, CanLock
<1>5. CASE \A k \in Place : holders[q[k]] = {}
  <2>1. \A m \in Node : holders[m] = {}
    BY <1>2, <1>5
  <2>2. pc[t] = "start"
    BY <1>3, <2>1, Basics DEF Locks, CounterHolds, SwapperHolds
  <2>3. Wanted(t) = first
    BY <2>2 DEF Wanted
  <2> QED
    BY <1>4, <2>1, <2>3, Basics
<1>6. CASE ~\A k \in Place : holders[q[k]] = {}
  <2> DEFINE F == {N - k : k \in {j \in Place : holders[q[j]] # {}}}
  <2>1. F \in SUBSET Nat /\ F # {}
    <3>1. \A j \in Place : N - j \in Nat
      BY <1>2
    <3>2. PICK j \in Place : holders[q[j]] # {}
      BY <1>6
    <3>3. N - j \in F
      BY <3>2
    <3> QED
      BY <3>1, <3>3
  <2>2. PICK x \in F : \A y \in F : x <= y
    <3> HIDE DEF F
    <3> QED
      BY <2>1, LeastNumber
  <2>3. PICK k \in Place : holders[q[k]] # {} /\ x = N - k
    BY <2>2
  <2>4. ASSUME NEW j \in Place, k < j
        PROVE  holders[q[j]] = {}
    <3>1. ~(N - k <= N - j)
      BY <1>2, <2>4
    <3>2. N - j \notin F
      BY <2>2, <2>3, <3>1
    <3> QED
      BY <3>2
  <2>5. k # N => k + 1 \in Place /\ k < k + 1 /\ next[q[k]] = q[k + 1]
    BY <1>2
  <2>6. next[q[k]] = NULL \/ (next[q[k]] \in Node /\ holders[next[q[k]]] = {})
    <3>1. CASE k = N
      BY <1>2, <3>1
    <3>2. CASE k # N
      BY <1>2, <2>4, <2>5, <3>2
    <3> QED
      BY <3>1, <3>2
  <2> DEFINE m == q[k]
  <2>7. PICK u \in Thread : u \in holders[m]
    BY <1>2, <1>3, <2>3 DEF Locks, Types
  <2>8. m \in Node /\ m \in Looks(u)
    BY <1>2, <2>7 DEF NothingLeaked, HoldsNoMore
  <2>9. next[m] = NULL \/ (next[m] \in Node /\ holders[next[m]] = {})
    BY <2>6
  <2> HIDE DEF m
  <2>10. ASSUME Wanted(u) = next[m]
         PROVE  CanGoOn(u)
    BY <1>4, <2>9, <2>10 DEF CanGoOn
  <2>11. pc[u] \in {"at", "compare", "prev", "cur", "next"}
    <3>1. pc[u] \in {"start", "at", "compare", "prev", "cur", "next"}
      BY <1>3, Basics DEF Locks, CounterHolds, SwapperHolds
    <3>2. pc[u] # "start"
      BY <2>8 DEF Looks
    <3> QED
      BY <3>1, <3>2
  <2>12. CASE pc[u] = "at"
    BY <2>8, <2>10, <2>12 DEF Looks, Wanted
  <2>13. CASE pc[u] = "prev"
    BY <2>8, <2>10, <2>13 DEF Looks, Wanted
  <2>14. CASE pc[u] = "cur"
    <3>1. /\ next[prev[u]] = cur[u] /\ cur[u] \in Node /\ u \in holders[cur[u]]
      BY <1>3, <2>14, Basics DEF Locks, CounterHolds, SwapperHolds
    <3>2. m # prev[u]
      BY <2>9, <3>1, Basics
    <3>3. m = cur[u]
      BY <2>8, <2>14, <3>2 DEF Looks
    <3> QED
      BY <2>10, <2>14, <3>3 DEF Wanted
  <2>15. CASE pc[u] \in {"compare", "next"}
    BY <2>15 DEF CanGoOn, Wanted
  <2> QED
    BY <2>11, <2>12, <2>13, <2>14, <2>15
<1> QED
  BY <1>5, <1>6

\* With any number of counters, swappers and nodes, and with every kind of
\* lock, some thread can always go on: the locks are taken in the order of the
\* list, although the order changes all the time.
THEOREM NoDeadlock == Spec => []NoCircularWait
<1>1. Init => NothingLeaked
  BY DEF Init, NothingLeaked, HoldsNoMore, Looks
<1> QED
  BY <1>1, InitIInv, StepIInv, StepNothingLeaked, LastHolderGoesOn, PTL DEF Spec
=============================================================================
