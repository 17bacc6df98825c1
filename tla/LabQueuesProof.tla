--------------------------- MODULE LabQueuesProof ----------------------------
(***************************************************************************)
(* The queues of lab 2.2, for any number of readers, writers and places.   *)
(*                                                                         *)
(* The three programs share the pointers; what they do to them is one of   *)
(* six changes, proved once about the list they hold.  The programs differ *)
(* in what tells a thread that there is a place or a value.                *)
(***************************************************************************)
EXTENDS LabQueues, PointerWalkProof

-----------------------------------------------------------------------------
(* The list. *)

\* With these pointers the nodes q are the queue; last is only right when
\* there is a node.
ListOf(f, l, nx, c, q) ==
  /\ q \in Seq(Node)
  /\ IsInjective(q)
  /\ c = Len(q)
  /\ Linked(f, nx, NULL, q)
  /\ q # <<>> => l = q[Len(q)]

\* The values that the nodes q hold.
Values(v, q) == [k \in 1 .. Len(q) |-> v[q[k]]]

\* The nodes q, place by place.
LEMMA ListPlaces ==
  ASSUME NEW f, NEW l, NEW nx, NEW c, NEW q, ListOf(f, l, nx, c, q)
  PROVE  /\ c \in Nat /\ c = Len(q) /\ DOMAIN q = 1 .. c
         /\ \A k \in 1 .. c : q[k] \in Node /\ q[k] # NULL /\ q[k] \in ToSet(q)
         /\ \A j, k \in 1 .. c : q[j] = q[k] => j = k
         /\ f = IF c = 0 THEN NULL ELSE q[1]
         /\ c # 0 => l = q[c]
         /\ \A k \in 1 .. c : nx[q[k]] = IF k = c THEN NULL ELSE q[k + 1]
         /\ f = NULL <=> c = 0
         /\ q = <<>> <=> c = 0
<1>1. /\ c \in Nat /\ c = Len(q) /\ DOMAIN q = 1 .. c
      /\ q = <<>> <=> c = 0
      /\ \A k \in 1 .. c : q[k] \in Node /\ q[k] \in ToSet(q)
  BY DEF ListOf, ToSet
<1>2. \A k \in 1 .. c : q[k] # NULL
  BY <1>1, QueueAssumption
<1>3. \A j, k \in 1 .. c : q[j] = q[k] => j = k
  BY <1>1 DEF ListOf, IsInjective
<1>4. /\ f = IF c = 0 THEN NULL ELSE q[1]
      /\ c # 0 => l = q[c]
      /\ \A k \in 1 .. c : nx[q[k]] = IF k = c THEN NULL ELSE q[k + 1]
  BY <1>1 DEF ListOf, Linked
<1>5. f = NULL <=> c = 0
  <2>1. c # 0 => 1 \in 1 .. c
    BY <1>1
  <2> QED
    BY <1>2, <1>4, <2>1
<1> QED
  BY <1>1, <1>2, <1>3, <1>4, <1>5

\* And the other way round.
LEMMA PlacesList ==
  ASSUME NEW f, NEW l, NEW nx, NEW c \in Nat, NEW q \in Seq(Node), Len(q) = c,
         \A j, k \in 1 .. c : q[j] = q[k] => j = k,
         f = IF c = 0 THEN NULL ELSE q[1],
         c # 0 => l = q[c],
         \A k \in 1 .. c : nx[q[k]] = IF k = c THEN NULL ELSE q[k + 1]
  PROVE  ListOf(f, l, nx, c, q)
<1>1. DOMAIN q = 1 .. c /\ (q = <<>> <=> c = 0)
  OBVIOUS
<1> QED
  BY <1>1 DEF ListOf, Linked, IsInjective

\* queue_add links a node that is not in the queue at the end.
LEMMA LinkAtEnd ==
  ASSUME NEW q, ListOf(first, last, next, count, q), TypeOK,
         NEW n \in Node \ ToSet(q), NEW v, LinkNode(n, v)
  PROVE  /\ ListOf(first', last', next', count', Append(q, n))
         /\ Values(val', Append(q, n)) = Append(Values(val, q), v)
         /\ ToSet(Append(q, n)) = ToSet(q) \cup {n}
<1> DEFINE c == Len(q)
           p == Append(q, n)
<1>1. /\ c \in Nat /\ count = c
      /\ \A k \in 1 .. c : q[k] \in Node /\ q[k] # NULL /\ q[k] # n
      /\ \A j, k \in 1 .. c : q[j] = q[k] => j = k
      /\ first = IF c = 0 THEN NULL ELSE q[1]
      /\ c # 0 => last = q[c]
      /\ \A k \in 1 .. c : next[q[k]] = IF k = c THEN NULL ELSE q[k + 1]
      /\ first = NULL <=> c = 0
  BY ListPlaces
<1>2. /\ p \in Seq(Node) /\ Len(p) = c + 1 /\ p[c + 1] = n
      /\ \A k \in 1 .. c : p[k] = q[k]
  BY DEF ListOf
<1>3. /\ \A k \in 1 .. c + 1 : k \in 1 .. c \/ k = c + 1
      /\ \A k \in 1 .. c : k # c + 1 /\ k + 1 # 1 /\ (k # c => k + 1 \in 1 .. c)
      /\ c + 1 \in Nat /\ c + 1 # 0 /\ c + 1 \in 1 .. c + 1
      /\ c # 0 => 1 \in 1 .. c /\ c \in 1 .. c
  BY <1>1
<1>4. DOMAIN p = 1 .. c + 1 /\ DOMAIN q = 1 .. c
  BY <1>2 DEF ListOf
<1> HIDE DEF c, p
<1>5. count' = c + 1 /\ last' = p[c + 1]
  BY <1>1, <1>2 DEF LinkNode
<1>6. first' = p[1]
  BY <1>1, <1>2, <1>3 DEF LinkNode
<1>7. \A j, k \in 1 .. c + 1 : p[j] = p[k] => j = k
  BY <1>1, <1>2, <1>3
<1>8. \A k \in 1 .. c + 1 : next'[p[k]] = IF k = c + 1 THEN NULL ELSE p[k + 1]
  <2>1. next \in [Node -> NodeOrNull]
    BY DEF TypeOK
  <2>2. CASE c = 0
    <3>1. next' = [next EXCEPT ![n] = NULL]
      BY <1>1, <2>2 DEF LinkNode
    <3>2. \A k \in 1 .. c + 1 : k = c + 1
      BY <1>1, <2>2
    <3> QED
      BY <1>2, <2>1, <3>1, <3>2
  <2>3. CASE c # 0
    <3>1. next' = [next EXCEPT ![n] = NULL, ![q[c]] = n]
      BY <1>1, <2>3 DEF LinkNode
    <3>2. /\ next'[n] = NULL /\ next'[q[c]] = n
          /\ \A k \in 1 .. c : k # c => next'[q[k]] = next[q[k]]
      BY <1>1, <1>3, <2>1, <2>3, <3>1
    <3>3. \A k \in 1 .. c : k # c => next'[p[k]] = p[k + 1]
      BY <1>1, <1>2, <1>3, <3>2
    <3>4. next'[p[c]] = p[c + 1] /\ next'[p[c + 1]] = NULL
      BY <1>2, <1>3, <2>3, <3>2
    <3> QED
      BY <1>3, <3>3, <3>4
  <2> QED
    BY <2>2, <2>3
<1>9. ListOf(first', last', next', count', p)
  BY <1>2, <1>3, <1>5, <1>6, <1>7, <1>8, PlacesList
<1>10. Values(val', p) = Append(Values(val, q), v)
  <2>1. val' = [val EXCEPT ![n] = v] /\ val \in [Node -> Value]
    BY DEF LinkNode, TypeOK
  <2>2. \A k \in 1 .. c : val'[p[k]] = val[q[k]]
    BY <1>1, <1>2, <2>1
  <2>3. val'[p[c + 1]] = v
    BY <1>2, <2>1
  <2>4. Values(val, q) = [k \in 1 .. c |-> val[q[k]]]
    BY DEF Values, c
  <2>5. Values(val', p) = [k \in 1 .. c + 1 |-> val'[p[k]]]
    BY <1>2 DEF Values
  <2>6. Append(Values(val, q), v) =
          [k \in 1 .. c + 1 |-> IF k = c + 1 THEN v ELSE val[q[k]]]
    BY <1>1, <1>3, <2>4
  <2>7. \A k \in 1 .. c + 1 :
          val'[p[k]] = IF k = c + 1 THEN v ELSE val[q[k]]
    BY <1>3, <2>2, <2>3
  <2> QED
    BY <2>5, <2>6, <2>7
<1>11. ToSet(p) = ToSet(q) \cup {n}
  BY <1>2, <1>3, <1>4 DEF ToSet
<1> QED
  BY <1>9, <1>10, <1>11 DEF p

\* queue_get takes the first node out; that it is freed with the same step or
\* later is no matter for the others.
LEMMA UnlinkFirst ==
  ASSUME NEW q, ListOf(first, last, next, count, q), count # 0,
         UnlinkNode, last' = last,
         \A m \in Node \ {first} : next'[m] = next[m] /\ val'[m] = val[m]
  PROVE  /\ ListOf(first', last', next', count', Tail(q))
         /\ Values(val', Tail(q)) = Tail(Values(val, q))
         /\ ToSet(Tail(q)) = ToSet(q) \ {first}
         /\ first \in ToSet(q) /\ first \in Node /\ first # NULL
<1> DEFINE c == Len(q)
           p == Tail(q)
<1>1. /\ c \in Nat /\ count = c /\ c # 0
      /\ \A k \in 1 .. c : q[k] \in Node /\ q[k] # NULL /\ q[k] \in ToSet(q)
      /\ \A j, k \in 1 .. c : q[j] = q[k] => j = k
      /\ first = q[1]
      /\ last = q[c]
      /\ \A k \in 1 .. c : next[q[k]] = IF k = c THEN NULL ELSE q[k + 1]
      /\ DOMAIN q = 1 .. c
  BY ListPlaces
<1>2. /\ p \in Seq(Node) /\ Len(p) = c - 1
      /\ \A k \in 1 .. c - 1 : p[k] = q[k + 1]
      /\ DOMAIN p = 1 .. c - 1
  BY <1>1 DEF ListOf
<1>3. /\ c - 1 \in Nat /\ 1 \in 1 .. c
      /\ \A k \in 1 .. c - 1 : /\ k + 1 \in 1 .. c /\ k + 1 # 1
                               /\ k + 1 = c <=> k = c - 1
                               /\ k # c - 1 => k + 1 \in 1 .. c - 1
      /\ \A k \in 1 .. c : k # 1 => k - 1 \in 1 .. c - 1 /\ (k - 1) + 1 = k
      /\ \A j, k \in 1 .. c - 1 : j + 1 = k + 1 => j = k
      /\ c - 1 # 0 => c - 1 \in 1 .. c - 1 /\ 1 \in 1 .. c - 1 /\ 1 # c
      /\ c - 1 = 0 <=> c = 1
      /\ (c - 1) + 1 = c
  BY <1>1
<1> HIDE DEF c, p
<1>4. \A k \in 1 .. c - 1 : /\ p[k] \in Node /\ p[k] # first
                            /\ next'[p[k]] = next[p[k]] /\ val'[p[k]] = val[p[k]]
  BY <1>1, <1>2, <1>3
<1>5. count' = c - 1
  BY <1>1 DEF UnlinkNode
<1>6. first' = IF c - 1 = 0 THEN NULL ELSE p[1]
  <2>1. first' = IF 1 = c THEN NULL ELSE q[1 + 1]
    BY <1>1, <1>3 DEF UnlinkNode
  <2> QED
    BY <1>2, <1>3, <2>1
<1>7. c - 1 # 0 => last' = p[c - 1]
  BY <1>1, <1>2, <1>3
<1>8. \A j, k \in 1 .. c - 1 : p[j] = p[k] => j = k
  BY <1>1, <1>2, <1>3
<1>9. \A k \in 1 .. c - 1 : next'[p[k]] = IF k = c - 1 THEN NULL ELSE p[k + 1]
  <2> SUFFICES ASSUME NEW k \in 1 .. c - 1
               PROVE  next'[p[k]] = IF k = c - 1 THEN NULL ELSE p[k + 1]
    OBVIOUS
  <2>1. next'[p[k]] = IF k + 1 = c THEN NULL ELSE q[(k + 1) + 1]
    BY <1>1, <1>2, <1>3, <1>4
  <2> QED
    BY <1>2, <1>3, <2>1
<1>10. ListOf(first', last', next', count', p)
  BY <1>2, <1>3, <1>5, <1>6, <1>7, <1>8, <1>9, PlacesList
<1>11. Values(val', p) = Tail(Values(val, q))
  <2>1. Values(val, q) = [k \in 1 .. c |-> val[q[k]]]
    BY DEF Values, c
  <2>2. Values(val', p) = [k \in 1 .. c - 1 |-> val'[p[k]]]
    BY <1>2 DEF Values
  <2>3. Tail(Values(val, q)) = [k \in 1 .. c - 1 |-> val[q[k + 1]]]
    BY <1>1, <1>3, <2>1
  <2>4. \A k \in 1 .. c - 1 : val'[p[k]] = val[q[k + 1]]
    BY <1>2, <1>4
  <2> QED
    BY <2>2, <2>3, <2>4
<1>12. ToSet(p) = ToSet(q) \ {first}
  <2>1. ASSUME NEW x
        PROVE  x \in ToSet(p) <=> x \in ToSet(q) /\ x # first
    <3>1. x \in ToSet(p) <=> \E k \in 1 .. c - 1 : x = p[k]
      BY <1>2 DEF ToSet
    <3>2. x \in ToSet(q) <=> \E k \in 1 .. c : x = q[k]
      BY <1>1 DEF ToSet
    <3>3. ASSUME NEW k \in 1 .. c, x = q[k], x # first
          PROVE  \E j \in 1 .. c - 1 : x = p[j]
      <4>1. k # 1
        BY <1>1, <3>3
      <4>2. k - 1 \in 1 .. c - 1 /\ p[k - 1] = q[k]
        BY <1>2, <1>3, <4>1
      <4> QED
        BY <3>3, <4>2
    <3>4. ASSUME NEW j \in 1 .. c - 1, x = p[j]
          PROVE  x # first /\ \E k \in 1 .. c : x = q[k]
      BY <1>2, <1>3, <1>4, <3>4
    <3> QED
      BY <3>1, <3>2, <3>3, <3>4
  <2> QED
    BY <2>1
<1>13. first \in ToSet(q) /\ first \in Node /\ first # NULL
  BY <1>1, <1>3
<1> QED
  BY <1>10, <1>11, <1>12, <1>13 DEF p

\* What happens to other nodes does not change the queue.
LEMMA ListStays ==
  ASSUME NEW q, ListOf(first, last, next, count, q),
         UNCHANGED <<first, last, count>>,
         \A m \in ToSet(q) : next'[m] = next[m] /\ val'[m] = val[m]
  PROVE  /\ ListOf(first', last', next', count', q)
         /\ Values(val', q) = Values(val, q)
<1>1. \A k \in 1 .. Len(q) : q[k] \in ToSet(q)
  BY ListPlaces
<1> QED
  BY <1>1 DEF ListOf, Linked, Values

-----------------------------------------------------------------------------
(* The nodes. *)

Thread == Reader \cup Writer

\* The node that a thread has in hand.
hand == [t \in Thread |-> IF t \in Writer THEN new[t] ELSE tmp[t]]

\* A node in use is in the queue or in the hand of one thread.
Accounted(a, h, q) ==
  /\ a = ToSet(q) \cup {n \in Node : \E t \in Thread : h[t] = n}
  /\ \A t \in Thread : h[t] # NULL =>
       h[t] \notin ToSet(q) /\ \A u \in Thread : h[u] = h[t] => u = t

\* malloc, for the queue or for a hand.
LEMMA AccountNew ==
  ASSUME NEW a, NEW h \in [Thread -> NodeOrNull], NEW q, Accounted(a, h, q),
         NEW n \in Node \ a
  PROVE  /\ n \notin ToSet(q)
         /\ \A p : ToSet(p) = ToSet(q) \cup {n} => Accounted(a \cup {n}, h, p)
         /\ \A t \in Thread : h[t] = NULL =>
              Accounted(a \cup {n}, [h EXCEPT ![t] = n], q)
<1>1. n # NULL /\ \A t \in Thread : h[t] # n
  BY QueueAssumption DEF Accounted
<1>2. n \notin ToSet(q)
  BY DEF Accounted
<1>3. ASSUME NEW p, ToSet(p) = ToSet(q) \cup {n}
      PROVE  Accounted(a \cup {n}, h, p)
  BY <1>1, <1>3 DEF Accounted
<1>4. ASSUME NEW t \in Thread, h[t] = NULL
      PROVE  Accounted(a \cup {n}, [h EXCEPT ![t] = n], q)
  <2>1. \A u \in Thread : [h EXCEPT ![t] = n][u] = IF u = t THEN n ELSE h[u]
    OBVIOUS
  <2> HIDE DEF NodeOrNull
  <2> QED
    BY <1>1, <1>2, <1>4, <2>1, QueueAssumption DEF Accounted
<1> QED
  BY <1>2, <1>3, <1>4

\* From the hand of t into the queue, or back to the heap.
LEMMA AccountGiven ==
  ASSUME NEW a, NEW h \in [Thread -> NodeOrNull], NEW q, Accounted(a, h, q),
         NEW t \in Thread, h[t] # NULL
  PROVE  /\ h[t] \in Node \ ToSet(q) /\ h[t] \in a
         /\ \A p : ToSet(p) = ToSet(q) \cup {h[t]} =>
              Accounted(a, [h EXCEPT ![t] = NULL], p)
         /\ Accounted(a \ {h[t]}, [h EXCEPT ![t] = NULL], q)
<1>1. \A u \in Thread :
        [h EXCEPT ![t] = NULL][u] = IF u = t THEN NULL ELSE h[u]
  OBVIOUS
<1>2. h[t] \in Node
  BY DEF NodeOrNull
<1>3. h[t] \notin ToSet(q) /\ h[t] \in a
  BY <1>2 DEF Accounted
<1>4. ASSUME NEW p, ToSet(p) = ToSet(q) \cup {h[t]}
      PROVE  Accounted(a, [h EXCEPT ![t] = NULL], p)
  BY <1>1, <1>2, <1>3, <1>4, QueueAssumption DEF Accounted
<1>5. Accounted(a \ {h[t]}, [h EXCEPT ![t] = NULL], q)
  BY <1>1, <1>2, <1>3, QueueAssumption DEF Accounted
<1> QED
  BY <1>2, <1>3, <1>4, <1>5

\* From the queue into the hand of t, or back to the heap.
LEMMA AccountTaken ==
  ASSUME NEW a, NEW h \in [Thread -> NodeOrNull], NEW q, Accounted(a, h, q),
         NEW n \in ToSet(q), n \in Node, NEW p, ToSet(p) = ToSet(q) \ {n}
  PROVE  /\ Accounted(a \ {n}, h, p)
         /\ \A t \in Thread : h[t] = NULL => Accounted(a, [h EXCEPT ![t] = n], p)
<1>1. n # NULL /\ \A t \in Thread : h[t] # n
  BY QueueAssumption DEF Accounted
<1>2. Accounted(a \ {n}, h, p)
  BY <1>1 DEF Accounted
<1>3. ASSUME NEW t \in Thread, h[t] = NULL
      PROVE  Accounted(a, [h EXCEPT ![t] = n], p)
  <2>1. \A u \in Thread : [h EXCEPT ![t] = n][u] = IF u = t THEN n ELSE h[u]
    OBVIOUS
  <2> QED
    BY <1>1, <1>3, <2>1, QueueAssumption DEF Accounted
<1> QED
  BY <1>2, <1>3

-----------------------------------------------------------------------------
(* The six changes. *)

\* The nodes q are the queue, and every other node is accounted for.
Queued(q) ==
  /\ ListOf(first, last, next, count, q)
  /\ Accounted(allocated, hand, q)

\* From q to p the fifo makes a step or none.
FifoStep(q, p) ==
  \/ Values(val', p) = Values(val, q)
  \/ Len(q) < max_count /\ \E v \in Value : Values(val', p) = Append(Values(val, q), v)
  \/ q # <<>> /\ Values(val', p) = Tail(Values(val, q))

\* What a step of any of the programs does with a sound queue q.
KeepsQueue(q) ==
  /\ TypeOK'
  /\ \E p : /\ ListOf(first', last', next', count', p)
            /\ Accounted(allocated', hand', p)
            /\ FifoStep(q, p)

LEMMA HandMoves ==
  ASSUME TypeOK
  PROVE  /\ hand \in [Thread -> NodeOrNull]
         /\ \A w \in Writer : hand[w] = new[w]
         /\ \A r \in Reader : hand[r] = tmp[r]
         /\ UNCHANGED <<new, tmp>> => hand' = hand
         /\ \A w \in Writer : \A x :
              new' = [new EXCEPT ![w] = x] /\ tmp' = tmp
                => hand' = [hand EXCEPT ![w] = x]
         /\ \A r \in Reader : \A x :
              tmp' = [tmp EXCEPT ![r] = x] /\ new' = new
                => hand' = [hand EXCEPT ![r] = x]
<1>1. /\ new \in [Writer -> NodeOrNull] /\ tmp \in [Reader -> NodeOrNull]
      /\ \A r \in Reader : r \notin Writer
  BY QueueAssumption DEF TypeOK
<1> QED
  BY <1>1 DEF hand, Thread

LEMMA ListLength ==
  ASSUME TypeOK, NEW q, ListOf(first, last, next, count, q)
  PROVE  /\ Len(q) = count /\ count \in Nat /\ count <= max_count
         /\ q = <<>> <=> count = 0
         /\ max_count \in Nat
BY ListPlaces, QueueAssumption DEF TypeOK

\* Linking a node and counting on keeps the types.
LEMMA LinkTypes ==
  ASSUME TypeOK, NEW w \in Writer, NEW n \in Node, LinkNode(n, i[w]),
         NextValue(w), count # max_count
  PROVE  /\ first' \in NodeOrNull /\ last' \in NodeOrNull
         /\ next' \in [Node -> NodeOrNull] /\ val' \in [Node -> Value]
         /\ count' \in 0 .. max_count /\ i' \in [Writer -> Value]
         /\ i[w] \in Value
<1>1. /\ IntMod \in Nat /\ IntMod > 0 /\ max_count \in Nat
  BY QueueAssumption
<1>2. i[w] \in Value
  BY DEF TypeOK
<1>3. (i[w] + 1) % IntMod \in Value
  BY <1>1, <1>2 DEF Value
<1>4. i' \in [Writer -> Value]
  BY <1>3 DEF NextValue, TypeOK
<1>5. count' \in 0 .. max_count
  BY <1>1 DEF TypeOK, LinkNode
<1>6. /\ first' \in NodeOrNull /\ last' \in NodeOrNull
      /\ next' \in [Node -> NodeOrNull]
  BY DEF TypeOK, LinkNode, NodeOrNull
<1>7. val' \in [Node -> Value]
  BY <1>2 DEF TypeOK, LinkNode
<1> QED
  BY <1>2, <1>4, <1>5, <1>6, <1>7

\* queue_add of condvar and semaphor: malloc and link in one section.
LEMMA AddNew ==
  ASSUME TypeOK, NEW q, Queued(q), NEW w \in Writer, NEW n \in Node \ allocated,
         allocated' = allocated \cup {n}, LinkNode(n, i[w]), NextValue(w),
         UNCHANGED <<new, tmp>>, count # max_count
  PROVE  KeepsQueue(q)
<1>1. /\ hand \in [Thread -> NodeOrNull] /\ hand' = hand
  BY HandMoves
<1>2. /\ n \notin ToSet(q)
      /\ \A p : ToSet(p) = ToSet(q) \cup {n} => Accounted(allocated', hand', p)
  BY <1>1, AccountNew DEF Queued
<1>3. /\ ListOf(first', last', next', count', Append(q, n))
      /\ Values(val', Append(q, n)) = Append(Values(val, q), i[w])
      /\ ToSet(Append(q, n)) = ToSet(q) \cup {n}
  BY <1>2, LinkAtEnd DEF Queued
<1>4. TypeOK' /\ i[w] \in Value
  <2>1. allocated' \in SUBSET Node /\ new' \in [Writer -> NodeOrNull]
        /\ tmp' \in [Reader -> NodeOrNull]
    BY DEF TypeOK
  <2> QED
    BY <2>1, LinkTypes DEF TypeOK
<1>5. Len(q) < max_count
  BY ListLength DEF Queued
<1>6. FifoStep(q, Append(q, n))
  BY <1>3, <1>4, <1>5 DEF FifoStep
<1> QED
  BY <1>2, <1>3, <1>4, <1>6 DEF KeepsQueue

\* queue_add of mutex and spinlock, before the lock ...
LEMMA AllocHand ==
  ASSUME TypeOK, NEW q, Queued(q), NEW w \in Writer, NEW n \in Node \ allocated,
         new[w] = NULL, allocated' = allocated \cup {n},
         new' = [new EXCEPT ![w] = n],
         UNCHANGED <<first, last, next, val, count, i, tmp>>
  PROVE  KeepsQueue(q)
<1>1. /\ hand \in [Thread -> NodeOrNull] /\ hand' = [hand EXCEPT ![w] = n]
      /\ hand[w] = NULL /\ w \in Thread
  BY HandMoves DEF Thread
<1>2. Accounted(allocated', hand', q)
  BY <1>1, AccountNew DEF Queued
<1>3. TypeOK'
  BY DEF TypeOK, NodeOrNull
<1>4. /\ ListOf(first', last', next', count', q)
      /\ Values(val', q) = Values(val, q)
  BY ListStays DEF Queued
<1> QED
  BY <1>2, <1>3, <1>4 DEF KeepsQueue, FifoStep

\* ... and with it.
LEMMA AddHand ==
  ASSUME TypeOK, NEW q, Queued(q), NEW w \in Writer, new[w] # NULL,
         count # max_count, LinkNode(new[w], i[w]), NextValue(w),
         new' = [new EXCEPT ![w] = NULL], UNCHANGED <<allocated, tmp>>
  PROVE  KeepsQueue(q)
<1>1. PICK n : n = new[w]
  OBVIOUS
<1>2. /\ hand \in [Thread -> NodeOrNull] /\ hand' = [hand EXCEPT ![w] = NULL]
      /\ hand[w] = n /\ n # NULL /\ w \in Thread
  BY <1>1, HandMoves DEF Thread
<1>3. /\ n \in Node \ ToSet(q)
      /\ \A p : ToSet(p) = ToSet(q) \cup {n} => Accounted(allocated', hand', p)
  BY <1>2, AccountGiven DEF Queued
<1>4. /\ ListOf(first', last', next', count', Append(q, n))
      /\ Values(val', Append(q, n)) = Append(Values(val, q), i[w])
      /\ ToSet(Append(q, n)) = ToSet(q) \cup {n}
  BY <1>1, <1>3, LinkAtEnd DEF Queued
<1>5. TypeOK' /\ i[w] \in Value
  <2>1. allocated' \in SUBSET Node /\ new' \in [Writer -> NodeOrNull]
        /\ tmp' \in [Reader -> NodeOrNull]
    BY DEF TypeOK, NodeOrNull
  <2> QED
    BY <1>1, <1>3, <2>1, LinkTypes DEF TypeOK
<1>6. Len(q) < max_count
  BY ListLength DEF Queued
<1>7. FifoStep(q, Append(q, n))
  BY <1>4, <1>5, <1>6 DEF FifoStep
<1> QED
  BY <1>3, <1>4, <1>5, <1>7 DEF KeepsQueue

\* A thread frees what it has in hand, without the lock.
LEMMA FreeHand ==
  ASSUME TypeOK, NEW q, Queued(q), NEW t \in Thread, hand[t] # NULL,
         FreeNode(hand[t]), hand' = [hand EXCEPT ![t] = NULL],
         new' \in [Writer -> NodeOrNull], tmp' \in [Reader -> NodeOrNull],
         UNCHANGED <<first, last, count, i>>
  PROVE  KeepsQueue(q)
<1>1. PICK n : n = hand[t]
  OBVIOUS
<1>2. /\ n \in Node \ ToSet(q)
      /\ Accounted(allocated \ {n}, [hand EXCEPT ![t] = NULL], q)
  BY <1>1, HandMoves, AccountGiven DEF Queued
<1>3. /\ allocated' = allocated \ {n} /\ next' = [next EXCEPT ![n] = NULL]
      /\ val' = [val EXCEPT ![n] = 0]
  BY <1>1 DEF FreeNode
<1>4. Accounted(allocated', hand', q)
  BY <1>2, <1>3
<1>5. TypeOK'
  <2>1. 0 \in Value
    BY QueueAssumption DEF Value
  <2> QED
    BY <1>3, <2>1 DEF TypeOK, NodeOrNull
<1>6. \A m \in ToSet(q) : next'[m] = next[m] /\ val'[m] = val[m]
  BY <1>2, <1>3 DEF TypeOK
<1>7. /\ ListOf(first', last', next', count', q)
      /\ Values(val', q) = Values(val, q)
  BY <1>6, ListStays DEF Queued
<1> QED
  BY <1>4, <1>5, <1>7 DEF KeepsQueue, FifoStep

\* queue_get of condvar, mutex and spinlock: the node is freed later ...
LEMMA TakeHand ==
  ASSUME TypeOK, NEW q, Queued(q), NEW r \in Reader, tmp[r] = NULL, count # 0,
         tmp' = [tmp EXCEPT ![r] = first], UnlinkNode,
         UNCHANGED <<allocated, last, next, val, i, new>>
  PROVE  KeepsQueue(q)
<1>1. /\ ListOf(first', last', next', count', Tail(q))
      /\ Values(val', Tail(q)) = Tail(Values(val, q))
      /\ ToSet(Tail(q)) = ToSet(q) \ {first}
      /\ first \in ToSet(q) /\ first \in Node
  BY UnlinkFirst DEF Queued
<1>2. /\ hand \in [Thread -> NodeOrNull] /\ hand' = [hand EXCEPT ![r] = first]
      /\ hand[r] = NULL /\ r \in Thread
  BY HandMoves DEF Thread
<1>3. Accounted(allocated', hand', Tail(q))
  BY <1>1, <1>2, AccountTaken DEF Queued
<1>4. TypeOK'
  <2>1. first' \in NodeOrNull /\ count' \in 0 .. max_count
    <3>1. first' \in NodeOrNull
      BY <1>1 DEF TypeOK, UnlinkNode
    <3>2. count' \in 0 .. max_count
      BY QueueAssumption DEF TypeOK, UnlinkNode
    <3> QED
      BY <3>1, <3>2
  <2> QED
    BY <1>1, <2>1 DEF TypeOK, NodeOrNull
<1>5. FifoStep(q, Tail(q))
  BY <1>1, ListLength DEF FifoStep, Queued
<1> QED
  BY <1>1, <1>3, <1>4, <1>5 DEF KeepsQueue

\* ... and of semaphor: with the same lock.
LEMMA TakeFree ==
  ASSUME TypeOK, NEW q, Queued(q), count # 0, UnlinkNode, FreeNode(first),
         UNCHANGED <<last, i, new, tmp>>
  PROVE  KeepsQueue(q)
<1>1. /\ next \in [Node -> NodeOrNull] /\ val \in [Node -> Value]
  BY DEF TypeOK
<1>2. /\ allocated' = allocated \ {first} /\ next' = [next EXCEPT ![first] = NULL]
      /\ val' = [val EXCEPT ![first] = 0]
  BY DEF FreeNode
<1>3. /\ ListOf(first', last', next', count', Tail(q))
      /\ Values(val', Tail(q)) = Tail(Values(val, q))
      /\ ToSet(Tail(q)) = ToSet(q) \ {first}
      /\ first \in ToSet(q) /\ first \in Node
  BY <1>1, <1>2, UnlinkFirst DEF Queued
<1>4. Accounted(allocated', hand', Tail(q))
  <2>1. hand \in [Thread -> NodeOrNull] /\ hand' = hand
    BY HandMoves
  <2>2. Accounted(allocated \ {first}, hand, Tail(q))
    BY <1>3, <2>1, AccountTaken DEF Queued
  <2> QED
    BY <1>2, <2>1, <2>2
<1>5. TypeOK'
  <2>1. first' \in NodeOrNull /\ count' \in 0 .. max_count
    <3>1. first' \in NodeOrNull
      BY <1>3 DEF TypeOK, UnlinkNode
    <3>2. count' \in 0 .. max_count
      BY QueueAssumption DEF TypeOK, UnlinkNode
    <3> QED
      BY <3>1, <3>2
  <2>2. 0 \in Value
    BY QueueAssumption DEF Value
  <2> QED
    BY <1>2, <2>1, <2>2 DEF TypeOK, NodeOrNull
<1>6. FifoStep(q, Tail(q))
  BY <1>3, ListLength DEF FifoStep, Queued
<1> QED
  BY <1>3, <1>4, <1>5, <1>6 DEF KeepsQueue

\* A step that leaves the queue alone.
LEMMA QueueQuiet ==
  ASSUME TypeOK, NEW q, Queued(q), UNCHANGED queueVars
  PROVE  KeepsQueue(q)
<1>1. TypeOK' /\ hand' = hand
  BY HandMoves DEF TypeOK, queueVars
<1> QED
  BY <1>1 DEF KeepsQueue, FifoStep, Queued, queueVars

-----------------------------------------------------------------------------
(* The programs. *)

\* The threads between their semaphore and the mutex.
AtMutex(T) == {u \in T : pc[u] = "lock"}

\* Every place is free, or full, or in the hands of a thread at the mutex.
SemaphoreInv ==
  program = "semaphor" =>
    /\ Semaphore!SemTypeOK
    /\ sem_emptiness + Cardinality(AtMutex(Writer)) + count = max_count
    /\ sem_fullness + Cardinality(AtMutex(Reader)) = count
    /\ \A t \in Thread : pc[t] # "aborted"

\* The inductive invariant.
IInv ==
  /\ TypeOK
  /\ \E q : Queued(q)
  /\ cond_not_empty \subseteq Reader /\ cond_not_full \subseteq Writer
  /\ program # "condvar" => cond_not_empty = {} /\ cond_not_full = {}
  /\ NoLostWakeup
  /\ SemaphoreInv

\* How their number changes when one thread comes or goes.
LEMMA OneMoves ==
  ASSUME NEW T, IsFiniteSet(T), NEW A \in SUBSET T, NEW B \in SUBSET T,
         NEW t \in T, \A u \in T \ {t} : u \in A <=> u \in B
  PROVE  /\ Cardinality(A) \in Nat /\ Cardinality(B) \in Nat
         /\ t \in A => Cardinality(A) # 0
         /\ t \in A /\ t \notin B => Cardinality(B) = Cardinality(A) - 1
         /\ t \notin A /\ t \in B => Cardinality(B) = Cardinality(A) + 1
         /\ t \notin A /\ t \notin B => Cardinality(B) = Cardinality(A)
<1>1. IsFiniteSet(A) /\ IsFiniteSet(B)
  BY FS_Subset
<1>2. Cardinality(A) \in Nat /\ Cardinality(B) \in Nat
  BY <1>1, FS_CardinalityType
<1>3. /\ t \in A /\ t \notin B => B = A \ {t}
      /\ t \notin A /\ t \in B => B = A \cup {t}
      /\ t \notin A /\ t \notin B => B = A
  OBVIOUS
<1>4. t \in A => Cardinality(A) # 0
  BY <1>1, FS_EmptySet
<1>5. t \in A => Cardinality(A \ {t}) = Cardinality(A) - 1
  BY <1>1, FS_RemoveElement
<1>6. t \notin A => Cardinality(A \cup {t}) = Cardinality(A) + 1
  BY <1>1, FS_AddElement
<1> QED
  BY <1>2, <1>3, <1>4, <1>5, <1>6

LEMMA InitIInv == Init => IInv
<1> SUFFICES ASSUME Init
             PROVE  IInv
  OBVIOUS
<1> USE DEF Condvar!Init, Condvar!queue_init, Semaphore!Init
<1>1. TypeOK
  <2>1. 0 \in Value /\ 0 \in 0 .. max_count
    BY QueueAssumption DEF Value
  <2> QED
    BY <2>1 DEF Init, TypeOK, NodeOrNull
<1>2. Queued(<<>>)
  <2>1. ListOf(first, last, next, count, <<>>)
    BY DEF Init, ListOf, Linked, IsInjective
  <2>2. Accounted(allocated, hand, <<>>)
    <3>1. allocated = {} /\ \A t \in Thread : hand[t] = NULL
      BY DEF Init, hand, Thread
    <3>2. ToSet(<<>>) = {}
      BY DEF ToSet
    <3> QED
      BY <3>1, <3>2, QueueAssumption DEF Accounted
  <2> QED
    BY <2>1, <2>2 DEF Queued
<1>3. cond_not_empty = {} /\ cond_not_full = {}
  BY DEF Init
<1>4. NoLostWakeup
  BY <1>3, QueueAssumption DEF NoLostWakeup, Condvar!NoLostWakeup
<1>5. SemaphoreInv
  <2>1. /\ count = 0 /\ sem_emptiness = max_count /\ sem_fullness = 0
        /\ \A t \in Reader \cup Writer : pc[t] = "assert"
        /\ pc \in [Reader \cup Writer -> Semaphore!Pc]
    BY DEF Init, Semaphore!Pc
  <2>2. AtMutex(Reader) = {} /\ AtMutex(Writer) = {}
    BY <2>1 DEF AtMutex
  <2>3. Cardinality(AtMutex(Reader)) = 0 /\ Cardinality(AtMutex(Writer)) = 0
    BY <2>2, FS_EmptySet
  <2> QED
    BY <2>1, <2>3, QueueAssumption
       DEF SemaphoreInv, Semaphore!SemTypeOK, Thread
<1> QED
  BY <1>1, <1>2, <1>3, <1>4, <1>5 DEF IInv

\* A thread at the mutex of semaphor has its place or its value.
LEMMA LockingHasPlace ==
  ASSUME IInv, program = "semaphor"
  PROVE  /\ \A w \in Writer : pc[w] = "lock" => count # max_count
         /\ \A r \in Reader : pc[r] = "lock" => count # 0
<1>1. /\ sem_emptiness + Cardinality(AtMutex(Writer)) + count = max_count
      /\ sem_fullness + Cardinality(AtMutex(Reader)) = count
      /\ sem_emptiness \in Nat /\ sem_fullness \in Nat /\ count \in Nat
  BY DEF IInv, SemaphoreInv, Semaphore!SemTypeOK, TypeOK
<1>2. ASSUME NEW T, IsFiniteSet(T), NEW t \in T, pc[t] = "lock"
      PROVE  Cardinality(AtMutex(T)) \in Nat \ {0}
  <2>1. AtMutex(T) \in SUBSET T /\ t \in AtMutex(T)
    BY <1>2 DEF AtMutex
  <2> QED
    BY <1>2, <2>1, OneMoves
<1>3. ASSUME NEW w \in Writer, pc[w] = "lock"
      PROVE  count # max_count
  <2>1. Cardinality(AtMutex(Writer)) \in Nat \ {0}
    BY <1>2, <1>3, QueueAssumption
  <2> QED
    BY <1>1, <2>1, QueueAssumption
<1>4. ASSUME NEW r \in Reader, pc[r] = "lock"
      PROVE  count # 0
  <2>1. Cardinality(AtMutex(Reader)) \in Nat \ {0}
    BY <1>2, <1>4, QueueAssumption
  <2> QED
    BY <1>1, <2>1
<1> QED
  BY <1>3, <1>4

\* Whatever program runs, its step keeps the queue.
LEMMA StepQueue ==
  ASSUME IInv, NEW q, Queued(q), [Next]_vars
  PROVE  KeepsQueue(q)
<1>1. TypeOK
  BY DEF IInv
<1>2. CASE UNCHANGED queueVars
  BY <1>1, <1>2, QueueQuiet
<1>3. ASSUME NEW w \in Writer, Condvar!queue_add(w)
      PROVE  KeepsQueue(q)
  BY <1>1, <1>3, AddNew
     DEF Condvar!queue_add, Condvar!LinkNode, LinkNode, Condvar!NextValue,
         NextValue
<1>4. ASSUME NEW r \in Reader, Condvar!queue_get(r)
      PROVE  KeepsQueue(q)
  BY <1>1, <1>4, TakeHand DEF Condvar!queue_get, Condvar!UnlinkNode, UnlinkNode
<1>5. ASSUME NEW r \in Reader, tmp[r] # NULL, FreeNode(tmp[r]),
             tmp' = [tmp EXCEPT ![r] = NULL],
             UNCHANGED <<first, last, count, i, new>>
      PROVE  KeepsQueue(q)
  <2>1. /\ hand[r] = tmp[r] /\ hand' = [hand EXCEPT ![r] = NULL] /\ r \in Thread
    BY <1>1, <1>5, HandMoves DEF Thread
  <2>2. tmp' \in [Reader -> NodeOrNull] /\ new' \in [Writer -> NodeOrNull]
    BY <1>1, <1>5 DEF TypeOK, NodeOrNull
  <2> QED
    BY <1>1, <1>5, <2>1, <2>2, FreeHand
<1>6. ASSUME NEW w \in Writer, program = "semaphor", Semaphore!queue_add(w)
      PROVE  KeepsQueue(q)
  <2>1. count # max_count
    BY <1>6, LockingHasPlace DEF Semaphore!queue_add, Semaphore!At
  <2> QED
    BY <1>1, <1>6, <2>1, AddNew
       DEF Semaphore!queue_add, Semaphore!LinkNode, LinkNode,
           Semaphore!NextValue, NextValue
<1>7. ASSUME NEW r \in Reader, program = "semaphor", Semaphore!queue_get(r)
      PROVE  KeepsQueue(q)
  <2>1. count # 0
    BY <1>7, LockingHasPlace DEF Semaphore!queue_get, Semaphore!At
  <2> QED
    BY <1>1, <1>7, <2>1, TakeFree
       DEF Semaphore!queue_get, Semaphore!UnlinkNode, UnlinkNode,
           Semaphore!FreeNode, FreeNode
<1>8. ASSUME NEW w \in Writer, Lock!WriterNext(w)
      PROVE  KeepsQueue(q)
  <2>1. CASE Lock!queue_add_alloc(w)
    BY <1>1, <2>1, AllocHand DEF Lock!queue_add_alloc
  <2>2. CASE Lock!queue_add(w)
    BY <1>1, <2>2, AddHand
       DEF Lock!queue_add, Lock!LinkNode, LinkNode, Lock!NextValue, NextValue
  <2>3. CASE Lock!queue_add_full(w)
    <3>1. /\ new[w] # NULL /\ FreeNode(new[w])
          /\ new' = [new EXCEPT ![w] = NULL]
          /\ UNCHANGED <<first, last, count, i, tmp>>
      BY <2>3 DEF Lock!queue_add_full, Lock!FreeNode, FreeNode
    <3>2. hand[w] = new[w] /\ hand' = [hand EXCEPT ![w] = NULL] /\ w \in Thread
      BY <1>1, <3>1, HandMoves DEF Thread
    <3>3. tmp' \in [Reader -> NodeOrNull] /\ new' \in [Writer -> NodeOrNull]
      BY <1>1, <3>1 DEF TypeOK, NodeOrNull
    <3> QED
      BY <1>1, <3>1, <3>2, <3>3, FreeHand
  <2> QED
    BY <1>8, <2>1, <2>2, <2>3 DEF Lock!WriterNext
<1>9. ASSUME NEW r \in Reader, Lock!ReaderNext(r)
      PROVE  KeepsQueue(q)
  <2>1. CASE Lock!queue_get(r)
    BY <1>1, <2>1, TakeHand DEF Lock!queue_get, Lock!UnlinkNode, UnlinkNode
  <2>2. CASE Lock!queue_get_free(r)
    BY <1>5, <2>2 DEF Lock!queue_get_free, Lock!FreeNode, FreeNode
  <2> QED
    BY <1>9, <2>1, <2>2 DEF Lock!ReaderNext
<1>10. CASE Condvar!Next
  <2>1. ASSUME NEW r \in Reader, Condvar!queue_get_free(r)
        PROVE  KeepsQueue(q)
    BY <1>5, <2>1 DEF Condvar!queue_get_free, Condvar!FreeNode, FreeNode
  <2> QED
    BY <1>2, <1>3, <1>4, <1>10, <2>1
       DEF Condvar!Next, Condvar!WriterNext, Condvar!ReaderNext,
           Condvar!queue_add_wait, Condvar!queue_get_wait,
           Condvar!spurious_wakeup, Condvar!queueVars, queueVars
<1>11. CASE program = "semaphor" /\ Semaphore!Next
  BY <1>2, <1>6, <1>7, <1>11
     DEF Semaphore!Next, Semaphore!WriterNext, Semaphore!ReaderNext,
         Semaphore!queue_add_assert, Semaphore!queue_add_sem_wait,
         Semaphore!queue_get_assert, Semaphore!queue_get_sem_wait,
         Semaphore!queueVars, queueVars
<1>12. CASE Lock!Next
  BY <1>8, <1>9, <1>12 DEF Lock!Next
<1> QED
  BY <1>2, <1>10, <1>11, <1>12 DEF Next, vars

\* The threads at the mutex when thread t of T moves from one place to p.
LEMMA MutexMoves ==
  ASSUME NEW T \in {Reader, Writer}, NEW t \in T, NEW p,
         pc \in [Thread -> Semaphore!Pc], pc' = [pc EXCEPT ![t] = p],
         NEW U \in {Reader, Writer}, U # T
  PROVE  /\ AtMutex(U)' = AtMutex(U)
         /\ Cardinality(AtMutex(T)) \in Nat /\ Cardinality(AtMutex(T)') \in Nat
         /\ pc[t] = "lock" /\ p # "lock" =>
              Cardinality(AtMutex(T)') = Cardinality(AtMutex(T)) - 1
         /\ pc[t] # "lock" /\ p = "lock" =>
              Cardinality(AtMutex(T)') = Cardinality(AtMutex(T)) + 1
         /\ pc[t] # "lock" /\ p # "lock" =>
              Cardinality(AtMutex(T)') = Cardinality(AtMutex(T))
<1>1. IsFiniteSet(T) /\ T \subseteq Thread /\ U \subseteq Thread /\ t \notin U
  BY QueueAssumption DEF Thread
<1>2. AtMutex(U)' = AtMutex(U)
  BY <1>1 DEF AtMutex
<1>3. PICK A, B : A = AtMutex(T) /\ B = AtMutex(T)'
  OBVIOUS
<1>4. /\ A \in SUBSET T /\ B \in SUBSET T
      /\ \A u \in T \ {t} : u \in A <=> u \in B
      /\ t \in A <=> pc[t] = "lock"
      /\ t \in B <=> p = "lock"
  BY <1>1, <1>3 DEF AtMutex
<1>5. /\ Cardinality(A) \in Nat /\ Cardinality(B) \in Nat
      /\ t \in A /\ t \notin B => Cardinality(B) = Cardinality(A) - 1
      /\ t \notin A /\ t \in B => Cardinality(B) = Cardinality(A) + 1
      /\ t \notin A /\ t \notin B => Cardinality(B) = Cardinality(A)
  BY <1>1, <1>4, OneMoves
<1> QED
  BY <1>2, <1>3, <1>4, <1>5

\* sem_wait and sem_post keep the account of the places.
LEMMA StepSemaphores ==
  ASSUME IInv, TypeOK', [Next]_vars
  PROVE  SemaphoreInv'
<1>1. CASE program # "semaphor" \/ UNCHANGED vars
  BY <1>1
     DEF IInv, SemaphoreInv, Next, vars, queueVars, semVars, AtMutex,
         Semaphore!SemTypeOK
<1>2. CASE program = "semaphor" /\ Semaphore!Next /\ program' = program
  <2> DEFINE W == Cardinality(AtMutex(Writer))
             R == Cardinality(AtMutex(Reader))
  <2>1. /\ sem_emptiness + W + count = max_count
        /\ sem_fullness + R = count
        /\ sem_emptiness \in 0 .. max_count /\ sem_fullness \in 0 .. max_count
        /\ pc \in [Thread -> Semaphore!Pc]
        /\ \A t \in Thread : pc[t] # "aborted"
    BY <1>2 DEF IInv, SemaphoreInv, Semaphore!SemTypeOK, Thread
  <2>2. count \in 0 .. max_count /\ count' \in 0 .. max_count
    BY DEF IInv, TypeOK
  <2>3. Writer # Reader
    BY QueueAssumption
  <2>4. ASSUME NEW t \in Thread, NEW p \in Semaphore!Pc \ {"aborted"},
               pc' = [pc EXCEPT ![t] = p],
               sem_emptiness' + W' + count' = max_count,
               sem_fullness' + R' = count',
               W' \in Nat, R' \in Nat, sem_emptiness' \in Nat,
               sem_fullness' \in Nat
        PROVE  SemaphoreInv'
    <3>1. /\ pc' \in [Thread -> Semaphore!Pc]
          /\ \A u \in Thread : pc'[u] # "aborted"
      BY <2>1, <2>4
    <3>2. /\ sem_emptiness' \in 0 .. max_count
          /\ sem_fullness' \in 0 .. max_count
      BY <2>2, <2>4, QueueAssumption
    <3> QED
      BY <2>4, <3>1, <3>2 DEF SemaphoreInv, Semaphore!SemTypeOK, Thread
  <2>5. W \in Nat /\ R \in Nat
    <3>1. AtMutex(Writer) \in SUBSET Writer /\ AtMutex(Reader) \in SUBSET Reader
      BY DEF AtMutex
    <3> QED
      BY <3>1, FS_Subset, FS_CardinalityType, QueueAssumption
  <2> HIDE DEF W, R
  <2>6. CASE \E w \in Writer : Semaphore!WriterNext(w)
    <3>1. PICK w \in Writer : Semaphore!WriterNext(w)
      BY <2>6
    <3>2. w \in Thread
      BY DEF Thread
    <3>3. ASSUME NEW p, pc' = [pc EXCEPT ![w] = p]
          PROVE  /\ R' = R /\ W' \in Nat
                 /\ pc[w] = "lock" /\ p # "lock" => W' = W - 1
                 /\ pc[w] # "lock" /\ p = "lock" => W' = W + 1
                 /\ pc[w] # "lock" /\ p # "lock" => W' = W
      BY <2>1, <2>3, <3>3, MutexMoves DEF W, R
    <3>4. CASE Semaphore!queue_add_assert(w)
      <4>1. /\ pc' = [pc EXCEPT ![w] = "sem_wait"] /\ pc[w] = "assert"
            /\ UNCHANGED <<count, sem_emptiness, sem_fullness>>
        BY <2>2, <3>4, QueueAssumption
           DEF Semaphore!queue_add_assert, Semaphore!At, Semaphore!Goto,
               Semaphore!queueVars, Semaphore!semVars
      <4>2. W' = W /\ R' = R
        <5>1. "sem_wait" # "lock" /\ "assert" # "lock"
          OBVIOUS
        <5> QED
          BY ONLY <3>3, <4>1, <5>1
      <4>3. "sem_wait" \in Semaphore!Pc \ {"aborted"}
        BY DEF Semaphore!Pc
      <4>4. /\ sem_emptiness' + W' + count' = max_count
            /\ sem_fullness' + R' = count'
            /\ W' \in Nat /\ R' \in Nat
            /\ sem_emptiness' \in Nat /\ sem_fullness' \in Nat
        BY <2>1, <2>2, <2>5, <4>1, <4>2
      <4> QED
        BY <2>4, <3>2, <4>1, <4>3, <4>4
    <3>5. CASE Semaphore!queue_add_sem_wait(w)
      <4>1. /\ pc' = [pc EXCEPT ![w] = "lock"] /\ pc[w] = "sem_wait"
            /\ sem_emptiness > 0 /\ sem_emptiness' = sem_emptiness - 1
            /\ UNCHANGED <<count, sem_fullness>>
        BY <3>5
           DEF Semaphore!queue_add_sem_wait, Semaphore!At, Semaphore!Goto,
               Semaphore!queueVars
      <4>2. W' = W + 1 /\ R' = R
        BY <3>3, <4>1
      <4>3. "lock" \in Semaphore!Pc \ {"aborted"}
        BY DEF Semaphore!Pc
      <4>4. /\ sem_emptiness' + W' + count' = max_count
            /\ sem_fullness' + R' = count'
            /\ W' \in Nat /\ R' \in Nat
            /\ sem_emptiness' \in Nat /\ sem_fullness' \in Nat
        BY <2>1, <2>2, <2>5, <4>1, <4>2, QueueAssumption
      <4> QED
        BY <2>4, <3>2, <4>1, <4>3, <4>4
    <3>6. CASE Semaphore!queue_add(w)
      <4>1. /\ pc' = [pc EXCEPT ![w] = "assert"] /\ pc[w] = "lock"
            /\ count' = count + 1
            /\ sem_fullness' = sem_fullness + 1 /\ UNCHANGED sem_emptiness
        BY <3>6
           DEF Semaphore!queue_add, Semaphore!At, Semaphore!Goto,
               Semaphore!LinkNode
      <4>2. W' = W - 1 /\ W' \in Nat /\ R' = R
        <5>1. PICK p : p = "assert"
          OBVIOUS
        <5>2. pc' = [pc EXCEPT ![w] = p] /\ pc[w] = "lock" /\ p # "lock"
          BY <4>1, <5>1
        <5>3. R' = R /\ W' \in Nat
          BY <3>3, <5>2
        <5>4. W' = W - 1
          BY <3>3, <5>2
        <5> QED
          BY <5>3, <5>4
      <4>3. "assert" \in Semaphore!Pc \ {"aborted"}
        BY DEF Semaphore!Pc
      <4>4. /\ sem_emptiness' + W' + count' = max_count
            /\ sem_fullness' + R' = count'
            /\ W' \in Nat /\ R' \in Nat
            /\ sem_emptiness' \in Nat /\ sem_fullness' \in Nat
        BY <2>1, <2>2, <2>5, <4>1, <4>2, QueueAssumption
      <4> QED
        BY <2>4, <3>2, <4>1, <4>3, <4>4
    <3> QED
      BY <3>1, <3>4, <3>5, <3>6 DEF Semaphore!WriterNext
  <2>7. CASE \E r \in Reader : Semaphore!ReaderNext(r)
    <3>1. PICK r \in Reader : Semaphore!ReaderNext(r)
      BY <2>7
    <3>2. r \in Thread
      BY DEF Thread
    <3>3. ASSUME NEW p, pc' = [pc EXCEPT ![r] = p]
          PROVE  /\ W' = W /\ R' \in Nat
                 /\ pc[r] = "lock" /\ p # "lock" => R' = R - 1
                 /\ pc[r] # "lock" /\ p = "lock" => R' = R + 1
                 /\ pc[r] # "lock" /\ p # "lock" => R' = R
      BY <2>1, <2>3, <3>3, MutexMoves DEF W, R
    <3>4. CASE Semaphore!queue_get_assert(r)
      <4>1. /\ pc' = [pc EXCEPT ![r] = "sem_wait"] /\ pc[r] = "assert"
            /\ UNCHANGED <<count, sem_emptiness, sem_fullness>>
        BY <2>2, <3>4, QueueAssumption
           DEF Semaphore!queue_get_assert, Semaphore!At, Semaphore!Goto,
               Semaphore!queueVars, Semaphore!semVars
      <4>2. R' = R /\ W' = W
        <5>1. "sem_wait" # "lock" /\ "assert" # "lock"
          OBVIOUS
        <5> QED
          BY ONLY <3>3, <4>1, <5>1
      <4>3. "sem_wait" \in Semaphore!Pc \ {"aborted"}
        BY DEF Semaphore!Pc
      <4>4. /\ sem_emptiness' + W' + count' = max_count
            /\ sem_fullness' + R' = count'
            /\ W' \in Nat /\ R' \in Nat
            /\ sem_emptiness' \in Nat /\ sem_fullness' \in Nat
        BY <2>1, <2>2, <2>5, <4>1, <4>2
      <4> QED
        BY <2>4, <3>2, <4>1, <4>3, <4>4
    <3>5. CASE Semaphore!queue_get_sem_wait(r)
      <4>1. /\ pc' = [pc EXCEPT ![r] = "lock"] /\ pc[r] = "sem_wait"
            /\ sem_fullness > 0 /\ sem_fullness' = sem_fullness - 1
            /\ UNCHANGED <<count, sem_emptiness>>
        BY <3>5
           DEF Semaphore!queue_get_sem_wait, Semaphore!At, Semaphore!Goto,
               Semaphore!queueVars
      <4>2. R' = R + 1 /\ W' = W
        BY <3>3, <4>1
      <4>3. "lock" \in Semaphore!Pc \ {"aborted"}
        BY DEF Semaphore!Pc
      <4>4. /\ sem_emptiness' + W' + count' = max_count
            /\ sem_fullness' + R' = count'
            /\ W' \in Nat /\ R' \in Nat
            /\ sem_emptiness' \in Nat /\ sem_fullness' \in Nat
        BY <2>1, <2>2, <2>5, <4>1, <4>2, QueueAssumption
      <4> QED
        BY <2>4, <3>2, <4>1, <4>3, <4>4
    <3>6. CASE Semaphore!queue_get(r)
      <4>1. /\ pc' = [pc EXCEPT ![r] = "assert"] /\ pc[r] = "lock"
            /\ count' = count - 1
            /\ sem_emptiness' = sem_emptiness + 1 /\ UNCHANGED sem_fullness
        BY <3>6
           DEF Semaphore!queue_get, Semaphore!At, Semaphore!Goto,
               Semaphore!UnlinkNode
      <4>2. R' = R - 1 /\ R' \in Nat /\ W' = W
        <5>1. PICK p : p = "assert"
          OBVIOUS
        <5>2. pc' = [pc EXCEPT ![r] = p] /\ pc[r] = "lock" /\ p # "lock"
          BY <4>1, <5>1
        <5>3. W' = W /\ R' \in Nat
          BY <3>3, <5>2
        <5>4. R' = R - 1
          BY <3>3, <5>2
        <5> QED
          BY <5>3, <5>4
      <4>3. "assert" \in Semaphore!Pc \ {"aborted"}
        BY DEF Semaphore!Pc
      <4>4. /\ sem_emptiness' + W' + count' = max_count
            /\ sem_fullness' + R' = count'
            /\ W' \in Nat /\ R' \in Nat
            /\ sem_emptiness' \in Nat /\ sem_fullness' \in Nat
        BY <2>1, <2>2, <2>5, <4>1, <4>2, QueueAssumption
      <4> QED
        BY <2>4, <3>2, <4>1, <4>3, <4>4
    <3> QED
      BY <3>1, <3>4, <3>5, <3>6 DEF Semaphore!ReaderNext
  <2> QED
    BY <1>2, <2>6, <2>7 DEF Semaphore!Next
<1> QED
  BY <1>1, <1>2 DEF Next

\* One signal for each change is enough.
LEMMA StepWakeups ==
  ASSUME IInv, [Next]_vars
  PROVE  /\ cond_not_empty' \subseteq Reader /\ cond_not_full' \subseteq Writer
         /\ program' # "condvar" => cond_not_empty' = {} /\ cond_not_full' = {}
         /\ NoLostWakeup'
<1>1. /\ cond_not_empty \subseteq Reader /\ cond_not_full \subseteq Writer
      /\ program # "condvar" => cond_not_empty = {} /\ cond_not_full = {}
      /\ count # 0 => cond_not_empty # Reader
      /\ count # max_count => cond_not_full # Writer
      /\ Reader # {} /\ Writer # {}
  BY QueueAssumption DEF IInv, NoLostWakeup, Condvar!NoLostWakeup
<1> USE DEF NoLostWakeup, Condvar!NoLostWakeup
<1>2. CASE UNCHANGED vars
  BY <1>1, <1>2 DEF vars, queueVars, condVars
<1>3. CASE Next /\ program # "condvar"
  BY <1>1, <1>3 DEF Next, condVars
<1>4. CASE Condvar!Next /\ program' = program /\ program = "condvar"
  <2>1. CASE \E w \in Writer : Condvar!WriterNext(w)
    <3>1. PICK w \in Writer : Condvar!WriterNext(w)
      BY <2>1
    <3>2. CASE Condvar!queue_add_wait(w)
      BY <1>1, <1>4, <3>2 DEF Condvar!queue_add_wait, Condvar!queueVars
    <3>3. CASE Condvar!queue_add(w)
      <4>1. w \notin cond_not_full /\ cond_not_full' = cond_not_full
        BY <3>3 DEF Condvar!queue_add
      <4>2. \/ cond_not_empty = {} /\ cond_not_empty' = {}
            \/ \E r \in cond_not_empty : cond_not_empty' = cond_not_empty \ {r}
        BY <3>3 DEF Condvar!queue_add, Condvar!SignalNotEmpty
      <4> QED
        BY <1>1, <1>4, <4>1, <4>2
    <3> QED
      BY <3>1, <3>2, <3>3 DEF Condvar!WriterNext
  <2>2. CASE \E r \in Reader : Condvar!ReaderNext(r)
    <3>1. PICK r \in Reader : Condvar!ReaderNext(r)
      BY <2>2
    <3>2. CASE Condvar!queue_get_wait(r)
      BY <1>1, <1>4, <3>2 DEF Condvar!queue_get_wait, Condvar!queueVars
    <3>3. CASE Condvar!queue_get(r)
      <4>1. r \notin cond_not_empty /\ cond_not_empty' = cond_not_empty
        BY <3>3 DEF Condvar!queue_get
      <4>2. \/ cond_not_full = {} /\ cond_not_full' = {}
            \/ \E w \in cond_not_full : cond_not_full' = cond_not_full \ {w}
        BY <3>3 DEF Condvar!queue_get, Condvar!SignalNotFull
      <4> QED
        BY <1>1, <1>4, <4>1, <4>2
    <3>4. CASE Condvar!queue_get_free(r)
      BY <1>1, <1>4, <3>4 DEF Condvar!queue_get_free, Condvar!condVars
    <3> QED
      BY <3>1, <3>2, <3>3, <3>4 DEF Condvar!ReaderNext
  <2>3. CASE Condvar!spurious_wakeup
    BY <1>1, <1>4, <2>3 DEF Condvar!spurious_wakeup, Condvar!queueVars
  <2> QED
    BY <1>4, <2>1, <2>2, <2>3 DEF Condvar!Next
<1> QED
  BY <1>2, <1>3, <1>4 DEF Next

LEMMA StepIInv == IInv /\ [Next]_vars => IInv'
<1> SUFFICES ASSUME IInv, [Next]_vars
             PROVE  IInv'
  OBVIOUS
<1>1. PICK q : Queued(q)
  BY DEF IInv
<1>2. KeepsQueue(q)
  BY <1>1, StepQueue
<1>3. TypeOK' /\ \E p : Queued(p)'
  BY <1>2 DEF KeepsQueue, Queued
<1>4. SemaphoreInv'
  BY <1>3, StepSemaphores
<1> QED
  BY <1>3, <1>4, StepWakeups DEF IInv

\* IInv is an invariant of the three programs.
THEOREM Invariance == Spec => []IInv
BY InitIInv, StepIInv, PTL DEF Spec

\* Sleepers of condvar are never all asleep while there is something to do for
\* one of them, for any number of readers and writers.
THEOREM WakeupsSuffice == Spec => []NoLostWakeup
<1>1. IInv => NoLostWakeup
  BY DEF IInv
<1> QED
  BY <1>1, Invariance, PTL

\* The semaphores count the places, so that no reader follows NULL and no
\* assertion of semaphor fails.
THEOREM SemaphoresCorrect == Spec => []SemaphoresCountPlaces
<1>1. IInv => SemaphoresCountPlaces
  <2> SUFFICES ASSUME IInv, program = "semaphor"
               PROVE  /\ Semaphore!SemTypeOK /\ Semaphore!PlacesConserved
                      /\ Semaphore!GetsFindNodes /\ Semaphore!AssertsHold
    BY DEF SemaphoresCountPlaces
  <2>1. ASSUME NEW T
        PROVE  Semaphore!Locking(T) = Cardinality(AtMutex(T))
    <3>1. Semaphore!Locking(T) =
            Cardinality({u \in T : Semaphore!At(u, "lock")})
      BY DEF Semaphore!Locking, Semaphore!Cardinality, Semaphore!IsFiniteSet,
             Cardinality, IsFiniteSet
    <3>2. {u \in T : Semaphore!At(u, "lock")} = AtMutex(T)
      BY DEF Semaphore!At, AtMutex
    <3> QED
      BY <3>1, <3>2
  <2>2. Semaphore!SemTypeOK /\ Semaphore!AssertsHold
    BY DEF IInv, SemaphoreInv, Semaphore!AssertsHold, Semaphore!At, Thread
  <2>3. Semaphore!PlacesConserved
    BY <2>1 DEF IInv, SemaphoreInv, Semaphore!PlacesConserved
  <2>4. Semaphore!GetsFindNodes
    <3> SUFFICES ASSUME Semaphore!Locking(Reader) > 0
                 PROVE  first # NULL
      BY DEF Semaphore!GetsFindNodes
    <3>1. AtMutex(Reader) # {}
      BY <2>1, FS_EmptySet
    <3>2. count # 0
      BY <3>1, LockingHasPlace DEF AtMutex
    <3> QED
      BY <3>2, ListPlaces DEF IInv, Queued
  <2> QED
    BY <2>2, <2>3, <2>4
<1> QED
  BY <1>1, Invariance, PTL

\* What Chain and Contents read off the pointers.
LEMMA ChainIs ==
  ASSUME NEW f, NEW l, NEW nx, NEW c, NEW q, ListOf(f, l, nx, c, q),
         c <= max_count
  PROVE  Walk(f, nx, NULL, max_count + 1) = q
<1>1. q \in Seq(Node) /\ Linked(f, nx, NULL, q) /\ c = Len(q)
  BY DEF ListOf
<1>2. max_count + 1 \in Nat /\ Len(q) <= max_count + 1 /\ NULL \notin Node
  BY <1>1, QueueAssumption
<1> QED
  BY <1>1, <1>2, WalkFindsList

\* Every allocated node is counted once, in the queue or in one hand.
LEMMA NodesCounted ==
  ASSUME TypeOK, NEW q, Queued(q), IsInjective(q), q \in Seq(Node)
  PROVE  Cardinality(allocated) =
           Len(q) + Cardinality({t \in Thread : hand[t] # NULL})
<1> DEFINE T == {t \in Thread : hand[t] # NULL}
           H == {n \in Node : \E t \in Thread : hand[t] = n}
           f == [t \in T |-> hand[t]]
<1>1. /\ allocated = ToSet(q) \cup H
      /\ ToSet(q) \cap H = {}
      /\ \A t, u \in T : hand[t] = hand[u] => t = u
  BY QueueAssumption DEF Queued, Accounted
<1>2. /\ \A t \in T : hand[t] \in H
      /\ \A n \in H : \E t \in T : hand[t] = n
  BY HandMoves, QueueAssumption DEF NodeOrNull
<1>3. IsFiniteSet(T)
  <2>1. T \in SUBSET Thread
    OBVIOUS
  <2>2. IsFiniteSet(Thread)
    BY QueueAssumption, FS_Union DEF Thread
  <2> QED
    BY <2>1, <2>2, FS_Subset
<1> HIDE DEF T, H
<1>4. ExistsBijection(T, H)
  <2>1. f \in [T -> H] /\ \A t \in T : f[t] = hand[t]
    BY <1>2
  <2> HIDE DEF f
  <2>2. f \in Bijection(T, H)
    BY <1>1, <1>2, <2>1
       DEF Bijection, Injection, Surjection, IsInjective
  <2> QED
    BY <2>2 DEF ExistsBijection
<1>5. IsFiniteSet(H) /\ Cardinality(H) = Cardinality(T)
  BY <1>3, <1>4, FS_Bijection
<1>6. IsFiniteSet(ToSet(q)) /\ Cardinality(ToSet(q)) = Len(q)
  BY CellsCounted
<1>7. Cardinality(allocated) =
        Cardinality(ToSet(q)) + Cardinality(H) - Cardinality(ToSet(q) \cap H)
  BY <1>1, <1>5, <1>6, FS_Union
<1>8. Cardinality(ToSet(q) \cap H) = 0
  BY <1>1, FS_EmptySet
<1>9. Cardinality(H) \in Nat /\ Len(q) \in Nat
  BY <1>5, FS_CardinalityType
<1>10. Cardinality(allocated) = Len(q) + Cardinality(T)
  BY <1>5, <1>6, <1>7, <1>8, <1>9
<1> QED
  BY <1>10 DEF T

\* Pointers and count agree, last is right whenever it is used, and no node is
\* lost or used after it is freed, whichever program runs.
THEOREM QueuesIntact == Spec => []QueueIntact
<1>1. IInv => QueueIntact
  <2> SUFFICES ASSUME IInv
               PROVE  QueueIntact
    OBVIOUS
  <2>1. PICK q : Queued(q)
    BY DEF IInv
  <2>2. /\ TypeOK /\ ListOf(first, last, next, count, q)
        /\ Accounted(allocated, hand, q)
    BY <2>1 DEF IInv, Queued
  <2>3. Chain = q
    BY <2>2, ListLength, ChainIs DEF Chain
  <2>4. PointersRight
    BY <2>2, <2>3, ListPlaces DEF PointersRight, Accounted
  <2> DEFINE held == {new[w] : w \in Writer} \cup {tmp[r] : r \in Reader}
             holders == {w \in Writer : new[w] # NULL}
                          \cup {r \in Reader : tmp[r] # NULL}
  <2>5. /\ \A w \in Writer : hand[w] = new[w] /\ w \in Thread
        /\ \A r \in Reader : hand[r] = tmp[r] /\ r \in Thread
        /\ \A t \in Thread : t \in Reader \/ t \in Writer
        /\ \A t \in Thread : hand[t] \in Node \cup {NULL}
    BY <2>2, HandMoves DEF Thread, NodeOrNull
  <2>6. {n \in Node : \E t \in Thread : hand[t] = n} = held \ {NULL}
    BY <2>5, QueueAssumption
  <2>7. allocated = ToSet(Chain) \cup (held \ {NULL})
    BY <2>2, <2>3, <2>6 DEF Accounted
  <2>8. holders = {t \in Thread : hand[t] # NULL}
    BY <2>5
  <2>9. Cardinality(allocated) = count + Cardinality(holders)
    <3>1. Len(q) = count /\ IsInjective(q) /\ q \in Seq(Node)
      BY <2>2 DEF ListOf
    <3>2. Cardinality(allocated) =
            Len(q) + Cardinality({t \in Thread : hand[t] # NULL})
      BY <2>1, <2>2, <3>1, NodesCounted
    <3> HIDE DEF holders
    <3> QED
      BY <2>8, <3>1, <3>2
  <2>10. NodesAccounted
    BY <2>7, <2>9 DEF NodesAccounted
  <2> QED
    BY <2>2, <2>4, <2>10 DEF QueueIntact
<1> QED
  BY <1>1, Invariance, PTL

\* The queue is a bounded fifo: whichever program runs, and however readers and
\* writers meet, values leave in the order in which they came.
THEOREM QueuesImplementFifo == Spec => ImplementsFifo
<1>1. Init => F!Init
  <2> SUFFICES ASSUME Init
               PROVE  Contents = <<>>
    BY DEF F!Init
  <2>1. ListOf(first, last, next, count, <<>>) /\ count <= max_count
    BY QueueAssumption
       DEF Init, Condvar!Init, Condvar!queue_init, ListOf, Linked, IsInjective
  <2>2. Chain = <<>>
    BY <2>1, ChainIs DEF Chain
  <2> QED
    BY <2>2 DEF Contents
<1>2. IInv /\ IInv' /\ [Next]_vars => [F!Next]_Contents
  <2> SUFFICES ASSUME IInv, IInv', [Next]_vars
               PROVE  F!Next \/ Contents' = Contents
    OBVIOUS
  <2>1. PICK q : Queued(q)
    BY DEF IInv
  <2>2. KeepsQueue(q)
    BY <2>1, StepQueue
  <2>3. PICK p : /\ ListOf(first', last', next', count', p)
                 /\ FifoStep(q, p)
    BY <2>2 DEF KeepsQueue
  <2>4. count <= max_count /\ count' <= max_count
    BY DEF IInv, TypeOK
  <2>5. Chain = q /\ Chain' = p
    BY <2>1, <2>3, <2>4, ChainIs DEF Chain, Queued
  <2>6. DOMAIN q = 1 .. Len(q) /\ DOMAIN p = 1 .. Len(p)
    BY <2>1, <2>3 DEF Queued, ListOf
  <2>7. Contents = Values(val, q) /\ Contents' = Values(val', p)
    BY <2>5, <2>6 DEF Contents, Values
  <2>8. Len(Contents) = Len(q) /\ (Contents = <<>> => q = <<>>)
    <3>1. q \in Seq(Node)
      BY <2>1 DEF Queued, ListOf
    <3>2. Len(q) \in Nat /\ Contents = [k \in 1 .. Len(q) |-> val[q[k]]]
      BY <2>7, <3>1 DEF Values
    <3>3. Len(Contents) = Len(q)
      BY <3>2
    <3>4. Contents = <<>> => Len(q) = 0
      BY <3>3
    <3> QED
      BY <3>1, <3>3, <3>4
  <2> QED
    BY <2>3, <2>7, <2>8 DEF FifoStep, F!Next, F!Put, F!Get
<1> QED
  BY <1>1, <1>2, Invariance, PTL DEF Spec, ImplementsFifo, F!Spec

-----------------------------------------------------------------------------
(* Nobody waits in vain. *)

\* The threads that cannot go on without another one: in pthread_cond_wait or
\* in sem_wait on a semaphore at 0.
ReaderWaits(r) ==
  \/ r \in cond_not_empty
  \/ program = "semaphor" /\ pc[r] = "sem_wait" /\ sem_fullness = 0
WriterWaits(w) ==
  \/ w \in cond_not_full
  \/ program = "semaphor" /\ pc[w] = "sem_wait" /\ sem_emptiness = 0

\* What NoLostWakeup says of the condition variables holds of the semaphores,
\* too: a value has a reader that does not wait, a free place a writer.  So
\* the threads never all wait.
SomebodyServes ==
  /\ count # 0 => \E r \in Reader : ~ReaderWaits(r)
  /\ count # max_count => \E w \in Writer : ~WriterWaits(w)
  /\ \/ \E r \in Reader : ~ReaderWaits(r)
     \/ \E w \in Writer : ~WriterWaits(w)

\* A value that sem_fullness does not count is in the hands of a reader, and a
\* place that sem_emptiness does not count in those of a writer.
LEMMA InvServes == IInv => SomebodyServes
<1> SUFFICES ASSUME IInv
             PROVE  SomebodyServes
  OBVIOUS
<1>1. max_count # 0 /\ Reader # {} /\ Writer # {} /\ Thread = Reader \cup Writer
  BY QueueAssumption DEF Thread
<1>2. ASSUME NEW T, Cardinality(AtMutex(T)) # 0
      PROVE  \E t \in T : pc[t] = "lock"
  <2>1. AtMutex(T) # {}
    BY <1>2, FS_EmptySet
  <2> QED
    BY <2>1 DEF AtMutex
<1>3. CASE program = "semaphor"
  <2>1. /\ sem_emptiness + Cardinality(AtMutex(Writer)) + count = max_count
        /\ sem_fullness + Cardinality(AtMutex(Reader)) = count
        /\ sem_emptiness \in Nat /\ sem_fullness \in Nat /\ count \in Nat
        /\ cond_not_empty = {} /\ cond_not_full = {}
    BY <1>3 DEF IInv, SemaphoreInv, Semaphore!SemTypeOK, TypeOK
  <2>2. count # 0 => \E r \in Reader : ~ReaderWaits(r)
    <3>1. CASE sem_fullness # 0
      BY <1>1, <2>1, <3>1 DEF ReaderWaits
    <3>2. CASE sem_fullness = 0 /\ count # 0
      <4>1. Cardinality(AtMutex(Reader)) # 0
        BY <2>1, <3>2
      <4> QED
        BY <1>2, <2>1, <4>1 DEF ReaderWaits
    <3> QED
      BY <3>1, <3>2
  <2>3. count # max_count => \E w \in Writer : ~WriterWaits(w)
    <3>1. CASE sem_emptiness # 0
      BY <1>1, <2>1, <3>1 DEF WriterWaits
    <3>2. CASE sem_emptiness = 0 /\ count # max_count
      <4>1. Cardinality(AtMutex(Writer)) # 0
        BY <2>1, <3>2
      <4> QED
        BY <1>2, <2>1, <4>1 DEF WriterWaits
    <3> QED
      BY <3>1, <3>2
  <2> QED
    BY <1>1, <2>2, <2>3 DEF SomebodyServes
<1>4. CASE program # "semaphor"
  <2>1. /\ cond_not_empty \subseteq Reader /\ cond_not_full \subseteq Writer
        /\ count # 0 => cond_not_empty # Reader
        /\ count # max_count => cond_not_full # Writer
    BY DEF IInv, NoLostWakeup, Condvar!NoLostWakeup
  <2> QED
    BY <1>1, <1>4, <2>1 DEF SomebodyServes, ReaderWaits, WriterWaits
<1> QED
  BY <1>3, <1>4

\* For any number of readers, writers and places, no program of lab 2.2 comes
\* to a halt with all its threads waiting, or leaves a value or a place to
\* threads that all wait.
THEOREM NoDeadlock == Spec => []SomebodyServes
BY InvServes, Invariance, PTL
=============================================================================
