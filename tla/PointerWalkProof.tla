-------------------------- MODULE PointerWalkProof ---------------------------
(***************************************************************************)
(* The walk along the links of a well-formed list finds its cells.  The    *)
(* walk is a recursive function, so the proof is by induction; the         *)
(* library's induction theorems take a predicate, which the provers cannot *)
(* instantiate, and induction is stated here for a set of numbers.         *)
(***************************************************************************)
EXTENDS PointerWalk, SequencesExt, FiniteSetTheorems, WellFoundedInduction,
        TLAPS

\* A set of numbers that is not empty has a least one.
LEMMA LeastNumber ==
  ASSUME NEW T \in SUBSET Nat, T # {}
  PROVE  \E x \in T : \A y \in T : x <= y
<1> DEFINE R == OpToRel(<, Nat)
<1>1. IsWellFoundedOn(R, Nat)
  BY NatLessThanWellFounded
<1>2. \A x, y \in Nat : x < y => <<x, y>> \in R
  BY DEF OpToRel
<1> HIDE DEF R
<1>3. PICK x \in T : \A y \in T : ~ (<<y, x>> \in R)
  BY <1>1, WFMin
<1>4. \A y \in T : ~ (y < x)
  BY <1>2, <1>3
<1> QED
  BY <1>4

\* Induction over 1 .. n.
LEMMA CountUp ==
  ASSUME NEW n \in Nat, NEW T,
         \A k \in 1 .. n : (\A j \in 1 .. k - 1 : j \in T) => k \in T
  PROVE  \A k \in 1 .. n : k \in T
<1> SUFFICES ASSUME (1 .. n) \ T # {}
             PROVE  FALSE
  OBVIOUS
<1>1. PICK x \in (1 .. n) \ T : \A y \in (1 .. n) \ T : x <= y
  <2>1. (1 .. n) \ T \in SUBSET Nat
    OBVIOUS
  <2> QED
    BY <2>1, LeastNumber
<1>2. \A j \in 1 .. x - 1 : j \in 1 .. n /\ ~(x <= j)
  BY <1>1
<1>3. \A j \in 1 .. x - 1 : j \in T
  BY <1>1, <1>2
<1> QED
  BY <1>1, <1>3

\* The links of a list whose cells are the sequence q.
Linked(start, succ, nil, q) ==
  /\ start = IF q = <<>> THEN nil ELSE q[1]
  /\ \A k \in 1 .. Len(q) :
       succ[q[k]] = IF k = Len(q) THEN nil ELSE q[k + 1]

\* Following the links of such a list gives q, however far one follows them.
THEOREM WalkFindsList ==
  ASSUME NEW S, NEW nil, nil \notin S, NEW q \in Seq(S), NEW n \in Nat,
         Len(q) <= n, NEW start, NEW succ, Linked(start, succ, nil, q)
  PROVE  Walk(start, succ, nil, n) = q
<1> DEFINE Step(f) == [k \in 1 .. n |->
                        IF k = 1 THEN start
                        ELSE IF f[k - 1] = nil THEN nil ELSE succ[f[k - 1]]]
           c == [k \in 1 .. n |-> IF k <= Len(q) THEN q[k] ELSE nil]
           cell == CHOOSE f : f = Step(f)
<1>1. /\ Len(q) \in Nat /\ \A k \in 1 .. Len(q) : q[k] \in S /\ q[k] # nil
      /\ start = IF Len(q) = 0 THEN nil ELSE q[1]
      /\ \A k \in 1 .. Len(q) :
           succ[q[k]] = IF k = Len(q) THEN nil ELSE q[k + 1]
  <2>1. q = <<>> <=> Len(q) = 0
    OBVIOUS
  <2> QED
    BY <2>1 DEF Linked
\* c follows the links ...
<1>2. c = Step(c)
  <2>1. ASSUME NEW k \in 1 .. n
        PROVE  c[k] = Step(c)[k]
    <3>1. CASE k = 1
      BY <1>1, <3>1
    <3>2. CASE k # 1
      <4>1. k - 1 \in 1 .. n /\ c[k - 1] = IF k - 1 <= Len(q) THEN q[k - 1] ELSE nil
        BY <3>2
      <4>2. CASE k - 1 <= Len(q)
        <5>1. k - 1 \in 1 .. Len(q) /\ (k - 1) + 1 = k
          BY <1>1, <3>2, <4>2
        <5>2. c[k - 1] # nil /\ c[k - 1] = q[k - 1]
          BY <1>1, <4>1, <4>2, <5>1
        <5>3. Step(c)[k] = succ[q[k - 1]]
          BY <3>2, <5>2
        <5>4. succ[q[k - 1]] = IF k - 1 = Len(q) THEN nil ELSE q[k]
          BY <1>1, <5>1
        <5> QED
          BY <1>1, <4>2, <5>3, <5>4
      <4>3. CASE ~(k - 1 <= Len(q))
        BY <1>1, <3>2, <4>1, <4>3
      <4> QED
        BY <4>2, <4>3
    <3> QED
      BY <3>1, <3>2
  <2> QED
    BY <2>1
\* ... and nothing else does.
<1>3. ASSUME NEW f, f = Step(f)
      PROVE  f = c
  <2> DEFINE T == {k \in 1 .. n : f[k] = c[k]}
  <2>1. \A k \in 1 .. n : /\ f[k] = Step(f)[k] /\ c[k] = Step(c)[k]
    BY <1>2, <1>3, Zenon
  <2>2. ASSUME NEW k \in 1 .. n, \A j \in 1 .. k - 1 : j \in T
        PROVE  f[k] = c[k]
    <3>1. CASE k = 1
      <4>1. Step(f)[k] = start /\ Step(c)[k] = start
        BY <3>1
      <4> QED
        BY <2>1, <4>1
    <3>2. CASE k # 1
      <4>1. f[k - 1] = c[k - 1]
        <5>1. k - 1 \in 1 .. k - 1
          BY <3>2
        <5> QED
          BY <2>2, <5>1
      <4>2. Step(f)[k] = Step(c)[k]
        <5> HIDE DEF c
        <5> QED
          BY <3>2, <4>1
      <4> QED
        BY <2>1, <4>2
    <3> QED
      BY <3>1, <3>2
  <2>3. \A k \in 1 .. n : k \in T
    <3>1. \A k \in 1 .. n : (\A j \in 1 .. k - 1 : j \in T) => k \in T
      BY <2>2
    <3> HIDE DEF T
    <3> QED
      BY <3>1, CountUp
  <2>4. \A k \in 1 .. n : f[k] = c[k]
    BY <2>3
  <2>5. f = [k \in 1 .. n |-> f[k]] /\ c = [k \in 1 .. n |-> c[k]]
    <3>1. Step(f) = [k \in 1 .. n |-> Step(f)[k]]
      OBVIOUS
    <3> QED
      BY <1>3, <3>1
  <2> QED
    BY <2>4, <2>5
<1>4. cell = c
  <2> HIDE DEF c, Step
  <2>1. cell = Step(cell)
    BY <1>2
  <2> QED
    BY <1>3, <2>1
\* The cells that are not nil are the first ones.
<1>5. Cardinality({j \in 1 .. n : c[j] # nil}) = Len(q)
  <2>1. {j \in 1 .. n : c[j] # nil} = 1 .. Len(q)
    BY <1>1
  <2>2. Cardinality(1 .. Len(q)) = Len(q)
    <3>1. Cardinality(1 .. Len(q)) = IF 1 > Len(q) THEN 0 ELSE Len(q) - 1 + 1
      <4>1. 1 \in Int /\ Len(q) \in Int
        BY <1>1
      <4> QED
        BY <4>1, FS_Interval, Zenon
    <3> QED
      BY <1>1, <3>1
  <2> QED
    BY <2>1, <2>2
<1>6. [k \in 1 .. Len(q) |-> c[k]] = q
  <2>1. \A k \in 1 .. Len(q) : c[k] = q[k]
    BY <1>1
  <2>2. q = [k \in 1 .. Len(q) |-> q[k]]
    OBVIOUS
  <2> QED
    BY <2>1, <2>2
<1>7. Walk(start, succ, nil, n) =
        [k \in 1 .. Cardinality({j \in 1 .. n : cell[j] # nil}) |-> cell[k]]
  BY DEF Walk
<1> HIDE DEF c, cell
<1> QED
  BY <1>4, <1>5, <1>6, <1>7

\* A list without repetitions has as many cells as places.
LEMMA CellsCounted ==
  ASSUME NEW S, NEW q \in Seq(S), IsInjective(q)
  PROVE  /\ IsFiniteSet(ToSet(q))
         /\ Cardinality(ToSet(q)) = Len(q)
<1>1. /\ Len(q) \in Nat /\ DOMAIN q = 1 .. Len(q)
      /\ q \in [1 .. Len(q) -> ToSet(q)]
  BY DEF ToSet
<1>2. IsFiniteSet(1 .. Len(q)) /\ Cardinality(1 .. Len(q)) = Len(q)
  BY <1>1, FS_Interval
<1>3. /\ \A a, b \in 1 .. Len(q) : q[a] = q[b] => a = b
      /\ \A e \in ToSet(q) : \E k \in 1 .. Len(q) : q[k] = e
  BY <1>1 DEF IsInjective, ToSet
<1>4. q \in Bijection(1 .. Len(q), ToSet(q))
  BY <1>1, <1>3 DEF Bijection, Injection, Surjection, IsInjective
<1>5. ExistsBijection(1 .. Len(q), ToSet(q))
  BY <1>4 DEF ExistsBijection
<1> QED
  BY <1>2, <1>5, FS_Bijection

\* The recursion over 1 .. n that starts with v and goes on with D.
Solvable(V, v, D, n) ==
  \E f \in [1 .. n -> V] : /\ f[1] = v
                           /\ \A k \in 2 .. n : f[k] = D[k][f[k - 1]]

\* It has a solution if its values stay in a set V.
LEMMA RecursionExists ==
  ASSUME NEW V, NEW v \in V, NEW n \in Nat \ {0},
         NEW D \in [2 .. n -> [V -> V]]
  PROVE  Solvable(V, v, D, n)
<1> DEFINE Upto(m, f) == /\ f \in [1 .. m -> V] /\ f[1] = v
                         /\ \A k \in 2 .. m : f[k] = D[k][f[k - 1]]
           T == {m \in 1 .. n : \E f : Upto(m, f)}
<1>1. ASSUME NEW m \in 1 .. n, \A j \in 1 .. m - 1 : j \in T
      PROVE  \E f : Upto(m, f)
  <2>1. CASE m = 1
    <3> DEFINE f == [k \in 1 .. 1 |-> v]
    <3>1. Upto(1, f)
      OBVIOUS
    <3> QED
      BY <2>1, <3>1
  <2>2. CASE m # 1
    <3>1. m - 1 \in 1 .. m - 1 /\ m \in 2 .. n
      BY <2>2
    <3>2. PICK g : Upto(m - 1, g)
      BY <1>1, <3>1
    <3> DEFINE f == [k \in 1 .. m |-> IF k = m THEN D[m][g[m - 1]] ELSE g[k]]
    <3>3. /\ g \in [1 .. m - 1 -> V] /\ g[1] = v
          /\ \A k \in 2 .. m - 1 : g[k] = D[k][g[k - 1]]
      BY <3>2
    <3>4. D[m][g[m - 1]] \in V
      <4>1. g[m - 1] \in V /\ D[m] \in [V -> V]
        BY <3>1, <3>3
      <4> QED
        BY <4>1
    <3>5. f \in [1 .. m -> V] /\ f[1] = v
      BY <2>2, <3>1, <3>3, <3>4
    <3>6. \A k \in 2 .. m : f[k] = D[k][f[k - 1]]
      <4> SUFFICES ASSUME NEW k \in 2 .. m
                   PROVE  f[k] = D[k][f[k - 1]]
        OBVIOUS
      <4>1. f[k - 1] = g[k - 1]
        BY <3>1
      <4>2. CASE k = m
        BY <4>1, <4>2, <3>1
      <4>3. CASE k # m
        BY <4>1, <4>3, <3>1, <3>3
      <4> QED
        BY <4>2, <4>3
    <3> HIDE DEF f
    <3>7. Upto(m, f)
      BY <3>5, <3>6
    <3> QED
      BY <3>7
  <2> QED
    BY <2>1, <2>2
<1>2. \A m \in 1 .. n : m \in T
  <2>1. \A m \in 1 .. n : (\A j \in 1 .. m - 1 : j \in T) => m \in T
    BY <1>1
  <2> HIDE DEF T
  <2> QED
    BY <2>1, CountUp
<1>3. n \in 1 .. n
  OBVIOUS
<1>4. PICK f : Upto(n, f)
  BY <1>2, <1>3
<1> QED
  BY <1>4 DEF Solvable
=============================================================================
