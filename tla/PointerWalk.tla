----------------------------- MODULE PointerWalk -----------------------------
(***************************************************************************)
(* What a linked list holds: the cells met when its links are followed.    *)
(* The LRU list of the cache, the queue of lab 2.2 and the list of lab 2.3 *)
(* are read with it.                                                       *)
(***************************************************************************)
EXTENDS Integers, FiniteSets

\* The cells from start on, following succ up to nil or for at most n cells.
Walk(start, succ, nil, n) ==
  LET cell[k \in 1 .. n] ==
        IF k = 1 THEN start
        ELSE IF cell[k - 1] = nil THEN nil ELSE succ[cell[k - 1]]
  IN [k \in 1 .. Cardinality({j \in 1 .. n : cell[j] # nil}) |-> cell[k]]
=============================================================================
