----------------------------- MODULE BoundedFifo -----------------------------
(***************************************************************************)
(* What the queues of lab 2.2 promise to reader and writer: values leave   *)
(* in the order in which they came, and never more than max_count of them  *)
(* are inside.                                                             *)
(***************************************************************************)
EXTENDS Integers, Sequences

CONSTANTS Value, max_count

VARIABLE fifo

Init == fifo = <<>>

Put(v) ==
  /\ Len(fifo) < max_count
  /\ fifo' = Append(fifo, v)

Get ==
  /\ fifo # <<>>
  /\ fifo' = Tail(fifo)

Next == (\E v \in Value : Put(v)) \/ Get

Spec == Init /\ [][Next]_fifo
=============================================================================
