------------------------------ MODULE RacyQueue ------------------------------
(***************************************************************************)
(* Lab 2.1: one writer and one reader on a queue without synchronisation:  *)
(* src/2/2.1.                                                              *)
(*                                                                         *)
(* A step is a load or a store of what the threads share; they are taken   *)
(* to reach memory in the order of the program, but for the two stores of  *)
(* first = last = new, which may come in either.  Memory that is freed     *)
(* reads as garbage, and a use of garbage, of freed memory or of NULL ends *)
(* the model in "undefined".                                               *)
(***************************************************************************)
EXTENDS Integers

CONSTANTS
  Node,       \* the heap cells that can hold a qnode_t
  NULL,
  max_count,
  MaxAdds     \* bound: the values that the writer adds

Garbage == "garbage"  \* what a pointer in freed memory reads as

ASSUME RacyAssumption == /\ max_count \in Nat \ {0}
                         /\ MaxAdds \in Nat
                         /\ NULL \notin Node
                         /\ Garbage \notin Node

VARIABLES
  first, last, count,  \* of the queue_t
  node_val, node_next, \* of every node
  allocated,           \* the nodes that malloc has handed out
  wr,                  \* the writer: pc, i, new, and the count it has loaded
  rd,                  \* the reader: pc, tmp, val, next, count, expected
  racy                 \* "ok" or "undefined"

listVars == <<first, last, node_val, node_next, allocated>>
racyVars == <<listVars, count, wr, rd, racy>>

Pointer == Node \cup {NULL}
Adding == {"load_first", "store_both", "store_first", "store_last", "link",
           "advance", "load_count"}
Getting == {"load_first", "load_val", "load_next", "pop", "free", "load_count"}

WriterType == [pc : {"test", "store_count"} \cup Adding, i : Nat,
               new : Pointer, count : Int]
ReaderType == [pc : {"test", "store_count"} \cup Getting, tmp : Pointer,
               val : Nat, next : Pointer, count : Int, expected : Nat]

RacyTypeOK ==
  /\ first \in Pointer
  /\ last \in Pointer \cup {Garbage}
  /\ count \in Int
  /\ node_val \in [Node -> Nat]
  /\ node_next \in [Node -> Pointer]
  /\ allocated \in SUBSET Node
  /\ wr \in WriterType
  /\ rd \in ReaderType
  /\ racy \in {"ok", "undefined"}

\* queue_init, with the writer and the reader created.
RacyInit ==
  /\ first = NULL /\ last = NULL /\ count = 0
  /\ node_val = [n \in Node |-> 0]
  /\ node_next = [n \in Node |-> NULL]
  /\ allocated = {}
  /\ wr = [pc |-> "test", i |-> 0, new |-> NULL, count |-> 0]
  /\ rd = [pc |-> "test", tmp |-> NULL, val |-> 0, next |-> NULL, count |-> 0,
           expected |-> 0]
  /\ racy = "ok"

WriterAt(p) == racy = "ok" /\ wr.pc = p
WriterTo(p) == wr' = [wr EXCEPT !.pc = p]
ReaderAt(p) == racy = "ok" /\ rd.pc = p
ReaderTo(p) == rd' = [rd EXCEPT !.pc = p]
Undefined == racy' = "undefined" /\ UNCHANGED <<listVars, count, wr, rd>>

-----------------------------------------------------------------------------
(* queue_add *)

\* Fault: the queue is taken for full one value too late.
add_test_over ==
  /\ WriterAt("test") /\ wr.i < MaxAdds
  /\ count <= max_count
  /\ \E n \in Node \ allocated :
       /\ allocated' = allocated \cup {n}
       /\ node_val' = [node_val EXCEPT ![n] = wr.i]
       /\ node_next' = [node_next EXCEPT ![n] = NULL]
       /\ wr' = [wr EXCEPT !.pc = "load_first", !.new = n]
  /\ UNCHANGED <<first, last, count, rd, racy>>

\* The queue is not full; the new node is the writer's own.
add_test ==
  /\ WriterAt("test") /\ wr.i < MaxAdds
  /\ count # max_count
  /\ \E n \in Node \ allocated :
       /\ allocated' = allocated \cup {n}
       /\ node_val' = [node_val EXCEPT ![n] = wr.i]
       /\ node_next' = [node_next EXCEPT ![n] = NULL]
       /\ wr' = [wr EXCEPT !.pc = "load_first", !.new = n]
  /\ UNCHANGED <<first, last, count, rd, racy>>

\* queue_add returns 0 and the writer tries again.
add_full ==
  /\ WriterAt("test") /\ count = max_count
  /\ UNCHANGED racyVars

add_load_first ==
  /\ WriterAt("load_first")
  /\ WriterTo(IF first = NULL THEN "store_both" ELSE "link")
  /\ UNCHANGED <<listVars, count, rd, racy>>

\* One of the two stores of first = last = new, then the other.
add_store_first ==
  /\ WriterAt("store_both") \/ WriterAt("store_first")
  /\ first' = wr.new
  /\ WriterTo(IF wr.pc = "store_both" THEN "store_last" ELSE "load_count")
  /\ UNCHANGED <<last, count, node_val, node_next, allocated, rd, racy>>

add_store_last ==
  /\ WriterAt("store_both") \/ WriterAt("store_last")
  /\ last' = wr.new
  /\ WriterTo(IF wr.pc = "store_both" THEN "store_first" ELSE "load_count")
  /\ UNCHANGED <<first, count, node_val, node_next, allocated, rd, racy>>

\* q->last->next = new
add_link ==
  /\ WriterAt("link")
  /\ \/ /\ last \in allocated
        /\ node_next' = [node_next EXCEPT ![last] = wr.new]
        /\ WriterTo("advance")
        /\ UNCHANGED <<first, last, count, node_val, allocated, rd, racy>>
     \/ last \notin allocated /\ Undefined

\* q->last = q->last->next; the node may have been freed since add_link.
add_advance ==
  /\ WriterAt("advance")
  /\ last' \in IF last \in allocated THEN {node_next[last]}
               ELSE {node_next[last], Garbage}
  /\ WriterTo("load_count")
  /\ UNCHANGED <<first, count, node_val, node_next, allocated, rd, racy>>

\* q->count++
add_load_count ==
  /\ WriterAt("load_count")
  /\ wr' = [wr EXCEPT !.pc = "store_count", !.count = count]
  /\ UNCHANGED <<listVars, count, rd, racy>>

add_store_count ==
  /\ WriterAt("store_count")
  /\ count' = wr.count + 1
  /\ wr' = [wr EXCEPT !.pc = "test", !.i = @ + 1]
  /\ UNCHANGED <<listVars, rd, racy>>

-----------------------------------------------------------------------------
(* queue_get and the reader's loop *)

get_test ==
  /\ ReaderAt("test") /\ count # 0
  /\ ReaderTo("load_first")
  /\ UNCHANGED <<listVars, count, wr, racy>>

\* queue_get returns 0 and the reader tries again.
get_empty ==
  /\ ReaderAt("test") /\ count = 0
  /\ UNCHANGED racyVars

\* tmp = q->first
get_load_first ==
  /\ ReaderAt("load_first")
  /\ rd' = [rd EXCEPT !.pc = "load_val", !.tmp = first]
  /\ UNCHANGED <<listVars, count, wr, racy>>

\* *val = tmp->val
get_load_val ==
  /\ ReaderAt("load_val")
  /\ \/ /\ rd.tmp \in allocated
        /\ rd' = [rd EXCEPT !.pc = "load_next", !.val = node_val[rd.tmp]]
        /\ UNCHANGED <<listVars, count, wr, racy>>
     \/ rd.tmp \notin allocated /\ Undefined

\* q->first is read again, and its next.
get_load_next ==
  /\ ReaderAt("load_next")
  /\ \/ /\ first \in allocated
        /\ rd' = [rd EXCEPT !.pc = "pop", !.next = node_next[first]]
        /\ UNCHANGED <<listVars, count, wr, racy>>
     \/ first \notin allocated /\ Undefined

\* Fault: first stays on the node that is freed.
get_pop_stays ==
  /\ ReaderAt("pop")
  /\ ReaderTo("free")
  /\ UNCHANGED <<listVars, count, wr, racy>>

get_pop ==
  /\ ReaderAt("pop")
  /\ first' = rd.next
  /\ ReaderTo("free")
  /\ UNCHANGED <<last, count, node_val, node_next, allocated, wr, racy>>

get_free ==
  /\ ReaderAt("free")
  /\ \/ /\ rd.tmp \in allocated
        /\ allocated' = allocated \ {rd.tmp}
        /\ ReaderTo("load_count")
        /\ UNCHANGED <<first, last, count, node_val, node_next, wr, racy>>
     \/ rd.tmp \notin allocated /\ Undefined

\* q->count--
get_load_count ==
  /\ ReaderAt("load_count")
  /\ rd' = [rd EXCEPT !.pc = "store_count", !.count = count]
  /\ UNCHANGED <<listVars, count, wr, racy>>

\* The reader goes on with expected = val + 1.
get_store_count ==
  /\ ReaderAt("store_count")
  /\ count' = rd.count - 1
  /\ rd' = [rd EXCEPT !.pc = "test", !.expected = rd.val + 1]
  /\ UNCHANGED <<listVars, wr, racy>>

RacyWriter ==
  \/ add_test
  \/ add_full
  \/ add_load_first
  \/ add_store_first
  \/ add_store_last
  \/ add_link
  \/ add_advance
  \/ add_load_count
  \/ add_store_count

RacyReader ==
  \/ get_test
  \/ get_empty
  \/ get_load_first
  \/ get_load_val
  \/ get_load_next
  \/ get_pop
  \/ get_free
  \/ get_load_count
  \/ get_store_count

RacyNext == RacyWriter \/ RacyReader

RacySpec == RacyInit /\ [][RacyNext]_racyVars

-----------------------------------------------------------------------------
\* The assertions on count (queue.c:66 and 105) hold although "the count is
\* pretty much always broken" (queue.c:96): increments and decrements are
\* lost, but count never leaves 0 .. max_count.
CountInRange == count \in 0 .. max_count

\* The reader never takes a value twice and never an old one: it sees that
\* values are missing (expected # val), but only because val is greater.
GetsInOrder ==
  rd.pc \in {"load_next", "pop", "free", "load_count", "store_count"}
    => rd.val >= rd.expected

\* q->first is NULL or a live node, and the node the reader takes is its own
\* until it frees it: only the writer touches freed memory, and the reader can
\* only fail on NULL.
ReaderOnLiveNodes ==
  racy = "ok" =>
    /\ first = NULL \/ first \in allocated
    /\ rd.pc \in {"load_val", "load_next", "pop", "free"} =>
         rd.tmp = NULL \/ rd.tmp \in allocated
    /\ rd.pc \in {"load_next", "pop"} => rd.tmp = first

\* What is left of the promises of the queue to its reader without any lock.
ReaderSafe == GetsInOrder /\ ReaderOnLiveNodes
=============================================================================
