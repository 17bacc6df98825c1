----------------------------- MODULE QueueNodes ------------------------------
(***************************************************************************)
(* The linked queue_t that the programs of lab 2.2 share (queue.h and the  *)
(* pointer work of queue_add and queue_get), node by node.                 *)
(*                                                                         *)
(* queue_get does not touch q->last: when the queue runs empty, last still *)
(* points to a node that is freed, and only the test of first in queue_add *)
(* keeps it from being used.  Values are int; they wrap at IntMod.         *)
(*                                                                         *)
(* Modules CondvarQueue, SemaphoreQueue and LockQueue are the programs;    *)
(* what all of them guarantee is stated here.                              *)
(***************************************************************************)
EXTENDS Integers, Sequences, FiniteSets, SequencesExt, PointerWalk

CONSTANTS
  Reader, Writer,  \* the threads of main: one of each
  Node,            \* heap cells (bound: nodes allocated at a time)
  max_count,       \* q->max_count
  IntMod,          \* int wraps at IntMod
  NULL

ASSUME QueueAssumption ==
  /\ IsFiniteSet(Reader) /\ Reader # {}
  /\ IsFiniteSet(Writer) /\ Writer # {}
  /\ Reader \cap Writer = {}
  /\ max_count \in Nat \ {0}
  /\ IntMod \in Nat \ {0}
  /\ NULL \notin Node

VARIABLES
  allocated,    \* the nodes between malloc and free
  first, last,  \* q->first, q->last
  next, val,    \* node->next, node->val
  count,        \* q->count
  i,            \* the value a writer adds next
  new,          \* the node a writer has allocated and not yet linked
  tmp           \* the node a reader has taken out and not yet freed

queueVars == <<allocated, first, last, next, val, count, i, new, tmp>>

NodeOrNull == Node \cup {NULL}
Value == 0 .. IntMod - 1

TypeOK ==
  /\ allocated \in SUBSET Node
  /\ first \in NodeOrNull /\ last \in NodeOrNull
  /\ next \in [Node -> NodeOrNull]
  /\ val \in [Node -> Value]
  /\ count \in 0 .. max_count
  /\ i \in [Writer -> Value]
  /\ new \in [Writer -> NodeOrNull]
  /\ tmp \in [Reader -> NodeOrNull]

queue_init ==
  /\ allocated = {}
  /\ first = NULL /\ last = NULL
  /\ next = [n \in Node |-> NULL]
  /\ val = [n \in Node |-> 0]
  /\ count = 0
  /\ i = [w \in Writer |-> 0]
  /\ new = [w \in Writer |-> NULL]
  /\ tmp = [r \in Reader |-> NULL]

\* Fault: an empty queue is told by last, which is never reset.
LinkNode_by_last(n, v) ==
  /\ val' = [val EXCEPT ![n] = v]
  /\ IF last = NULL
     THEN first' = n /\ next' = [next EXCEPT ![n] = NULL]
     ELSE next' = [next EXCEPT ![n] = NULL, ![last] = n] /\ UNCHANGED first
  /\ last' = n
  /\ count' = count + 1

\* Fault: the node is put in front.
LinkNode_front(n, v) ==
  /\ val' = [val EXCEPT ![n] = v]
  /\ next' = [next EXCEPT ![n] = first]
  /\ first' = n
  /\ last' = IF first = NULL THEN n ELSE last
  /\ count' = count + 1

\* Node n with value v is put behind last, or becomes the only node.
LinkNode(n, v) ==
  /\ val' = [val EXCEPT ![n] = v]
  /\ IF first = NULL
     THEN first' = n /\ next' = [next EXCEPT ![n] = NULL]
     ELSE next' = [next EXCEPT ![n] = NULL, ![last] = n] /\ UNCHANGED first
  /\ last' = n
  /\ count' = count + 1

\* The first node is taken out.
UnlinkNode ==
  /\ first' = next[first]
  /\ count' = count - 1

\* free(n): what the node held is gone.
FreeNode(n) ==
  /\ allocated' = allocated \ {n}
  /\ next' = [next EXCEPT ![n] = NULL]
  /\ val' = [val EXCEPT ![n] = 0]

\* The writer's i++ after a successful queue_add.
NextValue(w) == i' = [i EXCEPT ![w] = (@ + 1) % IntMod]

-----------------------------------------------------------------------------
\* The nodes from first on, following next for at most max_count nodes.
Chain == Walk(first, next, NULL, max_count + 1)

\* The values in the queue, in order.
Contents == [k \in DOMAIN Chain |-> val[Chain[k]]]

\* The pointers are right whenever no thread is in the middle of a change:
\* count nodes, all allocated, last the end of them unless the queue is empty
\* (then last is stale, and nobody may follow it).
PointersRight ==
  /\ Len(Chain) = count
  /\ ToSet(Chain) \subseteq allocated
  /\ first # NULL => last = Chain[Len(Chain)]

\* Every allocated node is in the queue, or in the hands of one thread that
\* will link or free it: nothing leaks, and nothing is linked, freed or read
\* after it is freed, although malloc and free may happen outside the lock.
NodesAccounted ==
  LET held == {new[w] : w \in Writer} \cup {tmp[r] : r \in Reader}
      holders == {w \in Writer : new[w] # NULL}
                   \cup {r \in Reader : tmp[r] # NULL}
  IN /\ allocated = ToSet(Chain) \cup (held \ {NULL})
     /\ Cardinality(allocated) = count + Cardinality(holders)

\* The linked queue is sound between any two critical sections of lab 2.2:
\* pointers and count agree, q->last is never followed while it is stale, and
\* no node leaks or is used after it is freed.
QueueIntact == TypeOK /\ PointersRight /\ NodesAccounted

F == INSTANCE BoundedFifo WITH fifo <- Contents

\* The queue implements the bounded FIFO: values leave in the order in which
\* they came, which is what the reader's "ERROR: get value is %d but expected"
\* (queue-threads.c:49) watches for.
ImplementsFifo == F!Spec
=============================================================================
