---------------------------- MODULE BoundedQueue ----------------------------
(***************************************************************************)
(* Queue.c of Lab 8 Ex 3 and Lab 9 Ex 3 and 4 (the same file): a linked    *)
(* list with a counter.  Here every call is one step, which is what its    *)
(* callers' mutex makes of it; the list is the sequence of its data.       *)
(***************************************************************************)
EXTENDS Integers, Sequences

CONSTANT
  Capacity  (* Elements the queue holds at most: 8 in the code.            *)

ASSUME BoundedQueueAssumption == Capacity \in Nat \ {0}

\* What dequeue() returns for an empty queue.  The producers also make 0s.
Phantom == 0

newQueue == [limit |-> 0, items |-> << >>]

\* Mutant of enqueue: limit++ forgotten for the first element of an empty list.
enqueue_FirstUncounted(q, x) ==
  CASE q.items = << >>    -> [limit |-> q.limit, items |-> <<x>>]
    [] q.items # << >> /\ q.limit < Capacity
                          -> [limit |-> q.limit + 1, items |-> Append(q.items, x)]
    [] OTHER              -> q

\* An empty list takes the element whatever `limit' says; a full queue drops
\* it, and the caller is not told.
enqueue(q, x) ==
  IF q.items = << >> \/ q.limit < Capacity
    THEN [limit |-> q.limit + 1, items |-> Append(q.items, x)]
    ELSE q

dequeue(q) ==
  IF q.items = << >> THEN q ELSE [limit |-> q.limit - 1, items |-> Tail(q.items)]

dequeued(q) == IF q.items = << >> THEN Phantom ELSE Head(q.items)

\* Mutant of queueNotFull: limit <= 8.
queueNotFull_OffByOne(q) == q.limit <= Capacity

queueNotFull(q)  == q.limit < Capacity
queueNotEmpty(q) == q.limit > 0
=============================================================================
