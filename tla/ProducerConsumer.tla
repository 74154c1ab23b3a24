-------------------------- MODULE ProducerConsumer --------------------------
(***************************************************************************)
(* Lab 8 Ex 3: one producer thread and one consumer thread share a bounded *)
(* queue.  Each looks at the queue's counter without the mutex and takes   *)
(* the mutex afterwards, to enqueue or dequeue.                            *)
(***************************************************************************)
EXTENDS BoundedQueue

CONSTANTS
  LIMIT,    (* Elements each thread handles: 64 in the code.               *)
  Value     (* What the producer draws with rand() % 40.                   *)

ASSUME ProducerConsumerAssumption == LIMIT \in Nat /\ Value \subseteq Nat /\ Value # {}

VARIABLES
  q,        (* The shared queue.                                           *)
  mutex,    (* The thread that holds the mutex, or "free".                 *)
  pc,       (* The next statement of each thread.                          *)
  i,        (* Each thread's loop counter.                                 *)
  made,     (* History: everything the producer made, in order.            *)
  eaten     (* History: everything the consumer got, in order.             *)

vars == <<q, mutex, pc, i, made, eaten>>

Thread == {"produtor", "consumidor"}

TypeOK ==
  /\ q \in [limit : Int, items : Seq(Value)]
  /\ mutex \in Thread \cup {"free"}
  /\ pc \in [Thread -> {"test", "lock", "access", "unlock", "exit"}]
  /\ i \in [Thread -> 0 .. LIMIT]
  /\ made \in Seq(Value)
  /\ eaten \in Seq(Value \cup {Phantom})

Init ==
  /\ q = newQueue
  /\ mutex = "free"
  /\ pc = [t \in Thread |-> "test"]
  /\ i = [t \in Thread |-> 0]
  /\ made = << >>
  /\ eaten = << >>

Goto(t, label) == pc' = [pc EXCEPT ![t] = label]

\* Mutant of Test: the queue is not looked at.
Test_Blind(t, open) ==
  /\ pc[t] = "test"
  /\ Goto(t, IF i[t] < LIMIT THEN "lock" ELSE "exit")
  /\ UNCHANGED <<q, mutex, i, made, eaten>>

\* The head of the for loop and the unlocked test; a thread that finds the
\* queue full, or empty, sleeps and tries again.
Test(t, open) ==
  /\ pc[t] = "test"
  /\ IF i[t] < LIMIT THEN open /\ Goto(t, "lock") ELSE Goto(t, "exit")
  /\ UNCHANGED <<q, mutex, i, made, eaten>>

Lock(t) ==
  /\ pc[t] = "lock"
  /\ mutex = "free"
  /\ mutex' = t
  /\ Goto(t, "access")
  /\ UNCHANGED <<q, i, made, eaten>>

Unlock(t) ==
  /\ pc[t] = "unlock"
  /\ mutex' = "free"
  /\ i' = [i EXCEPT ![t] = @ + 1]
  /\ Goto(t, "test")
  /\ UNCHANGED <<q, made, eaten>>

Produce ==
  /\ pc["produtor"] = "access"
  /\ \E r \in Value :
       /\ q' = enqueue(q, r)
       /\ made' = Append(made, r)
  /\ Goto("produtor", "unlock")
  /\ UNCHANGED <<mutex, i, eaten>>

Consume ==
  /\ pc["consumidor"] = "access"
  /\ eaten' = Append(eaten, dequeued(q))
  /\ q' = dequeue(q)
  /\ Goto("consumidor", "unlock")
  /\ UNCHANGED <<mutex, i, made>>

produtor ==
  Test("produtor", queueNotFull(q)) \/ Lock("produtor") \/ Produce \/ Unlock("produtor")

consumidor ==
  Test("consumidor", queueNotEmpty(q)) \/ Lock("consumidor") \/ Consume \/ Unlock("consumidor")

Next == produtor \/ consumidor

Spec == Init /\ [][Next]_vars

-----------------------------------------------------------------------------
(* Properties.                                                             *)

\* The consumer gets exactly what the producer made, in order, and the rest is
\* still queued: although the counter is read without the mutex and may change
\* before the lock is taken, enqueue() never drops an element and dequeue()
\* never makes one up.
NothingLost == made = eaten \o q.items

\* The unlocked test stays true until it is acted on: a producer that goes on to
\* enqueue() still finds room, a consumer on its way to dequeue() an element.
TestStaysTrue ==
  /\ pc["produtor"] \in {"lock", "access"} => Len(q.items) < Capacity
  /\ pc["consumidor"] \in {"lock", "access"} => q.items # << >>

\* The counter the unlocked tests rely on is the length of the list.
LimitIsLength == q.limit = Len(q.items)

=============================================================================
