------------------------ MODULE ProducerConsumerCond ------------------------
(***************************************************************************)
(* Lab 9 Ex 4: several producers and consumers.  A producer that finds the *)
(* queue full waits on the condition variable `product', a consumer that   *)
(* finds it empty on `consume'; each side has a mutex of its own for its   *)
(* waits, and neither of them protects the test that leads to the wait.    *)
(* The tests read the queue's counter while another thread may be inside   *)
(* enqueue() or dequeue(), so these change the counter and the list in two *)
(* steps, in the order Queue.c does.                                       *)
(***************************************************************************)
EXTENDS Integers, Sequences, FiniteSets

CONSTANTS
  Capacity,               (* Elements the queue holds at most: 8.          *)
  Producers, Consumers,   (* The threads: two of each in the code.         *)
  LIMIT                   (* Elements each thread handles: 20 in the code. *)

ASSUME ProducerConsumerCondAssumption ==
  /\ Capacity \in Nat \ {0}
  /\ LIMIT \in Nat
  /\ Producers \cap Consumers = {}

Thread == Producers \cup Consumers

VARIABLES
  limit,    (* The queue's counter.                                        *)
  length,   (* How many nodes the queue's list has; what is in them does   *)
            (* not matter here.                                            *)
  held,     (* The threads that hold a mutex: "mutex", "production_mutex", *)
            (* "consume_mutex"; a mutex is a set of at most one thread.    *)
  pc,       (* The next statement of each thread.                          *)
  i         (* Each thread's loop counter.                                 *)

queueVars == <<limit, length>>
vars == <<queueVars, held, pc, i>>

Mutex == {"mutex", "production_mutex", "consume_mutex"}

Label == {"test", "lock", "access", "link", "count", "unlock", "signal", "waitlock", "wait",
          "blocked", "relock", "waitunlock", "exit"}

TypeOK ==
  /\ limit \in Int
  /\ length \in Nat
  /\ held \in [Mutex -> SUBSET Thread]
  /\ pc \in [Thread -> Label]
  /\ i \in [Thread -> 0 .. LIMIT]

Init ==
  /\ limit = 0 /\ length = 0
  /\ held = [m \in Mutex |-> {}]
  /\ pc = [t \in Thread |-> "test"]
  /\ i = [t \in Thread |-> 0]

-----------------------------------------------------------------------------
(* pthreads.                                                               *)

Goto(t, label) == pc' = [pc EXCEPT ![t] = label]

Acquire(t, m) == held[m] = {} /\ held' = [held EXCEPT ![m] = {t}]
Release(t, m) == held' = [held EXCEPT ![m] = @ \ {t}]

\* The condition a thread waits on, the mutex it does so with, and the
\* condition it signals after its own access.
WaitsOn(t)   == IF t \in Producers THEN "product" ELSE "consume"
WaitMutex(t) == IF t \in Producers THEN "production_mutex" ELSE "consume_mutex"
Signals(t)   == IF t \in Producers THEN "consume" ELSE "product"

-----------------------------------------------------------------------------
(* produtor() and consumidor().                                            *)

\* queueNotFull() or queueNotEmpty(), read without the mutex.
Open(t) == IF t \in Producers THEN limit < Capacity ELSE limit > 0

Test(t) ==
  /\ pc[t] = "test"
  /\ Goto(t, IF i[t] = LIMIT THEN "exit" ELSE IF Open(t) THEN "lock" ELSE "waitlock")
  /\ UNCHANGED <<queueVars, held, i>>

\* Mutant of Lock: the mutex is not taken.
Lock_Missing(t) ==
  /\ pc[t] = "lock"
  /\ Goto(t, "access")
  /\ UNCHANGED <<queueVars, held, i>>

Lock(t) ==
  /\ pc[t] = "lock"
  /\ Acquire(t, "mutex")
  /\ Goto(t, "access")
  /\ UNCHANGED <<queueVars, i>>

\* The new node becomes the last one.
Link == length' = length + 1

\* enqueue(): an empty list takes the element before it is counted; otherwise
\* it is counted first, if there is room, or dropped without a word.
Produce(t) ==
  /\ pc[t] = "access" /\ t \in Producers
  /\ \/ length = 0 /\ Link /\ Goto(t, "count") /\ UNCHANGED limit
     \/ /\ length # 0 /\ limit < Capacity
        /\ limit' = limit + 1
        /\ Goto(t, "link")
        /\ UNCHANGED length
     \/ /\ length # 0 /\ limit >= Capacity
        /\ Goto(t, "unlock")
        /\ UNCHANGED queueVars
  /\ UNCHANGED <<held, i>>

LinkLast(t) ==
  /\ pc[t] = "link"
  /\ Link
  /\ Goto(t, "unlock")
  /\ UNCHANGED <<limit, held, i>>

\* dequeue() yields 0 when the list is empty, and the consumer counts it.
Consume(t) ==
  /\ pc[t] = "access" /\ t \in Consumers
  /\ IF length = 0
       THEN Goto(t, "unlock") /\ UNCHANGED length
       ELSE length' = length - 1 /\ Goto(t, "count")
  /\ UNCHANGED <<limit, held, i>>

Count(t) ==
  /\ pc[t] = "count"
  /\ limit' = IF t \in Producers THEN limit + 1 ELSE limit - 1
  /\ Goto(t, "unlock")
  /\ UNCHANGED <<length, held, i>>

Unlock(t) ==
  /\ pc[t] = "unlock"
  /\ Release(t, "mutex")
  /\ Goto(t, "signal")
  /\ UNCHANGED <<queueVars, i>>

Waiters(condition) == {t \in Thread : pc[t] = "blocked" /\ WaitsOn(t) = condition}

\* pthread_cond_signal() wakes one thread that waits, if there is any; i++.
Signal(t) ==
  /\ pc[t] = "signal"
  /\ LET waiting == Waiters(Signals(t))
     IN  IF waiting = {}
           THEN Goto(t, "test")
           ELSE \E w \in waiting : pc' = [pc EXCEPT ![t] = "test", ![w] = "relock"]
  /\ i' = [i EXCEPT ![t] = @ + 1]
  /\ UNCHANGED <<queueVars, held>>

WaitLock(t) ==
  /\ pc[t] = "waitlock"
  /\ Acquire(t, WaitMutex(t))
  /\ Goto(t, "wait")
  /\ UNCHANGED <<queueVars, i>>

\* pthread_cond_wait(): blocks and releases the mutex in one step.
Wait(t) ==
  /\ pc[t] = "wait"
  /\ Release(t, WaitMutex(t))
  /\ Goto(t, "blocked")
  /\ UNCHANGED <<queueVars, i>>

\* It may also return although nobody signalled.
Spurious(t) ==
  /\ pc[t] = "blocked"
  /\ Goto(t, "relock")
  /\ UNCHANGED <<queueVars, held, i>>

\* ... and takes the mutex again before it returns.
Relock(t) ==
  /\ pc[t] = "relock"
  /\ Acquire(t, WaitMutex(t))
  /\ Goto(t, "waitunlock")
  /\ UNCHANGED <<queueVars, i>>

\* Mutant of WaitUnlock: the waiting mutex is kept.
WaitUnlock_Missing(t) ==
  /\ pc[t] = "waitunlock"
  /\ Goto(t, "test")
  /\ UNCHANGED <<queueVars, held, i>>

WaitUnlock(t) ==
  /\ pc[t] = "waitunlock"
  /\ Release(t, WaitMutex(t))
  /\ Goto(t, "test")
  /\ UNCHANGED <<queueVars, i>>

Step(t) ==
  \/ Test(t) \/ Lock(t) \/ Produce(t) \/ LinkLast(t) \/ Consume(t) \/ Count(t)
  \/ Unlock(t) \/ Signal(t)
  \/ WaitLock(t) \/ Wait(t) \/ Relock(t) \/ WaitUnlock(t)

Next == \E t \in Thread : Step(t) \/ Spurious(t)

Spec == Init /\ [][Next]_vars

-----------------------------------------------------------------------------
(* Properties.                                                             *)

\* The queue never holds more than Capacity elements and its counter never
\* drifts from its length, although several producers may pass the unlocked
\* test for the last free slot together.
WithinCapacity ==
  /\ length <= Capacity
  /\ held["mutex"] = {} => limit = length

\* The three mutexes never bring the program to a halt: unless every thread
\* waits on a condition or is done, some thread can go on.
MutexesAreReturned ==
  (\E t \in Thread : pc[t] \notin {"blocked", "exit"}) => \E t \in Thread : ENABLED Step(t)

\* The program comes to its end: the threads never all wait for one another.
NeverAllBlocked ==
  (\A t \in Thread : pc[t] \in {"blocked", "exit"}) => \A t \in Thread : pc[t] = "exit"
=============================================================================
