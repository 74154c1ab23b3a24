----------------------- MODULE ProducerConsumerProofs -----------------------
(***************************************************************************)
(* Safety of ProducerConsumer for every Capacity, LIMIT and Value.         *)
(***************************************************************************)
EXTENDS ProducerConsumer, SequenceTheorems, TLAPS

\* enqueue() below the limit appends the element, and the counter follows.
LEMMA EnqueueAppends ==
  ASSUME NEW S, NEW r \in S,
         NEW queue \in [limit : Int, items : Seq(S)],
         queue.limit = Len(queue.items), Len(queue.items) < Capacity
  PROVE  /\ enqueue(queue, r).items = Append(queue.items, r)
         /\ enqueue(queue, r).items \in Seq(S)
         /\ enqueue(queue, r).limit = Len(enqueue(queue, r).items)
         /\ Len(enqueue(queue, r).items) = Len(queue.items) + 1
         /\ enqueue(queue, r) \in [limit : Int, items : Seq(S)]
<1>1. enqueue(queue, r) = [limit |-> queue.limit + 1, items |-> Append(queue.items, r)]
  BY DEF enqueue
<1>2. /\ Append(queue.items, r) \in Seq(S)
      /\ Len(Append(queue.items, r)) = Len(queue.items) + 1
  BY AppendProperties
<1> QED  BY <1>1, <1>2

\* dequeue() on a queue that is not empty takes its first element off.
LEMMA DequeueTakesFirst ==
  ASSUME NEW S,
         NEW queue \in [limit : Int, items : Seq(S)],
         queue.limit = Len(queue.items), queue.items # << >>
  PROVE  /\ dequeued(queue) \in S
         /\ queue.items = <<dequeued(queue)>> \o dequeue(queue).items
         /\ dequeue(queue).limit = Len(dequeue(queue).items)
         /\ Len(dequeue(queue).items) = Len(queue.items) - 1
         /\ dequeue(queue) \in [limit : Int, items : Seq(S)]
<1>1. /\ dequeue(queue) = [limit |-> queue.limit - 1, items |-> Tail(queue.items)]
      /\ dequeued(queue) = Head(queue.items)
  BY DEF dequeue, dequeued
<1>2. /\ Head(queue.items) \in S
      /\ Tail(queue.items) \in Seq(S)
      /\ Len(Tail(queue.items)) = Len(queue.items) - 1
  BY HeadTailProperties
<1>3. queue.items = <<Head(queue.items)>> \o Tail(queue.items)
  <2>1. <<Head(queue.items)>> \in Seq(S)
    BY <1>2
  <2>2. /\ <<Head(queue.items)>> \o Tail(queue.items) \in Seq(S)
        /\ Len(<<Head(queue.items)>> \o Tail(queue.items)) = Len(queue.items)
    BY <1>2, <2>1, ConcatProperties
  <2>3. \A k \in 1 .. Len(queue.items) :
          (<<Head(queue.items)>> \o Tail(queue.items))[k] = queue.items[k]
    BY <1>2, <2>1, ConcatProperties, HeadTailProperties
  <2> QED  BY <2>2, <2>3, SeqEqual
<1> QED  BY <1>1, <1>2, <1>3

\* Appending at the end of the second of two sequences, and moving the first
\* element of the second to the end of the first.
LEMMA AppendToSecond ==
  ASSUME NEW S, NEW s \in Seq(S), NEW t \in Seq(S), NEW e \in S,
         NEW u \in Seq(S), u = s \o t
  PROVE  Append(u, e) = s \o Append(t, e)
<1>1. <<e>> \in Seq(S)
  OBVIOUS
<1>2. Append(u, e) = u \o <<e>>
  BY AppendIsConcat
<1>3. Append(t, e) = t \o <<e>>
  BY AppendIsConcat
<1>4. (s \o t) \o <<e>> = s \o (t \o <<e>>)
  BY <1>1, ConcatAssociative
<1> QED  BY <1>2, <1>3, <1>4

LEMMA MoveToFirst ==
  ASSUME NEW S, NEW s \in Seq(S), NEW t \in Seq(S), NEW e \in S
  PROVE  s \o (<<e>> \o t) = Append(s, e) \o t
<1>1. <<e>> \in Seq(S)
  OBVIOUS
<1>2. Append(s, e) = s \o <<e>>
  BY AppendIsConcat
<1>3. (s \o <<e>>) \o t = s \o (<<e>> \o t)
  BY <1>1, ConcatAssociative
<1> QED  BY <1>2, <1>3

-----------------------------------------------------------------------------
(* The inductive invariant.  A thread past its test finds the queue as the *)
(* test saw it because the other thread only moves the counter the other   *)
(* way, so it has to say who is past the test and what the counter then is.*)

TypeInv ==
  /\ q \in [limit : Int, items : Seq(Value)]
  /\ pc \in [Thread -> {"test", "lock", "access", "unlock", "exit"}]
  /\ i \in [Thread -> 0 .. LIMIT]
  /\ made \in Seq(Value)
  /\ eaten \in Seq(Value)

\* A thread past its test has an element left to handle.
UnderLimit == \A t \in Thread : pc[t] \in {"lock", "access", "unlock"} => i[t] < LIMIT

\* The mutex is held by the thread between its Lock and its Unlock.
MutexHeld ==
  /\ mutex \in Thread \cup {"free"}
  /\ \A t \in Thread : pc[t] \in {"access", "unlock"} <=> mutex = t

IInv == TypeInv /\ UnderLimit /\ MutexHeld /\ LimitIsLength /\ TestStaysTrue /\ NothingLost

USE BoundedQueueAssumption, ProducerConsumerAssumption

LEMMA InitInv == Init => IInv
<1> SUFFICES ASSUME Init PROVE IInv
  OBVIOUS
<1>1. << >> \o << >> = << >>
  OBVIOUS
<1> QED
  BY <1>1 DEF Init, IInv, TypeInv, UnderLimit, MutexHeld, LimitIsLength, TestStaysTrue,
              NothingLost, newQueue, Thread

LEMMA NextInv == IInv /\ [Next]_vars => IInv'
<1> SUFFICES ASSUME IInv, [Next]_vars PROVE IInv'
  OBVIOUS
<1> USE DEF IInv, Thread
<1>1. ASSUME NEW t \in Thread, NEW open, Test(t, open),
             open => IF t = "produtor" THEN queueNotFull(q) ELSE queueNotEmpty(q)
      PROVE  IInv'
  <2>1. TypeInv' /\ UnderLimit' /\ MutexHeld'
    BY <1>1 DEF Test, Goto, TypeInv, UnderLimit, MutexHeld
  <2>2. LimitIsLength' /\ NothingLost'
    BY <1>1 DEF Test, LimitIsLength, NothingLost
  <2>3. open /\ t = "produtor" => Len(q.items) < Capacity
    BY <1>1 DEF queueNotFull, LimitIsLength
  <2>4. open /\ t = "consumidor" => q.items # << >>
    BY <1>1 DEF queueNotEmpty, LimitIsLength
  <2>5. TestStaysTrue'
    BY <1>1, <2>3, <2>4 DEF Test, Goto, TypeInv, TestStaysTrue
  <2> QED  BY <2>1, <2>2, <2>5
<1>2. ASSUME NEW t \in Thread, Lock(t)
      PROVE  IInv'
  <2>1. TypeInv' /\ UnderLimit' /\ MutexHeld'
    BY <1>2 DEF Lock, Goto, TypeInv, UnderLimit, MutexHeld
  <2>2. LimitIsLength' /\ NothingLost' /\ TestStaysTrue'
    BY <1>2 DEF Lock, Goto, TypeInv, LimitIsLength, NothingLost, TestStaysTrue
  <2> QED  BY <2>1, <2>2
<1>3. ASSUME NEW t \in Thread, Unlock(t)
      PROVE  IInv'
  <2>1. TypeInv' /\ UnderLimit'
    BY <1>3 DEF Unlock, Goto, TypeInv, UnderLimit
  <2>2. MutexHeld'
    BY <1>3 DEF Unlock, Goto, TypeInv, MutexHeld
  <2>3. LimitIsLength' /\ NothingLost' /\ TestStaysTrue'
    BY <1>3 DEF Unlock, Goto, TypeInv, LimitIsLength, NothingLost, TestStaysTrue
  <2> QED  BY <2>1, <2>2, <2>3
<1>4. ASSUME Produce
      PROVE  IInv'
  <2>1. PICK r \in Value : q' = enqueue(q, r) /\ made' = Append(made, r)
    BY <1>4 DEF Produce
  <2>2. q.limit = Len(q.items) /\ Len(q.items) < Capacity
    BY <1>4 DEF Produce, LimitIsLength, TestStaysTrue
  <2>3. /\ q'.items = Append(q.items, r)
        /\ q'.limit = Len(q'.items)
        /\ Len(q'.items) = Len(q.items) + 1
        /\ q' \in [limit : Int, items : Seq(Value)]
    <3>1. q \in [limit : Int, items : Seq(Value)]
      BY DEF TypeInv
    <3> QED  BY ONLY r \in Value, <2>1, <2>2, <3>1, EnqueueAppends
  <2>4. made' = eaten' \o q'.items
    <3>1. made \in Seq(Value) /\ eaten \in Seq(Value) /\ q.items \in Seq(Value)
      BY DEF TypeInv
    <3>2. made = eaten \o q.items
      BY DEF NothingLost
    <3>3. Append(made, r) = eaten \o Append(q.items, r)
      BY ONLY r \in Value, <3>1, <3>2, AppendToSecond, ZenonT(40)
    <3> QED  BY <1>4, <2>1, <2>3, <3>3 DEF Produce
  <2>5. TypeInv'
    BY <1>4, <2>1, <2>3, AppendProperties DEF Produce, Goto, TypeInv
  <2>6. UnderLimit' /\ MutexHeld'
    BY <1>4 DEF Produce, Goto, TypeInv, UnderLimit, MutexHeld
  <2>7. q'.items # << >>
    BY <2>1, <2>3, AppendProperties DEF TypeInv
  <2>8. LimitIsLength' /\ NothingLost'
    BY <2>3, <2>4 DEF LimitIsLength, NothingLost
  <2>9. TestStaysTrue'
    BY <1>4, <2>7 DEF Produce, Goto, TypeInv, TestStaysTrue
  <2> QED  BY <2>5, <2>6, <2>8, <2>9
<1>5. ASSUME Consume
      PROVE  IInv'
  <2>1. q.limit = Len(q.items) /\ q.items # << >>
    BY <1>5 DEF Consume, LimitIsLength, TestStaysTrue
  <2>2. /\ dequeued(q) \in Value
        /\ q.items = <<dequeued(q)>> \o q'.items
        /\ q'.limit = Len(q'.items)
        /\ Len(q'.items) = Len(q.items) - 1
        /\ q' \in [limit : Int, items : Seq(Value)]
    BY <1>5, <2>1, DequeueTakesFirst DEF Consume, TypeInv
  <2>3. made' = eaten' \o q'.items
    <3>1. made' = eaten \o (<<dequeued(q)>> \o q'.items)
      BY <1>5, <2>2 DEF Consume, NothingLost
    <3>2. eaten \o (<<dequeued(q)>> \o q'.items) = Append(eaten, dequeued(q)) \o q'.items
      <4>1. eaten \in Seq(Value) /\ q'.items \in Seq(Value)
        BY <2>2 DEF TypeInv
      <4> QED  BY <2>2, <4>1, MoveToFirst
    <3> QED  BY <1>5, <3>1, <3>2 DEF Consume
  <2>4. TypeInv'
    BY <1>5, <2>2, AppendProperties DEF Consume, Goto, TypeInv
  <2>5. UnderLimit' /\ MutexHeld'
    BY <1>5 DEF Consume, Goto, TypeInv, UnderLimit, MutexHeld
  <2>6. LimitIsLength' /\ NothingLost'
    BY <2>2, <2>3 DEF LimitIsLength, NothingLost
  <2>7. Len(q.items) \in Nat
    BY LenProperties DEF TypeInv
  <2>8. TestStaysTrue'
    BY <1>5, <2>2, <2>7 DEF Consume, Goto, TypeInv, TestStaysTrue
  <2> QED  BY <2>4, <2>5, <2>6, <2>8
<1>6. CASE UNCHANGED vars
  BY <1>6 DEF vars, TypeInv, UnderLimit, MutexHeld, LimitIsLength, TestStaysTrue, NothingLost
<1> QED
  BY <1>1, <1>2, <1>3, <1>4, <1>5, <1>6 DEF Next, produtor, consumidor

LEMMA Invariant == Spec => []IInv
BY InitInv, NextInv, PTL DEF Spec

\* The variables keep their types; in particular no counter passes LIMIT.
THEOREM TypeCorrect == Spec => []TypeOK
<1>1. IInv => TypeOK
  <2> SUFFICES ASSUME IInv PROVE TypeOK
    OBVIOUS
  <2>1. eaten \in Seq(Value \cup {Phantom})
    BY DEF IInv, TypeInv
  <2> QED  BY <2>1 DEF IInv, TypeInv, MutexHeld, TypeOK
<1> QED  BY <1>1, Invariant, PTL

\* However the two threads interleave, the consumer gets what the producer made,
\* in order, and the rest is queued.
THEOREM NothingIsLost == Spec => []NothingLost
<1>1. IInv => NothingLost
  BY DEF IInv
<1> QED  BY <1>1, Invariant, PTL

\* What a thread saw of the counter before it took the mutex still holds when it
\* accesses the queue.
THEOREM TestsStayTrue == Spec => []TestStaysTrue
<1>1. IInv => TestStaysTrue
  BY DEF IInv
<1> QED  BY <1>1, Invariant, PTL

\* The counter that both threads test without the mutex is the length of the
\* list, as long as the calls of Queue.c are taken as one step each.
THEOREM CounterIsTrue == Spec => []LimitIsLength
<1>1. IInv => LimitIsLength
  BY DEF IInv
<1> QED  BY <1>1, Invariant, PTL
=============================================================================
