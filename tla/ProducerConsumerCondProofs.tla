--------------------- MODULE ProducerConsumerCondProofs ---------------------
(***************************************************************************)
(* Safety of ProducerConsumerCond for any number of threads, any Capacity  *)
(* and any LIMIT.                                                          *)
(***************************************************************************)
EXTENDS ProducerConsumerCond, TLAPS

(***************************************************************************)
(* The inductive invariant: who is inside the mutex, and how far the       *)
(* counter is off while that thread is in the middle of its call.          *)
(***************************************************************************)
Inside(t) == pc[t] \in {"access", "link", "count", "unlock"}

MutexHeld ==
  /\ held["mutex"] = {t \in Thread : Inside(t)}
  /\ \A s, t \in Thread : Inside(s) /\ Inside(t) => s = t

CounterLag ==
  /\ (\A t \in Thread : pc[t] \notin {"link", "count"}) => limit = length
  /\ \A t \in Thread :
       /\ pc[t] = "link" => limit = length + 1 /\ limit <= Capacity
       /\ pc[t] = "count" => limit = IF t \in Producers THEN length - 1 ELSE length + 1

UnderLimit ==
  \A t \in Thread : pc[t] = "lock" \/ pc[t] = "signal" \/ Inside(t) => i[t] < LIMIT

IInv == TypeOK /\ UnderLimit /\ MutexHeld /\ CounterLag /\ length <= Capacity

USE ProducerConsumerCondAssumption

LEMMA InitInv == Init => IInv
BY DEF Init, IInv, TypeOK, UnderLimit, MutexHeld, Inside, CounterLag, Mutex, Label, Thread

\* A step that stays outside the queue and moves one thread between statements
\* outside the mutex keeps the queue's part of the invariant.
LEMMA OutsideStep ==
  ASSUME IInv, NEW t \in Thread, ~Inside(t), ~Inside(t)',
         \A s \in Thread : pc'[s] # pc[s] => ~Inside(s) /\ ~Inside(s)',
         pc' \in [Thread -> Label],
         held'["mutex"] = held["mutex"], UNCHANGED queueVars
  PROVE  MutexHeld' /\ CounterLag'
<1>1. \A s \in Thread : Inside(s)' <=> Inside(s)
  BY DEF IInv, TypeOK, Inside
<1>2. \A s \in Thread : \A label \in {"link", "count"} : pc'[s] = label <=> pc[s] = label
  BY DEF IInv, TypeOK, Inside
<1>3. MutexHeld'
  BY <1>1 DEF IInv, MutexHeld
<1>4. CounterLag'
  BY <1>2 DEF IInv, CounterLag, queueVars
<1> QED  BY <1>3, <1>4

LEMMA NextInv == IInv /\ [Next]_vars => IInv'
<1> SUFFICES ASSUME IInv, [Next]_vars PROVE IInv'
  OBVIOUS
<1> USE DEF Goto, Label, Mutex
<1>1. ASSUME NEW t \in Thread, Test(t)
      PROVE  IInv'
  <2>1. TypeOK' /\ UnderLimit'
    BY <1>1 DEF IInv, Test, TypeOK, UnderLimit, Inside, queueVars
  <2>2. MutexHeld' /\ CounterLag'
    BY <1>1, OutsideStep DEF IInv, Test, TypeOK, Inside
  <2> QED  BY <1>1, <2>1, <2>2 DEF IInv, Test, queueVars
<1>2. ASSUME NEW t \in Thread, Lock(t)
      PROVE  IInv'
  <2>1. TypeOK' /\ UnderLimit'
    BY <1>2 DEF IInv, Lock, Acquire, TypeOK, UnderLimit, Inside, queueVars
  <2>2. MutexHeld'
    BY <1>2 DEF IInv, Lock, Acquire, TypeOK, MutexHeld, Inside
  <2>3. CounterLag'
    BY <1>2 DEF IInv, Lock, TypeOK, CounterLag, queueVars
  <2> QED  BY <1>2, <2>1, <2>2, <2>3 DEF IInv, Lock, queueVars
<1>3. ASSUME NEW t \in Thread, Produce(t)
      PROVE  IInv'
  <2>1. limit = length /\ \A s \in Thread : s # t => ~Inside(s)
    BY <1>3 DEF IInv, Produce, TypeOK, MutexHeld, CounterLag, Inside
  <2>2. TypeOK' /\ UnderLimit'
    BY <1>3 DEF IInv, Produce, Link, TypeOK, UnderLimit, Inside, queueVars
  <2>3. MutexHeld'
    BY <1>3 DEF IInv, Produce, TypeOK, MutexHeld, Inside
  <2>4. CounterLag'
    BY <1>3, <2>1 DEF IInv, Produce, Link, TypeOK, CounterLag, Inside, queueVars
  <2>5. length' <= Capacity
    BY <1>3 DEF IInv, Produce, Link, TypeOK, queueVars
  <2> QED  BY <2>2, <2>3, <2>4, <2>5 DEF IInv
<1>4. ASSUME NEW t \in Thread, LinkLast(t)
      PROVE  IInv'
  <2>1. /\ limit = length + 1 /\ limit <= Capacity
        /\ \A s \in Thread : s # t => ~Inside(s)
    BY <1>4 DEF IInv, LinkLast, TypeOK, MutexHeld, CounterLag, Inside
  <2>2. TypeOK' /\ UnderLimit'
    BY <1>4 DEF IInv, LinkLast, Link, TypeOK, UnderLimit, Inside
  <2>3. MutexHeld'
    BY <1>4 DEF IInv, LinkLast, TypeOK, MutexHeld, Inside
  <2>4. CounterLag' /\ length' <= Capacity
    BY <1>4, <2>1 DEF IInv, LinkLast, Link, TypeOK, CounterLag, Inside
  <2> QED  BY <2>2, <2>3, <2>4 DEF IInv
<1>5. ASSUME NEW t \in Thread, Consume(t)
      PROVE  IInv'
  <2>1. limit = length /\ \A s \in Thread : s # t => ~Inside(s)
    BY <1>5 DEF IInv, Consume, TypeOK, MutexHeld, CounterLag, Inside
  <2>2. t \notin Producers
    BY <1>5 DEF Consume
  <2>3. TypeOK' /\ UnderLimit'
    BY <1>5 DEF IInv, Consume, TypeOK, UnderLimit, Inside
  <2>4. MutexHeld'
    BY <1>5 DEF IInv, Consume, TypeOK, MutexHeld, Inside
  <2>5. CounterLag' /\ length' <= Capacity
    BY <1>5, <2>1, <2>2 DEF IInv, Consume, TypeOK, CounterLag, Inside
  <2> QED  BY <2>3, <2>4, <2>5 DEF IInv
<1>6. ASSUME NEW t \in Thread, Count(t)
      PROVE  IInv'
  <2>1. /\ limit = IF t \in Producers THEN length - 1 ELSE length + 1
        /\ \A s \in Thread : s # t => ~Inside(s)
    BY <1>6 DEF IInv, Count, TypeOK, MutexHeld, CounterLag, Inside
  <2>2. TypeOK' /\ UnderLimit'
    BY <1>6 DEF IInv, Count, TypeOK, UnderLimit, Inside
  <2>3. MutexHeld'
    BY <1>6 DEF IInv, Count, TypeOK, MutexHeld, Inside
  <2>4. CounterLag' /\ length' <= Capacity
    BY <1>6, <2>1 DEF IInv, Count, TypeOK, CounterLag, Inside
  <2> QED  BY <2>2, <2>3, <2>4 DEF IInv
<1>7. ASSUME NEW t \in Thread, Unlock(t)
      PROVE  IInv'
  <2>1. TypeOK' /\ UnderLimit'
    BY <1>7 DEF IInv, Unlock, Release, TypeOK, UnderLimit, Inside, queueVars
  <2>2. MutexHeld'
    BY <1>7 DEF IInv, Unlock, Release, TypeOK, MutexHeld, Inside
  <2>3. CounterLag' /\ length' <= Capacity
    BY <1>7 DEF IInv, Unlock, TypeOK, CounterLag, queueVars
  <2> QED  BY <2>1, <2>2, <2>3 DEF IInv
<1>8. ASSUME NEW t \in Thread, Signal(t)
      PROVE  IInv'
  <2>1. \A s \in Thread : \/ pc'[s] = pc[s]
                          \/ s = t /\ pc'[s] = "test"
                          \/ pc[s] = "blocked" /\ pc'[s] = "relock"
    BY <1>8 DEF IInv, Signal, Waiters, TypeOK
  <2>2. pc' \in [Thread -> Label]
    BY <1>8 DEF IInv, Signal, Waiters, TypeOK
  <2>3. TypeOK' /\ UnderLimit'
    BY <1>8, <2>1, <2>2 DEF IInv, Signal, TypeOK, UnderLimit, Inside, queueVars
  <2>4. pc[t] = "signal" /\ pc'[t] = "test"
    BY <1>8 DEF IInv, Signal, Waiters, TypeOK
  <2>5. MutexHeld' /\ CounterLag'
    BY <1>8, <2>1, <2>2, <2>4, OutsideStep DEF Signal, Inside
  <2> QED  BY <1>8, <2>3, <2>5 DEF IInv, Signal, queueVars
<1>9. ASSUME NEW t \in Thread, WaitLock(t) \/ Wait(t) \/ Relock(t) \/ WaitUnlock(t) \/ Spurious(t)
      PROVE  IInv'
  <2>1. WaitMutex(t) \in {"production_mutex", "consume_mutex"}
    BY DEF WaitMutex
  <2>2. /\ ~Inside(t) /\ ~Inside(t)'
        /\ \A s \in Thread : s # t => pc'[s] = pc[s]
        /\ pc' \in [Thread -> Label]
    BY <1>9 DEF IInv, TypeOK, WaitLock, Wait, Relock, WaitUnlock, Spurious, Inside
  <2>3. held'["mutex"] = held["mutex"] /\ held' \in [Mutex -> SUBSET Thread]
    BY <1>9, <2>1 DEF IInv, TypeOK, WaitLock, Wait, Relock, WaitUnlock, Spurious, Acquire, Release
  <2>4. UNCHANGED <<queueVars, i>> /\ pc'[t] \notin {"lock", "signal"}
    BY <1>9 DEF IInv, TypeOK, WaitLock, Wait, Relock, WaitUnlock, Spurious, queueVars
  <2>5. TypeOK' /\ UnderLimit'
    BY <2>2, <2>3, <2>4 DEF IInv, TypeOK, UnderLimit, Inside, queueVars
  <2>6. MutexHeld' /\ CounterLag'
    BY <2>2, <2>3, <2>4, OutsideStep
  <2> QED  BY <2>4, <2>5, <2>6 DEF IInv, queueVars
<1>10. CASE UNCHANGED vars
  BY <1>10 DEF vars, queueVars, IInv, TypeOK, UnderLimit, MutexHeld, CounterLag, Inside
<1> QED
  BY <1>1, <1>2, <1>3, <1>4, <1>5, <1>6, <1>7, <1>8, <1>9, <1>10 DEF Next, Step

LEMMA Invariant == Spec => []IInv
BY InitInv, NextInv, PTL DEF Spec

\* The variables keep their types; in particular no counter passes LIMIT.
THEOREM TypeCorrect == Spec => []TypeOK
<1>1. IInv => TypeOK
  BY DEF IInv
<1> QED  BY <1>1, Invariant, PTL

\* Any number of producers that pass the unlocked test together leave the queue
\* within its capacity and its counter right.
THEOREM QueueStaysWithinCapacity == Spec => []WithinCapacity
<1>1. IInv => WithinCapacity
  BY DEF IInv, MutexHeld, CounterLag, Inside, WithinCapacity
<1> QED  BY <1>1, Invariant, PTL

(***************************************************************************)
(* The mutexes come back.  ENABLED is beyond the prover, so the theorem    *)
(* says what MutexesAreReturned says with the guards written out.          *)
(***************************************************************************)

\* Who waits on a condition holds its side's mutex before and after, never while
\* it is blocked.
Owners(m) == {t \in Thread : pc[t] \in {"wait", "waitunlock"} /\ WaitMutex(t) = m}

WaitMutexHeld == \A m \in {"production_mutex", "consume_mutex"} : held[m] = Owners(m)

LEMMA InitWaitMutex == Init => WaitMutexHeld
BY DEF Init, WaitMutexHeld, Owners, Mutex

\* A step of t that changes no mutex of the waits.
LEMMA SameWaitMutex ==
  ASSUME IInv, WaitMutexHeld,
         \A m \in {"production_mutex", "consume_mutex"} : held'[m] = held[m],
         \A s \in Thread : pc'[s] \in {"wait", "waitunlock"} <=> pc[s] \in {"wait", "waitunlock"}
  PROVE  WaitMutexHeld'
BY DEF WaitMutexHeld, Owners, WaitMutex

LEMMA TakeWaitMutex ==
  ASSUME IInv, WaitMutexHeld, NEW t \in Thread, NEW from \in {"waitlock", "relock"}, pc[t] = from,
         NEW to \in {"wait", "waitunlock"}, Acquire(t, WaitMutex(t)), Goto(t, to)
  PROVE  WaitMutexHeld'
<1>1. /\ held[WaitMutex(t)] = {} /\ held' = [held EXCEPT ![WaitMutex(t)] = {t}]
      /\ pc' = [pc EXCEPT ![t] = to] /\ pc \in [Thread -> Label] /\ held \in [Mutex -> SUBSET Thread]
  BY DEF Acquire, Goto, IInv, TypeOK
<1>2. SUFFICES ASSUME NEW m \in {"production_mutex", "consume_mutex"} PROVE held'[m] = Owners(m)'
  BY DEF WaitMutexHeld
<1>3. WaitMutex(t) \in {"production_mutex", "consume_mutex"} /\ m \in Mutex
  BY DEF WaitMutex, Mutex
<1>4. held[m] = Owners(m)
  BY DEF WaitMutexHeld
<1>5. \A s \in Thread : pc'[s] = IF s = t THEN to ELSE pc[s]
  BY <1>1
<1>6. CASE m = WaitMutex(t)
  <2>1. held'[m] = {t}
    BY <1>1, <1>3, <1>6
  <2>2. \A s \in Thread : ~(pc[s] \in {"wait", "waitunlock"} /\ WaitMutex(s) = m)
    BY <1>1, <1>4, <1>6 DEF Owners
  <2>3. \A s \in Thread : pc'[s] \in {"wait", "waitunlock"} /\ WaitMutex(s) = m <=> s = t
    BY <1>5, <1>6, <2>2
  <2> QED  BY <2>1, <2>3 DEF Owners, WaitMutex
<1>7. CASE m # WaitMutex(t)
  <2>1. held'[m] = held[m]
    BY <1>1, <1>3, <1>7
  <2>2. \A s \in Thread : /\ pc'[s] \in {"wait", "waitunlock"} /\ WaitMutex(s) = m
                          <=> pc[s] \in {"wait", "waitunlock"} /\ WaitMutex(s) = m
    BY <1>5, <1>7
  <2> QED  BY <1>4, <2>1, <2>2 DEF Owners, WaitMutex
<1> QED  BY <1>6, <1>7

LEMMA GiveWaitMutex ==
  ASSUME IInv, WaitMutexHeld, NEW t \in Thread, pc[t] \in {"wait", "waitunlock"},
         NEW to \in {"blocked", "test"}, Release(t, WaitMutex(t)), Goto(t, to)
  PROVE  WaitMutexHeld'
<1>1. /\ held' = [held EXCEPT ![WaitMutex(t)] = @ \ {t}]
      /\ pc' = [pc EXCEPT ![t] = to] /\ pc \in [Thread -> Label] /\ held \in [Mutex -> SUBSET Thread]
  BY DEF Release, Goto, IInv, TypeOK
<1>2. SUFFICES ASSUME NEW m \in {"production_mutex", "consume_mutex"} PROVE held'[m] = Owners(m)'
  BY DEF WaitMutexHeld
<1>3. WaitMutex(t) \in {"production_mutex", "consume_mutex"} /\ m \in Mutex
  BY DEF WaitMutex, Mutex
<1>4. held[m] = Owners(m)
  BY DEF WaitMutexHeld
<1>5. \A s \in Thread : pc'[s] = IF s = t THEN to ELSE pc[s]
  BY <1>1
<1>6. held'[m] = IF m = WaitMutex(t) THEN held[m] \ {t} ELSE held[m]
  BY <1>1, <1>3
<1>7. \A s \in Thread : pc'[s] \in {"wait", "waitunlock"} /\ WaitMutex(s) = m
                        <=> s # t /\ pc[s] \in {"wait", "waitunlock"} /\ WaitMutex(s) = m
  BY <1>5
<1> QED  BY <1>4, <1>6, <1>7 DEF Owners, WaitMutex

LEMMA NextWaitMutex == IInv /\ WaitMutexHeld /\ [Next]_vars => WaitMutexHeld'
<1> SUFFICES ASSUME IInv, WaitMutexHeld, [Next]_vars PROVE WaitMutexHeld'
  OBVIOUS
<1>1. pc \in [Thread -> Label] /\ held \in [Mutex -> SUBSET Thread]
  BY DEF IInv, TypeOK
<1>2. ASSUME NEW t \in Thread, WaitLock(t) \/ Relock(t) PROVE WaitMutexHeld'
  BY <1>2, TakeWaitMutex DEF WaitLock, Relock
<1>3. ASSUME NEW t \in Thread, Wait(t) \/ WaitUnlock(t) PROVE WaitMutexHeld'
  BY <1>3, GiveWaitMutex DEF Wait, WaitUnlock
<1>4. ASSUME NEW t \in Thread, NEW from \in Label, NEW to \in Label,
             pc[t] = from, Goto(t, to), {from, to} \cap {"wait", "waitunlock"} = {},
             held' = held \/ Acquire(t, "mutex") \/ Release(t, "mutex")
      PROVE  WaitMutexHeld'
  <2>1. \A m \in {"production_mutex", "consume_mutex"} : held'[m] = held[m]
    BY <1>1, <1>4 DEF Acquire, Release, Mutex
  <2>2. \A s \in Thread : pc'[s] \in {"wait", "waitunlock"} <=> pc[s] \in {"wait", "waitunlock"}
    BY <1>1, <1>4 DEF Goto
  <2> QED  BY <2>1, <2>2, SameWaitMutex
<1>5. ASSUME NEW t \in Thread, Test(t) PROVE WaitMutexHeld'
  BY <1>4, <1>5 DEF Test, Label
<1>6. ASSUME NEW t \in Thread, Lock(t) \/ Unlock(t) PROVE WaitMutexHeld'
  BY <1>4, <1>6 DEF Lock, Unlock, Label
<1>7. ASSUME NEW t \in Thread, Produce(t) \/ LinkLast(t) \/ Consume(t) \/ Count(t) PROVE WaitMutexHeld'
  BY <1>4, <1>7 DEF Produce, LinkLast, Consume, Count, Label
<1>8. ASSUME NEW t \in Thread, Spurious(t) PROVE WaitMutexHeld'
  BY <1>4, <1>8 DEF Spurious, Label
<1>9. ASSUME NEW t \in Thread, Signal(t) PROVE WaitMutexHeld'
  <2>1. pc[t] = "signal" /\ held' = held
    BY <1>9 DEF Signal
  <2>2. CASE Goto(t, "test")
    BY <1>4, <2>1, <2>2 DEF Label
  <2>3. ASSUME NEW w \in Waiters(Signals(t)), pc' = [pc EXCEPT ![t] = "test", ![w] = "relock"]
        PROVE  WaitMutexHeld'
    <3>1. w \in Thread /\ pc[w] = "blocked"
      BY <2>3 DEF Waiters
    <3>2. \A s \in Thread : pc'[s] \in {"wait", "waitunlock"} <=> pc[s] \in {"wait", "waitunlock"}
      BY <1>1, <2>1, <2>3, <3>1
    <3> QED  BY <2>1, <3>2, SameWaitMutex
  <2> QED  BY <1>9, <2>2, <2>3 DEF Signal
<1>10. CASE UNCHANGED vars
  BY <1>10, SameWaitMutex DEF vars
<1> QED
  BY <1>2, <1>3, <1>5, <1>6, <1>7, <1>8, <1>9, <1>10 DEF Next, Step

\* What a thread that is neither blocked nor done waits for.
CanGoOn(t) ==
  /\ pc[t] \notin {"blocked", "exit"}
  /\ pc[t] = "lock" => held["mutex"] = {}
  /\ pc[t] \in {"waitlock", "relock"} => held[WaitMutex(t)] = {}

SomeThreadGoesOn ==
  (\E t \in Thread : pc[t] \notin {"blocked", "exit"}) => \E t \in Thread : CanGoOn(t)

\* The three mutexes never bring the program to a halt, whatever the number of
\* threads: unless every thread waits on a condition or is done, the mutex some
\* thread needs next is free, or it needs none.
THEOREM MutexesReturned == Spec => []SomeThreadGoesOn
<1>1. IInv /\ WaitMutexHeld => SomeThreadGoesOn
  <2> SUFFICES ASSUME IInv, WaitMutexHeld, NEW t \in Thread, pc[t] \notin {"blocked", "exit"}
               PROVE  \E s \in Thread : CanGoOn(s)
    BY DEF SomeThreadGoesOn
  <2>1. CASE \E s \in Thread : pc[s] \in {"wait", "waitunlock"} \/ Inside(s)
    BY <2>1 DEF CanGoOn, Inside
  <2>2. CASE \A s \in Thread : pc[s] \notin {"wait", "waitunlock"} /\ ~Inside(s)
    <3>1. held["mutex"] = {}
      BY <2>2 DEF IInv, MutexHeld
    <3>2. held[WaitMutex(t)] = {}
      BY <2>2 DEF WaitMutexHeld, Owners, WaitMutex
    <3> QED  BY <3>1, <3>2 DEF CanGoOn
  <2> QED  BY <2>1, <2>2
<1>2. Init => IInv /\ WaitMutexHeld
  BY InitInv, InitWaitMutex
<1>3. IInv /\ WaitMutexHeld /\ [Next]_vars => (IInv /\ WaitMutexHeld)'
  BY NextInv, NextWaitMutex
<1> QED  BY <1>1, <1>2, <1>3, PTL DEF Spec
=============================================================================
