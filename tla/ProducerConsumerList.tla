------------------------ MODULE ProducerConsumerList ------------------------
(***************************************************************************)
(* The same producer and consumer on the linked list itself, every load    *)
(* and store of Queue.c a step.  Lab 8 Ex 3 puts a mutex around the calls; *)
(* Lab 9 Ex 3 has a flag `notBusy' that each thread tests, clears and sets.*)
(***************************************************************************)
EXTENDS Integers, Sequences

CONSTANTS
  Capacity, (* As in BoundedQueue.                                         *)
  LIMIT,    (* As in ProducerConsumer.                                     *)
  Value,
  Programs  (* Which of the two: TRUE is Lab 8 Ex 3, FALSE Lab 9 Ex 3.      *)

ASSUME ProducerConsumerListAssumption ==
  /\ Capacity \in Nat \ {0} /\ LIMIT \in Nat
  /\ Value \subseteq Nat /\ Value # {}
  /\ Programs \subseteq BOOLEAN /\ Programs # {}

VARIABLES
  heap,     (* The nodes ever allocated; dequeue() does not free them.     *)
  frontNode, rearNode, limit,   (* The Queue structure.                    *)
  temp,     (* enqueue()'s or dequeue()'s local node, per thread.          *)
  reg,      (* The register limit++ and limit-- go through.                *)
  useMutex, (* Which program this is.                                      *)
  mutex, notBusy,
  pc, i,
  crashed,  (* A NULL pointer was dereferenced.                            *)
  made, eaten   (* History, as in ProducerConsumer.                        *)

queueVars == <<heap, frontNode, rearNode, limit>>
localVars == <<temp, reg, i>>
syncVars == <<useMutex, mutex, notBusy>>
history == <<made, eaten>>
vars == <<queueVars, localVars, syncVars, pc, crashed, history>>

Thread == {"produtor", "consumidor"}
NULL == 0
Node == [data : Value, next : Nat]

Init ==
  /\ heap = << >>
  /\ frontNode = NULL /\ rearNode = NULL /\ limit = 0
  /\ temp = [t \in Thread |-> NULL]
  /\ reg = [t \in Thread |-> 0]
  /\ useMutex \in Programs
  /\ mutex = "free" /\ notBusy = TRUE
  /\ pc = [t \in Thread |-> "test"]
  /\ i = [t \in Thread |-> 0]
  /\ crashed = FALSE
  /\ made = << >> /\ eaten = << >>

At(t, label) == ~crashed /\ pc[t] = label
Goto(t, label) == pc' = [pc EXCEPT ![t] = label] /\ UNCHANGED crashed
Crash == crashed' = TRUE /\ UNCHANGED pc

-----------------------------------------------------------------------------
(* The threads' loops.                                                     *)

Body(t) == IF t = "produtor" THEN "new" ELSE "front"

\* for(...), sleep() and the test of the counter; the thread tries again when
\* the test fails.
Test(t, open) ==
  /\ At(t, "test")
  /\ IF i[t] < LIMIT
       THEN open /\ Goto(t, IF useMutex THEN "enter" ELSE "flag")
       ELSE Goto(t, "exit")
  /\ UNCHANGED <<queueVars, localVars, syncVars, history>>

\* ... && notBusy
TestFlag(t) ==
  /\ At(t, "flag")
  /\ Goto(t, IF notBusy THEN "enter" ELSE "test")
  /\ UNCHANGED <<queueVars, localVars, syncVars, history>>

\* Mutant of Enter: the mutex is not taken.
Enter_NoLock(t) ==
  /\ At(t, "enter")
  /\ notBusy' = (notBusy /\ useMutex)
  /\ Goto(t, Body(t))
  /\ UNCHANGED <<queueVars, localVars, useMutex, mutex, history>>

\* pthread_mutex_lock(&mutex), or notBusy = 0
Enter(t) ==
  /\ At(t, "enter")
  /\ IF useMutex
       THEN mutex = "free" /\ mutex' = t /\ UNCHANGED notBusy
       ELSE notBusy' = FALSE /\ UNCHANGED mutex
  /\ Goto(t, Body(t))
  /\ UNCHANGED <<queueVars, localVars, useMutex, history>>

\* Mutant of LeaveSection: the mutex is kept.
LeaveSection_KeepsMutex(t) ==
  /\ At(t, "leave")
  /\ notBusy' = (notBusy \/ ~useMutex)
  /\ i' = [i EXCEPT ![t] = @ + 1]
  /\ Goto(t, "test")
  /\ UNCHANGED <<queueVars, temp, reg, useMutex, mutex, history>>

\* pthread_mutex_unlock(&mutex), or notBusy = 1; then i++
LeaveSection(t) ==
  /\ At(t, "leave")
  /\ IF useMutex
       THEN mutex' = "free" /\ UNCHANGED notBusy
       ELSE notBusy' = TRUE /\ UNCHANGED mutex
  /\ i' = [i EXCEPT ![t] = @ + 1]
  /\ Goto(t, "test")
  /\ UNCHANGED <<queueVars, temp, reg, useMutex, history>>

-----------------------------------------------------------------------------
(* enqueue()                                                               *)

New(t) ==
  /\ At(t, "new")
  /\ \E r \in Value :
       /\ heap' = Append(heap, [data |-> r, next |-> NULL])
       /\ made' = Append(made, r)
  /\ temp' = [temp EXCEPT ![t] = Len(heap) + 1]
  /\ Goto(t, "isEmpty")
  /\ UNCHANGED <<frontNode, rearNode, limit, reg, i, syncVars, eaten>>

\* One branch on what a pointer or the counter holds now.
Branch(t, label, condition, yes, no) ==
  /\ At(t, label)
  /\ Goto(t, IF condition THEN yes ELSE no)
  /\ UNCHANGED <<queueVars, localVars, syncVars, history>>

\* frontNode == NULL && rearNode == NULL; limit < 8
IsEmpty(t)  == Branch(t, "isEmpty", frontNode = NULL, "isEmpty2", "isRoom")
IsEmpty2(t) == Branch(t, "isEmpty2", rearNode = NULL, "setRear", "isRoom")
IsRoom(t)   == Branch(t, "isRoom", limit < Capacity, "load", "leave")

SetRear(t, label, to, next) ==
  /\ At(t, label)
  /\ rearNode' = to
  /\ Goto(t, next)
  /\ UNCHANGED <<heap, frontNode, limit, localVars, syncVars, history>>

SetFront(t, label, to, next) ==
  /\ At(t, label)
  /\ frontNode' = to
  /\ Goto(t, next)
  /\ UNCHANGED <<heap, rearNode, limit, localVars, syncVars, history>>

\* rearNode->next = temp
LinkNext(t) ==
  /\ At(t, "linkNext")
  /\ IF rearNode = NULL
       THEN Crash /\ UNCHANGED heap
       ELSE heap' = [heap EXCEPT ![rearNode].next = temp[t]] /\ Goto(t, "linkRear")
  /\ UNCHANGED <<frontNode, rearNode, limit, localVars, syncVars, history>>

\* limit++ and limit--: a load and a store.
Load(t, label, next) ==
  /\ At(t, label)
  /\ reg' = [reg EXCEPT ![t] = limit]
  /\ Goto(t, next)
  /\ UNCHANGED <<queueVars, temp, i, syncVars, history>>

Store(t, label, change, next) ==
  /\ At(t, label)
  /\ limit' = reg[t] + change
  /\ Goto(t, next)
  /\ UNCHANGED <<heap, frontNode, rearNode, localVars, syncVars, history>>

enqueue(t) ==
  \/ New(t) \/ IsEmpty(t) \/ IsEmpty2(t)
  \/ SetRear(t, "setRear", temp[t], "setFront")
  \/ SetFront(t, "setFront", temp[t], "loadFirst")
  \/ Load(t, "loadFirst", "storeFirst") \/ Store(t, "storeFirst", 1, "leave")
  \/ IsRoom(t)
  \/ Load(t, "load", "store") \/ Store(t, "store", 1, "linkNext")
  \/ LinkNext(t) \/ SetRear(t, "linkRear", temp[t], "leave")

-----------------------------------------------------------------------------
(* dequeue()                                                               *)

\* temp = frontNode
ReadFront(t) ==
  /\ At(t, "front")
  /\ temp' = [temp EXCEPT ![t] = frontNode]
  /\ Goto(t, "isNull")
  /\ UNCHANGED <<queueVars, reg, i, syncVars, history>>

\* An empty queue yields 0.
IsNull(t) ==
  /\ At(t, "isNull")
  /\ IF frontNode = NULL
       THEN eaten' = Append(eaten, 0) /\ Goto(t, "leave")
       ELSE Goto(t, "isLast") /\ UNCHANGED eaten
  /\ UNCHANGED <<queueVars, localVars, syncVars, made>>

\* Mutant of IsLast: the last node is not told from the others.
IsLast_Never(t) == Branch(t, "isLast", FALSE, "clearRear", "advance")

\* frontNode == rearNode
IsLast(t) == Branch(t, "isLast", frontNode = rearNode, "clearRear", "advance")

\* Mutant of Advance: frontNode stays where it is.
Advance_Missing(t) ==
  /\ At(t, "advance")
  /\ IF frontNode = NULL THEN Crash ELSE Goto(t, "loadLess")
  /\ UNCHANGED <<queueVars, localVars, syncVars, history>>

\* frontNode = frontNode->next
Advance(t) ==
  /\ At(t, "advance")
  /\ IF frontNode = NULL
       THEN Crash /\ UNCHANGED frontNode
       ELSE frontNode' = heap[frontNode].next /\ Goto(t, "loadLess")
  /\ UNCHANGED <<heap, rearNode, limit, localVars, syncVars, history>>

\* return temp->data
ReturnData(t) ==
  /\ At(t, "return")
  /\ IF temp[t] = NULL
       THEN Crash /\ UNCHANGED eaten
       ELSE eaten' = Append(eaten, heap[temp[t]].data) /\ Goto(t, "leave")
  /\ UNCHANGED <<queueVars, localVars, syncVars, made>>

dequeue(t) ==
  \/ ReadFront(t) \/ IsNull(t) \/ IsLast(t)
  \/ SetRear(t, "clearRear", NULL, "clearFront")
  \/ SetFront(t, "clearFront", NULL, "loadLess")
  \/ Advance(t)
  \/ Load(t, "loadLess", "storeLess") \/ Store(t, "storeLess", -1, "return")
  \/ ReturnData(t)

-----------------------------------------------------------------------------
queueNotFull == limit < Capacity
queueNotEmpty == limit > 0

Loop(t, open) == Test(t, open) \/ TestFlag(t) \/ Enter(t) \/ LeaveSection(t)

produtor == Loop("produtor", queueNotFull) \/ enqueue("produtor")

consumidor == Loop("consumidor", queueNotEmpty) \/ dequeue("consumidor")

Next == produtor \/ consumidor

Spec == Init /\ [][Next]_vars

FairSpec == Spec /\ WF_vars(produtor) /\ WF_vars(consumidor)

-----------------------------------------------------------------------------
(* Properties.                                                             *)

outside == {"test", "flag", "enter", "new", "front", "leave", "exit"}

InCall(t) == pc[t] \notin outside

\* The nodes reachable from `first', oldest first; a list has at most LIMIT of them.
Chain(cells, first) ==
  LET upTo[k \in 0 .. LIMIT] ==
        [n \in 0 .. Len(cells) |->
           IF n = NULL \/ k = 0 THEN << >> ELSE <<n>> \o upTo[k - 1][cells[n].next]]
  IN  upTo[LIMIT][first]

Data(nodes) == [k \in 1 .. Len(nodes) |-> heap[nodes[k]].data]

\* Lab 9 Ex 3's claim: with notBusy, too, no thread follows a NULL pointer.
FlagIsEnough == ~crashed

\* With the mutex, when neither thread is inside enqueue() or dequeue() the list is whole: its
\* last node is rearNode, the counter is its length, and what was made is what
\* was eaten followed by what is queued.
ListIsWhole ==
  LET list == Chain(heap, frontNode)
  IN  useMutex /\ (\A t \in Thread : ~InCall(t)) =>
        /\ limit = Len(list)
        /\ rearNode = IF list = << >> THEN NULL ELSE list[Len(list)]
        /\ made = eaten \o Data(list)

\* Whatever notBusy lets happen inside Queue.c, the consumer gets no element twice
\* and none before an older one: leaving out dequeue()'s 0s for an empty queue,
\* `eaten' is `made' with some elements left out.
EatenOnceInOrder ==
  \E from \in [DOMAIN eaten -> 0 .. Len(made)] :
    \A k \in DOMAIN eaten : eaten[k] # 0 =>
      /\ from[k] # 0 /\ eaten[k] = made[from[k]]
      /\ \A j \in 1 .. k - 1 : eaten[j] # 0 => from[j] < from[k]

\* With the mutex both threads handle their LIMIT elements and exit, with an
\* empty queue.
BothFinish == <>(~useMutex \/ ((\A t \in Thread : pc[t] = "exit") /\ frontNode = NULL))

-----------------------------------------------------------------------------
(* With the mutex each call is one step of ProducerConsumer, the first of  *)
(* its statements: from then on the element counts as queued, or as eaten. *)

Has(list, n) == \E k \in 1 .. Len(list) : list[k] = n

queuedNodes ==
  LET list   == Chain(heap, frontNode)
      linked == IF InCall("produtor") /\ ~Has(list, temp["produtor"])
                  THEN Append(list, temp["produtor"]) ELSE list
  IN  IF InCall("consumidor") /\ linked # << >> /\ Head(linked) = temp["consumidor"]
        THEN Tail(linked) ELSE linked

abstractPc(label) == CASE label \in {"test", "flag"} -> "test"
                       [] label = "enter"           -> "lock"
                       [] label \in {"new", "front"} -> "access"
                       [] label = "exit"            -> "exit"
                       [] OTHER                     -> "unlock"

Abstract == INSTANCE ProducerConsumer WITH
  q     <- [limit |-> Len(queuedNodes), items |-> Data(queuedNodes)],
  pc    <- [t \in Thread |-> abstractPc(pc[t])],
  eaten <- IF InCall("consumidor")
             THEN eaten \o Data(<<temp["consumidor"]>>) ELSE eaten

\* The pointers, the counter and the mutex together behave as ProducerConsumer,
\* where enqueue() and dequeue() are single steps: a thread that reads the
\* counter in the middle of the other one's call is not misled.
ImplementsProducerConsumer ==
  /\ useMutex => Abstract!Init
  /\ [][useMutex => [Abstract!Next]_(Abstract!vars)]_vars
=============================================================================
