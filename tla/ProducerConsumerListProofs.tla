---------------------- MODULE ProducerConsumerListProofs ----------------------
(***************************************************************************)
(* What holds of the linked list for every capacity, number of elements    *)
(* and set of values: with the flag as well as with the mutex no element   *)
(* is eaten twice or out of order, and with the mutex the list is whole    *)
(* and the two threads implement ProducerConsumer.                         *)
(***************************************************************************)
EXTENDS ProducerConsumerList, SequenceTheorems, WellFoundedInduction, TLAPS

p == "produtor"
c == "consumidor"

\* What each thread may be about to do.
Lines(t) ==
  {"test", "flag", "enter", "leave", "exit"} \cup
  IF t = p
    THEN {"new", "isEmpty", "isEmpty2", "setRear", "setFront", "loadFirst", "storeFirst",
          "isRoom", "load", "store", "linkNext", "linkRear"}
    ELSE {"front", "isNull", "isLast", "clearRear", "clearFront", "advance", "loadLess",
          "storeLess", "return"}

Pointer == 0 .. Len(heap)

TypeInv ==
  /\ heap \in Seq(Node) /\ \A n \in 1 .. Len(heap) : heap[n].next \in Pointer
  /\ frontNode \in Pointer /\ rearNode \in Pointer /\ limit \in Int
  /\ temp \in [Thread -> Pointer]
  /\ reg \in [Thread -> Int]
  /\ useMutex \in BOOLEAN
  /\ mutex \in Thread \cup {"free"}
  /\ notBusy \in BOOLEAN
  /\ pc \in [Thread -> Lines(p) \cup Lines(c)] /\ \A t \in Thread : pc[t] \in Lines(t)
  /\ i \in [Thread -> 0 .. LIMIT]
  /\ crashed \in BOOLEAN
  /\ made \in Seq(Value) /\ eaten \in Seq(Value \cup {0})

-----------------------------------------------------------------------------
(* Eaten once and in order, with the mutex or with the flag.               *)

\* The producer has a node that no pointer leads to but, perhaps, rearNode.
Linking == {"isEmpty", "isEmpty2", "setRear", "setFront", "isRoom", "load", "store", "linkNext"}

\* Nodes are numbered in the order they are made, and links lead to newer ones.
Log ==
  /\ Len(made) = Len(heap)
  /\ \A n \in 1 .. Len(heap) : heap[n].data = made[n]
  /\ \A n \in 1 .. Len(heap) : heap[n].next = NULL \/ n < heap[n].next

Unlinked ==
  pc[p] \in Linking =>
    /\ temp[p] = Len(heap) /\ temp[p] # NULL
    /\ frontNode # temp[p] /\ temp[c] # temp[p]
    /\ \A n \in 1 .. Len(heap) : heap[n].next # temp[p]
    /\ pc[p] # "setFront" => rearNode # temp[p]

\* The consumer never finds frontNode behind the node it has in hand.
NotBehind ==
  frontNode # NULL =>
    /\ pc[c] \in {"isNull", "isLast", "clearRear", "clearFront", "advance"} => temp[c] <= frontNode
    /\ pc[c] \in {"loadLess", "storeLess", "return"} => temp[c] < frontNode

\* from[k] is the node the k-th element eaten comes from.
Traced(from) ==
  /\ from \in [1 .. Len(eaten) -> Pointer]
  /\ \A k \in 1 .. Len(eaten) : eaten[k] # 0 =>
       /\ from[k] # NULL /\ eaten[k] = made[from[k]]
       /\ \A j \in 1 .. k - 1 : eaten[j] # 0 => from[j] < from[k]

\* It is older than all the consumer may come to.
Older(from) ==
  \A k \in 1 .. Len(eaten) : eaten[k] # 0 =>
    /\ frontNode # NULL => from[k] < frontNode
    /\ pc[p] \in Linking => from[k] < Len(heap)
    /\ InCall(c) /\ temp[c] # NULL => from[k] < temp[c]

OrderInv ==
  TypeInv /\ Log /\ Unlinked /\ NotBehind /\ \E from : Traced(from) /\ Older(from)

-----------------------------------------------------------------------------
(* Types.                                                                  *)

LEMMA Threads == p \in Thread /\ c \in Thread /\ p # c /\ Thread = {p, c}
BY DEF p, c, Thread

\* A thread goes on to a line of its own.
LEMMA GoesTo ==
  ASSUME TypeInv, NEW t \in Thread, NEW l \in Lines(t), Goto(t, l)
  PROVE  /\ pc' \in [Thread -> Lines(p) \cup Lines(c)]
         /\ \A u \in Thread : pc'[u] \in Lines(u)
         /\ pc'[t] = l /\ \A u \in Thread : u # t => pc'[u] = pc[u]
         /\ crashed' = crashed
<1>1. l \in Lines(p) \cup Lines(c)
  BY Threads
<1> QED  BY <1>1 DEF Goto, TypeInv

\* A step that leaves the list and the values alone.
Steady == UNCHANGED <<heap, frontNode, rearNode, temp, made, eaten>>

LEMMA SteadyTypes ==
  ASSUME TypeInv, Steady, NEW t \in Thread, NEW l \in Lines(t), Goto(t, l),
         limit' \in Int, reg' \in [Thread -> Int], useMutex' = useMutex,
         mutex' \in Thread \cup {"free"}, notBusy' \in BOOLEAN, i' \in [Thread -> 0 .. LIMIT]
  PROVE  TypeInv'
<1>1. /\ pc' \in [Thread -> Lines(p) \cup Lines(c)] /\ \A u \in Thread : pc'[u] \in Lines(u)
      /\ crashed' = crashed
  BY GoesTo
<1> QED  BY <1>1 DEF TypeInv, Steady, Pointer

\* The pointer each step stores.
LEMMA CursorTypes ==
  ASSUME TypeInv, NEW t \in Thread, NEW l \in Lines(t), Goto(t, l),
         UNCHANGED <<heap, limit, reg, i, syncVars, made>>,
         frontNode' \in Pointer, rearNode' \in Pointer, temp' \in [Thread -> Pointer],
         eaten' \in Seq(Value \cup {0})
  PROVE  TypeInv'
<1>1. /\ pc' \in [Thread -> Lines(p) \cup Lines(c)] /\ \A u \in Thread : pc'[u] \in Lines(u)
      /\ crashed' = crashed
  BY GoesTo
<1> QED  BY <1>1 DEF TypeInv, Pointer, syncVars
-----------------------------------------------------------------------------
(* Steps that leave the list and the values alone.                         *)

Reading == {"isNull", "isLast", "clearRear", "clearFront", "advance"}
Passed  == {"loadLess", "storeLess", "return"}

LEMMA SteadyOrder ==
  ASSUME OrderInv, TypeInv', Steady, NEW t \in Thread, NEW l \in Lines(t), Goto(t, l),
         t = p /\ l \in Linking => pc[p] \in Linking /\ pc[p] # "setFront",
         t = c /\ l \in Reading => pc[c] \in Reading,
         t = c /\ l \in Passed => pc[c] \in Passed
  PROVE  OrderInv'
<1>1. /\ pc'[t] = l /\ \A u \in Thread : u # t => pc'[u] = pc[u]
  BY GoesTo DEF OrderInv
<1>2. /\ pc'[p] \in Linking => pc[p] \in Linking /\ (pc[p] = "setFront" => pc'[p] = "setFront")
      /\ pc'[c] \in Reading => pc[c] \in Reading
      /\ pc'[c] \in Passed => pc[c] \in Passed
  BY <1>1, Threads
<1>3. Log' /\ Unlinked'
  BY <1>2 DEF OrderInv, Log, Unlinked, Steady
<1>4. NotBehind'
  BY <1>2 DEF OrderInv, NotBehind, Steady, Reading, Passed
<1>5. InCall(c)' => InCall(c)
  <2>1. pc'[c] \in Lines(c) /\ pc[c] \in Lines(c)
    BY Threads DEF OrderInv, TypeInv
  <2>2. \A x \in Lines(c) : x \notin outside => x \in Reading \cup Passed
    BY DEF Lines, outside, Reading, Passed, p, c
  <2>3. pc[c] \in Reading \cup Passed => pc[c] \notin outside
    BY DEF outside, Reading, Passed
  <2> QED  BY <1>2, <2>1, <2>2, <2>3 DEF InCall
<1>6. PICK from : Traced(from) /\ Older(from)
  BY DEF OrderInv
<1>7. Traced(from)' /\ Older(from)'
  BY <1>2, <1>5, <1>6 DEF Traced, Older, Steady, Pointer
<1> QED  BY <1>3, <1>4, <1>7 DEF OrderInv

LEMMA CrashOrder == ASSUME OrderInv, Crash, Steady, UNCHANGED <<limit, reg, i, syncVars>>
                    PROVE  OrderInv'
<1>1. UNCHANGED <<pc, heap, frontNode, rearNode, limit, temp, reg, i, useMutex, mutex, notBusy, made, eaten>>
  BY DEF Crash, Steady, syncVars
<1>2. TypeInv' /\ Log' /\ Unlinked' /\ NotBehind'
  BY <1>1 DEF OrderInv, TypeInv, Log, Unlinked, NotBehind, Crash, Pointer
<1>3. PICK from : Traced(from) /\ Older(from)
  BY DEF OrderInv
<1>4. Traced(from)' /\ Older(from)'
  BY <1>1, <1>3 DEF Traced, Older, Pointer, InCall
<1> QED  BY <1>2, <1>4 DEF OrderInv

LEMMA TestOrder ==
  ASSUME OrderInv, NEW t \in Thread, NEW open, Test(t, open)
  PROVE  OrderInv'
<1>1. PICK l \in {"enter", "flag", "exit"} : Goto(t, l)
  BY DEF Test
<1>2. l \in Lines(t) /\ l \notin Linking \cup Reading \cup Passed
  BY <1>1 DEF Lines, Linking, Reading, Passed
<1>3. Steady /\ UNCHANGED <<limit, reg, i, useMutex, mutex, notBusy>>
  BY DEF Test, Steady, queueVars, localVars, syncVars, history
<1>4. TypeInv'
  BY <1>1, <1>2, <1>3, SteadyTypes DEF OrderInv, TypeInv
<1> QED  BY <1>1, <1>2, <1>3, <1>4, SteadyOrder

LEMMA TestFlagOrder ==
  ASSUME OrderInv, NEW t \in Thread, TestFlag(t)
  PROVE  OrderInv'
<1>1. PICK l \in {"enter", "test"} : Goto(t, l)
  BY DEF TestFlag
<1>2. l \in Lines(t) /\ l \notin Linking \cup Reading \cup Passed
  BY <1>1 DEF Lines, Linking, Reading, Passed
<1>3. Steady /\ UNCHANGED <<limit, reg, i, useMutex, mutex, notBusy>>
  BY DEF TestFlag, Steady, queueVars, localVars, syncVars, history
<1>4. TypeInv'
  BY <1>1, <1>2, <1>3, SteadyTypes DEF OrderInv, TypeInv
<1> QED  BY <1>1, <1>2, <1>3, <1>4, SteadyOrder

LEMMA EnterOrder ==
  ASSUME OrderInv, NEW t \in Thread, Enter(t)
  PROVE  OrderInv'
<1>1. Goto(t, Body(t)) /\ Body(t) \in {"new", "front"}
  BY DEF Enter, Body
<1>2. Body(t) \in Lines(t) /\ Body(t) \notin Linking \cup Reading \cup Passed
  BY <1>1 DEF Lines, Linking, Reading, Passed, Body, p
<1>3. Steady /\ UNCHANGED <<limit, reg, i, useMutex>>
      /\ mutex' \in {t, mutex} /\ notBusy' \in {FALSE, notBusy}
  BY DEF Enter, Steady, queueVars, localVars, syncVars, history
<1>4. TypeInv'
  BY <1>1, <1>2, <1>3, SteadyTypes DEF OrderInv, TypeInv
<1> QED  BY <1>1, <1>2, <1>3, <1>4, SteadyOrder

\* While it handles an element a thread has some left to handle.
Counted == \A t \in Thread : pc[t] \notin {"test", "exit"} => i[t] < LIMIT

LEMMA LeaveOrder ==
  ASSUME OrderInv, Counted, NEW t \in Thread, LeaveSection(t)
  PROVE  OrderInv'
<1>1. Goto(t, "test") /\ pc[t] = "leave"
  BY DEF LeaveSection, At
<1>2. "test" \in Lines(t) /\ "test" \notin Linking \cup Reading \cup Passed
  BY <1>1 DEF Lines, Linking, Reading, Passed
<1>3. Steady /\ UNCHANGED <<limit, reg, useMutex>> /\ i' = [i EXCEPT ![t] = @ + 1]
      /\ mutex' \in {"free", mutex} /\ notBusy' \in {TRUE, notBusy}
  BY DEF LeaveSection, Steady, queueVars, localVars, syncVars, history
<1>4. i' \in [Thread -> 0 .. LIMIT]
  <2>1. i \in [Thread -> 0 .. LIMIT] /\ i[t] < LIMIT /\ LIMIT \in Nat
    BY <1>1, ProducerConsumerListAssumption DEF OrderInv, TypeInv, Counted
  <2>2. i[t] \in 0 .. LIMIT
    BY <2>1
  <2>3. i[t] + 1 \in 0 .. LIMIT
    BY <2>1, <2>2
  <2> QED  BY <1>3, <2>1, <2>3
<1>5. TypeInv'
  BY <1>1, <1>2, <1>3, <1>4, SteadyTypes DEF OrderInv, TypeInv
<1> QED  BY <1>1, <1>2, <1>3, <1>5, SteadyOrder

LEMMA BranchOrder ==
  ASSUME OrderInv, NEW t \in Thread, NEW label, NEW condition, NEW yes \in Lines(t), NEW no \in Lines(t),
         Branch(t, label, condition, yes, no),
         t = p /\ {yes, no} \cap Linking # {} => label \in Linking \ {"setFront"},
         t = c => label \in Reading /\ {yes, no} \cap Passed = {}
  PROVE  OrderInv'
<1>1. PICK l \in {yes, no} : Goto(t, l)
  BY DEF Branch
<1>2. Steady /\ UNCHANGED <<limit, reg, i, useMutex, mutex, notBusy>> /\ pc[t] = label
  BY DEF Branch, At, Steady, queueVars, localVars, syncVars, history
<1>3. TypeInv'
  BY <1>1, <1>2, SteadyTypes DEF OrderInv, TypeInv
<1> QED  BY <1>1, <1>2, <1>3, SteadyOrder

LEMMA LoadOrder ==
  ASSUME OrderInv, NEW t \in Thread, NEW label, NEW next \in Lines(t), Load(t, label, next),
         t = p /\ next \in Linking => label \in Linking \ {"setFront"},
         t = c => label \in Passed /\ next \in Passed
  PROVE  OrderInv'
<1>1. Goto(t, next) /\ pc[t] = label /\ reg' = [reg EXCEPT ![t] = limit]
  BY DEF Load, At
<1>2. Steady /\ UNCHANGED <<limit, i, useMutex, mutex, notBusy>>
  BY DEF Load, Steady, queueVars, localVars, syncVars, history
<1>3. TypeInv'
  BY <1>1, <1>2, SteadyTypes DEF OrderInv, TypeInv
<1>4. next \notin Reading \/ t = p
  BY Threads DEF Reading, Passed
<1> QED  BY <1>1, <1>2, <1>3, <1>4, Threads, SteadyOrder

LEMMA StoreOrder ==
  ASSUME OrderInv, NEW t \in Thread, NEW label, NEW change \in Int, NEW next \in Lines(t),
         Store(t, label, change, next),
         t = p /\ next \in Linking => label \in Linking \ {"setFront"},
         t = c => label \in Passed /\ next \in Passed
  PROVE  OrderInv'
<1>1. Goto(t, next) /\ pc[t] = label /\ limit' = reg[t] + change
  BY DEF Store, At
<1>2. Steady /\ UNCHANGED <<reg, i, useMutex, mutex, notBusy>>
  BY DEF Store, Steady, localVars, syncVars, history
<1>3. TypeInv'
  <2>1. reg[t] \in Int /\ limit' \in Int
    BY <1>1 DEF OrderInv, TypeInv
  <2> QED  BY <1>1, <1>2, <2>1, SteadyTypes DEF OrderInv, TypeInv
<1>4. next \notin Reading \/ t = p
  BY Threads DEF Reading, Passed
<1> QED  BY <1>1, <1>2, <1>3, <1>4, Threads, SteadyOrder
-----------------------------------------------------------------------------
(* Steps on the list.                                                      *)

LEMMA AppendFacts ==
  ASSUME NEW S, NEW s \in Seq(S), NEW e \in S
  PROVE  /\ Append(s, e) \in Seq(S)
         /\ Len(Append(s, e)) = Len(s) + 1 /\ Len(s) \in Nat
         /\ \A k \in 1 .. Len(s) : Append(s, e)[k] = s[k]
         /\ Append(s, e)[Len(s) + 1] = e
OBVIOUS

LEMMA NewOrder == ASSUME OrderInv, New(p) PROVE OrderInv'
<1>1. PICK r \in Value : /\ heap' = Append(heap, [data |-> r, next |-> NULL])
                         /\ made' = Append(made, r)
  BY DEF New
<1> DEFINE node == [data |-> r, next |-> NULL]
<1>2. /\ pc[p] = "new" /\ Goto(p, "isEmpty")
      /\ temp' = [temp EXCEPT ![p] = Len(heap) + 1]
      /\ UNCHANGED <<frontNode, rearNode, limit, reg, i, useMutex, mutex, notBusy, eaten>>
  BY DEF New, At, syncVars
<1>3. node \in Node /\ node.next = NULL /\ node.data = r
  BY DEF Node, NULL
<1>4. /\ heap \in Seq(Node) /\ made \in Seq(Value) /\ Len(heap) \in Nat
      /\ temp \in [Thread -> Pointer] /\ frontNode \in Pointer /\ rearNode \in Pointer
  BY DEF OrderInv, TypeInv
<1> HIDE DEF node
<1>5. /\ heap' \in Seq(Node) /\ Len(heap') = Len(heap) + 1
      /\ \A n \in 1 .. Len(heap) : heap'[n] = heap[n]
      /\ heap'[Len(heap) + 1] = node
  BY <1>1, <1>3, <1>4, AppendFacts DEF node
<1>6. /\ made' \in Seq(Value) /\ Len(made') = Len(made) + 1
      /\ \A n \in 1 .. Len(made) : made'[n] = made[n]
      /\ made'[Len(made) + 1] = r
  BY <1>1, <1>4, AppendFacts
<1>7. /\ pc' \in [Thread -> Lines(p) \cup Lines(c)] /\ \A u \in Thread : pc'[u] \in Lines(u)
      /\ pc'[p] = "isEmpty" /\ pc'[c] = pc[c] /\ crashed' = crashed
  <2>1. "isEmpty" \in Lines(p)
    BY DEF Lines
  <2> QED  BY <1>2, <2>1, Threads, GoesTo DEF OrderInv
<1>8. /\ temp' \in [Thread -> 0 .. Len(heap')] /\ temp'[p] = Len(heap) + 1 /\ temp'[c] = temp[c]
      /\ temp[c] \in Pointer
  BY <1>2, <1>4, <1>5, Threads DEF Pointer
<1>9. \A n \in 1 .. Len(heap') : heap'[n].next \in 0 .. Len(heap) /\ (n \in 1 .. Len(heap) \/ n = Len(heap) + 1)
  <2> SUFFICES ASSUME NEW n \in 1 .. Len(heap')
               PROVE  heap'[n].next \in 0 .. Len(heap) /\ (n \in 1 .. Len(heap) \/ n = Len(heap) + 1)
    OBVIOUS
  <2>1. n \in 1 .. Len(heap) \/ n = Len(heap) + 1
    BY <1>4, <1>5
  <2>2. \A k \in 1 .. Len(heap) : heap[k].next \in 0 .. Len(heap)
    BY DEF OrderInv, TypeInv, Pointer
  <2>3. heap'[n].next \in 0 .. Len(heap)
    BY <1>3, <1>4, <1>5, <2>1, <2>2 DEF NULL
  <2> QED  BY <2>1, <2>3
<1>10. TypeInv'
  <2>1. /\ \A n \in 1 .. Len(heap') : heap'[n].next \in 0 .. Len(heap')
        /\ frontNode' \in 0 .. Len(heap') /\ rearNode' \in 0 .. Len(heap')
    <3>1. \A n \in 0 .. Len(heap) : n \in 0 .. Len(heap')
      BY <1>4, <1>5
    <3> QED  BY <1>2, <1>4, <1>9, <3>1 DEF Pointer
  <2> QED  BY <1>2, <1>5, <1>6, <1>7, <1>8, <2>1 DEF OrderInv, TypeInv, Pointer
<1>11. Log'
  BY <1>3, <1>4, <1>5, <1>6, <1>9 DEF OrderInv, Log, NULL
<1>12. Unlinked'
  BY <1>2, <1>4, <1>5, <1>7, <1>8, <1>9 DEF Unlinked, Pointer, NULL
<1>13. NotBehind'
  BY <1>2, <1>7, <1>8 DEF OrderInv, NotBehind
<1>14. PICK from : Traced(from) /\ Older(from)
  BY DEF OrderInv
<1>15. Traced(from)'
  <2>1. Len(made) = Len(heap)
    BY DEF OrderInv, Log
  <2>2. from \in [1 .. Len(eaten) -> 0 .. Len(heap)]
    BY <1>14 DEF Traced, Pointer
  <2>3. from \in [1 .. Len(eaten) -> 0 .. Len(heap')]
    BY <1>4, <1>5, <2>2
  <2>4. \A k \in 1 .. Len(eaten) : from[k] # 0 => made'[from[k]] = made[from[k]]
    BY <1>4, <1>6, <2>1, <2>2
  <2> QED  BY <1>2, <1>14, <2>3, <2>4 DEF Traced, Pointer, NULL
<1>16. Older(from)'
  <2>1. \A k \in 1 .. Len(eaten) : from[k] \in 0 .. Len(heap)
    BY <1>14 DEF Traced, Pointer
  <2>2. \A k \in 1 .. Len(eaten) : from[k] < Len(heap')
    BY <1>4, <1>5, <2>1
  <2> QED  BY <1>2, <1>7, <1>8, <1>14, <2>2 DEF Older, InCall
<1> QED  BY <1>10, <1>11, <1>12, <1>13, <1>15, <1>16 DEF OrderInv

\* A pointer of the Queue structure is set.
LEMMA CursorOrder ==
  ASSUME OrderInv, TypeInv', NEW t \in Thread, NEW l \in Lines(t), Goto(t, l),
         UNCHANGED <<heap, temp, made, eaten>>,
         t = p /\ l \in Linking => pc[p] \in Linking,
         t = c => InCall(c) /\ l \in Reading \cup Passed,
         t = c /\ l \in Reading => pc[c] \in Reading,
         Unlinked', NotBehind',
         frontNode' # NULL => \/ frontNode' = frontNode
                              \/ frontNode # NULL /\ frontNode <= frontNode'
                              \/ pc[p] \in Linking /\ frontNode' = Len(heap)
  PROVE  OrderInv'
<1>1. /\ pc'[t] = l /\ \A u \in Thread : u # t => pc'[u] = pc[u]
  BY GoesTo DEF OrderInv
<1>2. (pc'[p] \in Linking => pc[p] \in Linking) /\ (InCall(c)' => InCall(c))
  BY <1>1, Threads DEF InCall
<1>3. Log'
  BY DEF OrderInv, Log
<1>4. PICK from : Traced(from) /\ Older(from)
  BY DEF OrderInv
<1>5. Traced(from)'
  BY <1>4 DEF Traced, Pointer
<1>6. Older(from)'
  <2>1. /\ Len(heap) \in Nat /\ frontNode \in Nat /\ frontNode' \in Nat
        /\ \A k \in 1 .. Len(eaten) : from[k] \in Nat
    <3>1. from \in [1 .. Len(eaten) -> 0 .. Len(heap)]
      BY <1>4 DEF Traced, Pointer
    <3>2. Len(heap) \in Nat /\ frontNode \in 0 .. Len(heap) /\ frontNode' \in 0 .. Len(heap)
      BY DEF OrderInv, TypeInv, Pointer
    <3> QED  BY <3>1, <3>2
  <2> QED  BY <1>2, <1>4, <2>1 DEF Older
<1> QED  BY <1>3, <1>5, <1>6 DEF OrderInv

LEMMA SetRearOrder ==
  ASSUME OrderInv, NEW t \in Thread, NEW label, NEW to, NEW l, SetRear(t, label, to, l),
         \/ t = p /\ <<label, to, l>> \in {<<"setRear", temp[p], "setFront">>, <<"linkRear", temp[p], "leave">>}
         \/ t = c /\ <<label, to, l>> = <<"clearRear", NULL, "clearFront">>
  PROVE  OrderInv'
<1>1. /\ pc[t] = label /\ Goto(t, l) /\ rearNode' = to
      /\ UNCHANGED <<heap, frontNode, limit, temp, reg, i, useMutex, mutex, notBusy, made, eaten>>
  BY DEF SetRear, At, localVars, syncVars, history
<1>2. l \in Lines(t)
  BY DEF Lines, p, c
<1>3. /\ pc'[t] = l /\ \A u \in Thread : u # t => pc'[u] = pc[u]
  BY <1>1, <1>2, GoesTo DEF OrderInv
<1>4. TypeInv'
  <2>1. to \in Pointer /\ rearNode' \in Pointer
    BY <1>1, Threads DEF OrderInv, TypeInv, Pointer, NULL
  <2> QED  BY <1>1, <1>2, <2>1, CursorTypes DEF OrderInv, TypeInv, syncVars
<1>5. /\ pc'[p] \in Linking => pc[p] \in Linking /\ (t = p => pc'[p] = "setFront")
      /\ pc'[c] \in Reading => pc[c] \in Reading
      /\ pc'[c] \in Passed => pc[c] \in Passed
  BY <1>1, <1>3, Threads DEF Linking, Reading, Passed
<1>6. Unlinked'
  <2>1. CASE t = p
    BY <1>1, <1>5, <2>1 DEF OrderInv, Unlinked
  <2>2. CASE t = c
    BY <1>1, <1>3, <1>5, <2>2, Threads DEF OrderInv, Unlinked, NULL
  <2> QED  BY <2>1, <2>2
<1>7. NotBehind'
  BY <1>1, <1>5 DEF OrderInv, NotBehind, Reading, Passed
<1>8. t = c => InCall(c) /\ l \in Reading
  BY <1>1, Threads DEF InCall, outside, Reading
<1> QED  BY <1>1, <1>2, <1>3, <1>4, <1>5, <1>6, <1>7, <1>8, CursorOrder

LEMMA SetFrontOrder ==
  ASSUME OrderInv, NEW t \in Thread, NEW label, NEW to, NEW l, SetFront(t, label, to, l),
         \/ t = p /\ <<label, to, l>> = <<"setFront", temp[p], "loadFirst">>
         \/ t = c /\ <<label, to, l>> = <<"clearFront", NULL, "loadLess">>
  PROVE  OrderInv'
<1>1. /\ pc[t] = label /\ Goto(t, l) /\ frontNode' = to
      /\ UNCHANGED <<heap, rearNode, limit, temp, reg, i, useMutex, mutex, notBusy, made, eaten>>
  BY DEF SetFront, At, localVars, syncVars, history
<1>2. l \in Lines(t)
  BY DEF Lines, p, c
<1>3. /\ pc'[t] = l /\ \A u \in Thread : u # t => pc'[u] = pc[u]
  BY <1>1, <1>2, GoesTo DEF OrderInv
<1>4. TypeInv'
  <2>1. to \in Pointer /\ frontNode' \in Pointer
    BY <1>1, Threads DEF OrderInv, TypeInv, Pointer, NULL
  <2> QED  BY <1>1, <1>2, <2>1, CursorTypes DEF OrderInv, TypeInv, syncVars
<1>5. CASE t = p
  <2>1. /\ pc'[p] \notin Linking /\ pc'[c] = pc[c] /\ pc[p] \in Linking
        /\ frontNode' = Len(heap) /\ temp[c] # Len(heap) /\ temp[c] \in Pointer
    BY <1>1, <1>3, <1>5, Threads DEF Linking, OrderInv, Unlinked, TypeInv
  <2>2. Unlinked' /\ NotBehind'
    <3>1. Unlinked'
      BY <2>1 DEF Unlinked
    <3>2. temp[c] \in 0 .. Len(heap) /\ Len(heap) \in Nat
      BY <2>1 DEF Pointer, OrderInv, TypeInv
    <3>3. temp[c] < Len(heap)
      BY <2>1, <3>2
    <3>4. temp'[c] = temp[c]
      BY <1>1
    <3>5. NotBehind'
      BY <2>1, <3>2, <3>3, <3>4 DEF NotBehind
    <3> QED  BY <3>1, <3>5
  <2> QED  BY <1>1, <1>2, <1>3, <1>4, <1>5, <2>1, <2>2, Threads, CursorOrder
<1>6. CASE t = c
  <2>1. /\ pc'[p] = pc[p] /\ pc'[c] = "loadLess" /\ InCall(c) /\ l \in Passed /\ l \notin Reading
        /\ frontNode' = NULL /\ pc[c] \in Reading
    BY <1>1, <1>3, <1>6, Threads DEF InCall, outside, Passed, Reading
  <2>2. Unlinked' /\ NotBehind'
    BY <1>1, <2>1 DEF Unlinked, NotBehind, OrderInv, NULL
  <2> QED  BY <1>1, <1>2, <1>3, <1>4, <1>6, <2>1, <2>2, Threads, CursorOrder
<1> QED  BY <1>5, <1>6
LEMMA LinkNextOrder == ASSUME OrderInv, LinkNext(p) PROVE OrderInv'
<1>1. /\ pc[p] = "linkNext"
      /\ UNCHANGED <<frontNode, rearNode, limit, temp, reg, i, useMutex, mutex, notBusy, made, eaten>>
  BY DEF LinkNext, At, localVars, syncVars, history
<1>2. CASE rearNode = NULL
  <2>1. Crash /\ Steady
    BY <1>1, <1>2 DEF LinkNext, Steady
  <2> QED  BY <1>1, <2>1, CrashOrder DEF syncVars
<1>3. CASE rearNode # NULL
  <2>1. heap' = [heap EXCEPT ![rearNode].next = temp[p]] /\ Goto(p, "linkRear")
    BY <1>3 DEF LinkNext
  <2>2. /\ temp[p] = Len(heap) /\ rearNode # Len(heap) /\ temp[p] \in Pointer /\ Len(heap) \in Nat
        /\ rearNode \in 1 .. Len(heap) /\ heap \in Seq(Node)
    BY <1>1, <1>3, Threads DEF OrderInv, TypeInv, Unlinked, Linking, Pointer, NULL
  <2>3. rearNode < Len(heap)
    BY <2>2
  <2>4. /\ Len(heap') = Len(heap) /\ heap' \in Seq(Node)
        /\ \A n \in 1 .. Len(heap) : /\ heap'[n].data = heap[n].data
                                     /\ heap'[n].next = IF n = rearNode THEN Len(heap) ELSE heap[n].next
    <3>1. \A n \in 1 .. Len(heap) : heap[n] \in Node
      BY <2>2
    <3>2. \A n \in 1 .. Len(heap) : heap'[n] = IF n = rearNode THEN [heap[n] EXCEPT !.next = Len(heap)] ELSE heap[n]
      BY <2>1, <2>2
    <3>3. heap' \in [1 .. Len(heap) -> Node]
      BY <2>1, <2>2, <3>1 DEF Node
    <3>4. heap' \in Seq(Node) /\ Len(heap') = Len(heap)
      BY <2>2, <3>3
    <3> QED  BY <3>1, <3>2, <3>4 DEF Node
  <2>5. /\ pc' \in [Thread -> Lines(p) \cup Lines(c)] /\ \A u \in Thread : pc'[u] \in Lines(u)
        /\ pc'[p] = "linkRear" /\ pc'[c] = pc[c] /\ crashed' = crashed
    <3>1. "linkRear" \in Lines(p)
      BY DEF Lines
    <3> QED  BY <2>1, <3>1, Threads, GoesTo DEF OrderInv
  <2>6. TypeInv'
    BY <1>1, <2>2, <2>4, <2>5 DEF OrderInv, TypeInv, Pointer
  <2>7. Log'
    BY <1>1, <2>2, <2>3, <2>4 DEF OrderInv, Log
  <2>8. Unlinked' /\ NotBehind'
    BY <1>1, <2>5 DEF OrderInv, Unlinked, NotBehind, Linking
  <2>9. PICK from : Traced(from) /\ Older(from)
    BY DEF OrderInv
  <2>10. Traced(from)' /\ Older(from)'
    BY <1>1, <2>4, <2>5, <2>9 DEF Traced, Older, Linking, Pointer, InCall
  <2> QED  BY <2>6, <2>7, <2>8, <2>10 DEF OrderInv
<1> QED  BY <1>2, <1>3

LEMMA ReadFrontOrder == ASSUME OrderInv, ReadFront(c) PROVE OrderInv'
<1>1. /\ pc[c] = "front" /\ Goto(c, "isNull") /\ temp' = [temp EXCEPT ![c] = frontNode]
      /\ UNCHANGED <<heap, frontNode, rearNode, limit, reg, i, useMutex, mutex, notBusy, made, eaten>>
  BY DEF ReadFront, At, queueVars, syncVars, history
<1>2. "isNull" \in Lines(c)
  BY DEF Lines, p, c
<1>3. pc'[c] = "isNull" /\ pc'[p] = pc[p]
  BY <1>1, <1>2, Threads, GoesTo DEF OrderInv
<1>4. temp \in [Thread -> Pointer] /\ frontNode \in Pointer /\ temp'[c] = frontNode /\ temp'[p] = temp[p]
  BY <1>1, Threads DEF OrderInv, TypeInv
<1>5. TypeInv'
  BY <1>1, <1>2, <1>4, Threads, CursorTypes DEF OrderInv, TypeInv, syncVars
<1>6. Log' /\ Unlinked'
  BY <1>1, <1>3, <1>4 DEF OrderInv, Log, Unlinked
<1>7. NotBehind'
  BY <1>1, <1>3, <1>4 DEF NotBehind, Pointer
<1>8. PICK from : Traced(from) /\ Older(from)
  BY DEF OrderInv
<1>9. Traced(from)' /\ Older(from)'
  BY <1>1, <1>3, <1>4, <1>8 DEF Traced, Older, Pointer
<1> QED  BY <1>5, <1>6, <1>7, <1>9 DEF OrderInv

\* The consumer is done with its call and has eaten x, which comes from node n.
LEMMA EatOrder ==
  ASSUME OrderInv, NEW x \in Value \cup {0}, NEW n \in Pointer, Goto(c, "leave"),
         eaten' = Append(eaten, x),
         UNCHANGED <<heap, frontNode, rearNode, limit, temp, reg, i, useMutex, mutex, notBusy, made>>,
         x # 0 => /\ pc[c] = "return" /\ n = temp[c] /\ n # NULL /\ x = made[n]
  PROVE  OrderInv'
<1>1. "leave" \in Lines(c)
  BY DEF Lines
<1>2. pc'[c] = "leave" /\ pc'[p] = pc[p]
  BY <1>1, Threads, GoesTo DEF OrderInv
<1>3. /\ eaten' \in Seq(Value \cup {0})
      /\ Len(eaten') = Len(eaten) + 1 /\ Len(eaten) \in Nat
      /\ \A k \in 1 .. Len(eaten) : eaten'[k] = eaten[k]
      /\ eaten'[Len(eaten) + 1] = x
  BY AppendFacts DEF OrderInv, TypeInv
<1>4. TypeInv'
  <2>1. temp' \in [Thread -> Pointer] /\ frontNode' \in Pointer /\ rearNode' \in Pointer
    BY DEF OrderInv, TypeInv
  <2> QED  BY <1>1, <1>3, <2>1, Threads, CursorTypes DEF OrderInv, syncVars
<1>5. Log' /\ Unlinked' /\ NotBehind'
  BY <1>2 DEF OrderInv, Log, Unlinked, NotBehind
<1>6. PICK from : Traced(from) /\ Older(from)
  BY DEF OrderInv
<1>0. PICK more : more = [k \in 1 .. Len(eaten') |-> IF k = Len(eaten') THEN n ELSE from[k]]
  OBVIOUS
<1>7. /\ \A k \in 1 .. Len(eaten) : more[k] = from[k] /\ from[k] \in Nat
      /\ more[Len(eaten) + 1] = n /\ n \in Nat
      /\ more \in [1 .. Len(eaten') -> Pointer]
  <2>1. from \in [1 .. Len(eaten) -> Pointer]
    BY <1>6 DEF Traced
  <2>2. \A k \in 1 .. Len(eaten') : k = Len(eaten') \/ k \in 1 .. Len(eaten)
    BY <1>3
  <2>3. Len(eaten) + 1 = Len(eaten') /\ Len(eaten') \in 1 .. Len(eaten')
    BY <1>3
  <2>4. \A k \in 1 .. Len(eaten) : k \in 1 .. Len(eaten') /\ k # Len(eaten') /\ from[k] \in Pointer
    BY <1>3, <2>1
  <2>5. /\ \A k \in 1 .. Len(eaten) : more[k] = from[k]
        /\ more[Len(eaten')] = n
    BY <1>0, <2>3, <2>4
  <2>6. more \in [1 .. Len(eaten') -> Pointer]
    BY <1>0, <2>2, <2>4
  <2> QED  BY <2>3, <2>4, <2>5, <2>6 DEF Pointer
<1>8. x # 0 => /\ InCall(c) /\ temp[c] # NULL
               /\ \A k \in 1 .. Len(eaten) : eaten[k] # 0 => from[k] < n
               /\ frontNode # NULL => n < frontNode
               /\ pc[p] \in Linking => n < Len(heap)
  <2>1. x # 0 => InCall(c)
    BY DEF InCall, outside
  <2>2. pc[p] \in Linking /\ x # 0 => n # Len(heap)
    BY DEF OrderInv, Unlinked
  <2>3. n \in 0 .. Len(heap) /\ Len(heap) \in Nat
    BY DEF Pointer, OrderInv, TypeInv
  <2> QED  BY <1>6, <2>1, <2>2, <2>3 DEF Older, OrderInv, NotBehind
<1>9. Traced(more)'
  <2>1. \A k \in 1 .. Len(eaten') : k = Len(eaten) + 1 \/ k \in 1 .. Len(eaten)
    BY <1>3
  <2> SUFFICES ASSUME NEW k \in 1 .. Len(eaten'), eaten'[k] # 0
               PROVE  /\ more[k] # NULL /\ eaten'[k] = made[more[k]]
                      /\ \A j \in 1 .. k - 1 : eaten'[j] # 0 => more[j] < more[k]
    BY <1>7 DEF Traced, Pointer
  <2>2. CASE k \in 1 .. Len(eaten)
    <3>1. \A j \in 1 .. k - 1 : j \in 1 .. Len(eaten)
      BY <1>3, <2>2
    <3> QED  BY <1>3, <1>6, <1>7, <2>2, <3>1 DEF Traced
  <2>3. CASE k = Len(eaten) + 1
    <3>1. \A j \in 1 .. k - 1 : j \in 1 .. Len(eaten)
      BY <1>3, <2>3
    <3>2. eaten'[k] = x /\ more[k] = n
      BY <1>3, <1>7, <2>3
    <3> QED  BY <1>3, <1>7, <1>8, <3>1, <3>2
  <2> QED  BY <2>1, <2>2, <2>3
<1>10. Older(more)'
  <2>1. \A k \in 1 .. Len(eaten') : k = Len(eaten) + 1 \/ k \in 1 .. Len(eaten)
    BY <1>3
  <2>2. ~InCall(c)'
    BY <1>2 DEF InCall, outside
  <2> SUFFICES ASSUME NEW k \in 1 .. Len(eaten'), eaten'[k] # 0
               PROVE  /\ frontNode # NULL => more[k] < frontNode
                      /\ pc[p] \in Linking => more[k] < Len(heap)
    BY <1>2, <2>2 DEF Older
  <2> QED  BY <1>3, <1>6, <1>7, <1>8, <2>1 DEF Older
<1> QED  BY <1>4, <1>5, <1>9, <1>10 DEF OrderInv

LEMMA IsNullOrder == ASSUME OrderInv, IsNull(c) PROVE OrderInv'
<1>1. /\ pc[c] = "isNull"
      /\ UNCHANGED <<heap, frontNode, rearNode, limit, temp, reg, i, useMutex, mutex, notBusy, made>>
  BY DEF IsNull, At, queueVars, localVars, syncVars
<1>2. CASE frontNode = NULL
  <2>1. eaten' = Append(eaten, 0) /\ Goto(c, "leave")
    BY <1>2 DEF IsNull
  <2>2. NULL \in Pointer
    BY <1>2 DEF OrderInv, TypeInv
  <2> QED  BY <1>1, <2>1, <2>2, EatOrder
<1>3. CASE frontNode # NULL
  <2>1. Goto(c, "isLast") /\ Steady
    BY <1>1, <1>3 DEF IsNull, Steady
  <2>2. "isLast" \in Lines(c) /\ "isLast" \notin Passed /\ pc[c] \in Reading
    BY <1>1 DEF Lines, p, c, Passed, Reading
  <2>3. TypeInv'
    BY <1>1, <2>1, <2>2, SteadyTypes, Threads DEF OrderInv, TypeInv
  <2> QED  BY <2>1, <2>2, <2>3, SteadyOrder, Threads
<1> QED  BY <1>2, <1>3

LEMMA AdvanceOrder == ASSUME OrderInv, Advance(c) PROVE OrderInv'
<1>1. /\ pc[c] = "advance"
      /\ UNCHANGED <<heap, rearNode, limit, temp, reg, i, useMutex, mutex, notBusy, made, eaten>>
  BY DEF Advance, At, localVars, syncVars, history
<1>2. CASE frontNode = NULL
  <2>1. Crash /\ Steady
    BY <1>1, <1>2 DEF Advance, Steady
  <2> QED  BY <1>1, <2>1, CrashOrder DEF syncVars
<1>3. CASE frontNode # NULL
  <2>1. frontNode' = heap[frontNode].next /\ Goto(c, "loadLess")
    BY <1>3 DEF Advance
  <2>2. "loadLess" \in Lines(c) /\ "loadLess" \in Passed /\ "loadLess" \notin Reading
        /\ pc[c] \in Reading /\ InCall(c)
    BY <1>1 DEF Lines, p, c, Reading, Passed, InCall, outside
  <2>3. pc'[c] = "loadLess" /\ pc'[p] = pc[p]
    BY <2>1, <2>2, Threads, GoesTo DEF OrderInv
  <2>4. frontNode \in 1 .. Len(heap) /\ frontNode' \in Pointer /\ frontNode \in Nat /\ temp[c] \in Nat
    BY <1>3, <2>1, Threads DEF OrderInv, TypeInv, Pointer, NULL
  <2>5. TypeInv'
    BY <1>1, <2>1, <2>2, <2>4, Threads, CursorTypes DEF OrderInv, TypeInv, syncVars
  <2>6. frontNode' # NULL => frontNode < frontNode'
    BY <2>1, <2>4 DEF OrderInv, Log
  <2>7. temp[c] <= frontNode
    BY <1>1, <1>3 DEF OrderInv, NotBehind
  <2>8. Unlinked'
    BY <1>1, <2>1, <2>3, <2>4 DEF OrderInv, Unlinked
  <2>9. NotBehind'
    <3>1. frontNode' \in Nat
      BY <2>4 DEF Pointer
    <3> QED  BY <1>1, <2>3, <2>4, <2>6, <2>7, <3>1 DEF NotBehind
  <2>10. frontNode' # NULL => frontNode # NULL /\ frontNode <= frontNode'
    BY <1>3, <2>4, <2>6 DEF Pointer
  <2> QED  BY <1>1, <2>1, <2>2, <2>5, <2>8, <2>9, <2>10, Threads, CursorOrder
<1> QED  BY <1>2, <1>3

LEMMA ReturnDataOrder == ASSUME OrderInv, ReturnData(c) PROVE OrderInv'
<1>1. /\ pc[c] = "return"
      /\ UNCHANGED <<heap, frontNode, rearNode, limit, temp, reg, i, useMutex, mutex, notBusy, made>>
  BY DEF ReturnData, At, queueVars, localVars, syncVars
<1>2. CASE temp[c] = NULL
  <2>1. Crash /\ Steady
    BY <1>1, <1>2 DEF ReturnData, Steady
  <2> QED  BY <1>1, <2>1, CrashOrder DEF syncVars
<1>3. CASE temp[c] # NULL
  <2>1. eaten' = Append(eaten, heap[temp[c]].data) /\ Goto(c, "leave")
    BY <1>3 DEF ReturnData
  <2>2. temp[c] \in Pointer /\ temp[c] \in 1 .. Len(heap)
    BY <1>3, Threads DEF OrderInv, TypeInv, Pointer, NULL
  <2>3. heap[temp[c]].data = made[temp[c]] /\ made[temp[c]] \in Value
    BY <2>2 DEF OrderInv, TypeInv, Log
  <2> QED  BY <1>1, <1>3, <2>1, <2>2, <2>3, EatOrder
<1> QED  BY <1>2, <1>3
-----------------------------------------------------------------------------
(* Every step.                                                             *)

\* The statement about counters LeaveOrder needs.
CountInv == TypeInv /\ Counted

LEMMA NextCounted == ASSUME TypeInv, Counted, TypeInv', [Next]_vars PROVE Counted'
<1> SUFFICES ASSUME Next PROVE Counted'
  BY DEF vars, Counted, localVars
<1>1. ASSUME NEW t \in Thread, NEW open, Loop(t, open) PROVE Counted'
  <2>1. CASE Test(t, open)
    <3>1. i' = i /\ (pc' = [pc EXCEPT ![t] = "exit"] \/ (i[t] < LIMIT /\ \E l : pc' = [pc EXCEPT ![t] = l]))
      BY <2>1 DEF Test, Goto, localVars
    <3> QED  BY <3>1 DEF Counted, TypeInv
  <2>2. CASE TestFlag(t)
    <3>1. i' = i /\ pc[t] = "flag" /\ \E l : pc' = [pc EXCEPT ![t] = l]
      BY <2>2 DEF TestFlag, Goto, At, localVars
    <3> QED  BY <3>1 DEF Counted, TypeInv
  <2>3. CASE Enter(t)
    <3>1. i' = i /\ pc[t] = "enter" /\ \E l : pc' = [pc EXCEPT ![t] = l]
      BY <2>3 DEF Enter, Goto, At, localVars
    <3> QED  BY <3>1 DEF Counted, TypeInv
  <2>4. CASE LeaveSection(t)
    <3>1. i' = [i EXCEPT ![t] = @ + 1] /\ pc' = [pc EXCEPT ![t] = "test"]
      BY <2>4 DEF LeaveSection, Goto
    <3> QED  BY <3>1 DEF Counted, TypeInv
  <2> QED  BY <1>1, <2>1, <2>2, <2>3, <2>4 DEF Loop
<1>2. ASSUME i' = i, NEW t \in Thread, pc[t] \notin {"test", "exit"},
             \/ pc' = pc \/ \E l : pc' = [pc EXCEPT ![t] = l]
      PROVE  Counted'
  BY <1>2 DEF Counted, TypeInv
<1>3. enqueue(p) => i' = i /\ pc[p] \notin {"test", "exit"} /\ (pc' = pc \/ \E l : pc' = [pc EXCEPT ![p] = l])
  BY DEF enqueue, New, IsEmpty, IsEmpty2, IsRoom, Branch, SetRear, SetFront, Load, Store, LinkNext,
         Goto, Crash, At, localVars
<1>4. dequeue(c) => i' = i /\ pc[c] \notin {"test", "exit"} /\ (pc' = pc \/ \E l : pc' = [pc EXCEPT ![c] = l])
  BY DEF dequeue, ReadFront, IsNull, IsLast, Branch, SetRear, SetFront, Load, Store, Advance, ReturnData,
         Goto, Crash, At, localVars
<1> QED  BY <1>1, <1>2, <1>3, <1>4, Threads DEF Next, produtor, consumidor, p, c

LEMMA EnqueueOrder == ASSUME OrderInv, enqueue(p) PROVE OrderInv'
<1>1. {"isEmpty2", "setRear", "isRoom", "load", "leave", "storeFirst", "store", "linkNext"} \subseteq Lines(p)
  BY DEF Lines
<1>2. CASE New(p)
  BY <1>2, NewOrder
<1>3. CASE IsEmpty(p)
  BY <1>1, <1>3, Threads, BranchOrder DEF IsEmpty, Linking
<1>4. CASE IsEmpty2(p)
  BY <1>1, <1>4, Threads, BranchOrder DEF IsEmpty2, Linking
<1>5. CASE SetRear(p, "setRear", temp[p], "setFront") \/ SetRear(p, "linkRear", temp[p], "leave")
  BY <1>5, Threads, SetRearOrder
<1>6. CASE SetFront(p, "setFront", temp[p], "loadFirst")
  BY <1>6, Threads, SetFrontOrder
<1>7. CASE Load(p, "loadFirst", "storeFirst")
  BY <1>1, <1>7, Threads, LoadOrder DEF Linking
<1>8. CASE Store(p, "storeFirst", 1, "leave")
  BY <1>1, <1>8, Threads, StoreOrder DEF Linking
<1>9. CASE IsRoom(p)
  BY <1>1, <1>9, Threads, BranchOrder DEF IsRoom, Linking
<1>10. CASE Load(p, "load", "store")
  BY <1>1, <1>10, Threads, LoadOrder DEF Linking
<1>11. CASE Store(p, "store", 1, "linkNext")
  BY <1>1, <1>11, Threads, StoreOrder DEF Linking
<1>12. CASE LinkNext(p)
  BY <1>12, LinkNextOrder
<1> QED  BY <1>2, <1>3, <1>4, <1>5, <1>6, <1>7, <1>8, <1>9, <1>10, <1>11, <1>12 DEF enqueue

LEMMA DequeueOrder == ASSUME OrderInv, dequeue(c) PROVE OrderInv'
<1>1. {"clearRear", "advance", "storeLess", "return"} \subseteq Lines(c)
  BY DEF Lines, p, c
<1>2. CASE ReadFront(c)
  BY <1>2, ReadFrontOrder
<1>3. CASE IsNull(c)
  BY <1>3, IsNullOrder
<1>4. CASE IsLast(c)
  BY <1>1, <1>4, Threads, BranchOrder DEF IsLast, Reading, Passed
<1>5. CASE SetRear(c, "clearRear", NULL, "clearFront")
  BY <1>5, Threads, SetRearOrder
<1>6. CASE SetFront(c, "clearFront", NULL, "loadLess")
  BY <1>6, Threads, SetFrontOrder
<1>7. CASE Advance(c)
  BY <1>7, AdvanceOrder
<1>8. CASE Load(c, "loadLess", "storeLess")
  BY <1>1, <1>8, Threads, LoadOrder DEF Passed
<1>9. CASE Store(c, "storeLess", -1, "return")
  BY <1>1, <1>9, Threads, StoreOrder DEF Passed
<1>10. CASE ReturnData(c)
  BY <1>10, ReturnDataOrder
<1> QED  BY <1>2, <1>3, <1>4, <1>5, <1>6, <1>7, <1>8, <1>9, <1>10 DEF dequeue

LEMMA NextOrder == ASSUME OrderInv, Counted, [Next]_vars PROVE OrderInv' /\ Counted'
<1>1. OrderInv'
  <2>1. ASSUME NEW t \in Thread, NEW open, Loop(t, open) PROVE OrderInv'
    BY <2>1, TestOrder, TestFlagOrder, EnterOrder, LeaveOrder DEF Loop
  <2>2. CASE UNCHANGED vars
    <3>1. UNCHANGED <<pc, crashed, heap, frontNode, rearNode, limit, temp, reg, i, useMutex, mutex, notBusy, made, eaten>>
      BY <2>2 DEF vars, queueVars, localVars, syncVars, history
    <3>2. TypeInv' /\ Log' /\ Unlinked' /\ NotBehind'
      BY <3>1 DEF OrderInv, TypeInv, Log, Unlinked, NotBehind, Pointer
    <3>3. PICK from : Traced(from) /\ Older(from)
      BY DEF OrderInv
    <3>4. Traced(from)' /\ Older(from)'
      BY <3>1, <3>3 DEF Traced, Older, Pointer, InCall
    <3> QED  BY <3>2, <3>4 DEF OrderInv
  <2> QED  BY <2>1, <2>2, Threads, EnqueueOrder, DequeueOrder DEF Next, produtor, consumidor, p, c
<1> QED  BY <1>1, NextCounted DEF OrderInv

LEMMA InitOrder == Init => OrderInv /\ Counted
<1> SUFFICES ASSUME Init PROVE OrderInv /\ Counted
  OBVIOUS
<1>1. heap = << >> /\ made = << >> /\ eaten = << >> /\ Len(heap) = 0 /\ Len(made) = 0 /\ Len(eaten) = 0
  BY DEF Init
<1>2. TypeInv
  <2>1. \A t \in Thread : pc[t] = "test" /\ "test" \in Lines(t)
    BY DEF Init, Lines
  <2>2. LIMIT \in Nat /\ useMutex \in BOOLEAN
    BY ProducerConsumerListAssumption DEF Init
  <2>3. heap \in Seq(Node) /\ made \in Seq(Value) /\ eaten \in Seq(Value \cup {0})
    BY <1>1
  <2>4. /\ pc \in [Thread -> {"test"}] /\ {"test"} \subseteq Lines(p) \cup Lines(c)
        /\ temp \in [Thread -> {NULL}] /\ NULL \in Pointer
    BY <1>1, <2>1, Threads DEF Init, Pointer, NULL
  <2>5. i \in [Thread -> 0 .. LIMIT] /\ reg \in [Thread -> Int]
    BY <2>2 DEF Init, NULL
  <2>6. /\ pc \in [Thread -> Lines(p) \cup Lines(c)] /\ \A t \in Thread : pc[t] \in Lines(t)
    BY <2>1, <2>4
  <2>7. /\ \A n \in 1 .. Len(heap) : heap[n].next \in Pointer
        /\ frontNode \in Pointer /\ rearNode \in Pointer /\ temp \in [Thread -> Pointer]
    BY <1>1, <2>4 DEF Init
  <2>8. limit \in Int /\ mutex \in Thread \cup {"free"}
    BY DEF Init
  <2>9. notBusy \in BOOLEAN /\ crashed \in BOOLEAN
    BY Zenon DEF Init
  <2> QED  BY <2>2, <2>3, <2>5, <2>6, <2>7, <2>8, <2>9 DEF TypeInv
<1>3. Log /\ Unlinked /\ NotBehind
  BY <1>1, Threads DEF Init, Log, Unlinked, NotBehind, Linking, NULL
<1>4. Traced(<<>>) /\ Older(<<>>)
  BY <1>1 DEF Traced, Older
<1>5. Counted
  BY DEF Init, Counted
<1> QED  BY <1>2, <1>3, <1>4, <1>5 DEF OrderInv

LEMMA OrderInvariant == Spec => [](OrderInv /\ Counted)
<1>1. (OrderInv /\ Counted) /\ [Next]_vars => (OrderInv /\ Counted)'
  BY NextOrder
<1> QED  BY <1>1, InitOrder, PTL DEF Spec

\* Whatever the two threads of Lab 8 Ex 3 and Lab 9 Ex 3 do to each other inside
\* Queue.c, however much they handle, dequeue() returns each element at most once
\* and none before an older one.
THEOREM OnceInOrder == Spec => []EatenOnceInOrder
<1>1. OrderInv => EatenOnceInOrder
  <2> SUFFICES ASSUME OrderInv PROVE EatenOnceInOrder
    OBVIOUS
  <2>1. PICK from : Traced(from)
    BY DEF OrderInv
  <2>2. DOMAIN eaten = 1 .. Len(eaten) /\ Pointer = 0 .. Len(made)
    BY DEF OrderInv, TypeInv, Log, Pointer
  <2> QED  BY <2>1, <2>2 DEF Traced, EatenOnceInOrder, NULL
<1> QED  BY <1>1, OrderInvariant, PTL
-----------------------------------------------------------------------------
(***************************************************************************)
(* The chain of pointers.  The recursion that defines it has a solution,   *)
(* and on nodes that follow each other it gives their numbers; both are    *)
(* proved by the least number of steps for which they would be wrong.      *)
(***************************************************************************)
Follows(g, cells, l) ==
  g = [k \in 0 .. l |->
         [n \in 0 .. Len(cells) |->
            IF n = NULL \/ k = 0 THEN << >> ELSE <<n>> \o g[k - 1][cells[n].next]]]

LEMMA ChainFollows ==
  ASSUME NEW cells, NEW first
  PROVE  Chain(cells, first) = (CHOOSE g : Follows(g, cells, LIMIT))[LIMIT][first]
BY DEF Chain, Follows

LEMMA LeastNumber ==
  ASSUME NEW Bad, Bad \subseteq Nat, Bad # {}
  PROVE  \E k \in Bad : k - 1 \notin Bad
<1> DEFINE R == OpToRel(<, Nat)
<1>1. IsWellFoundedOn(R, Nat)
  BY NatLessThanWellFounded
<1> HIDE DEF R
<1>2. PICK k \in Bad : \A j \in Bad : ~(<<j, k>> \in R)
  BY <1>1, WFMin
<1>3. k - 1 \in Bad => <<k - 1, k>> \in R
  BY DEF R, OpToRel
<1> QED  BY <1>2, <1>3

LEMMA FollowsExists ==
  ASSUME NEW cells, NEW l \in Nat
  PROVE  \E g : Follows(g, cells, l)
<1> DEFINE Bad == {k \in Nat : ~\E g : Follows(g, cells, k)}
<1> SUFFICES ASSUME Bad # {} PROVE FALSE
  OBVIOUS
<1>1. Bad \subseteq Nat
  OBVIOUS
<1> HIDE DEF Bad
<1>2. PICK k \in Bad : k - 1 \notin Bad
  BY <1>1, LeastNumber
<1>3. k \in Nat /\ ~\E g : Follows(g, cells, k)
  BY <1>2 DEF Bad
<1>4. CASE k = 0
  <2>1. Follows([j \in 0 .. 0 |-> [n \in 0 .. Len(cells) |-> << >>]], cells, 0)
    BY DEF Follows
  <2> QED  BY <1>3, <1>4, <2>1
<1>5. CASE k # 0
  <2>1. k - 1 \in Nat
    BY <1>3, <1>5
  <2>2. PICK g : Follows(g, cells, k - 1)
    BY <1>2, <2>1 DEF Bad
  <2> DEFINE last == [n \in 0 .. Len(cells) |->
                        IF n = NULL THEN << >> ELSE <<n>> \o g[k - 1][cells[n].next]]
             h == [j \in 0 .. k |-> IF j = k THEN last ELSE g[j]]
  <2>3. Follows(h, cells, k)
    <3>1. \A j \in 0 .. k : h[j] = IF j = k THEN last ELSE g[j]
      OBVIOUS
    <3>2. \A j \in 0 .. k : j # k => j \in 0 .. k - 1
      BY <1>3
    <3>3. \A j \in 1 .. k : h[j - 1] = g[j - 1]
      BY <1>3
    <3> HIDE DEF h
    <3>4. ASSUME NEW j \in 0 .. k
          PROVE  h[j] = [n \in 0 .. Len(cells) |->
                    IF n = NULL \/ j = 0 THEN << >> ELSE <<n>> \o h[j - 1][cells[n].next]]
      <4>1. CASE j = k
        <5>1. h[j - 1] = g[j - 1] /\ j # 0
          BY <1>3, <1>5, <3>3, <4>1
        <5> QED  BY <3>1, <4>1, <5>1
      <4>2. CASE j = 0
        <5>1. 0 \in 0 .. k - 1 /\ 0 # k
          BY <1>5, <2>1
        <5>2. g[0] = [n \in 0 .. Len(cells) |->
                    IF n = NULL \/ 0 = 0 THEN << >> ELSE <<n>> \o g[0 - 1][cells[n].next]]
          BY <2>2, <5>1 DEF Follows
        <5>3. h[0] = g[0]
          BY <3>1, <4>2, <5>1
        <5>4. h[0] = [n \in 0 .. Len(cells) |->
                    IF n = NULL \/ 0 = 0 THEN << >> ELSE <<n>> \o h[0 - 1][cells[n].next]]
          BY <5>2, <5>3
        <5> QED  BY <4>2, <5>4
      <4>3. CASE j # k /\ j # 0
        <5>1. j \in 1 .. k /\ j \in 0 .. k - 1
          BY <1>3, <4>3
        <5>2. g[j] = [n \in 0 .. Len(cells) |->
                    IF n = NULL \/ j = 0 THEN << >> ELSE <<n>> \o g[j - 1][cells[n].next]]
          BY <2>2, <5>1 DEF Follows
        <5> QED  BY <3>1, <3>3, <4>3, <5>1, <5>2
      <4> QED  BY <4>1, <4>2, <4>3
    <3>5. h = [j \in 0 .. k |-> h[j]]
      BY DEF h
    <3>6. h = [j \in 0 .. k |-> [n \in 0 .. Len(cells) |->
                    IF n = NULL \/ j = 0 THEN << >> ELSE <<n>> \o h[j - 1][cells[n].next]]]
      BY <3>4, <3>5
    <3> QED  BY <3>6 DEF Follows
  <2> QED  BY <1>3, <2>3
<1> QED  BY <1>4, <1>5

\* Nodes a to b, and the pointer to the first of them.
Nodes(a, b) == [k \in 1 .. b - a + 1 |-> a + k - 1]
First(a, b) == IF a <= b THEN a ELSE NULL

LEMMA NodesStep ==
  ASSUME NEW a \in Nat, NEW b \in Nat, a <= b
  PROVE  Nodes(a, b) = <<a>> \o Nodes(a + 1, b)
<1>1. Nodes(a, b) \in Seq(Nat) /\ Len(Nodes(a, b)) = b - a + 1
  BY DEF Nodes
<1>2. Nodes(a + 1, b) \in Seq(Nat) /\ Len(Nodes(a + 1, b)) = b - a
  BY DEF Nodes
<1> DEFINE s == <<a>> \o Nodes(a + 1, b)
<1>3. s \in Seq(Nat) /\ Len(s) = b - a + 1 /\ s[1] = a
      /\ \A k \in 2 .. b - a + 1 : s[k] = Nodes(a + 1, b)[k - 1]
  BY <1>2
<1>4. \A k \in 1 .. b - a + 1 : s[k] = Nodes(a, b)[k]
  <2> SUFFICES ASSUME NEW k \in 1 .. b - a + 1 PROVE s[k] = Nodes(a, b)[k]
    OBVIOUS
  <2>1. Nodes(a, b)[k] = a + k - 1
    BY DEF Nodes
  <2>2. CASE k = 1
    BY <1>3, <2>1, <2>2
  <2>3. CASE k # 1
    <3>1. k \in 2 .. b - a + 1 /\ k - 1 \in 1 .. b - (a + 1) + 1
      BY <2>3
    <3>2. Nodes(a + 1, b)[k - 1] = (a + 1) + (k - 1) - 1
      BY <3>1 DEF Nodes
    <3> QED  BY <1>3, <2>1, <3>1, <3>2
  <2> QED  BY <2>2, <2>3
<1> HIDE DEF s
<1>5. s = Nodes(a, b)
  BY <1>1, <1>3, <1>4, SeqEqual
<1> QED  BY <1>5 DEF s

\* Nodes a to b follow each other, and the last one is the end of the list.
Linked(cells, a, b) ==
  /\ \A n \in a .. b - 1 : cells[n].next = n + 1
  /\ a <= b => cells[b].next = NULL

LEMMA ChainIsNodes ==
  ASSUME NEW cells, NEW a \in Nat \ {0}, NEW b \in Nat, b <= Len(cells), Len(cells) \in Nat,
         Linked(cells, a, b), b - a + 1 <= LIMIT
  PROVE  Chain(cells, First(a, b)) = Nodes(a, b)
<1> DEFINE g == CHOOSE h : Follows(h, cells, LIMIT)
<1>1. LIMIT \in Nat
  BY ProducerConsumerListAssumption
<1>2. Follows(g, cells, LIMIT)
  BY <1>1, FollowsExists
<1>3. Chain(cells, First(a, b)) = g[LIMIT][First(a, b)]
  BY ChainFollows
<1> HIDE DEF g
<1>4. \A k \in 0 .. LIMIT : \A n \in 0 .. Len(cells) :
        g[k][n] = IF n = NULL \/ k = 0 THEN << >> ELSE <<n>> \o g[k - 1][cells[n].next]
  <2>1. \A k \in 0 .. LIMIT : g[k] = [n \in 0 .. Len(cells) |->
          IF n = NULL \/ k = 0 THEN << >> ELSE <<n>> \o g[k - 1][cells[n].next]]
    BY <1>2 DEF Follows
  <2> SUFFICES ASSUME NEW k \in 0 .. LIMIT, NEW n \in 0 .. Len(cells)
               PROVE  g[k][n] = IF n = NULL \/ k = 0 THEN << >> ELSE <<n>> \o g[k - 1][cells[n].next]
    OBVIOUS
  <2> QED  BY <2>1
<1> DEFINE Right(k, x) == b - x + 1 <= k => g[k][First(x, b)] = Nodes(x, b)
           Bad == {k \in 0 .. LIMIT : \E x \in a .. b + 1 : ~Right(k, x)}
<1>5. \A x \in a .. b + 1 : First(x, b) \in 0 .. Len(cells) /\ x \in Nat /\ x # 0
  BY DEF First, NULL
<1>6. \A x \in a .. b + 1 : x > b => First(x, b) = NULL /\ Nodes(x, b) = << >>
  <2> SUFFICES ASSUME NEW x \in a .. b + 1, x > b PROVE First(x, b) = NULL /\ Nodes(x, b) = << >>
    OBVIOUS
  <2>1. x = b + 1 /\ 1 .. b - x + 1 = {}
    OBVIOUS
  <2> QED  BY <2>1 DEF First, Nodes
<1>7. Bad = {}
  <2> SUFFICES ASSUME Bad # {} PROVE FALSE
    OBVIOUS
  <2>1. Bad \subseteq Nat
    OBVIOUS
  <2> HIDE DEF Bad
  <2>2. PICK k \in Bad : k - 1 \notin Bad
    BY <2>1, LeastNumber
  <2>3. PICK x \in a .. b + 1 : ~Right(k, x)
    BY <2>2 DEF Bad
  <2>4. k \in 0 .. LIMIT /\ b - x + 1 <= k /\ g[k][First(x, b)] # Nodes(x, b)
    BY <2>2, <2>3 DEF Bad
  <2>5. x <= b
    <3> SUFFICES ASSUME x > b PROVE FALSE
      BY <1>5
    <3> QED  BY <1>4, <1>5, <1>6, <2>4
  <2>6. First(x, b) = x /\ k # 0 /\ x + 1 \in a .. b + 1 /\ x # NULL /\ x \in 0 .. Len(cells)
    BY <1>5, <2>4, <2>5 DEF First, NULL
  <2>7. g[k][x] = <<x>> \o g[k - 1][cells[x].next]
    BY <1>4, <2>4, <2>6
  <2>8. cells[x].next = First(x + 1, b)
    BY <2>5, <2>6 DEF Linked, First
  <2>9. k - 1 \in 0 .. LIMIT /\ b - (x + 1) + 1 <= k - 1
    BY <1>1, <2>4, <2>6
  <2>10. Right(k - 1, x + 1)
    BY <2>2, <2>6, <2>9 DEF Bad
  <2>11. g[k - 1][First(x + 1, b)] = Nodes(x + 1, b)
    BY <2>9, <2>10
  <2>12. Nodes(x, b) = <<x>> \o Nodes(x + 1, b)
    BY <1>5, <2>5, NodesStep
  <2> QED  BY <2>4, <2>6, <2>7, <2>8, <2>11, <2>12
<1>8. CASE a <= b + 1
  <2>1. LIMIT \in 0 .. LIMIT /\ a \in a .. b + 1
    BY <1>1, <1>8
  <2>2. Right(LIMIT, a)
    BY <1>7, <2>1
  <2> QED  BY <1>3, <2>2
<1>9. CASE ~(a <= b + 1)
  <2>1. First(a, b) = NULL /\ 1 .. b - a + 1 = {}
    BY <1>9 DEF First
  <2>2. Nodes(a, b) = << >>
    BY <2>1 DEF Nodes
  <2>3. LIMIT \in 0 .. LIMIT /\ NULL \in 0 .. Len(cells)
    BY <1>1 DEF NULL
  <2> QED  BY <1>3, <1>4, <2>1, <2>2, <2>3
<1> QED  BY <1>8, <1>9
-----------------------------------------------------------------------------
(* With the mutex.                                                         *)

\* The list is nodes a to b.
Queue(a, b) ==
  /\ Linked(heap, a, b)
  /\ frontNode = First(a, b) /\ rearNode = IF a <= b THEN b ELSE NULL

\* What the producer finds at line l of enqueue(): its node, the last one made,
\* comes after those of the queue.
Enqueueing(l) ==
  LET new == Len(made)
      old == Len(eaten) + 1
  IN  /\ temp[p] = new /\ old <= new
      /\ l \in Linking => new > 0 /\ heap[new].next = NULL
      /\ l \in Linking \ {"setFront"} => Queue(old, new - 1)
      /\ l \in Linking \ {"linkNext"} => limit = new - old
      /\ l \in {"setRear", "setFront"} => old = new
      /\ l = "isEmpty2" => frontNode = NULL
      /\ l \in {"isRoom", "load", "store", "linkNext"} => frontNode # NULL
      /\ l = "setFront" => frontNode = NULL /\ rearNode = new
      /\ l \in {"loadFirst", "storeFirst"} => old = new /\ Queue(old, new) /\ limit = 0
      /\ l \in {"store", "storeFirst"} => reg[p] = limit
      /\ l \in {"linkNext", "linkRear"} => limit = new - old + 1
      /\ l = "linkRear" => old < new /\ Linked(heap, old, new) /\ frontNode = old

\* What the consumer finds at line l of dequeue(): its node is the oldest one
\* it has not eaten.
Dequeueing(l) ==
  LET new == Len(made)
      old == Len(eaten) + 1
  IN  /\ temp[c] = old /\ old <= new
      /\ l \in {"isNull", "isLast", "advance"} => Queue(old, new)
      /\ l \in {"clearRear", "clearFront"} => old = new /\ Linked(heap, old, new) /\ frontNode = old
      /\ l = "clearFront" => rearNode = NULL
      /\ l = "advance" => old < new
      /\ l \in Passed => Queue(old + 1, new)
      /\ l # "return" => limit = new - old + 1
      /\ l = "storeLess" => reg[c] = limit
      /\ l = "return" => limit = new - old

Whole == Queue(Len(eaten) + 1, Len(made)) /\ limit = Len(made) - Len(eaten)

\* Between pthread_mutex_lock() and pthread_mutex_unlock().
InSection(t) == pc[t] \notin {"test", "flag", "enter", "exit"}

Exclusive == \A t \in Thread : pc[t] # "flag" /\ (InSection(t) => mutex = t)

EatenIsMade == Len(eaten) <= Len(made) /\ \A k \in 1 .. Len(eaten) : eaten[k] = made[k]

MadeInTurn ==
  Len(made) = i[p] + IF pc[p] \in {"test", "enter", "exit", "new"} THEN 0 ELSE 1

\* What a thread's unlocked test found.
StillOpen ==
  /\ pc[p] \in {"enter", "new", "isEmpty", "isEmpty2", "isRoom"} => limit < Capacity
  /\ pc[c] \in {"enter", "front"} => limit > 0

Shape ==
  /\ InCall(p) => Enqueueing(pc[p])
  /\ InCall(c) => Dequeueing(pc[c])
  /\ ~InCall(p) /\ ~InCall(c) => Whole

MutexInv ==
  useMutex => ~crashed /\ Exclusive /\ EatenIsMade /\ MadeInTurn /\ StillOpen /\ Shape

LEMMA Numbers ==
  ASSUME OrderInv
  PROVE  /\ Len(heap) = Len(made) /\ Len(made) \in Nat /\ Len(eaten) \in Nat
         /\ heap \in Seq(Node) /\ made \in Seq(Value) /\ eaten \in Seq(Value \cup {0})
         /\ limit \in Int /\ frontNode \in 0 .. Len(made) /\ rearNode \in 0 .. Len(made)
         /\ temp \in [Thread -> 0 .. Len(made)] /\ reg \in [Thread -> Int]
         /\ \A n \in 1 .. Len(made) : heap[n].data = made[n]
BY DEF OrderInv, TypeInv, Log, Pointer

LEMMA Calls ==
  ASSUME OrderInv, NEW t \in Thread
  PROVE  /\ InCall(t) => InSection(t)
         /\ InSection(t) => InCall(t) \/ pc[t] \in {"new", "front", "leave"}
  BY DEF InCall, InSection, outside

\* A thread takes a step between lock and unlock.
LEMMA InsideMutex ==
  ASSUME OrderInv, OrderInv', MutexInv, useMutex, useMutex' = useMutex,
         NEW t \in Thread, InSection(t),
         NEW l \in Lines(t), l \notin {"test", "flag", "enter", "exit", "new", "front"}, Goto(t, l),
         mutex' = mutex, i' = i,
         EatenIsMade', Len(made') = Len(made) + IF t = p /\ pc[p] = "new" THEN 1 ELSE 0,
         IF t = p THEN limit' >= limit ELSE limit' <= limit,
         l \in {"isEmpty", "isEmpty2", "isRoom"} =>
            limit' = limit /\ pc[p] \in {"new", "isEmpty", "isEmpty2", "isRoom"},
         l = "leave" => Whole',
         l # "leave" => IF t = p THEN Enqueueing(l)' ELSE Dequeueing(l)'
  PROVE  MutexInv'
<1>1. /\ pc'[t] = l /\ \A u \in Thread : u # t => pc'[u] = pc[u]
      /\ crashed' = crashed
  BY GoesTo DEF OrderInv
<1>2. ~crashed /\ Exclusive /\ MadeInTurn /\ StillOpen /\ Shape
  BY DEF MutexInv
<1>3. \A u \in Thread : u # t => ~InSection(u) /\ ~InSection(u)' /\ ~InCall(u)'
  BY <1>1, <1>2 DEF Exclusive, InSection, InCall, outside
<1>4. Exclusive'
  BY <1>1, <1>2 DEF Exclusive, InSection
<1>5. MadeInTurn'
  <2>1. CASE t = p
    <3>1. pc[p] \notin {"test", "enter", "exit"} /\ pc'[p] \notin {"test", "enter", "exit", "new"}
      BY <1>1, <2>1 DEF InSection
    <3>2. Len(made) \in Nat /\ i[p] \in Int
      BY Numbers, Threads DEF OrderInv, TypeInv
    <3> QED  BY <1>2, <2>1, <3>1, <3>2 DEF MadeInTurn
  <2>2. CASE t # p
    BY <1>1, <1>2, <2>2, Numbers, Threads DEF MadeInTurn
  <2> QED  BY <2>1, <2>2
<1>6. StillOpen'
  <2>1. limit \in Int /\ limit' \in Int /\ Capacity \in Nat
    BY ProducerConsumerListAssumption DEF OrderInv, TypeInv
  <2>2. CASE t = p
    BY <1>1, <1>2, <2>1, <2>2, Threads DEF StillOpen
  <2>3. CASE t = c
    BY <1>1, <1>2, <2>1, <2>3, Threads DEF StillOpen
  <2> QED  BY <2>2, <2>3, Threads
<1>7. Shape'
  <2>1. InCall(t)' <=> l # "leave"
    BY <1>1 DEF InCall, outside
  <2> QED  BY <1>1, <1>3, <2>1, Threads DEF Shape
<1> QED  BY <1>1, <1>2, <1>4, <1>5, <1>6, <1>7 DEF MutexInv

\* A thread moves outside its calls.
LEMMA OutsideMutex ==
  ASSUME OrderInv, OrderInv', MutexInv, useMutex, useMutex' = useMutex,
         NEW t \in Thread, NEW l \in Lines(t), Goto(t, l), ~InCall(t),
         l \in {"enter", "exit", "test", "new", "front"},
         UNCHANGED <<heap, frontNode, rearNode, limit, temp, reg, made, eaten>>,
         Exclusive', MadeInTurn', StillOpen'
  PROVE  MutexInv'
<1>1. /\ pc'[t] = l /\ \A u \in Thread : u # t => pc'[u] = pc[u]
      /\ crashed' = crashed
  BY GoesTo DEF OrderInv
<1>2. ~crashed /\ EatenIsMade /\ Shape
  BY DEF MutexInv
<1>3. EatenIsMade'
  BY <1>2 DEF EatenIsMade
<1>4. \A u \in Thread : (InCall(u)' <=> InCall(u)) /\ (InCall(u) => pc'[u] = pc[u])
  BY <1>1 DEF InCall, outside
<1>5. /\ Whole => Whole'
      /\ \A k \in {pc[p], pc[c]} : (Enqueueing(k) => Enqueueing(k)') /\ (Dequeueing(k) => Dequeueing(k)')
  BY DEF Whole, Enqueueing, Dequeueing, Queue, Linked
<1>6. Shape'
  BY <1>2, <1>4, <1>5, Threads DEF Shape
<1> QED  BY <1>1, <1>2, <1>3, <1>6 DEF MutexInv
-----------------------------------------------------------------------------
(* The threads' loops, with the mutex.                                     *)

LEMMA TestMutex ==
  ASSUME OrderInv, OrderInv', Counted, MutexInv, useMutex, NEW t \in Thread, NEW open, Test(t, open),
         open => IF t = p THEN limit < Capacity ELSE limit > 0
  PROVE  MutexInv'
<1>1. PICK l \in {"enter", "exit"} : Goto(t, l) /\ (l = "enter" => open)
  BY DEF Test
<1>2. /\ pc[t] = "test" /\ l \in Lines(t)
      /\ UNCHANGED <<heap, frontNode, rearNode, limit, temp, reg, i, useMutex, mutex, made, eaten>>
  BY <1>1 DEF Test, At, Lines, queueVars, localVars, syncVars, history
<1>3. /\ pc'[t] = l /\ \A u \in Thread : u # t => pc'[u] = pc[u]
  BY <1>1, <1>2, GoesTo DEF OrderInv
<1>4. Exclusive /\ MadeInTurn /\ StillOpen
  BY DEF MutexInv
<1>5. Exclusive' /\ MadeInTurn' /\ StillOpen' /\ ~InCall(t)
  BY <1>1, <1>2, <1>3, <1>4, Threads DEF Exclusive, InSection, MadeInTurn, StillOpen, InCall, outside
<1> QED  BY <1>1, <1>2, <1>5, OutsideMutex

LEMMA EnterMutex ==
  ASSUME OrderInv, OrderInv', MutexInv, useMutex, NEW t \in Thread, Enter(t)
  PROVE  MutexInv'
<1>1. /\ pc[t] = "enter" /\ Goto(t, Body(t)) /\ mutex = "free" /\ mutex' = t
      /\ UNCHANGED <<heap, frontNode, rearNode, limit, temp, reg, i, useMutex, made, eaten>>
  BY DEF Enter, At, queueVars, localVars, history
<1>2. Body(t) \in Lines(t) /\ Body(t) = IF t = p THEN "new" ELSE "front"
  BY DEF Lines, Body, p
<1>3. /\ pc'[t] = Body(t) /\ \A u \in Thread : u # t => pc'[u] = pc[u]
  BY <1>1, <1>2, GoesTo DEF OrderInv
<1>4. Exclusive /\ MadeInTurn /\ StillOpen
  BY DEF MutexInv
<1>5. Exclusive'
  <2>1. "free" \notin Thread
    BY DEF Thread
  <2> QED  BY <1>1, <1>2, <1>3, <1>4, <2>1 DEF Exclusive, InSection
<1>6. MadeInTurn' /\ StillOpen' /\ ~InCall(t)
  BY <1>1, <1>2, <1>3, <1>4, Threads DEF MadeInTurn, StillOpen, InCall, outside
<1> QED  BY <1>1, <1>2, <1>5, <1>6, OutsideMutex

LEMMA LeaveMutex ==
  ASSUME OrderInv, OrderInv', MutexInv, useMutex, NEW t \in Thread, LeaveSection(t)
  PROVE  MutexInv'
<1>1. /\ pc[t] = "leave" /\ Goto(t, "test") /\ mutex' = "free"
      /\ i' = [i EXCEPT ![t] = @ + 1]
      /\ UNCHANGED <<heap, frontNode, rearNode, limit, temp, reg, useMutex, made, eaten>>
  BY DEF LeaveSection, At, queueVars, history
<1>2. "test" \in Lines(t)
  BY DEF Lines
<1>3. /\ pc'[t] = "test" /\ \A u \in Thread : u # t => pc'[u] = pc[u]
  BY <1>1, <1>2, GoesTo DEF OrderInv
<1>4. Exclusive /\ MadeInTurn /\ StillOpen
  BY DEF MutexInv
<1>5. Exclusive'
  <2>1. mutex = t
    BY <1>1, <1>4 DEF Exclusive, InSection
  <2> QED  BY <1>1, <1>3, <1>4, <2>1 DEF Exclusive, InSection
<1>6. MadeInTurn'
  <2>1. i[p] \in Int /\ Len(made) \in Nat /\ i \in [Thread -> 0 .. LIMIT]
    BY Numbers, Threads DEF OrderInv, TypeInv
  <2>2. CASE t = p
    BY <1>1, <1>3, <1>4, <2>1, <2>2, Threads DEF MadeInTurn
  <2>3. CASE t # p
    BY <1>1, <1>3, <1>4, <2>1, <2>3, Threads DEF MadeInTurn
  <2> QED  BY <2>2, <2>3
<1>7. StillOpen' /\ ~InCall(t)
  BY <1>1, <1>3, <1>4, Threads DEF StillOpen, InCall, outside
<1> QED  BY <1>1, <1>2, <1>5, <1>6, <1>7, OutsideMutex

-----------------------------------------------------------------------------
(* enqueue(), with the mutex.                                              *)

\* What a step of t's call finds.
LEMMA MutexFacts ==
  ASSUME OrderInv, MutexInv, useMutex, NEW t \in Thread, InSection(t)
  PROVE  /\ EatenIsMade /\ \A u \in Thread : u # t => ~InCall(u)
         /\ InCall(t) => IF t = p THEN Enqueueing(pc[p]) ELSE Dequeueing(pc[c])
         /\ ~InCall(t) => Whole
         /\ t = p /\ pc[p] = "isRoom" => limit < Capacity
         /\ t = c /\ pc[c] = "front" => limit > 0
<1>1. Exclusive /\ EatenIsMade /\ StillOpen /\ Shape
  BY DEF MutexInv
<1>2. \A u \in Thread : u # t => ~InCall(u)
  BY <1>1, Calls DEF Exclusive
<1> QED  BY <1>1, <1>2, Threads DEF Shape, StillOpen

LEMMA NewMutex == ASSUME OrderInv, OrderInv', MutexInv, useMutex, New(p) PROVE MutexInv'
<1>1. PICK r \in Value : /\ heap' = Append(heap, [data |-> r, next |-> NULL])
                         /\ made' = Append(made, r)
  BY DEF New
<1>2. /\ pc[p] = "new" /\ Goto(p, "isEmpty") /\ temp' = [temp EXCEPT ![p] = Len(heap) + 1]
      /\ UNCHANGED <<frontNode, rearNode, limit, reg, i, useMutex, mutex, eaten>>
  BY DEF New, At, syncVars
<1>3. InSection(p) /\ ~InCall(p) /\ "isEmpty" \in Lines(p)
  BY <1>2 DEF InSection, InCall, outside, Lines
<1>4. Whole /\ EatenIsMade
  BY <1>3, MutexFacts, Threads
<1>5. /\ Len(made) \in Nat /\ Len(made') = Len(made) + 1
      /\ \A k \in 1 .. Len(made) : made'[k] = made[k]
  BY <1>1, Numbers, AppendFacts
<1>6. /\ \A n \in 1 .. Len(made) : heap'[n] = heap[n]
      /\ heap'[Len(made) + 1].next = NULL
  <2>1. [data |-> r, next |-> NULL] \in Node
    BY DEF Node, NULL
  <2>2. Append(heap, [data |-> r, next |-> NULL])[Len(heap) + 1] = [data |-> r, next |-> NULL]
    BY <2>1, Numbers, AppendFacts
  <2>3. \A n \in 1 .. Len(heap) : heap'[n] = heap[n]
    BY <1>1, <2>1, Numbers, AppendFacts
  <2> QED  BY <1>1, <2>2, <2>3, Numbers
<1>7. temp'[p] = Len(made) + 1
  BY <1>2, Numbers, Threads
<1>8. EatenIsMade'
  BY <1>2, <1>4, <1>5, Numbers DEF EatenIsMade
<1>9. Enqueueing("isEmpty")'
  <2>1. Linked(heap, Len(eaten) + 1, Len(made)) => Linked(heap', Len(eaten) + 1, Len(made))
    <3>1. \A n \in Len(eaten) + 1 .. Len(made) : n \in 1 .. Len(made)
      BY Numbers
    <3>2. \A n \in Len(eaten) + 1 .. Len(made) - 1 : n \in Len(eaten) + 1 .. Len(made)
      BY Numbers
    <3>3. Len(eaten) + 1 <= Len(made) => Len(made) \in Len(eaten) + 1 .. Len(made)
      BY Numbers
    <3> QED  BY <1>6, <3>1, <3>2, <3>3 DEF Linked
  <2>2. Queue(Len(eaten) + 1, Len(made)) /\ limit = Len(made) - Len(eaten)
    BY <1>4 DEF Whole
  <2>3. /\ Len(made') - 1 = Len(made) /\ Len(eaten') + 1 = Len(eaten) + 1
        /\ Len(eaten') + 1 <= Len(made') /\ Len(made') > 0
        /\ limit' = Len(made') - (Len(eaten') + 1)
    BY <1>2, <1>4, <1>5, <2>2, Numbers DEF EatenIsMade
  <2>4. Queue(Len(eaten) + 1, Len(made) - 1)'
    BY <1>2, <2>1, <2>2, <2>3 DEF Queue
  <2>5. heap'[Len(made')].next = NULL /\ temp'[p] = Len(made')
    BY <1>5, <1>6, <1>7
  <2> QED  BY <2>3, <2>4, <2>5 DEF Enqueueing
<1>10. limit' >= limit
  BY <1>2, Numbers
<1> QED  BY <1>2, <1>3, <1>5, <1>8, <1>9, <1>10, Threads, InsideMutex

\* A branch of either call.
LEMMA BranchMutex ==
  ASSUME OrderInv, OrderInv', MutexInv, useMutex, NEW t \in Thread, InCall(t),
         NEW l \in Lines(t), l \notin outside, Goto(t, l),
         UNCHANGED <<heap, frontNode, rearNode, limit, temp, reg, i, useMutex, mutex, made, eaten>>,
         l \in {"isEmpty", "isEmpty2", "isRoom"} => pc[p] \in {"isEmpty", "isEmpty2"},
         IF t = p THEN Enqueueing(l) ELSE Dequeueing(l)
  PROVE  MutexInv'
<1>1. EatenIsMade' /\ InSection(t)
  BY Calls, MutexFacts DEF EatenIsMade
<1>2. (Enqueueing(l) => Enqueueing(l)') /\ (Dequeueing(l) => Dequeueing(l)')
  BY DEF Enqueueing, Dequeueing, Queue, Linked
<1>3. l \notin {"test", "flag", "enter", "exit", "new", "front", "leave"}
  BY DEF outside
<1>4. pc[p] # "new" \/ t = c
  BY Threads DEF InCall, outside
<1>5. Len(made') = Len(made) + (IF t = p /\ pc[p] = "new" THEN 1 ELSE 0) /\ limit' >= limit /\ limit' <= limit
  BY <1>4, Numbers, Threads
<1> QED  BY <1>1, <1>2, <1>3, <1>5, InsideMutex

LEMMA EmptyQueue ==
  ASSUME OrderInv, EatenIsMade, NEW b \in Int, Queue(Len(eaten) + 1, b)
  PROVE  /\ frontNode = NULL <=> Len(eaten) + 1 > b
         /\ rearNode = NULL <=> Len(eaten) + 1 > b
BY Numbers DEF Queue, First, NULL

LEMMA IsEmptyMutex == ASSUME OrderInv, OrderInv', MutexInv, useMutex, IsEmpty(p) PROVE MutexInv'
<1>1. /\ pc[p] = "isEmpty" /\ InCall(p) /\ Goto(p, IF frontNode = NULL THEN "isEmpty2" ELSE "isRoom")
      /\ UNCHANGED <<heap, frontNode, rearNode, limit, temp, reg, i, useMutex, mutex, made, eaten>>
  BY DEF IsEmpty, Branch, At, InCall, outside, queueVars, localVars, syncVars, history
<1>2. Enqueueing("isEmpty")
  BY <1>1, MutexFacts, Calls, Threads
<1>3. PICK l \in {"isEmpty2", "isRoom"} : Goto(p, l) /\ (l = "isEmpty2" <=> frontNode = NULL)
  BY <1>1
<1>4. l \in Lines(p) /\ l \notin outside
  BY <1>3 DEF Lines, outside
<1>5. Enqueueing(l)
  BY <1>2, <1>3 DEF Enqueueing, Linking
<1> QED  BY <1>1, <1>3, <1>4, <1>5, Threads, BranchMutex

LEMMA IsEmpty2Mutex == ASSUME OrderInv, OrderInv', MutexInv, useMutex, IsEmpty2(p) PROVE MutexInv'
<1>1. /\ pc[p] = "isEmpty2" /\ InCall(p) /\ Goto(p, IF rearNode = NULL THEN "setRear" ELSE "isRoom")
      /\ UNCHANGED <<heap, frontNode, rearNode, limit, temp, reg, i, useMutex, mutex, made, eaten>>
  BY DEF IsEmpty2, Branch, At, InCall, outside, queueVars, localVars, syncVars, history
<1>2. Enqueueing("isEmpty2") /\ EatenIsMade
  BY <1>1, MutexFacts, Calls, Threads
<1>3. /\ Queue(Len(eaten) + 1, Len(made) - 1) /\ frontNode = NULL /\ Len(eaten) + 1 <= Len(made)
  BY <1>2 DEF Enqueueing, Linking
<1>4. rearNode = NULL /\ Len(eaten) + 1 = Len(made)
  <2>1. Len(made) - 1 \in Int
    BY Numbers
  <2>2. Len(eaten) + 1 > Len(made) - 1 /\ rearNode = NULL
    BY <1>2, <1>3, <2>1, EmptyQueue
  <2> QED  BY <1>3, <2>2, Numbers
<1>5. Goto(p, "setRear") /\ "setRear" \in Lines(p) /\ "setRear" \notin outside
  BY <1>1, <1>4 DEF Lines, outside
<1>6. Enqueueing("setRear")
  BY <1>2, <1>4 DEF Enqueueing, Linking
<1> QED  BY <1>1, <1>5, <1>6, Threads, BranchMutex

LEMMA IsRoomMutex == ASSUME OrderInv, OrderInv', MutexInv, useMutex, IsRoom(p) PROVE MutexInv'
<1>1. /\ pc[p] = "isRoom" /\ InCall(p) /\ Goto(p, IF limit < Capacity THEN "load" ELSE "leave")
      /\ UNCHANGED <<heap, frontNode, rearNode, limit, temp, reg, i, useMutex, mutex, made, eaten>>
  BY DEF IsRoom, Branch, At, InCall, outside, queueVars, localVars, syncVars, history
<1>2. Enqueueing("isRoom") /\ limit < Capacity
  BY <1>1, MutexFacts, Calls, Threads
<1>3. Goto(p, "load") /\ "load" \in Lines(p) /\ "load" \notin outside
  BY <1>1, <1>2 DEF Lines, outside
<1>4. Enqueueing("load")
  BY <1>2 DEF Enqueueing, Linking
<1> QED  BY <1>1, <1>3, <1>4, Threads, BranchMutex

\* limit++ and limit--: the counter read is the one written back.
LEMMA LoadMutex ==
  ASSUME OrderInv, OrderInv', MutexInv, useMutex, NEW t \in Thread, NEW label, NEW l, Load(t, label, l),
         <<t, label, l>> \in {<<p, "loadFirst", "storeFirst">>, <<p, "load", "store">>, <<c, "loadLess", "storeLess">>}
  PROVE  MutexInv'
<1>1. /\ pc[t] = label /\ Goto(t, l) /\ reg' = [reg EXCEPT ![t] = limit]
      /\ UNCHANGED <<heap, frontNode, rearNode, limit, temp, i, useMutex, mutex, made, eaten>>
  BY DEF Load, At, queueVars, syncVars, history
<1>2. l \in Lines(t) /\ InCall(t) /\ reg'[t] = limit
  BY <1>1, Numbers, Threads DEF Lines, InCall, outside, p, c
<1>3. EatenIsMade /\ EatenIsMade'
  BY <1>1, <1>2, Calls, MutexFacts DEF EatenIsMade
<1>4. IF t = p THEN Enqueueing(l)' ELSE Dequeueing(l)'
  <2>1. CASE t = p
    <3>1. Enqueueing(label)
      BY <1>1, <1>2, <2>1, Calls, MutexFacts
    <3> QED  BY <1>1, <1>2, <2>1, <3>1, Threads DEF Enqueueing, Linking, Queue, Linked
  <2>2. CASE t = c
    <3>1. Dequeueing(label)
      BY <1>1, <1>2, <2>2, Calls, MutexFacts, Threads
    <3> QED  BY <1>1, <1>2, <2>2, <3>1, Threads DEF Dequeueing, Passed, Queue, Linked
  <2> QED  BY <2>1, <2>2, Threads
<1>5. Len(made') = Len(made) + (IF t = p /\ pc[p] = "new" THEN 1 ELSE 0) /\ limit' >= limit /\ limit' <= limit
  BY <1>1, Numbers, Threads
<1> QED  BY <1>1, <1>2, <1>3, <1>4, <1>5, Calls, InsideMutex
LEMMA StoreFirstMutex ==
  ASSUME OrderInv, OrderInv', MutexInv, useMutex, Store(p, "storeFirst", 1, "leave")
  PROVE  MutexInv'
<1>1. /\ pc[p] = "storeFirst" /\ Goto(p, "leave") /\ limit' = reg[p] + 1
      /\ UNCHANGED <<heap, frontNode, rearNode, temp, reg, i, useMutex, mutex, made, eaten>>
  BY DEF Store, At, localVars, syncVars, history
<1>2. "leave" \in Lines(p) /\ InCall(p)
  BY <1>1 DEF Lines, InCall, outside
<1>3. Enqueueing("storeFirst") /\ EatenIsMade /\ EatenIsMade'
  BY <1>1, <1>2, Calls, MutexFacts, Threads DEF EatenIsMade
<1>4. Queue(Len(eaten) + 1, Len(made)) /\ limit = 0 /\ reg[p] = 0 /\ Len(eaten) + 1 = Len(made)
  BY <1>3 DEF Enqueueing, Linking
<1>5. Whole'
  BY <1>1, <1>4, Numbers DEF Whole, Queue, Linked
<1>6. Len(made') = Len(made) + (IF p = p /\ pc[p] = "new" THEN 1 ELSE 0) /\ limit' >= limit
  BY <1>1, <1>4, Numbers
<1> QED  BY <1>1, <1>2, <1>3, <1>5, <1>6, Calls, Threads, InsideMutex

LEMMA StoreMutex ==
  ASSUME OrderInv, OrderInv', MutexInv, useMutex, Store(p, "store", 1, "linkNext")
  PROVE  MutexInv'
<1>1. /\ pc[p] = "store" /\ Goto(p, "linkNext") /\ limit' = reg[p] + 1
      /\ UNCHANGED <<heap, frontNode, rearNode, temp, reg, i, useMutex, mutex, made, eaten>>
  BY DEF Store, At, localVars, syncVars, history
<1>2. "linkNext" \in Lines(p) /\ InCall(p)
  BY <1>1 DEF Lines, InCall, outside
<1>3. Enqueueing("store") /\ EatenIsMade /\ EatenIsMade'
  BY <1>1, <1>2, Calls, MutexFacts, Threads DEF EatenIsMade
<1>4. limit' = limit + 1
  BY <1>1, <1>3 DEF Enqueueing
<1>5. Enqueueing("linkNext")'
  BY <1>1, <1>3, <1>4, Numbers DEF Enqueueing, Linking, Queue, Linked
<1>6. Len(made') = Len(made) + (IF p = p /\ pc[p] = "new" THEN 1 ELSE 0) /\ limit' >= limit
  BY <1>1, <1>4, Numbers
<1> QED  BY <1>1, <1>2, <1>3, <1>5, <1>6, Calls, Threads, InsideMutex

LEMMA SetRearMutex ==
  ASSUME OrderInv, OrderInv', MutexInv, useMutex, SetRear(p, "setRear", temp[p], "setFront")
  PROVE  MutexInv'
<1>1. /\ pc[p] = "setRear" /\ Goto(p, "setFront") /\ rearNode' = temp[p]
      /\ UNCHANGED <<heap, frontNode, limit, temp, reg, i, useMutex, mutex, made, eaten>>
  BY DEF SetRear, At, localVars, syncVars, history
<1>2. "setFront" \in Lines(p) /\ InCall(p)
  BY <1>1 DEF Lines, InCall, outside
<1>3. Enqueueing("setRear") /\ EatenIsMade /\ EatenIsMade'
  BY <1>1, <1>2, Calls, MutexFacts, Threads DEF EatenIsMade
<1>4. Queue(Len(eaten) + 1, Len(made) - 1) /\ Len(eaten) + 1 = Len(made)
  BY <1>3 DEF Enqueueing, Linking
<1>5. frontNode = NULL
  <2>1. Len(made) - 1 \in Int /\ Len(eaten) + 1 > Len(made) - 1
    BY <1>4, Numbers
  <2> QED  BY <1>3, <1>4, <2>1, EmptyQueue
<1>6. Enqueueing("setFront")'
  BY <1>1, <1>3, <1>4, <1>5 DEF Enqueueing, Linking
<1>7. Len(made') = Len(made) + (IF p = p /\ pc[p] = "new" THEN 1 ELSE 0) /\ limit' >= limit
  BY <1>1, Numbers
<1> QED  BY <1>1, <1>2, <1>3, <1>6, <1>7, Calls, Threads, InsideMutex

LEMMA SetFrontMutex ==
  ASSUME OrderInv, OrderInv', MutexInv, useMutex, SetFront(p, "setFront", temp[p], "loadFirst")
  PROVE  MutexInv'
<1>1. /\ pc[p] = "setFront" /\ Goto(p, "loadFirst") /\ frontNode' = temp[p]
      /\ UNCHANGED <<heap, rearNode, limit, temp, reg, i, useMutex, mutex, made, eaten>>
  BY DEF SetFront, At, localVars, syncVars, history
<1>2. "loadFirst" \in Lines(p) /\ InCall(p)
  BY <1>1 DEF Lines, InCall, outside
<1>3. Enqueueing("setFront") /\ EatenIsMade /\ EatenIsMade'
  BY <1>1, <1>2, Calls, MutexFacts, Threads DEF EatenIsMade
<1>4. /\ temp[p] = Len(made) /\ heap[Len(made)].next = NULL /\ Len(eaten) + 1 = Len(made)
      /\ rearNode = Len(made) /\ limit = 0
  BY <1>3, Numbers DEF Enqueueing, Linking
<1>5. Queue(Len(made), Len(made))'
  BY <1>1, <1>4, Numbers DEF Queue, Linked, First
<1>6. Enqueueing("loadFirst")'
  BY <1>1, <1>4, <1>5, Numbers DEF Enqueueing, Linking
<1>7. Len(made') = Len(made) + (IF p = p /\ pc[p] = "new" THEN 1 ELSE 0) /\ limit' >= limit
  BY <1>1, Numbers
<1> QED  BY <1>1, <1>2, <1>3, <1>6, <1>7, Calls, Threads, InsideMutex

LEMMA LinkNextMutex == ASSUME OrderInv, OrderInv', MutexInv, useMutex, LinkNext(p) PROVE MutexInv'
<1>1. /\ pc[p] = "linkNext"
      /\ UNCHANGED <<frontNode, rearNode, limit, temp, reg, i, useMutex, mutex, made, eaten>>
  BY DEF LinkNext, At, localVars, syncVars, history
<1>2. "linkRear" \in Lines(p) /\ InCall(p)
  BY <1>1 DEF Lines, InCall, outside
<1>3. Enqueueing("linkNext") /\ EatenIsMade /\ EatenIsMade'
  BY <1>1, <1>2, Calls, MutexFacts, Threads DEF EatenIsMade
<1> DEFINE old == Len(eaten) + 1
           new == Len(made)
<1>4. /\ temp[p] = new /\ heap[new].next = NULL /\ Queue(old, new - 1) /\ frontNode # NULL
      /\ limit = new - old + 1 /\ old \in Nat \ {0} /\ new \in Nat
  BY <1>3, Numbers DEF Enqueueing, Linking
<1>5. old <= new - 1 /\ rearNode = new - 1 /\ frontNode = old /\ Linked(heap, old, new - 1)
  BY <1>4 DEF Queue, First
<1>6. rearNode # NULL /\ new - 1 \in 1 .. Len(heap) /\ new \in 1 .. Len(heap)
  BY <1>4, <1>5, Numbers DEF NULL
<1>7. heap' = [heap EXCEPT ![new - 1].next = new] /\ Goto(p, "linkRear")
  BY <1>4, <1>5, <1>6 DEF LinkNext
<1>8. /\ \A n \in old .. new - 2 : heap'[n] = heap[n]
      /\ heap'[new] = heap[new] /\ heap'[new - 1].next = new
  <2>1. \A n \in 1 .. Len(heap) : n # new - 1 => heap'[n] = heap[n]
    BY <1>7, Numbers
  <2>2. heap'[new - 1].next = new
    <3>1. heap[new - 1] \in Node
      BY <1>6, Numbers
    <3> QED  BY <1>6, <1>7, <3>1, Numbers DEF Node
  <2>3. \A n \in old .. new - 2 : n \in 1 .. Len(heap) /\ n # new - 1
    BY <1>4, Numbers
  <2> QED  BY <1>4, <1>6, <2>1, <2>2, <2>3
<1>9. Linked(heap', old, new)
  <2>1. \A n \in old .. new - 1 : n = new - 1 \/ n \in old .. new - 2
    BY <1>4
  <2>2. \A n \in old .. new - 2 : n \in old .. (new - 1) - 1
    BY <1>4
  <2>3. \A n \in old .. new - 2 : heap'[n].next = n + 1
    BY <1>5, <1>8, <2>2 DEF Linked
  <2>4. heap'[new - 1].next = (new - 1) + 1 /\ heap'[new].next = NULL
    BY <1>4, <1>8
  <2>5. \A n \in old .. new - 1 : heap'[n].next = n + 1
    BY <2>1, <2>3, <2>4
  <2> QED  BY <2>4, <2>5 DEF Linked
<1>10. Enqueueing("linkRear")'
  BY <1>1, <1>4, <1>5, <1>9 DEF Enqueueing, Linking
<1>11. Len(made') = Len(made) + (IF p = p /\ pc[p] = "new" THEN 1 ELSE 0) /\ limit' >= limit
  BY <1>1, Numbers
<1> QED  BY <1>1, <1>2, <1>3, <1>7, <1>10, <1>11, Calls, Threads, InsideMutex

LEMMA LinkRearMutex ==
  ASSUME OrderInv, OrderInv', MutexInv, useMutex, SetRear(p, "linkRear", temp[p], "leave")
  PROVE  MutexInv'
<1>1. /\ pc[p] = "linkRear" /\ Goto(p, "leave") /\ rearNode' = temp[p]
      /\ UNCHANGED <<heap, frontNode, limit, temp, reg, i, useMutex, mutex, made, eaten>>
  BY DEF SetRear, At, localVars, syncVars, history
<1>2. "leave" \in Lines(p) /\ InCall(p)
  BY <1>1 DEF Lines, InCall, outside
<1>3. Enqueueing("linkRear") /\ EatenIsMade /\ EatenIsMade'
  BY <1>1, <1>2, Calls, MutexFacts, Threads DEF EatenIsMade
<1>4. Whole'
  BY <1>1, <1>3, Numbers DEF Enqueueing, Whole, Queue, Linked, First
<1>5. Len(made') = Len(made) + (IF p = p /\ pc[p] = "new" THEN 1 ELSE 0) /\ limit' >= limit
  BY <1>1, Numbers
<1> QED  BY <1>1, <1>2, <1>3, <1>4, <1>5, Calls, Threads, InsideMutex

LEMMA EnqueueMutex == ASSUME OrderInv, OrderInv', MutexInv, useMutex, enqueue(p) PROVE MutexInv'
BY Threads, NewMutex, IsEmptyMutex, IsEmpty2Mutex, SetRearMutex, SetFrontMutex, LoadMutex, StoreFirstMutex,
   IsRoomMutex, StoreMutex, LinkNextMutex, LinkRearMutex DEF enqueue
-----------------------------------------------------------------------------
(* dequeue(), with the mutex.                                              *)

LEMMA ReadFrontMutex == ASSUME OrderInv, OrderInv', MutexInv, useMutex, ReadFront(c) PROVE MutexInv'
<1>1. /\ pc[c] = "front" /\ Goto(c, "isNull") /\ temp' = [temp EXCEPT ![c] = frontNode]
      /\ UNCHANGED <<heap, frontNode, rearNode, limit, reg, i, useMutex, mutex, made, eaten>>
  BY DEF ReadFront, At, queueVars, syncVars, history
<1>2. "isNull" \in Lines(c) /\ InSection(c) /\ ~InCall(c)
  BY <1>1 DEF Lines, InCall, InSection, outside, p, c
<1>3. Whole /\ limit > 0 /\ EatenIsMade /\ EatenIsMade'
  BY <1>1, <1>2, MutexFacts, Threads DEF EatenIsMade
<1>4. /\ Queue(Len(eaten) + 1, Len(made)) /\ limit = Len(made) - Len(eaten)
      /\ Len(eaten) + 1 <= Len(made) /\ frontNode = Len(eaten) + 1
  BY <1>3, Numbers DEF Whole, Queue, First
<1>5. temp'[c] = frontNode
  BY <1>1, Numbers, Threads
<1>6. Dequeueing("isNull")'
  BY <1>1, <1>4, <1>5, Numbers DEF Dequeueing, Passed, Queue, Linked
<1>7. Len(made') = Len(made) + (IF c = p /\ pc[p] = "new" THEN 1 ELSE 0) /\ limit' <= limit
  BY <1>1, Numbers, Threads
<1> QED  BY <1>1, <1>2, <1>3, <1>6, <1>7, Threads, InsideMutex

LEMMA IsNullMutex == ASSUME OrderInv, OrderInv', MutexInv, useMutex, IsNull(c) PROVE MutexInv'
<1>1. /\ pc[c] = "isNull"
      /\ UNCHANGED <<heap, frontNode, rearNode, limit, temp, reg, i, useMutex, mutex, made>>
  BY DEF IsNull, At, queueVars, localVars, syncVars
<1>2. "isLast" \in Lines(c) /\ "isLast" \notin outside /\ InCall(c)
  BY <1>1 DEF Lines, InCall, outside, p, c
<1>3. Dequeueing("isNull") /\ EatenIsMade
  BY <1>1, <1>2, Calls, MutexFacts, Threads
<1>4. frontNode # NULL
  BY <1>3, Numbers DEF Dequeueing, Queue, First, NULL
<1>5. Goto(c, "isLast") /\ eaten' = eaten
  BY <1>4 DEF IsNull
<1>6. Dequeueing("isLast")
  BY <1>3 DEF Dequeueing, Passed
<1> QED  BY <1>1, <1>2, <1>5, <1>6, Threads, BranchMutex

LEMMA IsLastMutex == ASSUME OrderInv, OrderInv', MutexInv, useMutex, IsLast(c) PROVE MutexInv'
<1>1. /\ pc[c] = "isLast" /\ InCall(c) /\ Goto(c, IF frontNode = rearNode THEN "clearRear" ELSE "advance")
      /\ UNCHANGED <<heap, frontNode, rearNode, limit, temp, reg, i, useMutex, mutex, made, eaten>>
  BY DEF IsLast, Branch, At, InCall, outside, queueVars, localVars, syncVars, history
<1>2. Dequeueing("isLast")
  BY <1>1, MutexFacts, Calls, Threads
<1>3. /\ Len(eaten) + 1 <= Len(made) /\ Queue(Len(eaten) + 1, Len(made))
      /\ frontNode = Len(eaten) + 1 /\ rearNode = Len(made)
  BY <1>2 DEF Dequeueing, Queue, First
<1>4. PICK l \in {"clearRear", "advance"} : Goto(c, l) /\ (l = "clearRear" <=> frontNode = rearNode)
  BY <1>1
<1>5. l \in Lines(c) /\ l \notin outside
  BY <1>4 DEF Lines, outside, p, c
<1>6. Dequeueing(l)
  <2>1. temp[c] = Len(eaten) + 1 /\ limit = Len(made) - (Len(eaten) + 1) + 1
        /\ Linked(heap, Len(eaten) + 1, Len(made))
    BY <1>2, <1>3 DEF Dequeueing, Queue
  <2>2. CASE l = "clearRear"
    <3>1. Len(eaten) + 1 = Len(made)
      BY <1>3, <1>4, <2>2
    <3> QED  BY <1>3, <2>1, <2>2, <3>1 DEF Dequeueing, Passed
  <2>3. CASE l = "advance"
    <3>1. Len(eaten) + 1 < Len(made)
      BY <1>3, <1>4, <2>3, Numbers
    <3> QED  BY <1>3, <2>1, <2>3, <3>1 DEF Dequeueing, Passed
  <2> QED  BY <1>4, <2>2, <2>3
<1> QED  BY <1>1, <1>4, <1>5, <1>6, Threads, BranchMutex

LEMMA ClearRearMutex ==
  ASSUME OrderInv, OrderInv', MutexInv, useMutex, SetRear(c, "clearRear", NULL, "clearFront")
  PROVE  MutexInv'
<1>1. /\ pc[c] = "clearRear" /\ Goto(c, "clearFront") /\ rearNode' = NULL
      /\ UNCHANGED <<heap, frontNode, limit, temp, reg, i, useMutex, mutex, made, eaten>>
  BY DEF SetRear, At, localVars, syncVars, history
<1>2. "clearFront" \in Lines(c) /\ InCall(c)
  BY <1>1 DEF Lines, InCall, outside, p, c
<1>3. Dequeueing("clearRear") /\ EatenIsMade /\ EatenIsMade'
  BY <1>1, <1>2, Calls, MutexFacts, Threads DEF EatenIsMade
<1>4. Dequeueing("clearFront")'
  BY <1>1, <1>3 DEF Dequeueing, Passed
<1>5. Len(made') = Len(made) + (IF c = p /\ pc[p] = "new" THEN 1 ELSE 0) /\ limit' <= limit
  BY <1>1, Numbers, Threads
<1> QED  BY <1>1, <1>2, <1>3, <1>4, <1>5, Calls, Threads, InsideMutex

LEMMA ClearFrontMutex ==
  ASSUME OrderInv, OrderInv', MutexInv, useMutex, SetFront(c, "clearFront", NULL, "loadLess")
  PROVE  MutexInv'
<1>1. /\ pc[c] = "clearFront" /\ Goto(c, "loadLess") /\ frontNode' = NULL
      /\ UNCHANGED <<heap, rearNode, limit, temp, reg, i, useMutex, mutex, made, eaten>>
  BY DEF SetFront, At, localVars, syncVars, history
<1>2. "loadLess" \in Lines(c) /\ InCall(c)
  BY <1>1 DEF Lines, InCall, outside, p, c
<1>3. Dequeueing("clearFront") /\ EatenIsMade /\ EatenIsMade'
  BY <1>1, <1>2, Calls, MutexFacts, Threads DEF EatenIsMade
<1>4. Len(eaten) + 1 = Len(made) /\ rearNode = NULL
  BY <1>3 DEF Dequeueing
<1>5. Queue(Len(eaten) + 2, Len(made))'
  BY <1>1, <1>4, Numbers DEF Queue, Linked, First
<1>6. Dequeueing("loadLess")'
  BY <1>1, <1>3, <1>5, Numbers DEF Dequeueing, Passed
<1>7. Len(made') = Len(made) + (IF c = p /\ pc[p] = "new" THEN 1 ELSE 0) /\ limit' <= limit
  BY <1>1, Numbers, Threads
<1> QED  BY <1>1, <1>2, <1>3, <1>6, <1>7, Calls, Threads, InsideMutex

LEMMA AdvanceMutex == ASSUME OrderInv, OrderInv', MutexInv, useMutex, Advance(c) PROVE MutexInv'
<1>1. /\ pc[c] = "advance"
      /\ UNCHANGED <<heap, rearNode, limit, temp, reg, i, useMutex, mutex, made, eaten>>
  BY DEF Advance, At, localVars, syncVars, history
<1>2. "loadLess" \in Lines(c) /\ InCall(c)
  BY <1>1 DEF Lines, InCall, outside, p, c
<1>3. Dequeueing("advance") /\ EatenIsMade /\ EatenIsMade'
  BY <1>1, <1>2, Calls, MutexFacts, Threads DEF EatenIsMade
<1>4. /\ Len(eaten) + 1 < Len(made) /\ Queue(Len(eaten) + 1, Len(made))
      /\ frontNode = Len(eaten) + 1 /\ rearNode = Len(made) /\ frontNode # NULL
  BY <1>3, Numbers DEF Dequeueing, Queue, First, NULL
<1>5. frontNode' = heap[frontNode].next /\ Goto(c, "loadLess")
  BY <1>4 DEF Advance
<1>6. frontNode' = Len(eaten) + 2
  <2>1. Len(eaten) + 1 \in Len(eaten) + 1 .. Len(made) - 1
    BY <1>4, Numbers
  <2>2. heap[Len(eaten) + 1].next = (Len(eaten) + 1) + 1
    BY <1>4, <2>1 DEF Queue, Linked
  <2> QED  BY <1>4, <1>5, <2>2, Numbers
<1>7. Queue(Len(eaten) + 2, Len(made))'
  BY <1>1, <1>4, <1>6, Numbers DEF Queue, Linked, First
<1>8. Dequeueing("loadLess")'
  BY <1>1, <1>3, <1>7, Numbers DEF Dequeueing, Passed
<1>9. Len(made') = Len(made) + (IF c = p /\ pc[p] = "new" THEN 1 ELSE 0) /\ limit' <= limit
  BY <1>1, Numbers, Threads
<1> QED  BY <1>1, <1>2, <1>3, <1>5, <1>8, <1>9, Calls, Threads, InsideMutex

LEMMA StoreLessMutex ==
  ASSUME OrderInv, OrderInv', MutexInv, useMutex, Store(c, "storeLess", -1, "return")
  PROVE  MutexInv'
<1>1. /\ pc[c] = "storeLess" /\ Goto(c, "return") /\ limit' = reg[c] + -1
      /\ UNCHANGED <<heap, frontNode, rearNode, temp, reg, i, useMutex, mutex, made, eaten>>
  BY DEF Store, At, localVars, syncVars, history
<1>2. "return" \in Lines(c) /\ InCall(c)
  BY <1>1 DEF Lines, InCall, outside, p, c
<1>3. Dequeueing("storeLess") /\ EatenIsMade /\ EatenIsMade'
  BY <1>1, <1>2, Calls, MutexFacts, Threads DEF EatenIsMade
<1>4. limit' = limit - 1
  BY <1>1, <1>3, Numbers DEF Dequeueing
<1>5. Dequeueing("return")'
  BY <1>1, <1>3, <1>4, Numbers DEF Dequeueing, Passed, Queue, Linked
<1>6. Len(made') = Len(made) + (IF c = p /\ pc[p] = "new" THEN 1 ELSE 0) /\ limit' <= limit
  BY <1>1, <1>4, Numbers, Threads
<1> QED  BY <1>1, <1>2, <1>3, <1>5, <1>6, Calls, Threads, InsideMutex

LEMMA ReturnDataMutex == ASSUME OrderInv, OrderInv', MutexInv, useMutex, ReturnData(c) PROVE MutexInv'
<1>1. /\ pc[c] = "return"
      /\ UNCHANGED <<heap, frontNode, rearNode, limit, temp, reg, i, useMutex, mutex, made>>
  BY DEF ReturnData, At, queueVars, localVars, syncVars
<1>2. "leave" \in Lines(c) /\ InCall(c)
  BY <1>1 DEF Lines, InCall, outside
<1>3. Dequeueing("return") /\ EatenIsMade
  BY <1>1, <1>2, Calls, MutexFacts, Threads
<1>4. /\ temp[c] = Len(eaten) + 1 /\ Len(eaten) + 1 <= Len(made) /\ temp[c] # NULL
      /\ Queue(Len(eaten) + 2, Len(made)) /\ limit = Len(made) - (Len(eaten) + 1)
  BY <1>3, Numbers DEF Dequeueing, Passed, NULL
<1>5. eaten' = Append(eaten, heap[temp[c]].data) /\ Goto(c, "leave")
  BY <1>4 DEF ReturnData
<1>6. heap[temp[c]].data = made[Len(eaten) + 1] /\ made[Len(eaten) + 1] \in Value \cup {0}
  BY <1>4, Numbers
<1>7. /\ Len(eaten') = Len(eaten) + 1
      /\ \A k \in 1 .. Len(eaten) : eaten'[k] = eaten[k]
      /\ eaten'[Len(eaten) + 1] = made[Len(eaten) + 1]
  <2>1. PICK x \in Value \cup {0} : x = made[Len(eaten) + 1] /\ eaten' = Append(eaten, x)
    BY <1>5, <1>6
  <2>2. /\ Len(Append(eaten, x)) = Len(eaten) + 1 /\ Append(eaten, x)[Len(eaten) + 1] = x
        /\ \A k \in 1 .. Len(eaten) : Append(eaten, x)[k] = eaten[k]
    BY Numbers, AppendFacts
  <2> QED  BY <2>1, <2>2
<1>8. EatenIsMade'
  <2>1. \A k \in 1 .. Len(eaten') : k = Len(eaten) + 1 \/ k \in 1 .. Len(eaten)
    BY <1>7, Numbers
  <2> QED  BY <1>1, <1>3, <1>4, <1>7, <2>1, Numbers DEF EatenIsMade
<1>9. Whole'
  <2>1. Len(eaten') + 1 = Len(eaten) + 2
    BY <1>7, Numbers
  <2>2. Queue(Len(eaten) + 1, Len(made))'
    BY <1>1, <1>4, <2>1 DEF Queue, Linked
  <2>3. limit' = Len(made') - Len(eaten')
    BY <1>1, <1>4, <1>7
  <2> QED  BY <2>2, <2>3 DEF Whole
<1>10. Len(made') = Len(made) + (IF c = p /\ pc[p] = "new" THEN 1 ELSE 0) /\ limit' <= limit
  BY <1>1, Numbers, Threads
<1> QED  BY <1>1, <1>2, <1>5, <1>8, <1>9, <1>10, Calls, Threads, InsideMutex

LEMMA DequeueMutex == ASSUME OrderInv, OrderInv', MutexInv, useMutex, dequeue(c) PROVE MutexInv'
BY Threads, ReadFrontMutex, IsNullMutex, IsLastMutex, ClearRearMutex, ClearFrontMutex, AdvanceMutex, LoadMutex,
   StoreLessMutex, ReturnDataMutex DEF dequeue

-----------------------------------------------------------------------------
(* Every step, with the mutex.                                             *)

LEMMA UseMutexStays == ASSUME [Next]_vars PROVE useMutex' = useMutex
BY DEF Next, produtor, consumidor, Loop, Test, TestFlag, Enter, LeaveSection,
       enqueue, New, IsEmpty, IsEmpty2, IsRoom, Branch, SetRear, SetFront, Load, Store, LinkNext,
       dequeue, ReadFront, IsNull, IsLast, Advance, ReturnData, vars, syncVars

LEMMA NextMutex ==
  ASSUME OrderInv, OrderInv', Counted, MutexInv, [Next]_vars
  PROVE  MutexInv'
<1>1. useMutex' = useMutex
  BY UseMutexStays
<1>2. CASE ~useMutex
  BY <1>1, <1>2 DEF MutexInv
<1>3. CASE useMutex
  <2>1. ASSUME NEW t \in Thread, NEW open, Loop(t, open),
               open => IF t = p THEN limit < Capacity ELSE limit > 0
        PROVE  MutexInv'
    <3>1. ~TestFlag(t)
      BY <1>3 DEF TestFlag, At, MutexInv, Exclusive
    <3> QED  BY <1>3, <2>1, <3>1, TestMutex, EnterMutex, LeaveMutex DEF Loop
  <2>2. CASE UNCHANGED vars
    BY <2>2 DEF vars, queueVars, localVars, syncVars, history, MutexInv, Exclusive, EatenIsMade, MadeInTurn,
                StillOpen, Shape, Enqueueing, Dequeueing, Whole, Queue, Linked, InCall, InSection
  <2>3. CASE produtor
    BY <1>3, <2>1, <2>3, Threads, EnqueueMutex DEF produtor, queueNotFull, p, c
  <2>4. CASE consumidor
    BY <1>3, <2>1, <2>4, Threads, DequeueMutex DEF consumidor, queueNotEmpty, p, c
  <2> QED  BY <2>2, <2>3, <2>4 DEF Next
<1> QED  BY <1>2, <1>3

LEMMA InitMutex == Init => MutexInv
<1> SUFFICES ASSUME Init PROVE MutexInv
  OBVIOUS
<1>1. Len(made) = 0 /\ Len(eaten) = 0 /\ \A t \in Thread : pc[t] = "test" /\ i[t] = 0
  BY DEF Init
<1>2. ~crashed /\ frontNode = NULL /\ rearNode = NULL /\ limit = 0
  BY DEF Init
<1>3. Exclusive /\ EatenIsMade /\ StillOpen /\ \A t \in Thread : ~InCall(t)
  BY <1>1, Threads DEF Exclusive, InSection, EatenIsMade, StillOpen, InCall, outside
<1>4. MadeInTurn
  BY <1>1, Threads DEF MadeInTurn
<1>5. Whole
  BY <1>1, <1>2 DEF Whole, Queue, Linked, First
<1> QED  BY <1>2, <1>3, <1>4, <1>5, Threads DEF MutexInv, Shape

LEMMA MutexInvariant == Spec => [](OrderInv /\ Counted /\ MutexInv)
<1>1. (OrderInv /\ Counted /\ MutexInv) /\ [Next]_vars => (OrderInv /\ Counted /\ MutexInv)'
  BY NextOrder, NextMutex
<1>2. Init => OrderInv /\ Counted /\ MutexInv
  BY InitOrder, InitMutex
<1> QED  BY <1>1, <1>2, PTL DEF Spec
-----------------------------------------------------------------------------
(***************************************************************************)
(* What the queue holds: of everything made, what was not eaten.  The      *)
(* first Ahead elements are eaten or in the consumer's hand.               *)
(***************************************************************************)
Ahead == Len(eaten) + IF InCall(c) THEN 1 ELSE 0

Taken(s, n) == [k \in 1 .. n |-> s[k]]
Left(s, n) == [k \in 1 .. Len(s) - n |-> s[n + k]]

LEMMA LeftLonger ==
  ASSUME NEW S, NEW s \in Seq(S), NEW n \in 0 .. Len(s), NEW e \in S
  PROVE  /\ Left(Append(s, e), n) = Append(Left(s, n), e)
         /\ Taken(Append(s, e), n) = Taken(s, n)
<1>1. /\ Append(s, e) \in Seq(S) /\ Len(Append(s, e)) = Len(s) + 1 /\ Len(s) \in Nat
      /\ \A k \in 1 .. Len(s) : Append(s, e)[k] = s[k]
      /\ Append(s, e)[Len(s) + 1] = e
  BY AppendFacts
<1> DEFINE more == Append(s, e)
<1> HIDE DEF more
<1>2. /\ Left(s, n) \in Seq(S) /\ Len(Left(s, n)) = Len(s) - n
      /\ \A k \in 1 .. Len(s) - n : Left(s, n)[k] = s[n + k]
  <2>1. \A k \in 1 .. Len(s) - n : n + k \in 1 .. Len(s) /\ s[n + k] \in S
    BY <1>1
  <2>2. Len(s) - n \in Nat
    BY <1>1
  <2> QED  BY <2>1, <2>2 DEF Left
<1>3. /\ Left(more, n) \in Seq(S) /\ Len(Left(more, n)) = Len(s) + 1 - n
      /\ \A k \in 1 .. Len(s) + 1 - n : Left(more, n)[k] = more[n + k]
  <2>1. \A k \in 1 .. Len(s) + 1 - n : n + k \in 1 .. Len(s) + 1
    BY <1>1
  <2>2. \A k \in 1 .. Len(s) + 1 : more[k] \in S
    BY <1>1 DEF more
  <2>3. Len(s) + 1 - n \in Nat /\ Len(more) = Len(s) + 1
    BY <1>1 DEF more
  <2> QED  BY <2>1, <2>2, <2>3 DEF Left
<1>4. /\ Append(Left(s, n), e) \in Seq(S) /\ Len(Append(Left(s, n), e)) = Len(s) - n + 1
      /\ \A k \in 1 .. Len(s) - n : Append(Left(s, n), e)[k] = Left(s, n)[k]
      /\ Append(Left(s, n), e)[Len(s) - n + 1] = e
  BY <1>2, AppendFacts
<1>5. \A k \in 1 .. Len(s) + 1 - n : Left(more, n)[k] = Append(Left(s, n), e)[k]
  <2> SUFFICES ASSUME NEW k \in 1 .. Len(s) + 1 - n PROVE Left(more, n)[k] = Append(Left(s, n), e)[k]
    OBVIOUS
  <2>1. CASE k = Len(s) + 1 - n
    <3>1. n + k = Len(s) + 1 /\ k = Len(s) - n + 1
      BY <1>1, <2>1
    <3> QED  BY <1>1, <1>3, <1>4, <3>1 DEF more
  <2>2. CASE k # Len(s) + 1 - n
    <3>1. k \in 1 .. Len(s) - n /\ n + k \in 1 .. Len(s)
      BY <1>1, <2>2
    <3> QED  BY <1>1, <1>2, <1>3, <1>4, <3>1 DEF more
  <2> QED  BY <2>1, <2>2
<1>6. Left(more, n) = Append(Left(s, n), e)
  BY <1>1, <1>3, <1>4, <1>5, SeqEqual
<1>7. \A k \in 1 .. n : more[k] = s[k]
  BY <1>1 DEF more
<1> QED  BY <1>6, <1>7 DEF more, Taken

LEMMA LeftShorter ==
  ASSUME NEW S, NEW s \in Seq(S), NEW n \in Nat, n < Len(s)
  PROVE  /\ Left(s, n) # << >> /\ Len(Left(s, n)) = Len(s) - n
         /\ Head(Left(s, n)) = s[n + 1] /\ Tail(Left(s, n)) = Left(s, n + 1)
         /\ Taken(s, n + 1) = Append(Taken(s, n), s[n + 1])
<1>1. /\ Left(s, n) \in Seq(S) /\ Len(Left(s, n)) = Len(s) - n /\ Len(s) \in Nat
      /\ \A k \in 1 .. Len(s) - n : Left(s, n)[k] = s[n + k]
  <2>1. \A k \in 1 .. Len(s) - n : n + k \in 1 .. Len(s) /\ s[n + k] \in S
    OBVIOUS
  <2>2. Len(s) - n \in Nat /\ Len(s) \in Nat
    OBVIOUS
  <2> QED  BY <2>1, <2>2 DEF Left
<1>2. Left(s, n) # << >> /\ Head(Left(s, n)) = s[n + 1]
  BY <1>1
<1>3. Tail(Left(s, n)) = Left(s, n + 1)
  <2>1. /\ Left(s, n + 1) \in Seq(S) /\ Len(Left(s, n + 1)) = Len(s) - n - 1
        /\ \A k \in 1 .. Len(s) - n - 1 : Left(s, n + 1)[k] = s[n + 1 + k]
    <3>1. \A k \in 1 .. Len(s) - (n + 1) : (n + 1) + k \in 1 .. Len(s) /\ s[(n + 1) + k] \in S
      OBVIOUS
    <3>2. Len(s) - (n + 1) \in Nat /\ Len(s) - (n + 1) = Len(s) - n - 1
      BY <1>1
    <3> QED  BY <3>1, <3>2 DEF Left
  <2>2. /\ Tail(Left(s, n)) \in Seq(S) /\ Len(Tail(Left(s, n))) = Len(s) - n - 1
        /\ \A k \in 1 .. Len(s) - n - 1 : Tail(Left(s, n))[k] = Left(s, n)[k + 1]
    BY <1>1, <1>2
  <2>3. \A k \in 1 .. Len(s) - n - 1 : Tail(Left(s, n))[k] = Left(s, n + 1)[k]
    <3> SUFFICES ASSUME NEW k \in 1 .. Len(s) - n - 1 PROVE Tail(Left(s, n))[k] = Left(s, n + 1)[k]
      OBVIOUS
    <3>1. k + 1 \in 1 .. Len(s) - n /\ n + (k + 1) = n + 1 + k
      BY <1>1
    <3> QED  BY <1>1, <2>1, <2>2, <3>1
  <2> QED  BY <2>1, <2>2, <2>3, SeqEqual
<1>4. Taken(s, n + 1) = Append(Taken(s, n), s[n + 1])
  <2>1. \A m \in 0 .. Len(s) : /\ Taken(s, m) \in Seq(S) /\ Len(Taken(s, m)) = m
                               /\ \A k \in 1 .. m : Taken(s, m)[k] = s[k]
    BY DEF Taken
  <2>2. n \in 0 .. Len(s) /\ n + 1 \in 0 .. Len(s) /\ s[n + 1] \in S
    BY <1>1
  <2>3. /\ Append(Taken(s, n), s[n + 1]) \in Seq(S) /\ Len(Append(Taken(s, n), s[n + 1])) = n + 1
        /\ \A k \in 1 .. n : Append(Taken(s, n), s[n + 1])[k] = Taken(s, n)[k]
        /\ Append(Taken(s, n), s[n + 1])[n + 1] = s[n + 1]
    BY <2>1, <2>2, AppendFacts
  <2>4. \A k \in 1 .. n + 1 : Taken(s, n + 1)[k] = Append(Taken(s, n), s[n + 1])[k]
    <3> SUFFICES ASSUME NEW k \in 1 .. n + 1 PROVE Taken(s, n + 1)[k] = Append(Taken(s, n), s[n + 1])[k]
      OBVIOUS
    <3>1. k = n + 1 \/ k \in 1 .. n
      OBVIOUS
    <3> QED  BY <2>1, <2>2, <2>3, <3>1
  <2> QED  BY <2>1, <2>2, <2>3, <2>4, SeqEqual
<1> QED  BY <1>1, <1>2, <1>3, <1>4

LEMMA NodesFacts ==
  ASSUME NEW a \in Nat, NEW b \in Nat, a <= b + 1
  PROVE  /\ Nodes(a, b) \in Seq(Nat) /\ Len(Nodes(a, b)) = b - a + 1
         /\ \A k \in 1 .. b - a + 1 : Nodes(a, b)[k] = a + k - 1
         /\ (Nodes(a, b) = << >>) <=> (a = b + 1)
<1>1. b - a + 1 \in Nat /\ \A k \in 1 .. b - a + 1 : a + k - 1 \in Nat
  OBVIOUS
<1>2. /\ Nodes(a, b) \in Seq(Nat) /\ Len(Nodes(a, b)) = b - a + 1
      /\ \A k \in 1 .. b - a + 1 : Nodes(a, b)[k] = a + k - 1
  BY <1>1 DEF Nodes
<1> QED  BY <1>2

\* No more was made than the chain's bound.
LEMMA MadeBound ==
  ASSUME OrderInv, Counted, MutexInv, useMutex
  PROVE  Len(made) <= LIMIT
<1>1. /\ i[p] \in 0 .. LIMIT /\ Len(made) = i[p] + IF pc[p] \in {"test", "enter", "exit", "new"} THEN 0 ELSE 1
      /\ pc[p] \notin {"test", "exit"} => i[p] < LIMIT
  BY Threads DEF OrderInv, TypeInv, MutexInv, MadeInTurn, Counted
<1> QED  BY <1>1, ProducerConsumerListAssumption

LEMMA ChainIs ==
  ASSUME OrderInv, Counted, MutexInv, useMutex, NEW a \in Nat \ {0}, NEW b \in Nat, b <= Len(made),
         Linked(heap, a, b), frontNode = First(a, b)
  PROVE  Chain(heap, frontNode) = Nodes(a, b)
<1>1. b <= Len(heap) /\ Len(heap) \in Nat /\ b - a + 1 <= LIMIT
  BY Numbers, MadeBound, ProducerConsumerListAssumption
<1>2. Chain(heap, First(a, b)) = Nodes(a, b)
  BY <1>1, ChainIsNodes
<1> QED  BY <1>2

LEMMA DataIs ==
  ASSUME OrderInv, NEW n \in 0 .. Len(made)
  PROVE  Data(Nodes(n + 1, Len(made))) = Left(made, n)
<1>1. n + 1 \in Nat /\ Len(made) \in Nat /\ n + 1 <= Len(made) + 1 /\ Len(made) - (n + 1) + 1 = Len(made) - n
  BY Numbers
<1>2. /\ Len(Nodes(n + 1, Len(made))) = Len(made) - n
      /\ \A k \in 1 .. Len(made) - n : Nodes(n + 1, Len(made))[k] = n + k
  <2>1. /\ Len(Nodes(n + 1, Len(made))) = Len(made) - (n + 1) + 1
        /\ \A k \in 1 .. Len(made) - (n + 1) + 1 : Nodes(n + 1, Len(made))[k] = (n + 1) + k - 1
    BY <1>1, NodesFacts
  <2>2. \A k \in 1 .. Len(made) - n : (n + 1) + k - 1 = n + k
    BY <1>1
  <2> QED  BY <1>1, <2>1, <2>2
<1>3. \A k \in 1 .. Len(made) - n : heap[n + k].data = made[n + k]
  BY <1>1, Numbers
<1> QED  BY <1>2, <1>3 DEF Data, Left

LEMMA SplitMade ==
  ASSUME NEW S, NEW s \in Seq(S), NEW n \in 0 .. Len(s)
  PROVE  s = Taken(s, n) \o Left(s, n)
<1>1. /\ Left(s, n) \in Seq(S) /\ Len(Left(s, n)) = Len(s) - n /\ Len(s) \in Nat
      /\ \A k \in 1 .. Len(s) - n : Left(s, n)[k] = s[n + k]
  <2>1. \A k \in 1 .. Len(s) - n : n + k \in 1 .. Len(s) /\ s[n + k] \in S
    OBVIOUS
  <2>2. Len(s) - n \in Nat /\ Len(s) \in Nat
    OBVIOUS
  <2> QED  BY <2>1, <2>2 DEF Left
<1>2. /\ Taken(s, n) \in Seq(S) /\ Len(Taken(s, n)) = n
      /\ \A k \in 1 .. n : Taken(s, n)[k] = s[k]
  BY DEF Taken
<1> DEFINE t == Taken(s, n) \o Left(s, n)
<1>3. t \in Seq(S) /\ Len(t) = Len(s)
      /\ (\A k \in 1 .. n : t[k] = Taken(s, n)[k])
      /\ \A k \in n + 1 .. Len(s) : t[k] = Left(s, n)[k - n]
  BY <1>1, <1>2
<1> HIDE DEF t
<1>4. \A k \in 1 .. Len(s) : s[k] = t[k]
  <2> SUFFICES ASSUME NEW k \in 1 .. Len(s) PROVE s[k] = t[k]
    OBVIOUS
  <2>1. CASE k <= n
    BY <1>2, <1>3, <2>1
  <2>2. CASE k > n
    <3>1. k \in n + 1 .. Len(s) /\ k - n \in 1 .. Len(s) - n /\ n + (k - n) = k
      BY <1>1, <2>2
    <3> QED  BY <1>1, <1>3, <3>1
  <2> QED  BY <2>1, <2>2
<1>5. s = t
  BY <1>3, <1>4, SeqEqual
<1> QED  BY <1>5 DEF t

\* With the mutex, when neither thread of Lab 8 Ex 3 is inside enqueue() or
\* dequeue(), the pointers, the counter and the nodes agree: nothing made was
\* lost, doubled or put out of order, whatever the capacity and the number of
\* elements.
THEOREM WholeList == Spec => []ListIsWhole
<1>1. ASSUME OrderInv, Counted, MutexInv PROVE ListIsWhole
  <2> SUFFICES ASSUME useMutex, \A t \in Thread : ~InCall(t)
               PROVE  LET list == Chain(heap, frontNode)
                      IN  /\ limit = Len(list)
                          /\ rearNode = IF list = << >> THEN NULL ELSE list[Len(list)]
                          /\ made = eaten \o Data(list)
    BY DEF ListIsWhole
  <2>1. /\ Linked(heap, Len(eaten) + 1, Len(made)) /\ frontNode = First(Len(eaten) + 1, Len(made))
        /\ rearNode = IF Len(eaten) + 1 <= Len(made) THEN Len(made) ELSE NULL
        /\ limit = Len(made) - Len(eaten)
        /\ Len(eaten) <= Len(made) /\ \A k \in 1 .. Len(eaten) : eaten[k] = made[k]
    BY <1>1, Threads DEF MutexInv, Shape, Whole, Queue, EatenIsMade
  <2>2. /\ Len(eaten) \in 0 .. Len(made) /\ Len(eaten) + 1 \in Nat \ {0} /\ Len(made) \in Nat
        /\ Len(eaten) + 1 <= Len(made) + 1 /\ Len(made) - (Len(eaten) + 1) + 1 = Len(made) - Len(eaten)
    BY <1>1, <2>1, Numbers
  <2> DEFINE list == Nodes(Len(eaten) + 1, Len(made))
  <2>3. Chain(heap, frontNode) = list
    BY <1>1, <2>1, <2>2, ChainIs
  <2>4. /\ Len(list) = Len(made) - Len(eaten)
        /\ list = << >> <=> Len(eaten) + 1 = Len(made) + 1
        /\ \A k \in 1 .. Len(made) - (Len(eaten) + 1) + 1 : list[k] = (Len(eaten) + 1) + k - 1
    BY <2>2, NodesFacts
  <2>5. Data(list) = Left(made, Len(eaten))
    BY <1>1, <2>2, DataIs
  <2>6. eaten = Taken(made, Len(eaten))
    BY <1>1, <2>1, Numbers DEF Taken
  <2>7. made = Taken(made, Len(eaten)) \o Left(made, Len(eaten))
    BY <1>1, <2>2, Numbers, SplitMade
  <2> HIDE DEF list
  <2>8. rearNode = IF list = << >> THEN NULL ELSE list[Len(list)]
    <3>1. CASE Len(eaten) = Len(made)
      BY <2>1, <2>2, <2>4, <3>1
    <3>2. CASE Len(eaten) # Len(made)
      <4>1. Len(list) \in 1 .. Len(made) - (Len(eaten) + 1) + 1 /\ list # << >>
            /\ (Len(eaten) + 1) + Len(list) - 1 = Len(made) /\ Len(eaten) + 1 <= Len(made)
        BY <2>1, <2>2, <2>4, <3>2
      <4> QED  BY <2>1, <2>4, <4>1
    <3> QED  BY <3>1, <3>2
  <2> QED  BY <2>1, <2>3, <2>4, <2>5, <2>6, <2>7, <2>8
<1> QED  BY <1>1, MutexInvariant, PTL
-----------------------------------------------------------------------------
(* The refinement: what ProducerConsumer sees of the queue.                *)

\* The refinement mapping's q and eaten, read off the values made.
View ==
  /\ Ahead \in 0 .. Len(made)
  /\ Len(queuedNodes) = Len(made) - Ahead /\ Data(queuedNodes) = Left(made, Ahead)
  /\ (IF InCall("consumidor") THEN eaten \o Data(<<temp["consumidor"]>>) ELSE eaten) = Taken(made, Ahead)

LEMMA ConsTail ==
  ASSUME NEW a \in Nat, NEW s \in Seq(Nat)
  PROVE  <<a>> \o s # << >> /\ Head(<<a>> \o s) = a /\ Tail(<<a>> \o s) = s
<1> DEFINE t == <<a>> \o s
<1>1. /\ t \in Seq(Nat) /\ Len(t) = Len(s) + 1 /\ Len(s) \in Nat /\ t[1] = a
      /\ \A k \in 1 .. Len(s) : t[k + 1] = s[k]
  OBVIOUS
<1> HIDE DEF t
<1>2. t # << >> /\ Head(t) = a
  BY <1>1
<1>3. /\ Tail(t) \in Seq(Nat) /\ Len(Tail(t)) = Len(s)
      /\ \A k \in 1 .. Len(s) : Tail(t)[k] = t[k + 1]
  BY <1>1, <1>2
<1>4. Tail(t) = s
  BY <1>1, <1>3, SeqEqual
<1> QED  BY <1>2, <1>4 DEF t

\* The element of a call in progress: linked in already or not, taken out
\* already or not.
LEMMA QueuedAre ==
  ASSUME OrderInv, Counted, MutexInv, useMutex
  PROVE  queuedNodes = Nodes(Ahead + 1, Len(made)) /\ Ahead \in 0 .. Len(made)
<1> DEFINE old == Len(eaten) + 1
           new == Len(made)
           list == Chain(heap, frontNode)
           linked == IF InCall("produtor") /\ ~Has(list, temp["produtor"])
                       THEN Append(list, temp["produtor"]) ELSE list
<1>1. queuedNodes = IF InCall("consumidor") /\ linked # << >> /\ Head(linked) = temp["consumidor"]
                      THEN Tail(linked) ELSE linked
  BY DEF queuedNodes
<1>2. EatenIsMade /\ Exclusive /\ Shape
  BY DEF MutexInv
<1>3. old \in Nat \ {0} /\ new \in Nat /\ old <= new + 1 /\ Ahead \in Nat
  BY <1>2, Numbers DEF EatenIsMade, Ahead
<1>4. ASSUME NEW a \in old .. old + 1, NEW b \in Nat, b <= new, Linked(heap, a, b), frontNode = First(a, b)
      PROVE  list = Nodes(a, b)
  BY <1>3, <1>4, ChainIs
<1> HIDE DEF list
<1>5. ~(InCall(p) /\ InCall(c))
  BY <1>2, Calls, Threads DEF Exclusive
<1>6. CASE ~InCall(p) /\ ~InCall(c)
  <2>1. Linked(heap, old, new) /\ frontNode = First(old, new)
    BY <1>2, <1>6 DEF Shape, Whole, Queue
  <2>2. list = Nodes(old, new)
    BY <1>3, <1>4, <2>1
  <2>3. Ahead = Len(eaten)
    BY <1>3, <1>6, Numbers DEF Ahead
  <2> QED  BY <1>1, <1>2, <1>6, <2>2, <2>3, Numbers DEF p, c, EatenIsMade
<1>7. CASE InCall(p)
  <2>1. Enqueueing(pc[p]) /\ ~InCall(c)
    BY <1>2, <1>5, <1>7 DEF Shape
  <2>2. old <= new /\ temp[p] = new /\ Ahead = Len(eaten) /\ Ahead + 1 = old
    BY <2>1, Numbers DEF Enqueueing, Ahead
  <2>3. linked = Nodes(old, new)
    <3>1. pc[p] \in Linking \/ pc[p] \in {"loadFirst", "storeFirst", "linkRear"}
      <4>1. pc[p] \in Lines(p) /\ pc[p] \notin outside
        BY <1>7, Threads DEF InCall, OrderInv, TypeInv
      <4> QED  BY <4>1 DEF Lines, outside, Linking
    <3>2. CASE pc[p] \in Linking
      <4>1. Linked(heap, old, new - 1) /\ frontNode = First(old, new - 1)
        <5>1. CASE pc[p] = "setFront"
          <6>1. old = new /\ frontNode = NULL
            BY <2>1, <5>1 DEF Enqueueing
          <6> QED  BY <1>3, <6>1 DEF Linked, First
        <5>2. CASE pc[p] # "setFront"
          BY <2>1, <3>2, <5>2 DEF Enqueueing, Queue
        <5> QED  BY <5>1, <5>2
      <4>2. list = Nodes(old, new - 1)
        BY <1>3, <1>4, <2>2, <4>1
      <4>3. /\ Nodes(old, new - 1) \in Seq(Nat) /\ Len(Nodes(old, new - 1)) = new - old
            /\ \A k \in 1 .. new - old : Nodes(old, new - 1)[k] = old + k - 1
        <5>1. new - 1 \in Nat /\ old <= (new - 1) + 1 /\ (new - 1) - old + 1 = new - old /\ old \in Nat
          BY <1>3, <2>2
        <5>2. /\ Nodes(old, new - 1) \in Seq(Nat) /\ Len(Nodes(old, new - 1)) = (new - 1) - old + 1
              /\ \A k \in 1 .. (new - 1) - old + 1 : Nodes(old, new - 1)[k] = old + k - 1
          BY <5>1, NodesFacts
        <5> QED  BY <5>1, <5>2
      <4>4. ~Has(list, new)
        <5>1. \A k \in 1 .. new - old : old + k - 1 # new
          BY <1>3
        <5> QED  BY <4>2, <4>3, <5>1 DEF Has
      <4>5. linked = Append(Nodes(old, new - 1), new)
        BY <1>7, <2>2, <4>2, <4>4 DEF p
      <4>6. Append(Nodes(old, new - 1), new) = Nodes(old, new)
        <5> DEFINE s == Append(Nodes(old, new - 1), new)
        <5>1. /\ s \in Seq(Nat) /\ Len(s) = new - old + 1 /\ s[new - old + 1] = new
              /\ \A k \in 1 .. new - old : s[k] = Nodes(old, new - 1)[k]
          BY <1>3, <4>3, AppendFacts
        <5>2. /\ Nodes(old, new) \in Seq(Nat) /\ Len(Nodes(old, new)) = new - old + 1
              /\ \A k \in 1 .. new - old + 1 : Nodes(old, new)[k] = old + k - 1
          BY <1>3, <2>2, NodesFacts
        <5> HIDE DEF s
        <5>3. \A k \in 1 .. new - old + 1 : s[k] = Nodes(old, new)[k]
          <6> SUFFICES ASSUME NEW k \in 1 .. new - old + 1 PROVE s[k] = Nodes(old, new)[k]
            OBVIOUS
          <6>1. k \in 1 .. new - old \/ (k = new - old + 1 /\ old + k - 1 = new)
            BY <1>3, <2>2
          <6> QED  BY <4>3, <5>1, <5>2, <6>1
        <5>4. s = Nodes(old, new)
          BY <5>1, <5>2, <5>3, SeqEqual
        <5> QED  BY <5>4 DEF s
      <4> QED  BY <4>5, <4>6
    <3>3. CASE pc[p] \in {"loadFirst", "storeFirst", "linkRear"}
      <4>1. Linked(heap, old, new) /\ frontNode = First(old, new)
        BY <1>3, <2>1, <2>2, <3>3 DEF Enqueueing, Queue, First
      <4>2. list = Nodes(old, new)
        BY <1>3, <1>4, <4>1
      <4>3. Has(list, new)
        <5>1. /\ Len(Nodes(old, new)) = new - old + 1
              /\ \A k \in 1 .. new - old + 1 : Nodes(old, new)[k] = old + k - 1
          BY <1>3, <2>2, NodesFacts
        <5>2. new - old + 1 \in 1 .. new - old + 1 /\ old + (new - old + 1) - 1 = new
          BY <1>3, <2>2
        <5> QED  BY <4>2, <5>1, <5>2 DEF Has
      <4> QED  BY <2>2, <4>2, <4>3 DEF p
    <3> QED  BY <3>1, <3>2, <3>3
  <2>4. ~InCall("consumidor")
    BY <2>1 DEF c
  <2>5. queuedNodes = Nodes(Ahead + 1, new)
    BY <1>1, <2>2, <2>3, <2>4
  <2>6. Ahead \in 0 .. new
    BY <1>3, <2>2
  <2> QED  BY <2>5, <2>6
<1>8. CASE InCall(c)
  <2>1. Dequeueing(pc[c]) /\ ~InCall(p)
    BY <1>2, <1>5, <1>8 DEF Shape
  <2>2. old <= new /\ temp[c] = old /\ Ahead = old
    BY <1>8, <2>1 DEF Dequeueing, Ahead
  <2>3. linked = list
    BY <2>1 DEF p
  <2>4. pc[c] \in {"isNull", "isLast", "advance", "clearRear", "clearFront"} \/ pc[c] \in Passed
    <3>1. pc[c] \in Lines(c) /\ pc[c] \notin outside
      BY <1>8, Threads DEF InCall, OrderInv, TypeInv
    <3> QED  BY <3>1, Threads DEF Lines, outside, Passed
  <2>5. CASE pc[c] \in {"isNull", "isLast", "advance", "clearRear", "clearFront"}
    <3>1. Linked(heap, old, new) /\ frontNode = First(old, new)
      BY <1>3, <2>1, <2>2, <2>5 DEF Dequeueing, Queue, First
    <3>2. list = Nodes(old, new)
      BY <1>3, <1>4, <3>1
    <3>3. Nodes(old, new) = <<old>> \o Nodes(old + 1, new) /\ Nodes(old + 1, new) \in Seq(Nat)
      <4>1. old + 1 \in Nat /\ old + 1 <= new + 1 /\ old \in Nat
        BY <1>3, <2>2
      <4> QED  BY <1>3, <2>2, <4>1, NodesStep, NodesFacts
    <3>4. list # << >> /\ Head(list) = old /\ Tail(list) = Nodes(old + 1, new)
      <4>1. \A s \in Seq(Nat) : /\ <<old>> \o s # << >> /\ Head(<<old>> \o s) = old
                                /\ Tail(<<old>> \o s) = s
        BY <1>3, ConsTail
      <4> QED  BY <3>2, <3>3, <4>1
    <3>5. queuedNodes = Tail(list)
      BY <1>1, <1>8, <2>2, <2>3, <3>4 DEF c
    <3>6. old \in 0 .. new
      BY <1>3, <2>2
    <3> QED  BY <2>2, <3>4, <3>5, <3>6
  <2>6. CASE pc[c] \in Passed
    <3>1. Linked(heap, old + 1, new) /\ frontNode = First(old + 1, new)
      BY <2>1, <2>6 DEF Dequeueing, Queue
    <3>2. list = Nodes(old + 1, new)
      BY <1>3, <1>4, <3>1
    <3>3. list # << >> => Head(list) # old
      <4>1. old + 1 \in Nat /\ old + 1 <= new + 1
        BY <1>3, <2>2
      <4>2. /\ Nodes(old + 1, new) \in Seq(Nat) /\ Len(Nodes(old + 1, new)) = new - (old + 1) + 1
            /\ \A k \in 1 .. new - (old + 1) + 1 : Nodes(old + 1, new)[k] = (old + 1) + k - 1
        BY <1>3, <4>1, NodesFacts
      <4>3. list # << >> => Head(list) = (old + 1) + 1 - 1
        BY <3>2, <4>2
      <4> QED  BY <1>3, <4>3
    <3>4. queuedNodes = list
      BY <1>1, <2>2, <2>3, <3>3 DEF c
    <3>5. old \in 0 .. new
      BY <1>3, <2>2
    <3> QED  BY <2>2, <3>2, <3>4, <3>5
  <2> QED  BY <2>4, <2>5, <2>6
<1> QED  BY <1>6, <1>7, <1>8

LEMMA ViewHolds == ASSUME OrderInv, Counted, MutexInv, useMutex PROVE View
<1>1. queuedNodes = Nodes(Ahead + 1, Len(made)) /\ Ahead \in 0 .. Len(made)
  BY QueuedAre
<1>2. Data(queuedNodes) = Left(made, Ahead)
  BY <1>1, DataIs
<1>3. Len(queuedNodes) = Len(made) - Ahead
  <2>1. Ahead + 1 \in Nat /\ Len(made) \in Nat /\ Ahead + 1 <= Len(made) + 1
        /\ Len(made) - (Ahead + 1) + 1 = Len(made) - Ahead
    BY <1>1, Numbers
  <2> QED  BY <1>1, <2>1, NodesFacts
<1>4. EatenIsMade /\ (InCall(c) => Dequeueing(pc[c]))
  BY DEF MutexInv, Shape
<1>5. eaten = Taken(made, Len(eaten))
  BY <1>4, Numbers DEF Taken, EatenIsMade
<1>6. CASE ~InCall(c)
  BY <1>1, <1>2, <1>3, <1>5, <1>6, Numbers DEF View, Ahead, c
<1>7. CASE InCall(c)
  <2>1. temp[c] = Len(eaten) + 1 /\ Len(eaten) + 1 <= Len(made) /\ Ahead = Len(eaten) + 1
    BY <1>4, <1>7 DEF Dequeueing, Ahead
  <2>2. Data(<<temp[c]>>) = <<made[Len(eaten) + 1]>>
    <3>1. heap[temp[c]].data = made[Len(eaten) + 1]
      BY <2>1, Numbers
    <3> QED  BY <3>1 DEF Data
  <2>3. Taken(made, Len(eaten) + 1) = Append(Taken(made, Len(eaten)), made[Len(eaten) + 1])
    <3>1. Len(eaten) \in Nat /\ Len(eaten) < Len(made) /\ made \in Seq(Value)
      BY <2>1, Numbers
    <3> QED  BY <3>1, LeftShorter
  <2>4. eaten \o <<made[Len(eaten) + 1]>> = Append(eaten, made[Len(eaten) + 1])
    BY <2>1, Numbers
  <2> QED  BY <1>1, <1>2, <1>3, <1>5, <1>7, <2>1, <2>2, <2>3, <2>4 DEF View, c
<1> QED  BY <1>6, <1>7

\* The abstract variables the mapping computes.
queue == [limit |-> Len(queuedNodes), items |-> Data(queuedNodes)]
labels == [t \in Thread |-> abstractPc(pc[t])]
taken == IF InCall("consumidor") THEN eaten \o Data(<<temp["consumidor"]>>) ELSE eaten

LEMMA LabelNames ==
  /\ abstractPc("test") = "test" /\ abstractPc("enter") = "lock"
  /\ abstractPc("new") = "access" /\ abstractPc("front") = "access" /\ abstractPc("exit") = "exit"
  /\ \A l : l \notin {"test", "flag", "enter", "new", "front", "exit"} => abstractPc(l) = "unlock"
BY DEF abstractPc

LEMMA LabelStep ==
  ASSUME OrderInv, NEW t \in Thread, NEW l \in Lines(t), Goto(t, l)
  PROVE  labels' = [labels EXCEPT ![t] = abstractPc(l)] /\ labels[t] = abstractPc(pc[t])
<1>1. pc'[t] = l /\ \A u \in Thread : u # t => pc'[u] = pc[u]
  BY GoesTo DEF OrderInv
<1>2. labels' = [u \in Thread |-> abstractPc(pc'[u])]
  BY DEF labels, abstractPc
<1>3. labels' = [u \in Thread |-> IF u = t THEN abstractPc(l) ELSE abstractPc(pc[u])]
  BY <1>1, <1>2
<1> QED  BY <1>3 DEF labels

LEMMA ViewIs ==
  ASSUME View
  PROVE  /\ queue = [limit |-> Len(made) - Ahead, items |-> Left(made, Ahead)]
         /\ taken = Taken(made, Ahead)
BY DEF View, queue, taken

\* A step that neither makes nor takes an element.
LEMMA SameQueue ==
  ASSUME View, View', made' = made, Ahead' = Ahead
  PROVE  queue' = queue /\ taken' = taken
<1>1. queue' = [limit |-> Len(made') - Ahead', items |-> Left(made', Ahead')] /\ taken' = Taken(made', Ahead')
  BY DEF View, queue, taken
<1> QED  BY <1>1, ViewIs

LEMMA EnqueueingLimit ==
  ASSUME OrderInv, Enqueueing(pc[p]), InCall(p)
  PROVE  limit <= Len(made) - Len(eaten)
<1>1. pc[p] \in Lines(p) /\ pc[p] \notin outside
  BY Threads DEF InCall, OrderInv, TypeInv
<1>2. pc[p] \in Linking \/ pc[p] \in {"loadFirst", "storeFirst", "linkRear"}
  BY <1>1 DEF Lines, outside, Linking
<1> QED  BY <1>2, Numbers DEF Enqueueing

LEMMA LoopImplements ==
  ASSUME OrderInv, MutexInv, useMutex, View, View', NEW t \in Thread, NEW open, Loop(t, open),
         open => IF t = p THEN limit < Capacity ELSE limit > 0
  PROVE  Abstract!Next
<1>1. /\ UNCHANGED <<made, eaten, temp>>
      /\ \E l \in Lines(t) : Goto(t, l) /\ l \in outside
      /\ pc[t] \in outside
  <2>1. Body(t) \in Lines(t) /\ Body(t) \in outside
    BY DEF Body, Lines, outside, p
  <2> QED  BY <2>1 DEF Loop, Test, TestFlag, Enter, LeaveSection, At, Lines, outside, localVars, history
<1>2. made' = made /\ Ahead' = Ahead
  <2>1. PICK l \in Lines(t) : Goto(t, l) /\ l \in outside
    BY <1>1
  <2>2. pc'[t] = l /\ \A u \in Thread : u # t => pc'[u] = pc[u]
    BY <2>1, GoesTo DEF OrderInv
  <2>3. InCall(c)' <=> InCall(c)
    BY <1>1, <2>1, <2>2, Threads DEF InCall
  <2> QED  BY <1>1, <2>3 DEF Ahead
<1>3. queue' = queue /\ taken' = taken
  BY <1>2, SameQueue
<1>4. ~TestFlag(t)
  BY DEF TestFlag, At, MutexInv, Exclusive
<1>5. CASE Test(t, open)
  <2>1. PICK l \in {"enter", "exit"} : /\ Goto(t, l) /\ (l = "enter" => open /\ i[t] < LIMIT)
                                       /\ (l = "exit" => ~(i[t] < LIMIT))
    BY <1>5 DEF Test
  <2>2. /\ labels' = [labels EXCEPT ![t] = IF l = "enter" THEN "lock" ELSE "exit"] /\ labels[t] = "test"
        /\ mutex' = mutex /\ i' = i
    BY <1>5, <2>1, LabelStep, LabelNames DEF Test, At, Lines, localVars, syncVars
  <2>3. open => IF t = p THEN queue.limit < Capacity ELSE queue.limit > 0
    <3>1. /\ limit \in Int /\ Capacity \in Nat /\ Len(made) \in Nat /\ Len(eaten) \in Nat
          /\ queue.limit = Len(made) - Ahead
          /\ Ahead \in {Len(eaten), Len(eaten) + 1} /\ (Ahead = Len(eaten) + 1 <=> InCall(c))
      BY Numbers, ViewIs, ProducerConsumerListAssumption DEF Ahead
    <3>2. ~InCall(t) /\ Shape
      BY <1>1 DEF InCall, MutexInv
    <3>3. CASE t = p
      <4>1. CASE InCall(c)
        <5>1. Dequeueing(pc[c])
          BY <3>2, <4>1 DEF Shape
        <5>2. limit >= Len(made) - Len(eaten) - 1
          BY <3>1, <5>1 DEF Dequeueing
        <5> QED  BY <3>1, <3>3, <4>1, <5>2
      <4>2. CASE ~InCall(c)
        BY <3>1, <3>2, <3>3, <4>2 DEF Shape, Whole
      <4> QED  BY <4>1, <4>2
    <3>4. CASE t = c
      <4>1. CASE InCall(p)
        <5>1. Enqueueing(pc[p])
          BY <3>2, <4>1 DEF Shape
        <5>2. limit <= Len(made) - Len(eaten)
          BY <3>1, <4>1, <5>1, EnqueueingLimit
        <5> QED  BY <3>1, <3>2, <3>4, <5>2, Threads
      <4>2. CASE ~InCall(p)
        BY <3>1, <3>2, <3>4, <4>2, Threads DEF Shape, Whole
      <4> QED  BY <4>1, <4>2
    <3> QED  BY <3>3, <3>4, Threads
  <2>4. CASE t = p
    <3>1. Abstract!Test("produtor", Abstract!queueNotFull(queue))
      BY <1>2, <1>3, <2>1, <2>2, <2>3, <2>4
         DEF Abstract!Test, Abstract!Goto, Abstract!queueNotFull, queue, labels, taken, p
    <3> QED  BY <3>1 DEF Abstract!Next, Abstract!produtor, queue
  <2>5. CASE t = c
    <3>1. Abstract!Test("consumidor", Abstract!queueNotEmpty(queue))
      BY <1>2, <1>3, <2>1, <2>2, <2>3, <2>5, Threads
         DEF Abstract!Test, Abstract!Goto, Abstract!queueNotEmpty, queue, labels, taken, c
    <3> QED  BY <3>1 DEF Abstract!Next, Abstract!consumidor, queue
  <2> QED  BY <2>4, <2>5, Threads
<1>6. CASE Enter(t)
  <2>1. /\ Goto(t, Body(t)) /\ mutex = "free" /\ mutex' = t /\ i' = i /\ pc[t] = "enter"
    BY <1>6 DEF Enter, At, localVars
  <2>2. Body(t) \in Lines(t) /\ abstractPc(Body(t)) = "access"
    BY LabelNames DEF Body, Lines, p
  <2>3. labels' = [labels EXCEPT ![t] = "access"] /\ labels[t] = "lock"
    BY <2>1, <2>2, LabelStep, LabelNames
  <2>4. Abstract!Lock(t)
    BY <1>2, <1>3, <2>1, <2>3 DEF Abstract!Lock, Abstract!Goto, queue, labels, taken
  <2> QED  BY <2>4, Threads DEF Abstract!Next, Abstract!produtor, Abstract!consumidor, p, c
<1>7. CASE LeaveSection(t)
  <2>1. /\ Goto(t, "test") /\ mutex' = "free" /\ i' = [i EXCEPT ![t] = @ + 1] /\ pc[t] = "leave"
    BY <1>7 DEF LeaveSection, At
  <2>2. labels' = [labels EXCEPT ![t] = "test"] /\ labels[t] = "unlock"
    BY <2>1, LabelStep, LabelNames DEF Lines
  <2>3. Abstract!Unlock(t)
    BY <1>2, <1>3, <2>1, <2>2 DEF Abstract!Unlock, Abstract!Goto, queue, labels, taken
  <2> QED  BY <2>3, Threads DEF Abstract!Next, Abstract!produtor, Abstract!consumidor, p, c
<1> QED  BY <1>4, <1>5, <1>6, <1>7 DEF Loop

\* new: the element counts as queued from the moment its node exists.
LEMMA NewImplements ==
  ASSUME OrderInv, MutexInv, useMutex, View, View', New(p)
  PROVE  Abstract!Next
<1>1. PICK r \in Value : made' = Append(made, r)
  BY DEF New
<1>2. /\ pc[p] = "new" /\ Goto(p, "isEmpty") /\ mutex' = mutex /\ i' = i /\ eaten' = eaten
  BY DEF New, At, syncVars
<1>3. labels' = [labels EXCEPT ![p] = "unlock"] /\ labels[p] = "access"
  BY <1>2, LabelStep, LabelNames, Threads DEF Lines
<1>4. InCall(c)' = InCall(c)
  BY <1>2, GoesTo, Threads DEF OrderInv, InCall, Lines
<1>5. /\ ~InCall(p) /\ ~InCall(c) /\ limit < Capacity /\ Whole
  <2>1. InSection(p) /\ ~InCall(p)
    BY <1>2 DEF InSection, InCall, outside
  <2> QED  BY <1>2, <2>1, MutexFacts, Threads DEF MutexInv, StillOpen
<1>6. Ahead' = Ahead /\ Ahead = Len(eaten) /\ Ahead \in 0 .. Len(made)
  BY <1>2, <1>4, <1>5, Numbers DEF Ahead, View
<1>7. /\ Left(made', Ahead) = Append(Left(made, Ahead), r) /\ Taken(made', Ahead) = Taken(made, Ahead)
      /\ Len(made') = Len(made) + 1 /\ Len(made) \in Nat
  BY <1>1, <1>6, Numbers, LeftLonger, AppendFacts
<1>8. /\ queue = [limit |-> Len(made) - Ahead, items |-> Left(made, Ahead)]
      /\ queue' = [limit |-> Len(made') - Ahead', items |-> Left(made', Ahead')]
      /\ taken' = Taken(made', Ahead') /\ taken = Taken(made, Ahead)
  <2>1. queue' = [limit |-> Len(made') - Ahead', items |-> Left(made', Ahead')] /\ taken' = Taken(made', Ahead')
    BY DEF View, queue, taken
  <2> QED  BY <2>1, ViewIs
<1>9. queue.limit < Capacity
  BY <1>5, <1>6, <1>8 DEF Whole
<1>10. queue' = [limit |-> queue.limit + 1, items |-> Append(queue.items, r)]
  <2>1. Len(made') - Ahead' = Len(made) - Ahead + 1
    BY <1>6, <1>7
  <2> QED  BY <1>6, <1>7, <1>8, <2>1
<1>11. queue' = Abstract!enqueue(queue, r)
  BY <1>9, <1>10 DEF Abstract!enqueue
<1>12. taken' = taken
  BY <1>6, <1>7, <1>8
<1>13. Abstract!Produce
  BY <1>1, <1>2, <1>3, <1>11, <1>12 DEF Abstract!Produce, Abstract!Goto, queue, labels, taken, p
<1> QED  BY <1>13 DEF Abstract!Next, Abstract!produtor

\* temp = frontNode: from here on the element counts as eaten.
LEMMA ReadFrontImplements ==
  ASSUME OrderInv, MutexInv, useMutex, View, View', ReadFront(c)
  PROVE  Abstract!Next
<1>1. /\ pc[c] = "front" /\ Goto(c, "isNull") /\ mutex' = mutex /\ i' = i /\ eaten' = eaten /\ made' = made
  BY DEF ReadFront, At, syncVars, history
<1>2. "isNull" \in Lines(c)
  BY DEF Lines, p, c
<1>3. labels' = [labels EXCEPT ![c] = "unlock"] /\ labels[c] = "access"
  BY <1>1, <1>2, LabelStep, LabelNames, Threads
<1>4. InCall(c)' /\ ~InCall(c)
  <2>1. pc'[c] = "isNull"
    BY <1>1, <1>2, GoesTo, Threads DEF OrderInv
  <2> QED  BY <1>1, <2>1 DEF InCall, outside
<1>5. limit > 0 /\ Whole
  <2>1. InSection(c) /\ ~InCall(c)
    BY <1>1 DEF InSection, InCall, outside
  <2> QED  BY <1>1, <2>1, MutexFacts, Threads
<1>6. Ahead' = Ahead + 1 /\ Ahead = Len(eaten) /\ Ahead \in Nat /\ Ahead < Len(made)
  BY <1>1, <1>4, <1>5, Numbers DEF Ahead, Whole
<1>7. /\ Left(made, Ahead) # << >> /\ Head(Left(made, Ahead)) = made[Ahead + 1]
      /\ Tail(Left(made, Ahead)) = Left(made, Ahead + 1)
      /\ Taken(made, Ahead + 1) = Append(Taken(made, Ahead), made[Ahead + 1])
  BY <1>6, Numbers, LeftShorter
<1>8. /\ queue = [limit |-> Len(made) - Ahead, items |-> Left(made, Ahead)]
      /\ queue' = [limit |-> Len(made') - Ahead', items |-> Left(made', Ahead')]
      /\ taken' = Taken(made', Ahead') /\ taken = Taken(made, Ahead)
  <2>1. queue' = [limit |-> Len(made') - Ahead', items |-> Left(made', Ahead')] /\ taken' = Taken(made', Ahead')
    BY DEF View, queue, taken
  <2> QED  BY <2>1, ViewIs
<1>9. queue' = [limit |-> queue.limit - 1, items |-> Tail(queue.items)] /\ queue.items # << >>
  <2>1. Len(made') - Ahead' = (Len(made) - Ahead) - 1
    BY <1>1, <1>6, Numbers
  <2> QED  BY <1>1, <1>6, <1>7, <1>8, <2>1
<1>10. queue' = Abstract!dequeue(queue)
  BY <1>9 DEF Abstract!dequeue
<1>11. taken' = Append(taken, Abstract!dequeued(queue))
  BY <1>1, <1>6, <1>7, <1>8, <1>9 DEF Abstract!dequeued
<1>12. Abstract!Consume
  BY <1>1, <1>3, <1>10, <1>11 DEF Abstract!Consume, Abstract!Goto, queue, labels, taken, c
<1> QED  BY <1>12 DEF Abstract!Next, Abstract!consumidor

\* The other steps of a call are not seen.
LEMMA CallImplements ==
  ASSUME OrderInv, View, View', NEW t \in Thread, InSection(t), pc[t] \notin {"new", "front"},
         NEW l \in Lines(t), l \notin {"test", "flag", "enter", "exit", "new", "front"}, Goto(t, l),
         mutex' = mutex, i' = i, made' = made, Ahead' = Ahead
  PROVE  UNCHANGED Abstract!vars
<1>1. queue' = queue /\ taken' = taken
  BY SameQueue
<1>2. labels' = [labels EXCEPT ![t] = "unlock"] /\ labels[t] = "unlock"
  BY LabelStep, LabelNames DEF InSection
<1>3. labels' = labels
  BY <1>2 DEF labels
<1> QED  BY <1>1, <1>3 DEF Abstract!vars, queue, labels, taken

LEMMA EnqueueImplements ==
  ASSUME OrderInv, MutexInv, MutexInv', useMutex, useMutex', View, View', enqueue(p)
  PROVE  [Abstract!Next]_(Abstract!vars)
<1>1. CASE New(p)
  BY <1>1, NewImplements
<1>2. CASE ~New(p)
  <2>1. /\ pc[p] \notin {"new", "front"} /\ InSection(p)
        /\ mutex' = mutex /\ i' = i /\ made' = made /\ eaten' = eaten
    BY <1>2 DEF enqueue, IsEmpty, IsEmpty2, IsRoom, Branch, SetRear, SetFront, Load, Store, LinkNext,
           At, InSection, localVars, syncVars, history
  <2>2. ~Crash
    BY DEF MutexInv, Crash
  <2>3. PICK l \in {"isEmpty2", "setRear", "setFront", "loadFirst", "storeFirst", "isRoom", "load", "store",
                    "linkNext", "linkRear", "leave"} : Goto(p, l)
    BY <1>2, <2>2 DEF enqueue, IsEmpty, IsEmpty2, IsRoom, Branch, SetRear, SetFront, Load, Store, LinkNext
  <2>4. l \in Lines(p) /\ l \notin {"test", "flag", "enter", "exit", "new", "front"}
    BY <2>3 DEF Lines
  <2>5. Ahead' = Ahead
    <3>1. pc'[c] = pc[c]
      BY <2>3, <2>4, GoesTo, Threads DEF OrderInv
    <3> QED  BY <2>1, <3>1 DEF Ahead, InCall
  <2> QED  BY <2>1, <2>3, <2>4, <2>5, Threads, CallImplements
<1> QED  BY <1>1, <1>2

LEMMA DequeueImplements ==
  ASSUME OrderInv, MutexInv, MutexInv', useMutex, useMutex', View, View', dequeue(c)
  PROVE  [Abstract!Next]_(Abstract!vars)
<1>1. CASE ReadFront(c)
  BY <1>1, ReadFrontImplements
<1>2. CASE ~ReadFront(c)
  <2>1. /\ pc[c] \notin {"new", "front"} /\ InSection(c) /\ InCall(c)
        /\ mutex' = mutex /\ i' = i /\ made' = made
    BY <1>2 DEF dequeue, IsNull, IsLast, Branch, SetRear, SetFront, Load, Store, Advance, ReturnData,
           At, InSection, InCall, outside, localVars, syncVars, history
  <2>2. ~Crash
    BY DEF MutexInv, Crash
  <2>3. PICK l \in {"isLast", "clearRear", "clearFront", "advance", "loadLess", "storeLess", "return", "leave"} :
          /\ Goto(c, l)
          /\ IF l = "leave" THEN \E x : eaten' = Append(eaten, x) ELSE eaten' = eaten
    BY <1>2, <2>2 DEF dequeue, IsNull, IsLast, Branch, SetRear, SetFront, Load, Store, Advance, ReturnData, history
  <2>4. l \in Lines(c) /\ l \notin {"test", "flag", "enter", "exit", "new", "front"}
    BY <2>3, Threads DEF Lines
  <2>5. Ahead' = Ahead
    <3>1. pc'[c] = l
      BY <2>3, <2>4, GoesTo, Threads DEF OrderInv
    <3>2. InCall(c)' <=> l # "leave"
      BY <2>3, <3>1 DEF InCall, outside
    <3>3. l = "leave" => Len(eaten') = Len(eaten) + 1 /\ Len(eaten) \in Nat
      BY <2>3, Numbers
    <3> QED  BY <2>1, <2>3, <3>2, <3>3, Numbers DEF Ahead
  <2> QED  BY <2>1, <2>3, <2>4, <2>5, Threads, CallImplements
<1> QED  BY <1>1, <1>2

LEMMA NextImplements ==
  ASSUME OrderInv, MutexInv, MutexInv', View, View', useMutex, useMutex', [Next]_vars
  PROVE  [Abstract!Next]_(Abstract!vars)
<1>1. CASE produtor
  BY <1>1, LoopImplements, EnqueueImplements, Threads DEF produtor, queueNotFull, p
<1>2. CASE consumidor
  BY <1>2, LoopImplements, DequeueImplements, Threads DEF consumidor, queueNotEmpty, p, c
<1>3. CASE UNCHANGED vars
  <2>1. pc' = pc /\ mutex' = mutex /\ i' = i /\ made' = made /\ eaten' = eaten
    BY <1>3 DEF vars, localVars, syncVars, history
  <2>2. Ahead' = Ahead
    BY <2>1 DEF Ahead, InCall
  <2>3. labels' = labels
    BY <2>1 DEF labels, abstractPc
  <2>4. queue' = queue /\ taken' = taken
    BY <2>1, <2>2, SameQueue
  <2> QED  BY <2>1, <2>3, <2>4 DEF Abstract!vars, queue, labels, taken
<1> QED  BY <1>1, <1>2, <1>3 DEF Next

\* Lab 8 Ex 3's pointers, counter and mutex implement ProducerConsumer, where
\* enqueue() and dequeue() are single steps: the two unlocked reads of the
\* counter, wherever they fall in the other thread's call, never let a thread do
\* what the atomic queue would not.
THEOREM ListImplements == Spec => ImplementsProducerConsumer
<1>1. Init => (useMutex => Abstract!Init)
  <2> SUFFICES ASSUME Init, useMutex PROVE Abstract!Init
    OBVIOUS
  <2>1. View
    <3>1. OrderInv /\ Counted /\ MutexInv
      BY InitOrder, InitMutex
    <3> QED  BY <3>1, ViewHolds
  <2>2. Len(made) = 0 /\ made = << >> /\ Len(eaten) = 0 /\ ~InCall(c) /\ \A t \in Thread : pc[t] = "test"
    BY Threads DEF Init, InCall, outside
  <2>3. Ahead = 0
    BY <2>2 DEF Ahead
  <2>4. Left(made, 0) = << >> /\ Taken(made, 0) = << >>
    BY <2>2 DEF Left, Taken
  <2>5. queue = [limit |-> 0, items |-> << >>] /\ taken = << >>
    BY <2>1, <2>2, <2>3, <2>4, ViewIs
  <2>6. labels = [t \in Thread |-> "test"]
    BY <2>2, LabelNames DEF labels
  <2> QED  BY <2>5, <2>6 DEF Init, Abstract!Init, Abstract!newQueue, Abstract!Thread, Thread, queue, labels, taken
<1> DEFINE Inv == OrderInv /\ Counted /\ MutexInv /\ (useMutex => View)
<1>2. Inv /\ Inv' /\ [Next]_vars => [useMutex => [Abstract!Next]_(Abstract!vars)]_vars
  BY UseMutexStays, NextImplements
<1>3. OrderInv /\ Counted /\ MutexInv => Inv
  BY ViewHolds
<1> HIDE DEF Inv
<1>4. Spec => []Inv
  BY <1>3, MutexInvariant, PTL
<1> QED  BY <1>1, <1>2, <1>4, PTL DEF Spec, ImplementsProducerConsumer
=============================================================================
