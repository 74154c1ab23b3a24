--------------------------- MODULE SemaphoreProofs --------------------------
(***************************************************************************)
(* Safety of the three exercises of Lab 7, for any processes, any programs *)
(* of one exercise, any number of kills and restarts, and any bound on the *)
(* semaphore's value.                                                      *)
(***************************************************************************)
EXTENDS SemaphoreExercises, FiniteSetTheorems, SequenceTheorems, TLAPS

USE SystemVAssumption, RoundsAssumption, SizeAssumption, AdditionsAssumption

Label ==
  { "semget", "semctl", "P", "upper", "lower", "load", "store", "V", "end", "return",
    "shmget", "zero", "shmdt", "getchar", "putchar", "gone" }

SystemTypeOK ==
  /\ program \in Scenarios
  /\ pc \in [Process -> Label]
  /\ i \in [Process -> Nat]
  /\ starts \in Nat
  /\ semId \in [Process -> {"none", "valid", "stale"}]
  /\ exists \in BOOLEAN
  /\ value \in 0 .. SemMax
  /\ undo \in [Process -> Int]
  /\ base \in 0 .. 1
  /\ segment \in BOOLEAN
  /\ attached \subseteq Process
  /\ hit \subseteq {"kill", "reset", "remove", "clamp", "range", "zero"}

SumTypeOK == mem \in Int /\ due \in Int /\ loaded \in [Process -> Int]

\* The index into msg stays inside it.
IndexOK ==
  \A p \in Process :
    /\ pc[p] \in {"gone", "shmget", "zero", "semget", "semctl"} => i[p] = 0
    /\ pc[p] \in {"getchar", "putchar"} => i[p] < Size

BufferTypeOK ==
  /\ msg \in [1 .. Size -> Nat]
  /\ typed \in Nat
  /\ line \in [Process -> Seq(Nat)]

TypeOK == SystemTypeOK /\ SumTypeOK /\ IndexOK /\ BufferTypeOK

-----------------------------------------------------------------------------
(* What the kernel's calls do to the types.                                *)

LEMMA Clamp ==
  ASSUME NEW x \in Int
  PROVE  Min({SemMax, Max({0, x})}) = IF x < 0 THEN 0 ELSE IF x > SemMax THEN SemMax ELSE x
<1> DEFINE m == IF x < 0 THEN 0 ELSE x
           n == IF m > SemMax THEN SemMax ELSE m
<1>1. Max({0, x}) = m
  <2>1. m \in {0, x} /\ \A y \in {0, x} : m >= y
    OBVIOUS
  <2>2. ASSUME NEW z \in {0, x}, \A y \in {0, x} : z >= y PROVE z = m
    BY <2>2
  <2> QED  BY <2>1, <2>2 DEF Max
<1>2. m \in Int
  OBVIOUS
<1> HIDE DEF m
<1>3. Min({SemMax, m}) = n
  <2>1. n \in {SemMax, m} /\ \A y \in {SemMax, m} : n <= y
    BY <1>2
  <2>2. ASSUME NEW z \in {SemMax, m}, \A y \in {SemMax, m} : z <= y PROVE z = n
    BY <1>2, <2>2
  <2> QED  BY <2>1, <2>2 DEF Min
<1> QED  BY <1>1, <1>3 DEF m

LEMMA SemSetTypes ==
  ASSUME SystemTypeOK, NEW p \in Process, NEW v \in 0 .. 1, SemSet(p, v)
  PROVE  /\ semId' = semId /\ exists' = exists
         /\ value' \in 0 .. SemMax
         /\ undo' \in [Process -> Int]
         /\ base' \in 0 .. 1
         /\ hit' \subseteq {"kill", "reset", "remove", "clamp", "range", "zero"}
<1>1. CASE semId[p] = "valid"
  <2>1. hit' \in {hit, hit \cup {"reset"}}
    BY <1>1 DEF SemSet
  <2>2. value' = v /\ base' = v /\ undo' = [q \in Process |-> 0] /\ semId' = semId /\ exists' = exists
    BY <1>1 DEF SemSet
  <2>3. undo' \in [Process -> Int] /\ value' \in 0 .. SemMax /\ base' \in 0 .. 1
    BY <2>2
  <2> QED  BY <2>1, <2>2, <2>3 DEF SystemTypeOK
<1>2. CASE semId[p] # "valid"
  BY <1>2 DEF SystemTypeOK, SemSet, NoSemCall, semVars
<1> QED  BY <1>1, <1>2

LEMMA SemOpTypes ==
  ASSUME SystemTypeOK, NEW p \in Process, NEW n \in {-1, 1}, SemOp(p, n, "SEM_UNDO")
  PROVE  /\ semId' = semId /\ exists' = exists /\ base' = base
         /\ value' \in 0 .. SemMax
         /\ undo' \in [Process -> Int]
         /\ hit' \subseteq {"kill", "reset", "remove", "clamp", "range", "zero"}
<1>1. CASE semId[p] = "valid" /\ value + n >= 0 /\ InRange(p, n) /\ value' = value + n
           /\ undo' = [undo EXCEPT ![p] = @ - n] /\ UNCHANGED <<semId, exists, base, hit>>
  <2>1. value' \in 0 .. SemMax
    BY <1>1 DEF SystemTypeOK, InRange
  <2>2. undo' \in [Process -> Int]
    BY <1>1 DEF SystemTypeOK
  <2> QED  BY <1>1, <2>1, <2>2 DEF SystemTypeOK
<1>2. CASE hit' = hit \cup {"range"} /\ UNCHANGED semVars
  BY <1>2 DEF SystemTypeOK, semVars
<1>3. CASE NoSemCall
  BY <1>3 DEF SystemTypeOK, NoSemCall, semVars
<1> QED  BY <1>1, <1>2, <1>3 DEF SemOp

LEMMA SemRemoveTypes ==
  ASSUME SystemTypeOK, NEW p \in Process, SemRemove(p)
  PROVE  /\ semId' \in [Process -> {"none", "valid", "stale"}]
         /\ exists' \in BOOLEAN
         /\ value' \in 0 .. SemMax
         /\ undo' \in [Process -> Int]
         /\ base' \in 0 .. 1
         /\ hit' \subseteq {"kill", "reset", "remove", "clamp", "range", "zero"}
<1>1. CASE semId[p] = "valid"
  <2>1. hit' \in {hit, hit \cup {"remove"}}
    BY <1>1 DEF SemRemove
  <2>2. /\ value' = 0 /\ base' = 0 /\ undo' = [q \in Process |-> 0] /\ exists' = FALSE
        /\ semId' = [q \in Process |-> IF semId[q] = "valid" THEN "stale" ELSE semId[q]]
    BY <1>1 DEF SemRemove
  <2>3. semId' \in [Process -> {"none", "valid", "stale"}]
    BY <2>2 DEF SystemTypeOK
  <2>4. undo' \in [Process -> Int] /\ value' \in 0 .. SemMax /\ base' \in 0 .. 1
    BY <2>2
  <2> QED  BY <2>1, <2>2, <2>3, <2>4 DEF SystemTypeOK
<1>2. CASE semId[p] # "valid"
  BY <1>2 DEF SystemTypeOK, SemRemove, NoSemCall, semVars
<1> QED  BY <1>1, <1>2

LEMMA TerminateTypes ==
  ASSUME SystemTypeOK, IndexOK, NEW p \in Process, NEW fate \in {{}, {"kill"}}, Terminate(p, fate)
  PROVE  SystemTypeOK' /\ IndexOK'
<1>1. Undone(p) \in Int
  BY DEF SystemTypeOK, Undone
<1>2. value' \in 0 .. SemMax
  BY <1>1, Clamp DEF Terminate
<1>3. hit' \subseteq {"kill", "reset", "remove", "clamp", "range", "zero"}
  BY DEF SystemTypeOK, Terminate
<1> QED  BY <1>2, <1>3 DEF SystemTypeOK, IndexOK, Terminate, Goto, Label

LEMMA GotoTypes ==
  ASSUME SystemTypeOK, NEW p \in Process, NEW l \in Label, Goto(p, l)
  PROVE  /\ pc' \in [Process -> Label]
         /\ pc'[p] = l
         /\ \A q \in Process : q # p => pc'[q] = pc[q]
BY DEF SystemTypeOK, Goto

LEMMA CountTypes ==
  ASSUME SystemTypeOK, NEW p \in Process, i' = [i EXCEPT ![p] = @ + 1]
  PROVE  /\ i' \in [Process -> Nat]
         /\ i'[p] = i[p] + 1
         /\ \A q \in Process : q # p => i'[q] = i[q]
BY DEF SystemTypeOK

-----------------------------------------------------------------------------
(* Type correctness, one lemma per exercise.                               *)

LEMMA LettersTypes ==
  ASSUME TypeOK, NEW p \in Process, LettersStep(p)
  PROVE  SystemTypeOK' /\ IndexOK'
<1> USE DEF TypeOK, At
<1>1. CASE LettersSemget(p) /\ UNCHANGED <<program, starts>>
  <2>1. CASE SemCreate(p) /\ Goto(p, "semctl") /\ pc[p] = "semget"
    BY <1>1, <2>1, GotoTypes DEF LettersSemget, SemCreate, SystemTypeOK, IndexOK, Label, shmVars
  <2>2. CASE SemFind(p) /\ Goto(p, "P")
    BY <1>1, <2>2, GotoTypes DEF LettersSemget, SemFind, SystemTypeOK, IndexOK, Label, shmVars
  <2> QED  BY <1>1, <2>1, <2>2 DEF LettersSemget
<1>2. CASE LettersSetSemValue(p) /\ UNCHANGED <<program, starts>>
  <2>1. SemSet(p, 1) /\ Goto(p, "P") /\ UNCHANGED <<i, shmVars>>
    BY <1>2 DEF LettersSetSemValue
  <2> QED  BY <1>2, <2>1, SemSetTypes, GotoTypes DEF SystemTypeOK, IndexOK, Label, shmVars
<1>3. CASE LettersP(p) /\ UNCHANGED <<program, starts>>
  <2>1. SemOp(p, -1, "SEM_UNDO") /\ Goto(p, "upper") /\ UNCHANGED <<i, shmVars>>
    BY <1>3 DEF LettersP
  <2> QED  BY <1>3, <2>1, SemOpTypes, GotoTypes DEF SystemTypeOK, IndexOK, Label, shmVars
<1>4. CASE LettersPutchar(p) /\ UNCHANGED <<program, starts>>
  <2>1. \E l \in {"lower", "V"} : Goto(p, l)
    BY <1>4 DEF LettersPutchar
  <2>2. UNCHANGED <<i, shmVars>> /\ NoSemCall
    BY <1>4 DEF LettersPutchar
  <2> QED
    BY <1>4, <2>1, <2>2, GotoTypes DEF SystemTypeOK, IndexOK, Label, shmVars, semVars, NoSemCall
<1>5. CASE LettersV(p) /\ UNCHANGED <<program, starts>>
  <2>1. SemOp(p, 1, "SEM_UNDO") /\ UNCHANGED shmVars /\ i' = [i EXCEPT ![p] = @ + 1]
    BY <1>5 DEF LettersV
  <2>2. \E l \in {"P", "end"} : Goto(p, l)
    BY <1>5 DEF LettersV
  <2> QED
    BY <1>5, <2>1, <2>2, SemOpTypes, GotoTypes, CountTypes
    DEF SystemTypeOK, IndexOK, Label, shmVars
<1>6. CASE LettersDelSemValue(p) /\ UNCHANGED <<program, starts>>
  <2>1. SemRemove(p) /\ Goto(p, "return") /\ UNCHANGED <<i, shmVars>>
    BY <1>6 DEF LettersDelSemValue
  <2> QED  BY <1>6, <2>1, SemRemoveTypes, GotoTypes DEF SystemTypeOK, IndexOK, Label, shmVars
<1>7. CASE LettersReturn(p)
  BY <1>7, TerminateTypes DEF LettersReturn, Leave
<1> QED  BY <1>1, <1>2, <1>3, <1>4, <1>5, <1>6, <1>7 DEF LettersStep

LEMMA BufferTypes ==
  ASSUME TypeOK, NEW p \in Process, BufferStep(p)
  PROVE  SystemTypeOK' /\ IndexOK' /\ BufferTypeOK'
<1> USE DEF TypeOK, At
<1>1. CASE WriterSetup(p) /\ UNCHANGED <<program, starts>>
  <2>1. UNCHANGED <<i, bufferVars>>
    BY <1>1 DEF WriterSetup
  <2>2. CASE ShmCreate(p) /\ NoSemCall /\ Goto(p, "semget") /\ pc[p] = "shmget"
    BY <1>1, <2>1, <2>2, GotoTypes
    DEF ShmCreate, NoSemCall, semVars, SystemTypeOK, IndexOK, BufferTypeOK, bufferVars, Label
  <2>3. CASE SemCreate(p) /\ UNCHANGED shmVars /\ Goto(p, "semctl") /\ pc[p] = "semget"
    BY <1>1, <2>1, <2>3, GotoTypes
    DEF SemCreate, shmVars, SystemTypeOK, IndexOK, BufferTypeOK, bufferVars, Label
  <2>4. CASE SemSet(p, 0) /\ UNCHANGED shmVars /\ Goto(p, "getchar") /\ pc[p] = "semctl"
    <3>1. pc' = [pc EXCEPT ![p] = "getchar"] /\ pc' \in [Process -> Label] /\ i[p] = 0
      BY <2>4, GotoTypes DEF SystemTypeOK, IndexOK, Label
    <3>2. SystemTypeOK'
      BY <1>1, <2>1, <2>4, <3>1, SemSetTypes DEF shmVars, SystemTypeOK
    <3>3. \A q \in Process : (pc[q] = pc'[q] /\ i'[q] = i[q]) \/ (pc'[q] = "getchar" /\ i'[q] = 0)
      BY <2>1, <3>1 DEF SystemTypeOK
    <3>4. IndexOK'
      BY <3>3, SizeAssumption DEF IndexOK
    <3> QED  BY <2>1, <3>2, <3>4 DEF BufferTypeOK, bufferVars
  <2> QED  BY <1>1, <2>2, <2>3, <2>4 DEF WriterSetup
<1>2. CASE BufferP(p) /\ UNCHANGED <<program, starts>>
  <2>1. /\ SemOp(p, 1, "SEM_UNDO") /\ i' = [i EXCEPT ![p] = 0] /\ Goto(p, "getchar")
        /\ UNCHANGED <<shmVars, bufferVars>>
    BY <1>2 DEF BufferP
  <2>2. pc' = [pc EXCEPT ![p] = "getchar"] /\ pc' \in [Process -> Label]
    BY <2>1, GotoTypes DEF SystemTypeOK, Label
  <2>3. SystemTypeOK'
    BY <1>2, <2>1, <2>2, SemOpTypes DEF shmVars, SystemTypeOK
  <2>4. \A q \in Process : (pc[q] = pc'[q] /\ i'[q] = i[q]) \/ (pc'[q] = "getchar" /\ i'[q] = 0)
    BY <2>1, <2>2 DEF SystemTypeOK
  <2>5. IndexOK'
    BY <2>4, SizeAssumption DEF IndexOK
  <2>6. BufferTypeOK'
    BY <2>1 DEF BufferTypeOK, bufferVars
  <2> QED  BY <2>3, <2>5, <2>6
<1>3. CASE PrinterSetup(p) /\ UNCHANGED <<program, starts>>
  <2>1. UNCHANGED <<i, bufferVars>>
    BY <1>3 DEF PrinterSetup
  <2>2. CASE SemFind(p) /\ UNCHANGED shmVars /\ Goto(p, "shmget") /\ pc[p] = "semget"
    BY <1>3, <2>1, <2>2, GotoTypes
    DEF SemFind, shmVars, SystemTypeOK, IndexOK, BufferTypeOK, bufferVars, Label
  <2>3. CASE ShmAttach(p) /\ NoSemCall /\ Goto(p, "putchar") /\ pc[p] = "shmget"
    BY <1>3, <2>1, <2>3, GotoTypes
    DEF ShmAttach, NoSemCall, semVars, SystemTypeOK, IndexOK, BufferTypeOK, bufferVars, Label
  <2> QED  BY <1>3, <2>2, <2>3 DEF PrinterSetup
<1>4. CASE PrinterPutchar(p) /\ UNCHANGED <<program, starts>>
  <2>1. /\ pc[p] = "putchar"
        /\ line' = [line EXCEPT ![p] = Append(@, msg[i[p] + 1])]
        /\ i' = [i EXCEPT ![p] = @ + 1]
        /\ Goto(p, IF i'[p] < Size THEN "putchar" ELSE "V")
        /\ NoSemCall /\ UNCHANGED <<shmVars, msg, typed>>
    BY <1>4 DEF PrinterPutchar
  <2>2. i[p] + 1 \in 1 .. Size
    BY <2>1 DEF SystemTypeOK, IndexOK
  <2>3. Append(line[p], msg[i[p] + 1]) \in Seq(Nat)
    BY <2>2, AppendProperties DEF BufferTypeOK
  <2>4. BufferTypeOK'
    BY <2>1, <2>3 DEF BufferTypeOK
  <2>5. SystemTypeOK'
    BY <1>4, <2>1, GotoTypes, CountTypes DEF SystemTypeOK, NoSemCall, semVars, shmVars, Label
  <2>6. \E l \in {"putchar", "V"} : Goto(p, l) /\ (l = "putchar" => i'[p] < Size)
    BY <2>1
  <2>7. IndexOK'
    BY <2>1, <2>6, GotoTypes, CountTypes DEF IndexOK, Label
  <2> QED  BY <2>4, <2>5, <2>7
<1>5. CASE BufferV(p) /\ UNCHANGED <<program, starts>>
  <2>1. /\ SemOp(p, -1, "SEM_UNDO") /\ i' = [i EXCEPT ![p] = 0] /\ Goto(p, "putchar")
        /\ line' = [line EXCEPT ![p] = <<>>]
        /\ UNCHANGED <<shmVars, msg, typed>>
    BY <1>5 DEF BufferV
  <2>2. BufferTypeOK'
    BY <2>1 DEF BufferTypeOK
  <2> QED
    BY <1>5, <2>1, <2>2, GotoTypes, SemOpTypes DEF shmVars, SystemTypeOK, IndexOK, Label
<1>6. CASE BufferCrash(p)
  <2>1. Terminate(p, {"kill"}) /\ UNCHANGED <<msg, typed>> /\ line' = [line EXCEPT ![p] = <<>>]
    BY <1>6 DEF BufferCrash, Crash
  <2>2. BufferTypeOK'
    BY <2>1 DEF BufferTypeOK
  <2> QED  BY <2>1, <2>2, TerminateTypes
<1> QED  BY <1>1, <1>2, <1>3, <1>4, <1>5, <1>6 DEF BufferStep

LEMMA DivType == \A t \in Nat : t \div Size \in Nat
BY Z3

\* The character the writer stores is the number of its message.
LEMMA InputTypes ==
  ASSUME TypeOK, NEW p \in Process, BufferInput(p)
  PROVE  SystemTypeOK' /\ IndexOK' /\ BufferTypeOK'
<1> USE DEF TypeOK, At
<1>1. /\ pc[p] = "getchar"
      /\ msg' = [msg EXCEPT ![i[p] + 1] = (typed \div Size) + 1]
      /\ typed' = typed + 1
      /\ i' = [i EXCEPT ![p] = @ + 1]
      /\ Goto(p, IF i'[p] < Size THEN "getchar" ELSE "P")
      /\ NoSemCall /\ UNCHANGED <<shmVars, line, program, starts>>
  BY DEF BufferInput, WriterGetchar
<1>2. typed \div Size \in Nat
  BY DivType DEF BufferTypeOK
<1>3. (typed \div Size) + 1 \in Nat
  BY <1>2
<1> DEFINE number == (typed \div Size) + 1
<1> HIDE DEF number
<1>7. msg' = [msg EXCEPT ![i[p] + 1] = number] /\ number \in Nat
  BY <1>1, <1>3 DEF number
<1>8. msg' \in [1 .. Size -> Nat]
  BY <1>7 DEF BufferTypeOK
<1>9. BufferTypeOK'
  BY <1>1, <1>8 DEF BufferTypeOK
<1>4. SystemTypeOK'
  BY <1>1, GotoTypes, CountTypes DEF SystemTypeOK, NoSemCall, semVars, shmVars, Label
<1>5. \E l \in {"getchar", "P"} : Goto(p, l) /\ (l = "getchar" => i'[p] < Size)
  BY <1>1
<1>6. IndexOK'
  BY <1>1, <1>5, GotoTypes, CountTypes DEF IndexOK, Label
<1> QED  BY <1>4, <1>6, <1>9

LEMMA SumTypes ==
  ASSUME TypeOK, NEW p \in Process, SumStep(p)
  PROVE  SystemTypeOK' /\ IndexOK' /\ SumTypeOK'
<1> USE DEF TypeOK, At
<1>1. CASE SumShmget(p) /\ UNCHANGED <<program, starts>>
  <2>1. ShmAttach(p) /\ NoSemCall /\ UNCHANGED <<i, sumVars>> /\ pc[p] = "shmget"
    BY <1>1 DEF SumShmget
  <2>2. \E l \in {"zero", "semget"} : Goto(p, l)
    BY <1>1 DEF SumShmget
  <2> QED
    BY <1>1, <2>1, <2>2, GotoTypes
    DEF ShmAttach, NoSemCall, semVars, SystemTypeOK, IndexOK, SumTypeOK, sumVars, Label
<1>2. CASE SumZero(p) /\ UNCHANGED <<program, starts>>
  <2>1. /\ mem' = 0 /\ due' = 0 /\ Goto(p, "semget")
        /\ UNCHANGED <<i, semVars, shmVars, loaded>>
        /\ hit' \in {hit, hit \cup {"zero"}}
    BY <1>2 DEF SumZero
  <2>2. i[p] = 0
    BY <1>2 DEF SumZero, IndexOK
  <2> QED
    <3>1. SystemTypeOK'
      BY <1>2, <2>1, GotoTypes DEF semVars, shmVars, SystemTypeOK, Label
    <3>2. IndexOK' /\ SumTypeOK'
      BY <2>1, <2>2, GotoTypes DEF IndexOK, SumTypeOK, Label
    <3> QED  BY <3>1, <3>2
<1>3. CASE SumSemaphore(p) /\ UNCHANGED <<program, starts>>
  <2>1. UNCHANGED <<i, shmVars, sumVars>>
    BY <1>3 DEF SumSemaphore
  <2>2. CASE SemCreate(p) /\ Goto(p, "semctl") /\ pc[p] = "semget"
    BY <1>3, <2>1, <2>2, GotoTypes
    DEF SemCreate, shmVars, SystemTypeOK, IndexOK, SumTypeOK, sumVars, Label
  <2>3. CASE SemSet(p, 1) /\ Goto(p, "P") /\ pc[p] = "semctl"
    BY <1>3, <2>1, <2>3, GotoTypes, SemSetTypes
    DEF shmVars, SystemTypeOK, IndexOK, SumTypeOK, sumVars, Label
  <2> QED  BY <1>3, <2>2, <2>3 DEF SumSemaphore
<1>4. CASE SumP(p) /\ UNCHANGED <<program, starts>>
  <2>1. SemOp(p, -1, "SEM_UNDO") /\ Goto(p, "load") /\ UNCHANGED <<i, shmVars, sumVars>>
    BY <1>4 DEF SumP
  <2> QED
    BY <1>4, <2>1, GotoTypes, SemOpTypes
    DEF shmVars, SystemTypeOK, IndexOK, SumTypeOK, sumVars, Label
<1>5. CASE SumLoad(p) /\ UNCHANGED <<program, starts>>
  <2>1. /\ loaded' = [loaded EXCEPT ![p] = mem] /\ Goto(p, "store")
        /\ NoSemCall /\ UNCHANGED <<i, shmVars, mem, due>>
    BY <1>5 DEF SumLoad
  <2> QED
    BY <1>5, <2>1, GotoTypes
    DEF NoSemCall, semVars, shmVars, SystemTypeOK, IndexOK, SumTypeOK, Label
<1>6. CASE SumStore(p) /\ UNCHANGED <<program, starts>>
  <2>1. /\ mem' = loaded[p] + Term(p) /\ due' = due + Term(p)
        /\ loaded' = [loaded EXCEPT ![p] = 0] /\ Goto(p, "V")
        /\ NoSemCall /\ UNCHANGED <<i, shmVars>>
    BY <1>6 DEF SumStore
  <2>2. Term(p) \in Int
    BY DEF Term
  <2>3. SumTypeOK'
    BY <2>1, <2>2 DEF SumTypeOK
  <2> QED
    BY <1>6, <2>1, <2>3, GotoTypes
    DEF NoSemCall, semVars, shmVars, SystemTypeOK, IndexOK, Label
<1>7. CASE SumV(p) /\ UNCHANGED <<program, starts>>
  <2>1. SemOp(p, 1, "SEM_UNDO") /\ UNCHANGED <<shmVars, sumVars>> /\ i' = [i EXCEPT ![p] = @ + 1]
    BY <1>7 DEF SumV
  <2>2. \E l \in {"P", "shmdt"} : Goto(p, l)
    BY <1>7 DEF SumV
  <2> QED
    BY <1>7, <2>1, <2>2, SemOpTypes, GotoTypes, CountTypes
    DEF SystemTypeOK, IndexOK, SumTypeOK, sumVars, Label, shmVars
<1>8. CASE SumShmdt(p) /\ UNCHANGED <<program, starts>>
  <2>1. ShmRemove(p) /\ Goto(p, "return") /\ NoSemCall /\ UNCHANGED <<i, sumVars>>
    BY <1>8 DEF SumShmdt
  <2> QED
    BY <1>8, <2>1, GotoTypes
    DEF ShmRemove, NoSemCall, semVars, SystemTypeOK, IndexOK, SumTypeOK, sumVars, Label
<1>9. CASE SumReturn(p)
  <2>1. UNCHANGED sumVars /\ \E fate \in {{}, {"kill"}} : Terminate(p, fate)
    BY <1>9 DEF SumReturn, Leave, Crash
  <2> QED  BY <2>1, TerminateTypes DEF SumTypeOK, sumVars
<1> QED  BY <1>1, <1>2, <1>3, <1>4, <1>5, <1>6, <1>7, <1>8, <1>9 DEF SumStep

LEMMA TypesInit == Init => TypeOK
<1> SUFFICES ASSUME Init PROVE TypeOK
  OBVIOUS
<1> USE DEF Init, SystemInit, BufferInit, SumInit
<1>1. program \in [Process -> STRING]
  OBVIOUS
<1>2. \A p \in Process :
        program[p] \in Letters \cup {"printer", "writer", "nobody"} \cup SumPrograms
  BY OneExercise
<1>3. \A p \in Process : Entry(program[p]) \in {"semget", "shmget", "gone"}
  BY <1>2 DEF Entry
<1>4. pc \in [Process -> {"semget", "shmget", "gone"}]
  BY <1>3
<1>5. SystemTypeOK
  <2>1. pc \in [Process -> Label]
    BY <1>4 DEF Label
  <2>2. /\ i \in [Process -> Nat] /\ undo \in [Process -> Int]
        /\ semId \in [Process -> {"none", "valid", "stale"}]
    OBVIOUS
  <2>3. /\ program \in Scenarios /\ exists \in BOOLEAN /\ segment \in BOOLEAN
        /\ attached = {} /\ hit = {}
    BY Zenon
  <2>4. starts \in Nat /\ value \in 0 .. SemMax /\ base \in 0 .. 1
    OBVIOUS
  <2> QED  BY <2>1, <2>2, <2>3, <2>4 DEF SystemTypeOK
<1>6. IndexOK
  BY <1>4 DEF IndexOK
<1>7. BufferTypeOK /\ SumTypeOK
  BY DEF BufferTypeOK, SumTypeOK
<1> QED  BY <1>5, <1>6, <1>7 DEF TypeOK

\* Who runs what: a process' program is one of the exercises' or nobody's.
LEMMA Programs ==
  ASSUME program \in Scenarios, NEW p \in Process
  PROVE  program[p] \in Letters \cup {"printer", "writer", "nobody"} \cup SumPrograms
BY OneExercise

LEMMA TypesNext == TypeOK /\ [Next]_vars => TypeOK'
<1> SUFFICES ASSUME TypeOK, [Next]_vars PROVE TypeOK'
  OBVIOUS
<1>1. ASSUME UNCHANGED sumVars PROVE SumTypeOK'
  BY <1>1 DEF TypeOK, SumTypeOK, sumVars
<1>2. ASSUME UNCHANGED bufferVars PROVE BufferTypeOK'
  BY <1>2 DEF TypeOK, BufferTypeOK, bufferVars
<1>3. ASSUME NEW p \in Process, Step(p) PROVE TypeOK'
  BY <1>1, <1>2, <1>3, LettersTypes, BufferTypes, SumTypes DEF Step, TypeOK
<1>4. ASSUME NEW p \in Process, Type(p) PROVE TypeOK'
  BY <1>1, <1>4, InputTypes DEF Type, TypeOK
<1>5. ASSUME NEW p \in Process, Interrupt(p) PROVE TypeOK'
  <2>1. Terminate(p, {"kill"})
    BY <1>5 DEF Interrupt, Kill
  <2>2. SystemTypeOK' /\ IndexOK'
    BY <2>1, TerminateTypes DEF TypeOK
  <2>3. BufferTypeOK' /\ SumTypeOK'
    BY <1>5 DEF Interrupt, TypeOK, BufferTypeOK, SumTypeOK
  <2> QED  BY <2>2, <2>3 DEF TypeOK
<1>6. ASSUME NEW p \in Process, StartAgain(p) PROVE TypeOK'
  <2>1. /\ program[p] # "nobody" /\ pc[p] = "gone" /\ Goto(p, Entry(program[p]))
        /\ starts' = starts + 1
        /\ UNCHANGED <<program, i, semVars, shmVars, hit, bufferVars, sumVars>>
    BY <1>6 DEF StartAgain, Restart, Alive
  <2>2. program \in Scenarios
    BY DEF TypeOK, SystemTypeOK
  <2>3. Entry(program[p]) \in {"semget", "shmget"}
    BY <2>1, <2>2, Programs DEF Entry
  <2>4. SystemTypeOK' /\ IndexOK'
    BY <2>1, <2>3, GotoTypes
    DEF TypeOK, SystemTypeOK, IndexOK, semVars, shmVars, Label
  <2> QED  BY <2>1, <2>4, <1>1, <1>2 DEF TypeOK
<1>7. CASE UNCHANGED vars
  <2>1. UNCHANGED <<systemVars, bufferVars, sumVars>>
    BY <1>7 DEF vars
  <2>2. SystemTypeOK' /\ IndexOK'
    BY <2>1 DEF TypeOK, SystemTypeOK, IndexOK, systemVars, semVars, shmVars
  <2> QED  BY <2>1, <2>2, <1>1, <1>2 DEF TypeOK
<1> QED  BY <1>3, <1>4, <1>5, <1>6, <1>7 DEF Next

LEMMA ProgramStays == Next => program' = program
<1>1. ASSUME NEW p \in Process, LettersStep(p) PROVE program' = program
  BY <1>1 DEF LettersStep, LettersReturn, Leave, Terminate
<1>2. ASSUME NEW p \in Process, BufferStep(p) PROVE program' = program
  BY <1>2 DEF BufferStep, BufferCrash, Crash, Terminate
<1>3. ASSUME NEW p \in Process, SumStep(p) PROVE program' = program
  BY <1>3 DEF SumStep, SumReturn, Leave, Crash, Terminate
<1>4. ASSUME NEW p \in Process, Type(p) \/ Interrupt(p) \/ StartAgain(p)
      PROVE  program' = program
  BY <1>4 DEF Type, BufferInput, Interrupt, Kill, Terminate, StartAgain, Restart
<1> QED  BY <1>1, <1>2, <1>3, <1>4 DEF Next, Step

-----------------------------------------------------------------------------
(***************************************************************************)
(* Ex 1 and Ex 3, where the semaphore guards a region: what a step of a    *)
(* process is, as far as the semaphore and the region go.                  *)
(***************************************************************************)
Turning == \A p \in Process : program[p] \in Turns \cup {"nobody"}

\* Statements that are reached with the result of a semget() only.
NeedsId == {"semctl", "P", "upper", "lower", "load", "store", "V"}

Moves(p) ==
  /\ program' = program
  /\ pc' \in [Process -> Label]
  /\ \A q \in Process : q # p => pc'[q] = pc[q]

Stays(p) ==
  /\ UNCHANGED <<value, undo>>
  /\ hit' \in {hit, hit \cup {"zero"}}
  /\ Inside(p)' <=> Inside(p)
  /\ \/ semId' = semId
     \/ semId' = [semId EXCEPT ![p] = "valid"] /\ ~Inside(p)
  /\ pc'[p] \in NeedsId => pc[p] \in NeedsId \/ semId'[p] = "valid"

Takes(p) ==
  /\ pc[p] = "P" /\ ~Inside(p) /\ Inside(p)'
  /\ SemOp(p, -1, "SEM_UNDO")

Gives(p) ==
  /\ pc[p] = "V" /\ Inside(p) /\ ~Inside(p)'
  /\ SemOp(p, 1, "SEM_UNDO")

Sets(p) == pc[p] = "semctl" /\ pc'[p] = "P" /\ SemSet(p, 1)

Removes(p) == pc[p] = "end" /\ pc'[p] = "return" /\ SemRemove(p)

Dies(p) == \E fate \in {{}, {"kill"}} : Terminate(p, fate)

TurnStep(p) ==
  Moves(p) /\ (Stays(p) \/ Takes(p) \/ Gives(p) \/ Sets(p) \/ Removes(p) \/ Dies(p))

LEMMA LettersTurn ==
  ASSUME TypeOK, NEW p \in Process, LettersStep(p)
  PROVE  TurnStep(p)
<1> USE DEF At, TurnStep
<1>0. SystemTypeOK
  BY DEF TypeOK
<1>1. CASE LettersSemget(p) /\ UNCHANGED <<program, starts>>
  <2>1. pc[p] = "semget"
    BY <1>1 DEF LettersSemget
  <2>2. \E l \in {"semctl", "P"} : Goto(p, l)
    BY <1>1 DEF LettersSemget
  <2>3. UNCHANGED <<value, undo, hit>> /\ semId' = [semId EXCEPT ![p] = "valid"]
    BY <1>1 DEF LettersSemget, SemCreate, SemFind
  <2>4. semId'[p] = "valid"
    BY <2>3, <1>0 DEF SystemTypeOK
  <2>5. pc' \in [Process -> Label] /\ pc'[p] \in {"semctl", "P"} /\ \A q \in Process : q # p => pc'[q] = pc[q]
    BY <1>0, <2>2, GotoTypes DEF Label
  <2>6. Moves(p)
    BY <1>1, <2>5 DEF Moves
  <2>7. Stays(p)
    BY <2>1, <2>3, <2>4, <2>5 DEF Stays, Inside
  <2> QED  BY <2>6, <2>7
<1>2. CASE LettersSetSemValue(p) /\ UNCHANGED <<program, starts>>
  BY <1>0, <1>2, GotoTypes DEF LettersSetSemValue, Moves, Sets, Label
<1>3. CASE LettersP(p) /\ UNCHANGED <<program, starts>>
  <2>1. SemOp(p, -1, "SEM_UNDO") /\ Goto(p, "upper") /\ pc[p] = "P" /\ program[p] \in Turns
    BY <1>3 DEF LettersP, Turns
  <2> QED  BY <1>0, <1>3, <2>1, GotoTypes DEF Moves, Takes, Inside, Label
<1>4. CASE LettersPutchar(p) /\ UNCHANGED <<program, starts>>
  <2>1. /\ pc[p] \in {"upper", "lower"} /\ program[p] \in Turns
        /\ \E l \in {"lower", "V"} : Goto(p, l)
    BY <1>4 DEF LettersPutchar, Turns
  <2>2. pc' \in [Process -> Label] /\ pc'[p] \in {"lower", "V"} /\ \A q \in Process : q # p => pc'[q] = pc[q]
    BY <1>0, <2>1, GotoTypes DEF Label
  <2>3. NoSemCall
    BY <1>4 DEF LettersPutchar
  <2> QED  BY <1>4, <2>1, <2>2, <2>3 DEF Moves, Stays, Inside, NeedsId, NoSemCall, semVars
<1>5. CASE LettersV(p) /\ UNCHANGED <<program, starts>>
  <2>1. SemOp(p, 1, "SEM_UNDO") /\ pc[p] = "V" /\ program[p] \in Turns
    BY <1>5 DEF LettersV, Turns
  <2>2. \E l \in {"P", "end"} : Goto(p, l)
    BY <1>5 DEF LettersV
  <2>3. pc' \in [Process -> Label] /\ pc'[p] \in {"P", "end"} /\ \A q \in Process : q # p => pc'[q] = pc[q]
    BY <1>0, <2>2, GotoTypes DEF Label
  <2> QED  BY <1>5, <2>1, <2>3 DEF Moves, Gives, Inside
<1>6. CASE LettersDelSemValue(p) /\ UNCHANGED <<program, starts>>
  BY <1>0, <1>6, GotoTypes DEF LettersDelSemValue, Moves, Removes, Label
<1>7. CASE LettersReturn(p)
  <2>1. Terminate(p, {})
    BY <1>7 DEF LettersReturn, Leave
  <2>2. Goto(p, "gone") /\ program' = program
    BY <2>1 DEF Terminate
  <2> QED  BY <1>0, <2>1, <2>2, GotoTypes DEF Moves, Dies, Label
<1> QED  BY <1>1, <1>2, <1>3, <1>4, <1>5, <1>6, <1>7 DEF LettersStep

LEMMA SumTurn ==
  ASSUME TypeOK, NEW p \in Process, SumStep(p)
  PROVE  TurnStep(p)
<1> USE DEF At, TurnStep
<1>0. SystemTypeOK
  BY DEF TypeOK
<1>1. CASE SumShmget(p) /\ UNCHANGED <<program, starts>>
  <2>1. pc[p] = "shmget" /\ NoSemCall
    BY <1>1 DEF SumShmget
  <2>2. \E l \in {"zero", "semget"} : Goto(p, l)
    BY <1>1 DEF SumShmget
  <2>3. pc' \in [Process -> Label] /\ pc'[p] \in {"zero", "semget"} /\ \A q \in Process : q # p => pc'[q] = pc[q]
    BY <1>0, <2>2, GotoTypes DEF Label
  <2> QED  BY <1>1, <2>1, <2>3 DEF Moves, Stays, Inside, NeedsId, NoSemCall, semVars
<1>2. CASE SumZero(p) /\ UNCHANGED <<program, starts>>
  <2>1. /\ pc[p] = "zero" /\ Goto(p, "semget") /\ UNCHANGED semVars
        /\ hit' \in {hit, hit \cup {"zero"}}
    BY <1>2 DEF SumZero
  <2> QED  BY <1>0, <1>2, <2>1, GotoTypes DEF Moves, Stays, Inside, NeedsId, semVars, Label
<1>3. CASE SumSemaphore(p) /\ UNCHANGED <<program, starts>>
  <2>1. CASE SemCreate(p) /\ Goto(p, "semctl") /\ pc[p] = "semget"
    <3>1. UNCHANGED <<value, undo, hit>> /\ semId' = [semId EXCEPT ![p] = "valid"]
      BY <2>1 DEF SemCreate
    <3>2. semId'[p] = "valid"
      BY <3>1, <1>0 DEF SystemTypeOK
    <3> QED  BY <1>0, <1>3, <2>1, <3>1, <3>2, GotoTypes DEF Moves, Stays, Inside, Label
  <2>2. CASE SemSet(p, 1) /\ Goto(p, "P") /\ pc[p] = "semctl"
    BY <1>0, <1>3, <2>2, GotoTypes DEF Moves, Sets, Label
  <2> QED  BY <1>3, <2>1, <2>2 DEF SumSemaphore
<1>4. CASE SumP(p) /\ UNCHANGED <<program, starts>>
  <2>1. SemOp(p, -1, "SEM_UNDO") /\ Goto(p, "load") /\ pc[p] = "P" /\ program[p] \in Turns
    BY <1>4 DEF SumP, Turns
  <2> QED  BY <1>0, <1>4, <2>1, GotoTypes DEF Moves, Takes, Inside, Label
<1>5. CASE SumLoad(p) /\ UNCHANGED <<program, starts>>
  <2>1. pc[p] = "load" /\ Goto(p, "store") /\ NoSemCall /\ program[p] \in Turns
    BY <1>5 DEF SumLoad, Turns
  <2> QED  BY <1>0, <1>5, <2>1, GotoTypes DEF Moves, Stays, Inside, NeedsId, NoSemCall, semVars, Label
<1>6. CASE SumStore(p) /\ UNCHANGED <<program, starts>>
  <2>1. pc[p] = "store" /\ Goto(p, "V") /\ NoSemCall /\ program[p] \in Turns
    BY <1>6 DEF SumStore, Turns
  <2> QED  BY <1>0, <1>6, <2>1, GotoTypes DEF Moves, Stays, Inside, NeedsId, NoSemCall, semVars, Label
<1>7. CASE SumV(p) /\ UNCHANGED <<program, starts>>
  <2>1. SemOp(p, 1, "SEM_UNDO") /\ pc[p] = "V" /\ program[p] \in Turns
    BY <1>7 DEF SumV, Turns
  <2>2. \E l \in {"P", "shmdt"} : Goto(p, l)
    BY <1>7 DEF SumV
  <2>3. pc' \in [Process -> Label] /\ pc'[p] \in {"P", "shmdt"} /\ \A q \in Process : q # p => pc'[q] = pc[q]
    BY <1>0, <2>2, GotoTypes DEF Label
  <2> QED  BY <1>7, <2>1, <2>3 DEF Moves, Gives, Inside
<1>8. CASE SumShmdt(p) /\ UNCHANGED <<program, starts>>
  <2>1. pc[p] = "shmdt" /\ Goto(p, "return") /\ NoSemCall
    BY <1>8 DEF SumShmdt
  <2> QED  BY <1>0, <1>8, <2>1, GotoTypes DEF Moves, Stays, Inside, NeedsId, NoSemCall, semVars, Label
<1>9. CASE SumReturn(p)
  <2>1. \E fate \in {{}, {"kill"}} : Terminate(p, fate)
    BY <1>9 DEF SumReturn, Leave, Crash
  <2>2. Goto(p, "gone") /\ program' = program
    BY <2>1 DEF Terminate
  <2> QED  BY <1>0, <2>1, <2>2, GotoTypes DEF Moves, Dies, Label
<1> QED  BY <1>1, <1>2, <1>3, <1>4, <1>5, <1>6, <1>7, <1>8, <1>9 DEF SumStep

LEMMA OtherTurn ==
  ASSUME TypeOK, NEW p \in Process, Interrupt(p) \/ StartAgain(p)
  PROVE  TurnStep(p)
<1>0. SystemTypeOK
  BY DEF TypeOK
<1>1. CASE Interrupt(p)
  <2>1. Terminate(p, {"kill"})
    BY <1>1 DEF Interrupt, Kill
  <2>2. Goto(p, "gone") /\ program' = program
    BY <2>1 DEF Terminate
  <2> QED  BY <1>0, <2>1, <2>2, GotoTypes DEF TurnStep, Moves, Dies, Label
<1>2. CASE StartAgain(p)
  <2>1. /\ program[p] # "nobody" /\ pc[p] = "gone" /\ Goto(p, Entry(program[p]))
        /\ UNCHANGED <<program, semVars, hit>>
    BY <1>2 DEF StartAgain, Restart, Alive
  <2>2. Entry(program[p]) \in {"semget", "shmget"}
    BY <1>0, <2>1, Programs DEF SystemTypeOK, Entry
  <2>3. pc' \in [Process -> Label] /\ pc'[p] \in {"semget", "shmget"} /\ \A q \in Process : q # p => pc'[q] = pc[q]
    BY <1>0, <2>1, <2>2, GotoTypes DEF Label
  <2> QED  BY <2>1, <2>3 DEF TurnStep, Moves, Stays, Inside, NeedsId, semVars
<1> QED  BY <1>1, <1>2

\* Programs of Ex 2 do not run in these scenarios.
LEMMA TurningSteps ==
  ASSUME TypeOK, Turning, Next
  PROVE  \E p \in Process : TurnStep(p)
<1>1. ASSUME NEW p \in Process PROVE ~BufferStep(p) /\ ~BufferInput(p)
  <2>1. program[p] \notin {"writer", "printer"}
    BY DEF Turning, Turns, Letters, SumPrograms, Adders, Zeroers
  <2> QED
    BY <2>1
    DEF BufferStep, BufferInput, WriterSetup, BufferP, PrinterSetup, PrinterPutchar, BufferV,
        BufferCrash, WriterGetchar, At
<1> QED  BY <1>1, LettersTurn, SumTurn, OtherTurn DEF Next, Step, Type

-----------------------------------------------------------------------------
(***************************************************************************)
(* The invariant behind Exclusive: as long as no SETVAL forgot an          *)
(* operation and nobody removed the semaphore of the others, the process   *)
(* in the region is the one the kernel would undo for, it is alone, and it *)
(* has taken the semaphore's one.                                          *)
(***************************************************************************)
Undisturbed == hit \cap {"reset", "remove"} = {}

TurnInv ==
  Turning /\ Undisturbed =>
    /\ \A p \in Process : pc[p] \in NeedsId => semId[p] = "valid"
    /\ \A p \in Process : undo[p] = IF Inside(p) THEN 1 ELSE 0
    /\ \A p, q \in Process : Inside(p) /\ Inside(q) => p = q
    /\ value \in {0, 1}
    /\ (\E p \in Process : Inside(p)) => value = 0

LEMMA InsideNeedsId == \A p \in Process : Inside(p) => pc[p] \in NeedsId
BY DEF Inside, NeedsId

LEMMA InsideMoves ==
  ASSUME NEW p \in Process, Moves(p)
  PROVE  \A q \in Process : q # p => (Inside(q)' <=> Inside(q))
BY DEF Moves, Inside

LEMMA HitGrows ==
  ASSUME NEW p \in Process, TurnStep(p)
  PROVE  hit \subseteq hit'
<1>1. CASE Stays(p)
  BY <1>1 DEF Stays
<1>2. CASE Takes(p) \/ Gives(p)
  BY <1>2 DEF Takes, Gives, SemOp, NoSemCall
<1>3. CASE Sets(p)
  BY <1>3 DEF Sets, SemSet, NoSemCall
<1>4. CASE Removes(p)
  BY <1>4 DEF Removes, SemRemove, NoSemCall
<1>5. CASE Dies(p)
  BY <1>5 DEF Dies, Terminate
<1> QED  BY <1>1, <1>2, <1>3, <1>4, <1>5 DEF TurnStep

LEMMA TurnKeeps ==
  ASSUME TypeOK, TurnInv, NEW p \in Process, TurnStep(p)
  PROVE  TurnInv'
<1> SUFFICES ASSUME Turning', Undisturbed'
             PROVE  /\ \A q \in Process : pc'[q] \in NeedsId => semId'[q] = "valid"
                    /\ \A q \in Process : undo'[q] = IF Inside(q)' THEN 1 ELSE 0
                    /\ \A q, r \in Process : Inside(q)' /\ Inside(r)' => q = r
                    /\ value' \in {0, 1}
                    /\ (\E q \in Process : Inside(q)') => value' = 0
  BY DEF TurnInv
<1>1. Turning /\ Undisturbed
  <2>1. program' = program
    BY DEF TurnStep, Moves
  <2> QED  BY <2>1, HitGrows DEF Turning, Undisturbed
<1>2. /\ \A q \in Process : pc[q] \in NeedsId => semId[q] = "valid"
      /\ \A q \in Process : undo[q] = IF Inside(q) THEN 1 ELSE 0
      /\ \A q, r \in Process : Inside(q) /\ Inside(r) => q = r
      /\ value \in {0, 1}
      /\ (\E q \in Process : Inside(q)) => value = 0
  BY <1>1 DEF TurnInv
<1>3. Moves(p) /\ SystemTypeOK
  BY DEF TurnStep, TypeOK
<1>4. \A q \in Process : q # p => (Inside(q)' <=> Inside(q)) /\ pc'[q] = pc[q]
  BY <1>3, InsideMoves DEF Moves
<1>5. CASE Stays(p)
  <2>1. \A q \in Process : Inside(q)' <=> Inside(q)
    BY <1>4, <1>5 DEF Stays
  <2>2. \A q \in Process : q # p => semId'[q] = semId[q]
    BY <1>3, <1>5 DEF Stays, SystemTypeOK
  <2>3. semId[p] = "valid" => semId'[p] = "valid"
    BY <1>3, <1>5 DEF Stays, SystemTypeOK
  <2>4. \A q \in Process : pc'[q] \in NeedsId => semId'[q] = "valid"
    BY <1>2, <1>4, <1>5, <2>2, <2>3 DEF Stays
  <2> QED  BY <1>2, <1>5, <2>1, <2>4 DEF Stays
<1>6. CASE Takes(p)
  <2>1. semId[p] = "valid" /\ undo[p] = 0
    BY <1>2, <1>6 DEF Takes, NeedsId
  <2>2. InRange(p, -1)
    BY <1>2, <2>1 DEF InRange
  <2>3. value - 1 >= 0 /\ value' = value - 1 /\ undo' = [undo EXCEPT ![p] = @ + 1] /\ semId' = semId
    BY <1>2, <1>3, <1>6, <2>1, <2>2 DEF Takes, SemOp, SystemTypeOK
  <2>4. value = 1 /\ value' = 0 /\ \A q \in Process : ~Inside(q)
    BY <1>2, <2>3
  <2>5. undo'[p] = 1 /\ \A q \in Process : q # p => undo'[q] = undo[q]
    BY <1>3, <2>1, <2>3 DEF SystemTypeOK
  <2>6. \A q \in Process : Inside(q)' <=> q = p
    BY <1>4, <1>6, <2>4 DEF Takes
  <2>7. \A q \in Process : undo'[q] = IF Inside(q)' THEN 1 ELSE 0
    BY <1>2, <2>4, <2>5, <2>6
  <2>8. \A q \in Process : pc'[q] \in NeedsId => semId'[q] = "valid"
    BY <1>2, <1>4, <2>1, <2>3
  <2> QED  BY <2>4, <2>6, <2>7, <2>8
<1>7. CASE Gives(p)
  <2>1. semId[p] = "valid" /\ undo[p] = 1 /\ value = 0
    BY <1>2, <1>7 DEF Gives, NeedsId
  <2>2. InRange(p, 1)
    BY <2>1 DEF InRange
  <2>3. value' = value + 1 /\ undo' = [undo EXCEPT ![p] = @ - 1] /\ semId' = semId
    BY <1>3, <1>7, <2>1, <2>2 DEF Gives, SemOp, SystemTypeOK
  <2>4. value' = 1
    BY <2>1, <2>3
  <2>5. undo'[p] = 0 /\ \A q \in Process : q # p => undo'[q] = undo[q]
    BY <1>3, <2>1, <2>3 DEF SystemTypeOK
  <2>6. \A q \in Process : ~Inside(q)'
    BY <1>2, <1>4, <1>7 DEF Gives
  <2>7. \A q \in Process : undo'[q] = IF Inside(q)' THEN 1 ELSE 0
    BY <1>2, <1>4, <2>5, <2>6
  <2>8. \A q \in Process : pc'[q] \in NeedsId => semId'[q] = "valid"
    BY <1>2, <1>4, <2>1, <2>3
  <2> QED  BY <2>4, <2>6, <2>7, <2>8
<1>8. CASE Sets(p)
  <2>1. semId[p] = "valid"
    BY <1>2, <1>8 DEF Sets, NeedsId
  <2>2. /\ value' = 1 /\ undo' = [q \in Process |-> 0] /\ semId' = semId
        /\ (\E q \in Process : undo[q] # 0) => hit' = hit \cup {"reset"}
    BY <1>8, <2>1 DEF Sets, SemSet
  <2>3. \A q \in Process : undo[q] = 0
    BY <2>2 DEF Undisturbed
  <2>4. \A q \in Process : ~Inside(q)
    BY <1>2, <2>3
  <2>5. \A q \in Process : ~Inside(q)'
    BY <1>4, <1>8, <2>4 DEF Sets, Inside
  <2>6. \A q \in Process : pc'[q] \in NeedsId => semId'[q] = "valid"
    BY <1>2, <1>4, <2>1, <2>2
  <2> QED  BY <2>2, <2>5, <2>6
<1>9. CASE Removes(p)
  <2>1. CASE semId[p] = "valid"
    <3>1. /\ value' = 0 /\ undo' = [q \in Process |-> 0]
          /\ (\E q \in Process \ {p} : semId[q] = "valid") => hit' = hit \cup {"remove"}
      BY <1>9, <2>1 DEF Removes, SemRemove
    <3>2. \A q \in Process : q # p => semId[q] # "valid"
      BY <3>1 DEF Undisturbed
    <3>3. \A q \in Process : pc'[q] \notin NeedsId
      BY <1>2, <1>4, <1>9, <3>2 DEF Removes, NeedsId
    <3>4. \A q \in Process : ~Inside(q)'
      BY <3>3 DEF Inside, NeedsId
    <3> QED  BY <3>1, <3>3, <3>4
  <2>2. CASE semId[p] # "valid"
    <3>1. UNCHANGED <<semId, value, undo>>
      BY <1>9, <2>2 DEF Removes, SemRemove, NoSemCall, semVars
    <3>2. \A q \in Process : Inside(q)' <=> Inside(q)
      BY <1>4, <1>9 DEF Removes, Inside
    <3>3. \A q \in Process : pc'[q] \in NeedsId => semId'[q] = "valid"
      BY <1>2, <1>4, <1>9, <3>1 DEF Removes, NeedsId
    <3> QED  BY <1>2, <3>1, <3>2, <3>3
  <2> QED  BY <2>1, <2>2
<1>10. CASE Dies(p)
  <2>1. /\ pc' = [pc EXCEPT ![p] = "gone"]
        /\ semId' = [semId EXCEPT ![p] = "none"]
        /\ undo' = [undo EXCEPT ![p] = 0]
        /\ value' = Min({SemMax, Max({0, Undone(p)})})
    BY <1>10 DEF Dies, Terminate, Goto
  <2>2. Undone(p) = (IF Inside(p) THEN 1 ELSE value) /\ Undone(p) \in {0, 1}
    BY <1>2 DEF Undone
  <2>3. value' = Undone(p)
    BY <2>1, <2>2, Clamp
  <2>4. ~Inside(p)' /\ pc'[p] = "gone"
    BY <1>3, <2>1 DEF SystemTypeOK, Inside
  <2>5. undo'[p] = 0 /\ \A q \in Process : q # p => undo'[q] = undo[q] /\ semId'[q] = semId[q]
    BY <1>3, <2>1 DEF SystemTypeOK
  <2>6. \A q \in Process : undo'[q] = IF Inside(q)' THEN 1 ELSE 0
    BY <1>2, <1>4, <2>4, <2>5
  <2>7. \A q \in Process : pc'[q] \in NeedsId => semId'[q] = "valid"
    BY <1>2, <1>4, <2>4, <2>5 DEF NeedsId
  <2>8. \A q, r \in Process : Inside(q)' /\ Inside(r)' => q = r
    BY <1>2, <1>4, <2>4
  <2>9. (\E q \in Process : Inside(q)') => value' = 0
    BY <1>2, <1>4, <2>2, <2>3, <2>4
  <2> QED  BY <2>2, <2>3, <2>6, <2>7, <2>8, <2>9
<1> QED  BY <1>5, <1>6, <1>7, <1>8, <1>9, <1>10 DEF TurnStep

Buffering == \A p \in Process : program[p] \in {"writer", "printer", "nobody"}
Summing == \A p \in Process : program[p] \in SumPrograms \cup {"nobody"}
Lettering == \A p \in Process : program[p] \in Letters \cup {"nobody"}

LEMMA Exercises ==
  ASSUME program \in Scenarios
  PROVE  Lettering \/ Buffering \/ Summing
<1>1. PICK exercise \in {Letters, {"writer", "printer"}, SumPrograms} :
        \A p \in Process : program[p] \in exercise \cup {"nobody"}
  BY OneExercise
<1> QED  BY <1>1 DEF Lettering, Buffering, Summing

LEMMA TurnInvInit == Init => TurnInv
<1> SUFFICES ASSUME Init PROVE TurnInv
  OBVIOUS
<1>1. TypeOK
  BY TypesInit
<1>2. \A p \in Process : pc[p] \in {"semget", "shmget", "gone"}
  <2>1. program \in Scenarios /\ pc = [p \in Process |-> Entry(program[p])]
    BY DEF Init, SystemInit
  <2> QED  BY <2>1, Programs DEF Entry
<1>3. \A p \in Process : ~Inside(p) /\ pc[p] \notin NeedsId
  BY <1>2 DEF Inside, NeedsId
<1>4. value = 0 /\ undo = [p \in Process |-> 0]
  BY DEF Init, SystemInit
<1> QED  BY <1>3, <1>4 DEF TurnInv

LEMMA TurnInvNext == TypeOK /\ TurnInv /\ [Next]_vars => TurnInv'
<1> SUFFICES ASSUME TypeOK, TurnInv, [Next]_vars PROVE TurnInv'
  OBVIOUS
<1>1. CASE Next /\ Turning
  BY <1>1, TurningSteps, TurnKeeps
<1>2. CASE Next /\ ~Turning
  <2>1. program' = program
    BY <1>2, ProgramStays
  <2> QED  BY <1>2, <2>1 DEF TurnInv, Turning
<1>3. CASE UNCHANGED vars
  BY <1>3 DEF vars, systemVars, semVars, TurnInv, Turning, Undisturbed, Inside
<1> QED  BY <1>1, <1>2, <1>3

LEMMA TypesTheorem == Spec => []TypeOK
BY TypesInit, TypesNext, PTL DEF Spec

LEMMA TurnInvTheorem == Spec => []TurnInv
BY TypesTheorem, TurnInvInit, TurnInvNext, PTL DEF Spec

LEMMA OneInside ==
  ASSUME TypeOK, TurnInv
  PROVE  Exclusive
<1> DEFINE S == {p \in Process : Inside(p)}
<1> SUFFICES ASSUME Undisturbed PROVE Cardinality(S) <= 1
  BY DEF Exclusive, Undisturbed
<1>1. \A p, q \in S : p = q
  <2>1. CASE Turning
    BY <2>1 DEF TurnInv
  <2>2. CASE Buffering
    BY <2>2 DEF Buffering, Inside, Turns, Letters, SumPrograms, Adders, Zeroers
  <2>3. Turning \/ Buffering
    BY Exercises DEF TypeOK, SystemTypeOK, Turning, Turns, Summing, Lettering
  <2> QED  BY <2>1, <2>2, <2>3
<1>2. CASE S = {}
  <2>1. Cardinality({}) = 0
    BY FS_EmptySet
  <2> QED  BY <1>2, <2>1
<1>3. CASE S # {}
  <2>1. PICK p \in S : S = {p}
    BY <1>1, <1>3
  <2> QED  BY <2>1, FS_Singleton
<1> QED  BY <1>2, <1>3

\* However often processes are killed and started again, no two of them are
\* in the region of Ex 1 or Ex 3 at once, unless a SETVAL or an IPC_RMID
\* disturbed the semaphore (LettersP, LettersV, SumP, SumV; SEM_UNDO).
THEOREM ExclusiveTheorem == Spec => []Exclusive
BY TypesTheorem, TurnInvTheorem, OneInside, PTL

-----------------------------------------------------------------------------
(***************************************************************************)
(* The invariant behind NothingLost: who is between the load and the store *)
(* has the current sum in hand.  Nobody else can change it, because he is  *)
(* alone in the region; nobody of Ex 3 removes the semaphore.              *)
(***************************************************************************)
SumInv ==
  /\ ~Summing => mem = due
  /\ Summing => "remove" \notin hit
  /\ Summing /\ hit \cap {"reset", "zero"} = {} =>
       /\ mem = due
       /\ \A p \in Process : At(p, SumPrograms, "store") => loaded[p] = mem

LEMMA SumInvInit == Init => SumInv
<1> SUFFICES ASSUME Init PROVE SumInv
  OBVIOUS
<1>1. mem = due /\ hit = {}
  BY DEF Init, SystemInit, SumInit
<1>2. \A p \in Process : pc[p] # "store"
  <2>1. program \in Scenarios /\ pc = [p \in Process |-> Entry(program[p])]
    BY DEF Init, SystemInit
  <2> QED  BY <2>1, Programs DEF Entry
<1> QED  BY <1>1, <1>2 DEF SumInv, At

LEMMA SumHit ==
  ASSUME NEW p \in Process, SumStep(p) \/ Interrupt(p) \/ StartAgain(p), "remove" \notin hit
  PROVE  "remove" \notin hit'
<1>1. \A v \in {1} : SemSet(p, v) => "remove" \notin hit'
  BY DEF SemSet, NoSemCall
<1>2. \A n \in {-1, 1} : SemOp(p, n, "SEM_UNDO") => "remove" \notin hit'
  BY DEF SemOp, NoSemCall
<1>3. \A fate \in {{}, {"kill"}} : Terminate(p, fate) => "remove" \notin hit'
  BY DEF Terminate
<1>4. CASE SumStep(p)
  BY <1>1, <1>2, <1>3, <1>4
  DEF SumStep, SumShmget, SumZero, SumSemaphore, SumP, SumLoad, SumStore, SumV, SumShmdt,
      SumReturn, SemCreate, NoSemCall, Leave, Crash
<1>5. CASE Interrupt(p)
  BY <1>3, <1>5 DEF Interrupt, Kill
<1>6. CASE StartAgain(p)
  BY <1>6 DEF StartAgain, Restart
<1> QED  BY <1>4, <1>5, <1>6

\* A step that neither loads nor stores keeps who is about to store what.
LEMMA SumRest ==
  ASSUME TypeOK, SumInv, Summing, "remove" \notin hit', hit \subseteq hit',
         NEW p \in Process, Moves(p), UNCHANGED <<mem, due>>,
         pc'[p] # "store",
         \A q \in Process : q # p => loaded'[q] = loaded[q]
  PROVE  SumInv'
<1>1. program' = program /\ \A q \in Process : At(q, SumPrograms, "store")' => At(q, SumPrograms, "store") /\ q # p
  BY DEF Moves, At
<1> QED  BY <1>1 DEF SumInv, Summing

LEMMA SumInvNext == TypeOK /\ TurnInv /\ SumInv /\ [Next]_vars => SumInv'
<1> SUFFICES ASSUME TypeOK, TurnInv, SumInv, [Next]_vars PROVE SumInv'
  OBVIOUS
<1>0. SystemTypeOK /\ SumTypeOK
  BY DEF TypeOK
<1>1. CASE Next /\ ~Summing
  <2>1. \A p \in Process : ~SumStep(p)
    <3>1. \A p \in Process : program[p] \notin SumPrograms
      BY <1>0, <1>1, Exercises
      DEF SystemTypeOK, Lettering, Buffering, Letters, SumPrograms, Adders, Zeroers
    <3>2. Zeroers \subseteq SumPrograms
      BY DEF SumPrograms
    <3> QED
      BY <3>1, <3>2
      DEF SumStep, SumShmget, SumZero, SumSemaphore, SumP, SumLoad, SumStore, SumV, SumShmdt,
          SumReturn, At
  <2>2. UNCHANGED <<mem, due>>
    BY <1>1, <2>1 DEF Next, Step, Type, Interrupt, StartAgain, sumVars
  <2>3. program' = program
    BY <1>1, ProgramStays
  <2> QED  BY <1>1, <2>2, <2>3 DEF SumInv, Summing
<1>2. CASE Next /\ Summing
  <2>1. Turning
    BY <1>2 DEF Summing, Turning, Turns
  <2>2. \A p \in Process : program[p] \notin Letters \cup {"writer", "printer"}
    BY <1>2 DEF Summing, SumPrograms, Adders, Zeroers, Letters
  <2>3. \A p \in Process : ~LettersStep(p) /\ ~BufferStep(p) /\ ~Type(p)
    <3>1. \A p \in Process : ~LettersStep(p)
      BY <2>2
      DEF LettersStep, LettersSemget, LettersSetSemValue, LettersP, LettersPutchar, LettersV,
          LettersDelSemValue, LettersReturn, At, Letters
    <3>2. \A p \in Process : ~BufferStep(p) /\ ~Type(p)
      BY <2>2
      DEF BufferStep, BufferInput, WriterSetup, BufferP, PrinterSetup, PrinterPutchar, BufferV,
          BufferCrash, WriterGetchar, At, Type
    <3> QED  BY <3>1, <3>2
  <2>4. PICK p \in Process : SumStep(p) \/ Interrupt(p) \/ StartAgain(p)
    BY <1>2, <2>3 DEF Next, Step
  <2>5. "remove" \notin hit'
    BY <1>2, <2>4, SumHit DEF SumInv
  <2>6. TurnStep(p)
    BY <2>1, <2>4, SumTurn, OtherTurn
  <2>7. Moves(p) /\ hit \subseteq hit'
    BY <2>6, HitGrows DEF TurnStep
  <2>8. CASE SumZero(p) /\ UNCHANGED <<program, starts>>
    <3>1. CASE \E q \in Process : At(q, SumPrograms, "store")
      BY <2>5, <2>7, <2>8, <3>1 DEF SumZero, SumInv, Summing, Moves
    <3>2. CASE \A q \in Process : ~At(q, SumPrograms, "store")
      <4>1. mem' = 0 /\ due' = 0 /\ Goto(p, "semget")
        BY <2>8 DEF SumZero
      <4>2. pc'[p] = "semget"
        BY <1>0, <4>1, GotoTypes DEF Label
      <4>3. \A q \in Process : ~At(q, SumPrograms, "store")'
        BY <2>7, <3>2, <4>2 DEF At, Moves
      <4> QED  BY <2>5, <4>1, <4>3 DEF SumInv
    <3> QED  BY <3>1, <3>2
  <2>9. CASE SumLoad(p) /\ UNCHANGED <<program, starts>>
    <3>1. loaded' = [loaded EXCEPT ![p] = mem] /\ UNCHANGED <<mem, due>>
      BY <2>9 DEF SumLoad
    <3>2. loaded'[p] = mem /\ \A q \in Process : q # p => loaded'[q] = loaded[q]
      BY <1>0, <3>1 DEF SumTypeOK
    <3> QED  BY <2>5, <2>7, <3>1, <3>2 DEF SumInv, Summing, Moves, At
  <2>10. CASE SumStore(p) /\ UNCHANGED <<program, starts>>
    <3>1. SUFFICES ASSUME hit' \cap {"reset", "zero"} = {}
                   PROVE  mem' = due' /\ \A q \in Process : ~At(q, SumPrograms, "store")'
      BY <1>2, <2>5, <2>7 DEF SumInv, Summing, Moves
    <3>2. mem = due /\ loaded[p] = mem
      BY <1>2, <2>7, <2>10, <3>1 DEF SumInv, SumStore
    <3>3. mem' = loaded[p] + Term(p) /\ due' = due + Term(p)
      BY <2>10 DEF SumStore
    <3>4. Undisturbed
      BY <1>2, <2>7, <3>1 DEF SumInv, Undisturbed
    <3>5. Inside(p)
      BY <2>10 DEF SumStore, At, Inside, Turns
    <3>6. \A q \in Process : At(q, SumPrograms, "store") => q = p
      <4>1. \A q \in Process : At(q, SumPrograms, "store") => Inside(q)
        BY DEF At, Inside, Turns
      <4> QED  BY <2>1, <3>4, <3>5, <4>1 DEF TurnInv
    <3>7. pc'[p] = "V"
      BY <1>0, <2>10, GotoTypes DEF SumStore, Label
    <3> QED  BY <2>7, <3>2, <3>3, <3>6, <3>7 DEF Moves, At
  <2>11. CASE /\ SumShmget(p) \/ SumSemaphore(p) \/ SumP(p) \/ SumV(p) \/ SumShmdt(p)
              /\ UNCHANGED <<program, starts>>
    <3>1. UNCHANGED sumVars
      BY <2>11 DEF SumShmget, SumSemaphore, SumP, SumV, SumShmdt
    <3>2. \E l \in Label \ {"store"} : Goto(p, l)
      BY <2>11 DEF SumShmget, SumSemaphore, SumP, SumV, SumShmdt, Label
    <3>3. pc'[p] # "store"
      BY <1>0, <3>2, GotoTypes
    <3> QED  BY <1>2, <2>5, <2>7, <3>1, <3>3, SumRest DEF sumVars
  <2>12. CASE SumReturn(p)
    <3>1. UNCHANGED sumVars /\ Goto(p, "gone")
      BY <2>12 DEF SumReturn, Leave, Crash, Terminate
    <3>2. pc'[p] # "store"
      BY <1>0, <3>1, GotoTypes DEF Label
    <3> QED  BY <1>2, <2>5, <2>7, <3>1, <3>2, SumRest DEF sumVars
  <2>13. CASE Interrupt(p)
    <3>1. UNCHANGED <<mem, due>> /\ loaded' = [loaded EXCEPT ![p] = 0] /\ Goto(p, "gone")
      BY <2>13 DEF Interrupt, Kill, Terminate
    <3>2. pc'[p] # "store" /\ \A q \in Process : q # p => loaded'[q] = loaded[q]
      BY <1>0, <3>1, GotoTypes DEF Label, SumTypeOK
    <3> QED  BY <1>2, <2>5, <2>7, <3>1, <3>2, SumRest
  <2>14. CASE StartAgain(p)
    <3>1. UNCHANGED sumVars /\ Goto(p, Entry(program[p])) /\ program[p] # "nobody"
      BY <2>14 DEF StartAgain, Restart
    <3>2. Entry(program[p]) \in Label \ {"store"}
      BY <1>0, <3>1, Programs DEF SystemTypeOK, Entry, Label
    <3>3. pc'[p] # "store"
      BY <1>0, <3>1, <3>2, GotoTypes
    <3> QED  BY <1>2, <2>5, <2>7, <3>1, <3>3, SumRest DEF sumVars
  <2> QED  BY <2>4, <2>8, <2>9, <2>10, <2>11, <2>12, <2>13, <2>14 DEF SumStep
<1>3. CASE UNCHANGED vars
  <2>1. UNCHANGED <<program, pc, hit, mem, due, loaded>>
    BY <1>3 DEF vars, systemVars, sumVars
  <2> QED  BY <2>1 DEF SumInv, Summing, At
<1> QED  BY <1>1, <1>2, <1>3

\* No addition to mem is lost, whoever is killed between the load and the
\* store of another, unless a SETVAL let two processes into the region or one
\* zeroed mem under another's addition (SumLoad, SumStore, SumZero).
THEOREM NothingLostTheorem == Spec => []NothingLost
<1>1. SumInv => NothingLost
  BY DEF SumInv, NothingLost
<1> QED  BY <1>1, TypesTheorem, TurnInvTheorem, SumInvInit, SumInvNext, PTL DEF Spec

-----------------------------------------------------------------------------
(***************************************************************************)
(* Why no limit of the kernel is met in Ex 1 and Ex 3, whatever is reset   *)
(* or removed: the value and the processes that will still add their one   *)
(* to it are together at most the processes there are, because the process *)
(* that calls SETVAL is outside.                                           *)
(***************************************************************************)
Within == {p \in Process : Inside(p) /\ semId[p] = "valid"}

TurnLimit ==
  Turning =>
    /\ "range" \notin hit
    /\ value + Cardinality(Within) <= Cardinality(Process)
    /\ \A p \in Process : undo[p] \in IF Inside(p) THEN {0, 1} ELSE {-1, 0}
    /\ \A p \in Process : semId[p] # "valid" => undo[p] = 0

LEMMA WithinType ==
  /\ IsFiniteSet(Within) /\ Cardinality(Within) \in Nat
  /\ Cardinality(Process) \in Nat
  /\ Cardinality(Within) <= Cardinality(Process)
BY FS_Subset, FS_CardinalityType DEF Within

LEMMA WithinTypeNext ==
  /\ IsFiniteSet(Within') /\ Cardinality(Within') \in Nat
  /\ Cardinality(Within') <= Cardinality(Process)
BY FS_Subset, FS_CardinalityType DEF Within

LEMMA TurnLimitKeeps ==
  ASSUME TypeOK, TurnLimit, Turning, NEW p \in Process, TurnStep(p),
         Cardinality(Process) <= SemMax
  PROVE  TurnLimit'
<1> SUFFICES /\ "range" \notin hit'
             /\ value' + Cardinality(Within') <= Cardinality(Process)
             /\ \A q \in Process : undo'[q] \in IF Inside(q)' THEN {0, 1} ELSE {-1, 0}
             /\ \A q \in Process : semId'[q] # "valid" => undo'[q] = 0
  BY DEF TurnLimit
<1>1. /\ "range" \notin hit
      /\ value + Cardinality(Within) <= Cardinality(Process)
      /\ \A q \in Process : undo[q] \in IF Inside(q) THEN {0, 1} ELSE {-1, 0}
      /\ \A q \in Process : semId[q] # "valid" => undo[q] = 0
  BY DEF TurnLimit
<1>2. /\ Moves(p)
      /\ value \in Nat /\ undo \in [Process -> Int]
      /\ semId \in [Process -> {"none", "valid", "stale"}]
  BY DEF TurnStep, TypeOK, SystemTypeOK
<1>3. \A q \in Process : q # p => (Inside(q)' <=> Inside(q))
  BY <1>2, InsideMoves
<1>4. ASSUME UNCHANGED <<value, undo, semId, hit>>, ~Inside(p)' \/ semId[p] # "valid",
             ~Inside(p) \/ semId[p] # "valid"
      PROVE  /\ "range" \notin hit'
             /\ value' + Cardinality(Within') <= Cardinality(Process)
             /\ \A q \in Process : undo'[q] \in IF Inside(q)' THEN {0, 1} ELSE {-1, 0}
             /\ \A q \in Process : semId'[q] # "valid" => undo'[q] = 0
  <2>1. Within' = Within
    BY <1>3, <1>4 DEF Within
  <2>2. undo'[p] \in IF Inside(p)' THEN {0, 1} ELSE {-1, 0}
    BY <1>1, <1>4
  <2>3. \A q \in Process : undo'[q] \in IF Inside(q)' THEN {0, 1} ELSE {-1, 0}
    BY <1>1, <1>3, <1>4, <2>2
  <2> QED  BY <1>1, <1>4, <2>1, <2>3
<1>5. CASE Stays(p)
  <2>1. \A q \in Process : Inside(q)' <=> Inside(q)
    BY <1>3, <1>5 DEF Stays
  <2>2. \A q \in Process : semId[q] = "valid" => semId'[q] = "valid"
    BY <1>2, <1>5 DEF Stays
  <2>3. \A q \in Process : semId'[q] = semId[q] \/ ~Inside(q)
    BY <1>2, <1>5 DEF Stays
  <2>4. Within' = Within
    BY <2>1, <2>3 DEF Within
  <2>5. UNCHANGED <<value, undo>> /\ "range" \notin hit'
    BY <1>1, <1>5 DEF Stays
  <2>6. \A q \in Process : undo'[q] \in IF Inside(q)' THEN {0, 1} ELSE {-1, 0}
    BY <1>1, <2>1, <2>5
  <2> QED  BY <1>1, <2>2, <2>4, <2>5, <2>6
<1>6. CASE Takes(p)
  <2>1. CASE semId[p] # "valid"
    BY <1>4, <1>6, <2>1 DEF Takes, SemOp, NoSemCall, semVars
  <2>2. CASE semId[p] = "valid"
    <3>1. ~Inside(p) /\ Inside(p)' /\ undo[p] \in {-1, 0}
      BY <1>1, <1>6 DEF Takes
    <3>2. value + (-1) >= 0 => InRange(p, -1)
      BY <1>2, <3>1 DEF InRange, TypeOK, SystemTypeOK
    <3>3. /\ value' = value - 1 /\ undo' = [undo EXCEPT ![p] = @ + 1]
          /\ semId' = semId /\ hit' = hit
      BY <1>2, <1>6, <2>2, <3>2 DEF Takes, SemOp
    <3>4. Within' = Within \cup {p} /\ p \notin Within
      BY <1>3, <2>2, <3>1, <3>3 DEF Within
    <3>5. Cardinality(Within') = Cardinality(Within) + 1
      BY <3>4, WithinType, FS_AddElement
    <3>6. value' + Cardinality(Within') <= Cardinality(Process)
      BY <1>1, <1>2, <3>3, <3>5, WithinType
    <3>7. undo'[p] \in {0, 1} /\ \A q \in Process : q # p => undo'[q] = undo[q]
      BY <1>2, <3>1, <3>3
    <3>8. \A q \in Process : undo'[q] \in IF Inside(q)' THEN {0, 1} ELSE {-1, 0}
      BY <1>1, <1>3, <3>1, <3>7
    <3> QED  BY <1>1, <2>2, <3>3, <3>6, <3>7, <3>8
  <2> QED  BY <2>1, <2>2
<1>7. CASE Gives(p)
  <2>1. CASE semId[p] # "valid"
    BY <1>4, <1>7, <2>1 DEF Gives, SemOp, NoSemCall, semVars
  <2>2. CASE semId[p] = "valid"
    <3>1. Inside(p) /\ ~Inside(p)' /\ undo[p] \in {0, 1}
      BY <1>1, <1>7 DEF Gives
    <3>2. p \in Within
      BY <2>2, <3>1 DEF Within
    <3>3. Within' \in SUBSET Process
      BY DEF Within
    <3>4. Cardinality(Within) >= 1
      BY <3>2, WithinType, FS_EmptySet
    <3>5. InRange(p, 1)
      BY <1>1, <1>2, <3>1, <3>4, WithinType DEF InRange
    <3>6. /\ value' = value + 1 /\ undo' = [undo EXCEPT ![p] = @ - 1]
          /\ semId' = semId /\ hit' = hit
      BY <1>2, <1>7, <2>2, <3>5 DEF Gives, SemOp
    <3>7. Within' = Within \ {p}
      BY <1>3, <2>2, <3>1, <3>6 DEF Within
    <3>8. Cardinality(Within') = Cardinality(Within) - 1
      BY <3>2, <3>7, WithinType, FS_RemoveElement
    <3>9. value' + Cardinality(Within') <= Cardinality(Process)
      BY <1>1, <1>2, <3>6, <3>8, WithinType
    <3>10. undo'[p] \in {-1, 0} /\ \A q \in Process : q # p => undo'[q] = undo[q]
      BY <1>2, <3>1, <3>6
    <3>11. \A q \in Process : undo'[q] \in IF Inside(q)' THEN {0, 1} ELSE {-1, 0}
      BY <1>1, <1>3, <3>1, <3>10
    <3> QED  BY <1>1, <2>2, <3>6, <3>9, <3>10, <3>11
  <2> QED  BY <2>1, <2>2
<1>8. CASE Sets(p)
  <2>0. ~Inside(p) /\ ~Inside(p)'
    BY <1>8 DEF Sets, Inside
  <2>1. CASE semId[p] # "valid"
    BY <1>4, <1>8, <2>0, <2>1 DEF Sets, SemSet, NoSemCall, semVars
  <2>2. CASE semId[p] = "valid"
    <3>1. /\ value' = 1 /\ undo' = [q \in Process |-> 0] /\ semId' = semId
          /\ hit' \in {hit, hit \cup {"reset"}}
      BY <1>8, <2>2 DEF Sets, SemSet
    <3>2. Within' = Within /\ p \notin Within
      BY <1>3, <2>0, <3>1 DEF Within
    <3>3. Within \subseteq Process \ {p}
      BY <3>2 DEF Within
    <3>4. /\ IsFiniteSet(Process \ {p})
          /\ Cardinality(Process \ {p}) = Cardinality(Process) - 1
      BY FS_RemoveElement
    <3>5. Cardinality(Within) <= Cardinality(Process \ {p})
      BY <3>3, <3>4, FS_Subset
    <3>6. value' + Cardinality(Within') <= Cardinality(Process)
      BY <3>1, <3>2, <3>4, <3>5, WithinType
    <3>7. \A q \in Process : undo'[q] = 0
      BY <3>1
    <3> QED  BY <1>1, <3>1, <3>6, <3>7
  <2> QED  BY <2>1, <2>2
<1>9. CASE Removes(p)
  <2>0. ~Inside(p) /\ ~Inside(p)'
    BY <1>9 DEF Removes, Inside
  <2>1. CASE semId[p] # "valid"
    BY <1>4, <1>9, <2>0, <2>1 DEF Removes, SemRemove, NoSemCall, semVars
  <2>2. CASE semId[p] = "valid"
    <3>1. /\ value' = 0 /\ undo' = [q \in Process |-> 0]
          /\ hit' \in {hit, hit \cup {"remove"}}
      BY <1>9, <2>2 DEF Removes, SemRemove
    <3>2. value' + Cardinality(Within') <= Cardinality(Process)
      BY <3>1, WithinTypeNext
    <3>3. \A q \in Process : undo'[q] = 0
      BY <3>1
    <3> QED  BY <1>1, <3>1, <3>2, <3>3
  <2> QED  BY <2>1, <2>2
<1>10. CASE Dies(p)
  <2>1. /\ pc' = [pc EXCEPT ![p] = "gone"]
        /\ semId' = [semId EXCEPT ![p] = "none"]
        /\ undo' = [undo EXCEPT ![p] = 0]
        /\ value' = Min({SemMax, Max({0, Undone(p)})})
        /\ hit' \subseteq hit \cup {"kill", "clamp"}
    BY <1>10 DEF Dies, Terminate, Goto
  <2>2. undo[p] \in {-1, 0, 1} /\ Undone(p) = value + undo[p]
    BY <1>1 DEF Undone
  <2>3. value' \in Nat /\ (value' <= value \/ (undo[p] = 1 /\ value' <= value + 1))
    BY <1>2, <2>1, <2>2, Clamp
  <2>4. ~Inside(p)'
    BY <2>1 DEF TypeOK, SystemTypeOK, Inside
  <2>5. undo'[p] = 0 /\ \A q \in Process : q # p => undo'[q] = undo[q] /\ semId'[q] = semId[q]
    BY <1>2, <2>1
  <2>6. Within' = Within \ {p}
    BY <1>3, <2>4, <2>5 DEF Within
  <2>7. undo[p] = 1 => p \in Within
    BY <1>1 DEF Within
  <2>8. value' + Cardinality(Within') <= Cardinality(Process)
    <3>1. Cardinality(Within') = IF p \in Within THEN Cardinality(Within) - 1 ELSE Cardinality(Within)
      BY <2>6, WithinType, FS_RemoveElement
    <3> QED  BY <1>1, <1>2, <2>3, <2>7, <3>1, WithinType
  <2>9. \A q \in Process : undo'[q] \in IF Inside(q)' THEN {0, 1} ELSE {-1, 0}
    BY <1>1, <1>3, <2>4, <2>5
  <2> QED  BY <1>1, <2>1, <2>5, <2>8, <2>9
<1> QED  BY <1>5, <1>6, <1>7, <1>8, <1>9, <1>10 DEF TurnStep

-----------------------------------------------------------------------------
(***************************************************************************)
(* Ex 2.  At most one writer ever has the memory: the first shmget() makes *)
(* the segment, and no program of the exercise removes it.                 *)
(***************************************************************************)
Owner(w) == program[w] = "writer" /\ w \in attached

OneOwner ==
  /\ \A v, w \in Process : Owner(v) /\ Owner(w) => v = w
  /\ attached # {} \/ typed # 0 => segment
  /\ \A w \in Process : program[w] = "writer" /\ pc[w] = "P" => w \in attached /\ i[w] = Size
  /\ \A w \in Process : Owner(w) => pc[w] \in {"semget", "semctl", "getchar", "P"}

\* What the printers have taken, one element for each notice.
TakenBy(p) == {p} \X (1 .. undo[p])
Taken == {x \in Process \X (1 .. SemMax) : x[2] <= undo[x[1]]}

(***************************************************************************)
(* The invariant behind Fresh and LimitNeedsMessages: M messages are in    *)
(* the memory, or newer ones, and no more notices than that are in the     *)
(* semaphore and with the printers.  Between the last character of a       *)
(* message and its notice M lags one behind.                               *)
(***************************************************************************)
Counted(M) ==
  /\ typed >= M * Size
  /\ value + Cardinality(Taken) <= M
  /\ \A k \in 1 .. Size : msg[k] >= M
  /\ \A w \in Process : Owner(w) =>
       typed = M * Size + i[w] /\ \A k \in 1 .. i[w] : msg[k] >= M + 1
  /\ \A w \in Process : program[w] = "writer" => undo[w] \in -M .. 0

Undos ==
  \A p \in Process : program[p] # "writer" => undo[p] \in 0 .. SemMax

BufferInv ==
  Buffering =>
    OneOwner /\ Undos /\ Fresh /\ LimitNeedsMessages /\ \E M \in Nat : Counted(M)

LEMMA MulType == \A m \in Nat : m * Size \in Nat
BY Z3
LEMMA MulNext == \A m \in Nat : (m + 1) * Size = m * Size + Size
BY Z3
LEMMA MulMono == \A m, n \in Nat : m <= n => m * Size <= n * Size
BY Z3
LEMMA MulZero == \A m \in Nat : m * Size <= 0 => m = 0
BY Z3
LEMMA DivMul == \A m \in Nat : \A r \in 0 .. Size - 1 : (m * Size + r) \div Size = m
BY Z3

LEMMA TakenType ==
  /\ IsFiniteSet(Taken) /\ Cardinality(Taken) \in Nat
  /\ IsFiniteSet(Taken') /\ Cardinality(Taken') \in Nat
<1>1. IsFiniteSet(1 .. SemMax)
  BY FS_Interval
<1>2. IsFiniteSet(Process \X (1 .. SemMax))
  BY <1>1, FS_Product
<1>3. Taken \subseteq Process \X (1 .. SemMax) /\ Taken' \subseteq Process \X (1 .. SemMax)
  BY DEF Taken
<1> QED  BY <1>2, <1>3, FS_Subset, FS_CardinalityType

LEMMA BlockType ==
  ASSUME NEW p, NEW n \in Nat
  PROVE  IsFiniteSet({p} \X (1 .. n)) /\ Cardinality({p} \X (1 .. n)) = n
<1>1. IsFiniteSet({p}) /\ Cardinality({p}) = 1
  BY FS_Singleton
<1>2. IsFiniteSet(1 .. n) /\ Cardinality(1 .. n) = n
  BY FS_Interval
<1>3. /\ IsFiniteSet({p} \X (1 .. n))
      /\ Cardinality({p} \X (1 .. n)) = Cardinality({p}) * Cardinality(1 .. n)
  BY <1>1, <1>2, FS_Product
<1> QED  BY <1>1, <1>2, <1>3

\* Nobody has taken more notices than all together.
LEMMA TakenBound ==
  ASSUME NEW p \in Process, undo[p] \in 0 .. SemMax
  PROVE  undo[p] <= Cardinality(Taken)
<1>1. TakenBy(p) \subseteq Taken
  BY DEF TakenBy, Taken
<1> DEFINE n == undo[p]
<1>3. n \in Nat
  OBVIOUS
<1> HIDE DEF n
<1>4. Cardinality({p} \X (1 .. n)) = n
  BY <1>3, BlockType
<1>2. Cardinality(TakenBy(p)) = undo[p]
  BY <1>4 DEF TakenBy, n
<1> QED  BY <1>1, <1>2, TakenType, FS_Subset

\* One more notice taken.
LEMMA TakenGrows ==
  ASSUME undo \in [Process -> Int], NEW p \in Process, undo[p] \in 0 .. SemMax - 1,
         undo' = [undo EXCEPT ![p] = @ + 1]
  PROVE  Cardinality(Taken') = Cardinality(Taken) + 1
<1>1. Taken' = Taken \cup {<<p, undo[p] + 1>>}
  BY DEF Taken
<1>2. <<p, undo[p] + 1>> \notin Taken
  BY DEF Taken
<1> QED  BY <1>1, <1>2, TakenType, FS_AddElement

\* A process' notices given back.
LEMMA TakenShrinks ==
  ASSUME undo \in [Process -> Int], NEW p \in Process, undo[p] \in 0 .. SemMax,
         undo' = [undo EXCEPT ![p] = 0]
  PROVE  Cardinality(Taken') + undo[p] = Cardinality(Taken)
<1>1. Taken = Taken' \cup TakenBy(p)
  BY DEF Taken, TakenBy
<1>2. Taken' \cap TakenBy(p) = {}
  BY DEF Taken, TakenBy
<1> DEFINE n == undo[p]
<1>6. n \in Nat
  OBVIOUS
<1> HIDE DEF n
<1>7. IsFiniteSet({p} \X (1 .. n)) /\ Cardinality({p} \X (1 .. n)) = n
  BY <1>6, BlockType
<1>3. IsFiniteSet(TakenBy(p)) /\ Cardinality(TakenBy(p)) = undo[p]
  BY <1>7 DEF TakenBy, n
<1>4. Cardinality(Taken' \cup TakenBy(p)) =
        Cardinality(Taken') + Cardinality(TakenBy(p)) - Cardinality(Taken' \cap TakenBy(p))
  BY <1>3, TakenType, FS_Union
<1>5. Cardinality({}) = 0
  BY FS_EmptySet
<1>8. Cardinality(Taken) = Cardinality(Taken') + undo[p] - 0
  BY <1>1, <1>2, <1>3, <1>4, <1>5
<1> QED  BY <1>8, TakenType

\* What a writer's undo counts is not taken.
LEMMA TakenSame ==
  ASSUME undo \in [Process -> Int], NEW p \in Process, undo[p] <= 0,
         undo' \in [Process -> Int], undo'[p] <= 0,
         \A q \in Process : q # p => undo'[q] = undo[q]
  PROVE  Taken' = Taken
BY DEF Taken

LEMMA TakenNone ==
  ASSUME undo' = [q \in Process |-> 0]
  PROVE  Cardinality(Taken') = 0
<1>1. Taken' = {}
  BY DEF Taken
<1> QED  BY <1>1, FS_EmptySet

-----------------------------------------------------------------------------
(* The steps of Ex 2, one lemma each.                                      *)

\* A step that leaves the semaphore and the buffer alone, and gives the
\* memory to nobody who has an index into it or a buffer that is in use.
LEMMA QuietStep ==
  ASSUME TypeOK, BufferInv, Buffering, OneOwner',
         UNCHANGED <<program, i, value, undo, hit, bufferVars>>,
         \A w \in Process : Owner(w)' => Owner(w) \/ (typed = 0 /\ i[w] = 0)
  PROVE  BufferInv'
<1>1. PICK M \in Nat : Counted(M)
  BY DEF BufferInv
<1>2. UNCHANGED <<msg, typed, line>>
  BY DEF bufferVars
<1>3. Undos' /\ Fresh' /\ LimitNeedsMessages'
  BY <1>2 DEF BufferInv, Undos, Fresh, LimitNeedsMessages
<1>4. Taken' = Taken
  BY DEF Taken
<1>5. M * Size \in Nat /\ (M * Size <= 0 => M = 0)
  BY MulType, MulZero
<1>6. ASSUME NEW w \in Process, Owner(w)'
      PROVE  typed = M * Size + i[w] /\ \A k \in 1 .. i[w] : msg[k] >= M + 1
  <2>1. CASE Owner(w)
    BY <1>1, <2>1 DEF Counted
  <2>2. CASE typed = 0 /\ i[w] = 0
    <3>1. M = 0
      BY <1>1, <1>5, <2>2 DEF Counted
    <3>2. 0 * Size = 0
      OBVIOUS
    <3> QED  BY <2>2, <3>1, <3>2
  <2> QED  BY <1>6, <2>1, <2>2
<1>7. Counted(M)'
  BY <1>1, <1>2, <1>4, <1>6 DEF Counted
<1> QED  BY <1>1, <1>3, <1>7 DEF BufferInv

LEMMA WriterSetupKeeps ==
  ASSUME TypeOK, BufferInv, Buffering, NEW p \in Process,
         WriterSetup(p), UNCHANGED <<program, starts>>
  PROVE  BufferInv'
<1> USE DEF At
<1>0. SystemTypeOK /\ OneOwner
  BY DEF TypeOK, BufferInv
<1>1. UNCHANGED <<i, bufferVars, typed>> /\ program[p] = "writer"
  BY DEF WriterSetup, bufferVars
<1>2. CASE pc[p] = "shmget" /\ ShmCreate(p) /\ NoSemCall /\ Goto(p, "semget")
  <2>1. ~Owner(p)
    BY <1>0, <1>2 DEF OneOwner
  <2>2. pc'[p] = "semget" /\ \A q \in Process : q # p => pc'[q] = pc[q]
    BY <1>0, <1>2, GotoTypes DEF Label
  <2>3. CASE segment
    <3>1. attached' = attached /\ segment'
      BY <1>2, <2>3 DEF ShmCreate
    <3>2. OneOwner'
      BY <1>0, <1>1, <2>1, <2>2, <3>1 DEF OneOwner, Owner
    <3> QED  BY <1>1, <1>2, <3>1, <3>2, QuietStep DEF Owner, NoSemCall, semVars
  <2>4. CASE ~segment
    <3>1. attached = {} /\ typed = 0
      BY <1>0, <2>4 DEF OneOwner
    <3>2. attached' = {p} /\ segment'
      BY <1>2, <2>4, <3>1 DEF ShmCreate
    <3>3. OneOwner'
      BY <1>0, <1>1, <2>2, <3>1, <3>2 DEF OneOwner, Owner
    <3>4. i[p] = 0
      BY <1>2 DEF TypeOK, IndexOK
    <3> QED  BY <1>1, <1>2, <3>1, <3>2, <3>3, <3>4, QuietStep DEF Owner, NoSemCall, semVars
  <2> QED  BY <2>3, <2>4
<1>3. CASE pc[p] = "semget" /\ SemCreate(p) /\ UNCHANGED shmVars /\ Goto(p, "semctl")
  <2>1. pc'[p] = "semctl" /\ \A q \in Process : q # p => pc'[q] = pc[q]
    BY <1>0, <1>3, GotoTypes DEF Label
  <2>2. OneOwner'
    BY <1>0, <1>1, <1>3, <2>1 DEF OneOwner, Owner, shmVars
  <2> QED  BY <1>1, <1>3, <2>2, QuietStep DEF Owner, SemCreate, shmVars
<1>4. CASE pc[p] = "semctl" /\ SemSet(p, 0) /\ UNCHANGED shmVars /\ Goto(p, "getchar")
  <2>1. pc'[p] = "getchar" /\ \A q \in Process : q # p => pc'[q] = pc[q]
    BY <1>0, <1>4, GotoTypes DEF Label
  <2>2. OneOwner'
    BY <1>0, <1>1, <1>4, <2>1 DEF OneOwner, Owner, shmVars
  <2>3. CASE semId[p] # "valid"
    BY <1>1, <1>4, <2>2, <2>3, QuietStep DEF Owner, SemSet, NoSemCall, semVars, shmVars
  <2>4. CASE semId[p] = "valid"
    <3>1. value' = 0 /\ undo' = [q \in Process |-> 0] /\ hit' \in {hit, hit \cup {"reset"}}
      BY <1>4, <2>4 DEF SemSet
    <3>2. PICK M \in Nat : Counted(M)
      BY DEF BufferInv
    <3>3. UNCHANGED <<msg, typed, line, attached>>
      BY <1>1, <1>4 DEF bufferVars, shmVars
    <3>4. Undos' /\ LimitNeedsMessages'
      BY <3>1, <3>3 DEF BufferInv, Undos, LimitNeedsMessages
    <3>5. Fresh'
      BY <3>1, <3>3 DEF Fresh, TypeOK, BufferTypeOK
    <3>6. Cardinality(Taken') = 0
      BY <3>1, TakenNone
    <3>7. \A w \in Process : Owner(w)' => Owner(w)
      BY <1>1, <3>3 DEF Owner
    <3>8. \A w \in Process : undo'[w] \in -M .. 0
      BY <3>1
    <3>9. value' + Cardinality(Taken') <= M
      BY <3>1, <3>6
    <3>10. Counted(M)'
      BY <1>1, <3>2, <3>3, <3>7, <3>8, <3>9 DEF Counted
    <3> QED  BY <2>2, <3>4, <3>5, <3>10 DEF BufferInv
  <2> QED  BY <2>3, <2>4
<1> QED  BY <1>2, <1>3, <1>4 DEF WriterSetup

LEMMA PrinterSetupKeeps ==
  ASSUME TypeOK, BufferInv, Buffering, NEW p \in Process,
         PrinterSetup(p), UNCHANGED <<program, starts>>
  PROVE  BufferInv'
<1> USE DEF At
<1>0. SystemTypeOK /\ OneOwner
  BY DEF TypeOK, BufferInv
<1>1. UNCHANGED <<i, bufferVars, typed>> /\ program[p] = "printer"
  BY DEF PrinterSetup, bufferVars
<1>2. UNCHANGED <<value, undo, hit>>
  BY DEF PrinterSetup, SemFind, NoSemCall, semVars
<1>3. \E l \in {"shmget", "putchar"} : Goto(p, l)
  BY DEF PrinterSetup
<1>4. pc'[p] \in {"shmget", "putchar"} /\ \A q \in Process : q # p => pc'[q] = pc[q]
  BY <1>0, <1>3, GotoTypes DEF Label
<1>5. segment' = segment /\ attached' \in {attached, attached \cup {p}} /\ (attached' # attached => segment)
  BY DEF PrinterSetup, ShmAttach, shmVars
<1>6. \A w \in Process : Owner(w)' <=> Owner(w)
  BY <1>1, <1>5 DEF Owner
<1>7. \A w \in Process : program[w] = "writer" => pc'[w] = pc[w] /\ w # p
  BY <1>1, <1>4
<1>8. OneOwner'
  BY <1>0, <1>1, <1>5, <1>6, <1>7 DEF OneOwner, Owner
<1> QED  BY <1>1, <1>2, <1>6, <1>8, QuietStep

\* The notice: the message it is about is complete, so M catches up, even
\* when the kernel refuses to count it.
LEMMA BufferPKeeps ==
  ASSUME TypeOK, BufferInv, Buffering, NEW p \in Process,
         BufferP(p), UNCHANGED <<program, starts>>
  PROVE  BufferInv'
<1> USE DEF At
<1>0. SystemTypeOK /\ OneOwner /\ undo \in [Process -> Int] /\ value \in Nat
  BY DEF TypeOK, BufferInv, SystemTypeOK
<1>1. /\ program[p] = "writer" /\ pc[p] = "P" /\ SemOp(p, 1, "SEM_UNDO")
      /\ i' = [i EXCEPT ![p] = 0] /\ Goto(p, "getchar")
      /\ UNCHANGED <<segment, attached, msg, typed, line, program>>
  BY DEF BufferP, shmVars, bufferVars
<1>2. pc'[p] = "getchar" /\ \A q \in Process : q # p => pc'[q] = pc[q]
  BY <1>0, <1>1, GotoTypes DEF Label
<1>3. i'[p] = 0 /\ \A q \in Process : q # p => i'[q] = i[q]
  BY <1>1 DEF TypeOK, SystemTypeOK
<1>4. OneOwner'
  BY <1>0, <1>1, <1>2, <1>3 DEF OneOwner, Owner
<1>5. Owner(p) /\ i[p] = Size
  BY <1>0, <1>1 DEF OneOwner, Owner
<1>6. PICK M \in Nat : Counted(M)
  BY DEF BufferInv
<1>7. typed = M * Size + Size /\ \A k \in 1 .. Size : msg[k] >= M + 1
  BY <1>5, <1>6 DEF Counted
<1>8. typed = (M + 1) * Size
  BY <1>7, MulNext
<1>9. \A w \in Process : Owner(w)' => w = p
  BY <1>1, <1>0, <1>5 DEF OneOwner, Owner
<1>10. ASSUME value' + Cardinality(Taken') <= M + 1,
              \A w \in Process : program[w] = "writer" => undo'[w] \in -(M + 1) .. 0
       PROVE  Counted(M + 1)'
  <2>1. (M + 1) * Size \in Nat /\ (M + 1) * Size + 0 = (M + 1) * Size
    BY MulType
  <2>2. \A k \in 1 .. i'[p] : FALSE
    BY <1>3
  <2>3. \A w \in Process : Owner(w)' =>
          typed' = (M + 1) * Size + i'[w] /\ \A k \in 1 .. i'[w] : msg'[k] >= M + 1 + 1
    BY <1>1, <1>3, <1>8, <1>9, <2>1, <2>2
  <2>4. typed' >= (M + 1) * Size /\ \A k \in 1 .. Size : msg'[k] >= M + 1
    BY <1>1, <1>7, <1>8, <2>1
  <2> QED  BY <1>1, <1>10, <2>3, <2>4 DEF Counted
<1>11. undo[p] \in -M .. 0 /\ value + Cardinality(Taken) <= M
  BY <1>1, <1>6 DEF Counted
<1>12. CASE semId[p] = "valid" /\ value + 1 >= 0 /\ InRange(p, 1) /\ value' = value + 1
            /\ undo' = [undo EXCEPT ![p] = @ - 1] /\ UNCHANGED <<semId, exists, base, hit>>
  <2>1. undo'[p] = undo[p] - 1 /\ \A q \in Process : q # p => undo'[q] = undo[q]
    BY <1>0, <1>12
  <2>2. Taken' = Taken
    <3>1. undo' \in [Process -> Int] /\ undo[p] <= 0 /\ undo'[p] <= 0
      BY <1>0, <1>11, <1>12, <2>1
    <3> QED  BY <1>0, <2>1, <3>1, TakenSame
  <2>3. value' + Cardinality(Taken') <= M + 1
    BY <1>0, <1>11, <1>12, <2>2, TakenType
  <2>4. \A w \in Process : program[w] = "writer" => undo'[w] \in -(M + 1) .. 0
    <3>1. \A w \in Process : program[w] = "writer" => undo[w] \in -M .. 0
      BY <1>6 DEF Counted
    <3> QED  BY <1>11, <2>1, <3>1
  <2>5. Undos'
    BY <1>1, <2>1 DEF BufferInv, Undos
  <2>6. Fresh'
    BY <1>1, <2>1 DEF BufferInv, Fresh
  <2>7. LimitNeedsMessages'
    BY <1>1, <1>12 DEF BufferInv, LimitNeedsMessages
  <2> QED  BY <1>4, <1>10, <2>3, <2>4, <2>5, <2>6, <2>7 DEF BufferInv
<1>13. ASSUME UNCHANGED <<value, undo>>, LimitNeedsMessages'
       PROVE  BufferInv'
  <2>1. Taken' = Taken
    BY <1>13 DEF Taken
  <2>2. value' + Cardinality(Taken') <= M + 1
    BY <1>0, <1>11, <1>13, <2>1, TakenType
  <2>3. \A w \in Process : program[w] = "writer" => undo'[w] \in -(M + 1) .. 0
    BY <1>6, <1>13 DEF Counted
  <2>4. Undos' /\ Fresh'
    BY <1>1, <1>13 DEF BufferInv, Undos, Fresh
  <2> QED  BY <1>4, <1>10, <1>13, <2>2, <2>3, <2>4 DEF BufferInv
<1>14. CASE value + 1 >= 0 /\ ~InRange(p, 1) /\ hit' = hit \cup {"range"} /\ UNCHANGED semVars
  <2>1. M + 1 >= SemMax
    BY <1>0, <1>11, <1>14, TakenType DEF InRange
  <2>2. (M + 1) * Size >= SemMax * Size
    BY <2>1, MulMono, MulType
  <2>3. LimitNeedsMessages'
    BY <1>1, <1>8, <2>2 DEF LimitNeedsMessages
  <2> QED  BY <1>13, <1>14, <2>3 DEF semVars
<1>15. CASE NoSemCall
  BY <1>1, <1>13, <1>15 DEF NoSemCall, semVars, BufferInv, LimitNeedsMessages
<1> QED  BY <1>1, <1>12, <1>14, <1>15 DEF SemOp

\* A printer prints what is in the memory: the M-th message or newer.
LEMMA PutcharKeeps ==
  ASSUME TypeOK, BufferInv, Buffering, NEW p \in Process,
         PrinterPutchar(p), UNCHANGED <<program, starts>>
  PROVE  BufferInv'
<1> USE DEF At
<1>0. SystemTypeOK /\ OneOwner /\ undo \in [Process -> Int] /\ value \in Nat /\ BufferTypeOK
  BY DEF TypeOK, BufferInv, SystemTypeOK
<1>1. /\ program[p] = "printer" /\ pc[p] = "putchar"
      /\ line' = [line EXCEPT ![p] = Append(@, msg[i[p] + 1])]
      /\ i' = [i EXCEPT ![p] = @ + 1]
      /\ UNCHANGED <<value, undo, hit, segment, attached, msg, typed, program>>
  BY DEF PrinterPutchar, NoSemCall, semVars, shmVars
<1>2. \E l \in {"putchar", "V"} : Goto(p, l)
  BY DEF PrinterPutchar
<1>3. pc'[p] \in {"putchar", "V"} /\ \A q \in Process : q # p => pc'[q] = pc[q] /\ i'[q] = i[q]
  BY <1>0, <1>1, <1>2, GotoTypes, CountTypes DEF Label
<1>4. \A w \in Process : program[w] = "writer" => w # p
  BY <1>1
<1>5. OneOwner'
  BY <1>0, <1>1, <1>3, <1>4 DEF OneOwner, Owner
<1>6. PICK M \in Nat : Counted(M)
  BY DEF BufferInv
<1>7. \A w \in Process : Owner(w)' <=> Owner(w)
  BY <1>1 DEF Owner
<1>8. Taken' = Taken
  BY <1>1 DEF Taken
<1>9. Counted(M)'
  BY <1>1, <1>3, <1>4, <1>6, <1>7, <1>8 DEF Counted, Owner
<1>10. Undos' /\ LimitNeedsMessages'
  BY <1>1 DEF BufferInv, Undos, LimitNeedsMessages
<1>11. i[p] + 1 \in 1 .. Size
  BY <1>0, <1>1 DEF TypeOK, SystemTypeOK, IndexOK
<1>12. undo[p] \in 0 .. SemMax /\ undo[p] <= Cardinality(Taken)
  BY <1>1, TakenBound DEF BufferInv, Undos
<1>13. msg[i[p] + 1] \in Nat /\ msg[i[p] + 1] >= undo[p]
  <2>1. msg[i[p] + 1] >= M /\ value + Cardinality(Taken) <= M
    BY <1>6, <1>11 DEF Counted
  <2>2. msg[i[p] + 1] \in Nat
    BY <1>0, <1>11 DEF BufferTypeOK
  <2> QED  BY <1>0, <1>12, <2>1, <2>2, TakenType
<1>14. Fresh'
  <2>1. ASSUME NEW q \in Process, program[q] = "printer", NEW k \in 1 .. Len(line'[q])
        PROVE  line'[q][k] >= undo[q]
    <3>1. CASE q # p
      BY <1>0, <1>1, <2>1, <3>1 DEF BufferInv, Fresh, BufferTypeOK
    <3>2. CASE q = p
      <4>1. line'[p] = Append(line[p], msg[i[p] + 1]) /\ line[p] \in Seq(Nat)
        BY <1>0, <1>1 DEF BufferTypeOK
      <4>2. /\ Len(line'[p]) = Len(line[p]) + 1 /\ Len(line[p]) \in Nat
            /\ \A j \in 1 .. Len(line[p]) : line'[p][j] = line[p][j]
            /\ line'[p][Len(line[p]) + 1] = msg[i[p] + 1]
        BY <1>13, <4>1, AppendProperties, LenProperties
      <4>3. \A j \in 1 .. Len(line[p]) : line[p][j] >= undo[p]
        BY <1>1 DEF BufferInv, Fresh
      <4>4. k \in 1 .. Len(line[p]) \/ k = Len(line[p]) + 1
        BY <2>1, <3>2, <4>2
      <4> QED  BY <1>13, <3>2, <4>2, <4>3, <4>4
    <3> QED  BY <3>1, <3>2
  <2> QED  BY <1>1, <2>1 DEF Fresh
<1> QED  BY <1>5, <1>9, <1>10, <1>14 DEF BufferInv

LEMMA BufferVKeeps ==
  ASSUME TypeOK, BufferInv, Buffering, NEW p \in Process,
         BufferV(p), UNCHANGED <<program, starts>>
  PROVE  BufferInv'
<1> USE DEF At
<1>0. SystemTypeOK /\ OneOwner /\ undo \in [Process -> Int] /\ value \in Nat /\ BufferTypeOK
  BY DEF TypeOK, BufferInv, SystemTypeOK
<1>1. /\ program[p] = "printer" /\ SemOp(p, -1, "SEM_UNDO")
      /\ i' = [i EXCEPT ![p] = 0] /\ Goto(p, "putchar")
      /\ line' = [line EXCEPT ![p] = <<>>]
      /\ UNCHANGED <<segment, attached, msg, typed, program>>
  BY DEF BufferV, shmVars
<1>2. pc'[p] = "putchar" /\ \A q \in Process : q # p => pc'[q] = pc[q]
  BY <1>0, <1>1, GotoTypes DEF Label
<1>3. \A q \in Process : q # p => i'[q] = i[q] /\ line'[q] = line[q]
  BY <1>0, <1>1 DEF SystemTypeOK, BufferTypeOK
<1>4. \A w \in Process : program[w] = "writer" => w # p
  BY <1>1
<1>5. OneOwner'
  BY <1>0, <1>1, <1>2, <1>3, <1>4 DEF OneOwner, Owner
<1>6. PICK M \in Nat : Counted(M)
  BY DEF BufferInv
<1>7. \A w \in Process : Owner(w)' <=> Owner(w)
  BY <1>1 DEF Owner
<1>8. undo[p] \in 0 .. SemMax /\ undo[p] <= Cardinality(Taken) /\ value + Cardinality(Taken) <= M
  BY <1>1, <1>6, TakenBound DEF BufferInv, Undos, Counted
<1>9. line'[p] = <<>> /\ Len(<<>>) = 0
  BY <1>0, <1>1 DEF BufferTypeOK
<1>10. ASSUME \A q \in Process : q # p => undo'[q] = undo[q],
              value' + Cardinality(Taken') <= M, LimitNeedsMessages', undo'[p] \in 0 .. SemMax
       PROVE  BufferInv'
  <2>1. Counted(M)'
    BY <1>1, <1>3, <1>4, <1>6, <1>7, <1>10 DEF Counted, Owner
  <2>2. Undos'
    BY <1>1, <1>10 DEF BufferInv, Undos
  <2>3. Fresh'
    BY <1>1, <1>3, <1>9, <1>10 DEF BufferInv, Fresh
  <2> QED  BY <1>5, <1>10, <2>1, <2>2, <2>3 DEF BufferInv
<1>11. CASE semId[p] = "valid" /\ value + (-1) >= 0 /\ InRange(p, -1) /\ value' = value + (-1)
            /\ undo' = [undo EXCEPT ![p] = @ - (-1)] /\ UNCHANGED <<semId, exists, base, hit>>
  <2>1. undo' = [undo EXCEPT ![p] = @ + 1] /\ undo[p] \in 0 .. SemMax - 1 /\ value' = value - 1
    <3>1. undo[p] - (-1) = undo[p] + 1 /\ value + (-1) = value - 1
      BY <1>0
    <3>2. undo[p] - (-1) \in (-SemMax - 1) .. SemMax
      BY <1>11 DEF InRange
    <3>3. undo[p] \in 0 .. SemMax - 1
      BY <1>8, <3>1, <3>2
    <3> QED  BY <1>11, <3>1, <3>3
  <2>2. Cardinality(Taken') = Cardinality(Taken) + 1
    BY <1>0, <2>1, TakenGrows
  <2>3. value' + Cardinality(Taken') <= M
    BY <1>0, <1>8, <2>1, <2>2, TakenType
  <2>4. undo'[p] \in 0 .. SemMax /\ \A q \in Process : q # p => undo'[q] = undo[q]
    BY <1>0, <2>1
  <2>5. LimitNeedsMessages'
    BY <1>1, <1>11 DEF BufferInv, LimitNeedsMessages
  <2> QED  BY <1>10, <2>3, <2>4, <2>5
<1>12. CASE value + (-1) >= 0 /\ ~InRange(p, -1) /\ hit' = hit \cup {"range"} /\ UNCHANGED semVars
  <2>1. value \in 0 .. SemMax
    BY <1>0 DEF SystemTypeOK
  <2>2. M >= SemMax
    BY <1>0, <1>8, <1>12, <2>1, TakenType DEF InRange
  <2>3. typed >= M * Size /\ M * Size >= SemMax * Size /\ M * Size \in Nat /\ SemMax * Size \in Nat
    BY <1>6, <2>2, MulMono, MulType DEF Counted
  <2>4. LimitNeedsMessages'
    <3> DEFINE a == M * Size
               b == SemMax * Size
    <3>1. typed >= a /\ a >= b /\ a \in Nat /\ b \in Nat /\ typed \in Nat
      BY <1>0, <2>3 DEF BufferTypeOK
    <3> HIDE DEF a, b
    <3>2. typed >= b
      BY <3>1
    <3> QED  BY <1>1, <3>2 DEF LimitNeedsMessages, b
  <2>5. Taken' = Taken
    BY <1>12 DEF Taken, semVars
  <2> QED  BY <1>8, <1>10, <1>12, <2>4, <2>5 DEF semVars
<1>13. CASE NoSemCall
  <2>1. Taken' = Taken
    BY <1>13 DEF Taken, NoSemCall, semVars
  <2>2. LimitNeedsMessages'
    BY <1>1, <1>13 DEF BufferInv, LimitNeedsMessages, NoSemCall
  <2> QED  BY <1>8, <1>10, <1>13, <2>1, <2>2 DEF NoSemCall, semVars
<1> QED  BY <1>1, <1>11, <1>12, <1>13 DEF SemOp

\* The writer's next character: i[p] characters of message M + 1 are there.
LEMMA InputKeeps ==
  ASSUME TypeOK, BufferInv, Buffering, NEW p \in Process, BufferInput(p)
  PROVE  BufferInv'
<1> USE DEF At
<1>0. SystemTypeOK /\ OneOwner /\ BufferTypeOK
  BY DEF TypeOK, BufferInv
<1>1. /\ program[p] = "writer" /\ pc[p] = "getchar" /\ p \in attached
      /\ msg' = [msg EXCEPT ![i[p] + 1] = (typed \div Size) + 1]
      /\ typed' = typed + 1
      /\ i' = [i EXCEPT ![p] = @ + 1]
      /\ Goto(p, IF i'[p] < Size THEN "getchar" ELSE "P")
      /\ UNCHANGED <<value, undo, hit, segment, attached, line, program>>
  BY DEF BufferInput, WriterGetchar, NoSemCall, semVars, shmVars
<1>2. \E l \in {"getchar", "P"} : Goto(p, l) /\ (l = "P" => ~(i'[p] < Size))
  BY <1>1
<1>3. i[p] < Size /\ i[p] \in Nat /\ i'[p] = i[p] + 1
  BY <1>0, <1>1, CountTypes DEF TypeOK, IndexOK, SystemTypeOK
<1>4. /\ pc'[p] \in {"getchar", "P"} /\ (pc'[p] = "P" => i'[p] = Size)
      /\ \A q \in Process : q # p => pc'[q] = pc[q] /\ i'[q] = i[q]
  BY <1>0, <1>1, <1>2, <1>3, GotoTypes, CountTypes DEF Label
<1>5. Owner(p)
  BY <1>1 DEF Owner
<1>6. OneOwner'
  BY <1>0, <1>1, <1>4 DEF OneOwner, Owner
<1>7. PICK M \in Nat : Counted(M)
  BY DEF BufferInv
<1>8. typed = M * Size + i[p] /\ \A k \in 1 .. i[p] : msg[k] >= M + 1
  BY <1>5, <1>7 DEF Counted
<1>9. typed \div Size = M
  BY <1>3, <1>8, DivMul
<1>10. msg' = [msg EXCEPT ![i[p] + 1] = M + 1]
  BY <1>1, <1>9
<1>11. /\ \A k \in 1 .. Size : msg[k] >= M /\ msg[k] \in Nat
       /\ i[p] + 1 \in 1 .. Size
  BY <1>0, <1>3, <1>7 DEF Counted, BufferTypeOK
<1>12. \A k \in 1 .. Size : msg'[k] = IF k = i[p] + 1 THEN M + 1 ELSE msg[k]
  BY <1>0, <1>10 DEF BufferTypeOK
<1>13. \A k \in 1 .. Size : msg'[k] >= M
  BY <1>11, <1>12
<1>14. \A k \in 1 .. i'[p] : msg'[k] >= M + 1
  BY <1>3, <1>8, <1>11, <1>12
<1>15. typed' = M * Size + i'[p] /\ typed' >= M * Size
  <2> DEFINE a == M * Size
  <2>1. a \in Nat /\ typed = a + i[p]
    BY <1>8, MulType
  <2> HIDE DEF a
  <2>2. typed' = a + i'[p] /\ typed' >= a
    BY <1>1, <1>3, <2>1
  <2> QED  BY <2>2 DEF a
<1>16. \A w \in Process : Owner(w)' => w = p
  BY <1>0, <1>1, <1>5 DEF OneOwner, Owner
<1>17. Taken' = Taken
  BY <1>1 DEF Taken
<1>18. Counted(M)'
  BY <1>1, <1>7, <1>13, <1>14, <1>15, <1>16, <1>17 DEF Counted
<1>19. Undos' /\ Fresh'
  BY <1>1 DEF BufferInv, Undos, Fresh
<1>20. LimitNeedsMessages'
  <2> DEFINE b == SemMax * Size
  <2>1. "range" \in hit => typed >= b
    BY DEF BufferInv, LimitNeedsMessages
  <2>2. b \in Nat /\ typed \in Nat
    BY <1>0, MulType DEF BufferTypeOK
  <2> HIDE DEF b
  <2>3. "range" \in hit' => typed' >= b
    BY <1>1, <2>1, <2>2
  <2> QED  BY <2>3 DEF LimitNeedsMessages, b
<1> QED  BY <1>6, <1>18, <1>19, <1>20 DEF BufferInv

\* The end of a process: what the kernel gives back for a printer is what it
\* had taken, and for a writer nothing is added.
LEMMA DeathKeeps ==
  ASSUME TypeOK, BufferInv, Buffering, NEW p \in Process, Terminate(p, {"kill"}),
         line' = [line EXCEPT ![p] = <<>>], UNCHANGED <<msg, typed>>
  PROVE  BufferInv'
<1>0. SystemTypeOK /\ OneOwner /\ undo \in [Process -> Int] /\ value \in Nat /\ BufferTypeOK
  BY DEF TypeOK, BufferInv, SystemTypeOK
<1>1. /\ Goto(p, "gone") /\ i' = [i EXCEPT ![p] = 0]
      /\ undo' = [undo EXCEPT ![p] = 0]
      /\ value' = Min({SemMax, Max({0, Undone(p)})})
      /\ attached' = attached \ {p}
      /\ hit' \subseteq hit \cup {"kill", "clamp"}
      /\ UNCHANGED <<program, segment>>
  BY DEF Terminate
<1>2. pc'[p] = "gone" /\ \A q \in Process : q # p => pc'[q] = pc[q]
  BY <1>0, <1>1, GotoTypes DEF Label
<1>3. /\ undo'[p] = 0 /\ line'[p] = <<>>
      /\ \A q \in Process : q # p => i'[q] = i[q] /\ line'[q] = line[q] /\ undo'[q] = undo[q]
  BY <1>0, <1>1 DEF SystemTypeOK, BufferTypeOK
<1>4. \A w \in Process : Owner(w)' <=> Owner(w) /\ w # p
  BY <1>1 DEF Owner
<1>5. OneOwner'
  BY <1>0, <1>1, <1>2, <1>3, <1>4 DEF OneOwner
<1>6. PICK M \in Nat : Counted(M)
  BY DEF BufferInv
<1>7. value + Cardinality(Taken) <= M
  BY <1>6 DEF Counted
<1>8. value' + Cardinality(Taken') <= M
  <2>1. CASE program[p] = "writer"
    <3>1. undo[p] \in -M .. 0
      BY <1>6, <2>1 DEF Counted
    <3>2. Undone(p) \in Int /\ Undone(p) <= value
      BY <1>0, <3>1 DEF Undone
    <3>3. value' \in Nat /\ value' <= value
      BY <1>0, <1>1, <3>2, Clamp
    <3>4. Taken' = Taken
      <4>1. undo' \in [Process -> Int] /\ undo[p] <= 0 /\ undo'[p] <= 0
        BY <1>0, <1>1, <1>3, <3>1
      <4> QED  BY <1>0, <1>3, <4>1, TakenSame
    <3> QED  BY <1>0, <1>7, <3>3, <3>4, TakenType
  <2>2. CASE program[p] # "writer"
    <3>1. undo[p] \in 0 .. SemMax
      BY <2>2 DEF BufferInv, Undos
    <3>2. Undone(p) = value + undo[p] /\ Undone(p) \in Int /\ Undone(p) >= 0
      BY <1>0, <3>1 DEF Undone
    <3>5. value' = IF Undone(p) < 0 THEN 0 ELSE IF Undone(p) > SemMax THEN SemMax ELSE Undone(p)
      BY <1>1, <3>2, Clamp
    <3>3. value' \in Nat /\ value' <= value + undo[p]
      BY <1>0, <3>2, <3>5
    <3>4. Cardinality(Taken') + undo[p] = Cardinality(Taken)
      BY <1>0, <1>1, <3>1, TakenShrinks
    <3> QED  BY <1>0, <1>7, <3>1, <3>3, <3>4, TakenType
  <2> QED  BY <2>1, <2>2
<1>9. \A w \in Process : program[w] = "writer" => undo'[w] \in -M .. 0
  <2>1. \A w \in Process : program[w] = "writer" => undo[w] \in -M .. 0
    BY <1>6 DEF Counted
  <2> QED  BY <1>3, <2>1
<1>10. Counted(M)'
  BY <1>1, <1>3, <1>4, <1>6, <1>8, <1>9 DEF Counted
<1>11. Undos'
  BY <1>1, <1>3 DEF BufferInv, Undos
<1>12. Fresh'
  <2>1. Len(<<>>) = 0
    OBVIOUS
  <2> QED  BY <1>1, <1>3, <2>1 DEF BufferInv, Fresh
<1>13. LimitNeedsMessages'
  BY <1>1 DEF BufferInv, LimitNeedsMessages
<1> QED  BY <1>5, <1>10, <1>11, <1>12, <1>13 DEF BufferInv

LEMMA StartKeeps ==
  ASSUME TypeOK, BufferInv, Buffering, NEW p \in Process, StartAgain(p)
  PROVE  BufferInv'
<1>0. SystemTypeOK /\ OneOwner
  BY DEF TypeOK, BufferInv
<1>1. /\ program[p] # "nobody" /\ pc[p] = "gone" /\ Goto(p, Entry(program[p]))
      /\ UNCHANGED <<program, i, value, undo, hit, segment, attached, bufferVars>>
  BY DEF StartAgain, Restart, Alive, semVars, shmVars
<1>2. Entry(program[p]) \in {"semget", "shmget"}
  BY <1>0, <1>1, Programs DEF SystemTypeOK, Entry
<1>3. pc'[p] \in {"semget", "shmget"} /\ \A q \in Process : q # p => pc'[q] = pc[q]
  BY <1>0, <1>1, <1>2, GotoTypes DEF Label
<1>4. ~Owner(p)
  BY <1>0, <1>1 DEF OneOwner
<1>5. \A w \in Process : Owner(w)' <=> Owner(w)
  BY <1>1 DEF Owner
<1>6. typed' = typed
  BY <1>1 DEF bufferVars
<1>7. OneOwner'
  BY <1>0, <1>1, <1>3, <1>4, <1>5, <1>6 DEF OneOwner
<1> QED  BY <1>1, <1>5, <1>7, QuietStep

LEMMA BufferInvInit == Init => BufferInv
<1> SUFFICES ASSUME Init, Buffering PROVE BufferInv
  BY DEF BufferInv
<1>1. TypeOK
  BY TypesInit
<1>2. /\ value = 0 /\ undo = [p \in Process |-> 0] /\ attached = {} /\ hit = {}
      /\ typed = 0 /\ msg = [k \in 1 .. Size |-> 0] /\ line = [p \in Process |-> <<>>]
  BY DEF Init, SystemInit, BufferInit
<1>3. \A p \in Process : pc[p] # "P"
  <2>1. program \in Scenarios /\ pc = [p \in Process |-> Entry(program[p])]
    BY DEF Init, SystemInit
  <2> QED  BY <2>1, Programs DEF Entry
<1>4. OneOwner
  BY <1>2, <1>3 DEF OneOwner, Owner
<1>5. Undos /\ LimitNeedsMessages
  BY <1>2 DEF Undos, LimitNeedsMessages
<1>6. Fresh
  <2>1. Len(<<>>) = 0
    OBVIOUS
  <2> QED  BY <1>2, <2>1 DEF Fresh
<1>7. Cardinality(Taken) = 0
  <2>1. Taken = {}
    BY <1>2 DEF Taken
  <2> QED  BY <2>1, FS_EmptySet
<1>8. Counted(0)
  <2>1. 0 * Size = 0
    OBVIOUS
  <2> QED  BY <1>2, <1>7, <2>1 DEF Counted, Owner
<1> QED  BY <1>4, <1>5, <1>6, <1>8 DEF BufferInv

LEMMA BufferInvNext == TypeOK /\ BufferInv /\ [Next]_vars => BufferInv'
<1> SUFFICES ASSUME TypeOK, BufferInv, [Next]_vars PROVE BufferInv'
  OBVIOUS
<1>1. CASE Next /\ ~Buffering
  <2>1. program' = program
    BY <1>1, ProgramStays
  <2> QED  BY <1>1, <2>1 DEF BufferInv, Buffering
<1>2. CASE Next /\ Buffering
  <2>1. ASSUME NEW p \in Process PROVE ~LettersStep(p) /\ ~SumStep(p)
    <3>1. program[p] \notin Letters \cup SumPrograms
      BY <1>2 DEF Buffering, SumPrograms, Adders, Zeroers, Letters
    <3>2. Zeroers \subseteq SumPrograms /\ {"leader"} \subseteq Letters /\ {"follower"} \subseteq Letters
      BY DEF SumPrograms, Letters
    <3>3. ~LettersStep(p)
      BY <3>1, <3>2
      DEF LettersStep, LettersSemget, LettersSetSemValue, LettersP, LettersPutchar, LettersV,
          LettersDelSemValue, LettersReturn, At
    <3>4. ~SumStep(p)
      BY <3>1, <3>2
      DEF SumStep, SumShmget, SumZero, SumSemaphore, SumP, SumLoad, SumStore, SumV, SumShmdt,
          SumReturn, At
    <3> QED  BY <3>3, <3>4
  <2>2. ASSUME NEW p \in Process, BufferCrash(p) PROVE BufferInv'
    BY <1>2, <2>2, DeathKeeps DEF BufferCrash, Crash
  <2>3. ASSUME NEW p \in Process, BufferStep(p) PROVE BufferInv'
    BY <1>2, <2>2, <2>3, WriterSetupKeeps, BufferPKeeps, PrinterSetupKeeps, PutcharKeeps,
       BufferVKeeps DEF BufferStep
  <2>4. ASSUME NEW p \in Process, Interrupt(p) PROVE BufferInv'
    BY <1>2, <2>4, DeathKeeps DEF Interrupt, Kill
  <2>5. ASSUME NEW p \in Process, Type(p) PROVE BufferInv'
    BY <1>2, <2>5, InputKeeps DEF Type
  <2> QED  BY <1>2, <2>1, <2>3, <2>4, <2>5, StartKeeps DEF Next, Step
<1>3. CASE UNCHANGED vars
  <2>1. UNCHANGED <<program, pc, i, value, undo, hit, segment, attached, msg, typed, line>>
    BY <1>3 DEF vars, systemVars, semVars, shmVars, bufferVars
  <2>2. Taken' = Taken
    BY <2>1 DEF Taken
  <2> QED
    BY <2>1, <2>2
    DEF BufferInv, Buffering, OneOwner, Owner, Undos, Fresh, LimitNeedsMessages, Counted
<1> QED  BY <1>1, <1>2, <1>3

LEMMA BufferInvTheorem == Spec => []BufferInv
BY TypesTheorem, BufferInvInit, BufferInvNext, PTL DEF Spec

\* A printer prints no message older than the notices it has taken, however
\* the writer overwrites the memory and whoever is killed (WriterGetchar,
\* BufferP, PrinterPutchar, BufferV, Terminate).
THEOREM FreshTheorem == Spec => []Fresh
<1>1. TypeOK /\ BufferInv => Fresh
  <2> SUFFICES ASSUME TypeOK, BufferInv, ~Buffering PROVE Fresh
    BY DEF BufferInv
  <2>1. \A p \in Process : program[p] # "printer"
    BY Exercises
    DEF TypeOK, SystemTypeOK, Lettering, Summing, Letters, SumPrograms, Adders, Zeroers
  <2> QED  BY <2>1 DEF Fresh
<1> QED  BY <1>1, TypesTheorem, BufferInvTheorem, PTL

LEMMA TurnLimitInit == Init => TurnLimit
<1> SUFFICES ASSUME Init PROVE TurnLimit
  OBVIOUS
<1>1. value = 0 /\ undo = [p \in Process |-> 0] /\ hit = {}
  BY DEF Init, SystemInit
<1> QED  BY <1>1, WithinType DEF TurnLimit

LEMMA TurnLimitNext ==
  ASSUME Cardinality(Process) <= SemMax
  PROVE  TypeOK /\ TurnLimit /\ [Next]_vars => TurnLimit'
<1> SUFFICES ASSUME TypeOK, TurnLimit, [Next]_vars PROVE TurnLimit'
  OBVIOUS
<1>1. CASE Next /\ Turning
  BY <1>1, TurningSteps, TurnLimitKeeps
<1>2. CASE Next /\ ~Turning
  <2>1. program' = program
    BY <1>2, ProgramStays
  <2> QED  BY <1>2, <2>1 DEF TurnLimit, Turning
<1>3. CASE UNCHANGED vars
  <2>1. UNCHANGED <<program, pc, value, undo, semId, hit>>
    BY <1>3 DEF vars, systemVars, semVars
  <2>2. Within' = Within
    BY <2>1 DEF Within, Inside
  <2> QED  BY <2>1, <2>2 DEF TurnLimit, Turning, Inside
<1> QED  BY <1>1, <1>2, <1>3

\* A limit of the kernel is passed in Ex 2 only, and only after SemMax whole
\* messages, provided a semaphore can count the processes there are (SEMVMX
\* is 32767, and so is the highest pid unless the user raises it).
THEOREM LimitTheorem ==
  ASSUME Cardinality(Process) <= SemMax
  PROVE  Spec => []LimitNeedsMessages
<1>1. TypeOK /\ BufferInv /\ TurnLimit => LimitNeedsMessages
  <2> SUFFICES ASSUME TypeOK, TurnLimit, ~Buffering PROVE LimitNeedsMessages
    BY DEF BufferInv
  <2>1. Turning
    BY Exercises DEF TypeOK, SystemTypeOK, Turning, Turns, Summing, Lettering
  <2> QED  BY <2>1 DEF TurnLimit, LimitNeedsMessages
<1>2. TypeOK /\ TurnLimit /\ [Next]_vars => TurnLimit'
  BY TurnLimitNext
<1>3. Spec => []TurnLimit
  BY <1>2, TypesTheorem, TurnLimitInit, PTL DEF Spec
<1> QED  BY <1>1, <1>3, TypesTheorem, BufferInvTheorem, PTL

-----------------------------------------------------------------------------
(***************************************************************************)
(* Sums over finite sets, for Conserved.  The induction is over the set,   *)
(* by its smallest subset that makes the statement false: FoldExists says  *)
(* that the recursion MapThenSumSet stands for has a solution, and the     *)
(* lemmas after it are what a sum of integers does.                        *)
(***************************************************************************)
Pick(s) == CHOOSE x \in s : TRUE
Fold(g, f, S) ==
  g = [s \in SUBSET S |-> IF s = {} THEN 0 ELSE f[Pick(s)] + g[s \ {Pick(s)}]]
SumOver(f, S) == MapThenSumSet(LAMBDA p : f[p], S)

LEMMA SumIsFold ==
  ASSUME NEW f, NEW S
  PROVE  SumOver(f, S) = (CHOOSE g : Fold(g, f, S))[S]
BY DEF SumOver, MapThenSumSet, MapThenFoldSet, Fold, Pick

\* The first of the sets that make P false, if there is one, has only smaller
\* ones that make it true.
LEMMA SmallestSubset ==
  ASSUME NEW S, IsFiniteSet(S), NEW Bad, Bad \subseteq SUBSET S, Bad # {}
  PROVE  \E T \in Bad : \A U \in SUBSET T : U # T => U \notin Bad
<1> DEFINE R == StrictSubsetOrdering(S)
<1>1. IsWellFoundedOn(R, FiniteSubsetsOf(S))
  BY FS_StrictSubsetOrderingWellFounded
<1>2. Bad \subseteq FiniteSubsetsOf(S)
  BY FS_Subset DEF FiniteSubsetsOf
<1> HIDE DEF R
<1>3. \E x \in Bad : \A y \in Bad : ~(<<y, x>> \in R)
  BY <1>1, <1>2, WFMin
<1>4. PICK T \in Bad : \A y \in Bad : <<y, T>> \notin R
  BY <1>3
<1>5. ASSUME NEW U \in SUBSET T, U # T PROVE U \notin Bad
  <2>1. U \in SUBSET S /\ T \in SUBSET S
    OBVIOUS
  <2>2. <<U, T>> \in R
    BY <1>5, <2>1 DEF R, StrictSubsetOrdering
  <2> QED  BY <1>4, <2>2
<1> QED  BY <1>4, <1>5

LEMMA FoldUnique ==
  ASSUME NEW U, IsFiniteSet(U), NEW T, NEW f,
         NEW g, Fold(g, f, U), NEW h, Fold(h, f, T)
  PROVE  \A V \in SUBSET (U \cap T) : g[V] = h[V]
<1> DEFINE Bad == {V \in SUBSET (U \cap T) : g[V] # h[V]}
<1> SUFFICES ASSUME Bad # {} PROVE FALSE
  OBVIOUS
<1>1. Bad \subseteq SUBSET U
  OBVIOUS
<1> HIDE DEF Bad
<1>2. PICK V \in Bad : \A W \in SUBSET V : W # V => W \notin Bad
  BY <1>1, SmallestSubset
<1>3. V \in SUBSET U /\ V \in SUBSET T /\ g[V] # h[V]
  BY <1>2 DEF Bad
<1>4. CASE V = {}
  BY <1>3, <1>4 DEF Fold
<1>5. CASE V # {}
  <2> DEFINE W == V \ {Pick(V)}
  <2>1. Pick(V) \in V
    BY <1>5 DEF Pick
  <2>2. W \in SUBSET V /\ W # V
    BY <2>1
  <2>3. g[W] = h[W]
    BY <1>2, <1>3, <2>2 DEF Bad
  <2>4. g[V] = f[Pick(V)] + g[W] /\ h[V] = f[Pick(V)] + h[W]
    BY <1>3, <1>5 DEF Fold
  <2> QED  BY <1>3, <2>3, <2>4
<1> QED  BY <1>4, <1>5

LEMMA FoldExists ==
  ASSUME NEW S, IsFiniteSet(S), NEW f
  PROVE  \E g : Fold(g, f, S)
<1> DEFINE Bad == {T \in SUBSET S : ~\E g : Fold(g, f, T)}
<1> SUFFICES ASSUME Bad # {} PROVE FALSE
  OBVIOUS
<1>1. Bad \subseteq SUBSET S
  OBVIOUS
<1> HIDE DEF Bad
<1>2. PICK T \in Bad : \A W \in SUBSET T : W # T => W \notin Bad
  BY <1>1, SmallestSubset
<1>3. T \in SUBSET S /\ ~\E g : Fold(g, f, T)
  BY <1>2 DEF Bad
<1> DEFINE Sol(U) == CHOOSE g : Fold(g, f, U)
           h(U) == Sol(U)[U]
           G == [s \in SUBSET T |-> IF s = {} THEN 0 ELSE f[Pick(s)] + h(s \ {Pick(s)})]
<1>4. ASSUME NEW U \in SUBSET T, U # T PROVE Fold(Sol(U), f, U)
  <2>1. U \in SUBSET S /\ U \notin Bad
    BY <1>2, <1>3, <1>4
  <2>2. \E g : Fold(g, f, U)
    BY <2>1 DEF Bad
  <2> QED  BY <2>2
<1> HIDE DEF Sol
<1>5. ASSUME NEW U \in SUBSET T, U # T
      PROVE  h(U) = IF U = {} THEN 0 ELSE f[Pick(U)] + h(U \ {Pick(U)})
  <2>1. Fold(Sol(U), f, U)
    BY <1>4, <1>5
  <2>2. CASE U = {}
    BY <2>1, <2>2 DEF Fold
  <2>3. CASE U # {}
    <3> DEFINE V == U \ {Pick(U)}
    <3>1. Pick(U) \in U
      BY <2>3 DEF Pick
    <3>2. V \in SUBSET T /\ V # T /\ V \in SUBSET U
      BY <3>1
    <3>3. Fold(Sol(V), f, V)
      BY <1>4, <3>2
    <3>4. \A W \in SUBSET (U \cap V) : Sol(U)[W] = Sol(V)[W]
      <4>1. IsFiniteSet(U)
        BY <1>3, FS_Subset
      <4> HIDE DEF V
      <4> QED  BY <2>1, <3>3, <4>1, FoldUnique
    <3>5. Sol(U)[V] = Sol(V)[V]
      BY <3>2, <3>4
    <3>6. Sol(U)[U] = f[Pick(U)] + Sol(U)[V]
      BY <2>1, <2>3 DEF Fold
    <3> QED  BY <2>3, <3>5, <3>6
  <2> QED  BY <2>2, <2>3
<1> HIDE DEF h
<1>6. ASSUME NEW s \in SUBSET T, s # {}
      PROVE  G[s] = f[Pick(s)] + G[s \ {Pick(s)}]
  <2> DEFINE V == s \ {Pick(s)}
  <2>1. Pick(s) \in s
    BY <1>6 DEF Pick
  <2>2. V \in SUBSET T /\ V # T
    BY <2>1
  <2>3. G[V] = IF V = {} THEN 0 ELSE f[Pick(V)] + h(V \ {Pick(V)})
    BY <2>2
  <2>4. h(V) = IF V = {} THEN 0 ELSE f[Pick(V)] + h(V \ {Pick(V)})
    BY <1>5, <2>2
  <2>5. G[s] = f[Pick(s)] + h(V)
    BY <1>6
  <2> QED  BY <2>3, <2>4, <2>5
<1>7. G[{}] = 0
  OBVIOUS
<1>8. G = [s \in SUBSET T |-> IF s = {} THEN 0 ELSE f[Pick(s)] + G[s \ {Pick(s)}]]
  <2>1. \A s \in SUBSET T : G[s] = IF s = {} THEN 0 ELSE f[Pick(s)] + G[s \ {Pick(s)}]
    BY <1>6, <1>7
  <2>2. G = [s \in SUBSET T |-> G[s]]
    OBVIOUS
  <2> HIDE DEF G
  <2> QED  BY <2>1, <2>2
<1>9. Fold(G, f, T)
  BY <1>8 DEF Fold
<1> QED  BY <1>3, <1>9

\* A sum over a finite set, one element taken out.
LEMMA SumOnce ==
  ASSUME NEW S, IsFiniteSet(S), NEW f
  PROVE  SumOver(f, S) = IF S = {} THEN 0 ELSE f[Pick(S)] + SumOver(f, S \ {Pick(S)})
<1> DEFINE g == CHOOSE k : Fold(k, f, S)
<1>1. Fold(g, f, S)
  BY FoldExists
<1>2. SumOver(f, S) = g[S]
  BY SumIsFold
<1> HIDE DEF g
<1>3. CASE S = {}
  BY <1>1, <1>2, <1>3 DEF Fold
<1>4. CASE S # {}
  <2> DEFINE T == S \ {Pick(S)}
             h == CHOOSE k : Fold(k, f, T)
  <2>1. IsFiniteSet(T) /\ T \in SUBSET S
    BY FS_Subset
  <2> HIDE DEF T
  <2>2. Fold(h, f, T)
    BY <2>1, FoldExists
  <2>3. SumOver(f, T) = h[T]
    BY SumIsFold
  <2> HIDE DEF h
  <2>4. S \in SUBSET S
    OBVIOUS
  <2>5. \A V \in SUBSET (S \cap T) : g[V] = h[V]
    BY <1>1, <2>2, FoldUnique
  <2>6. g[T] = h[T]
    BY <2>1, <2>5
  <2>7. g[S] = f[Pick(S)] + g[T]
    BY <1>1, <1>4, <2>4 DEF Fold, T
  <2> QED  BY <1>2, <1>4, <2>3, <2>6, <2>7 DEF T
<1> QED  BY <1>3, <1>4

LEMMA SumType ==
  ASSUME NEW S, IsFiniteSet(S), NEW f \in [S -> Int]
  PROVE  \A T \in SUBSET S : SumOver(f, T) \in Int
<1> DEFINE Bad == {T \in SUBSET S : SumOver(f, T) \notin Int}
<1> SUFFICES ASSUME Bad # {} PROVE FALSE
  OBVIOUS
<1>1. Bad \subseteq SUBSET S
  OBVIOUS
<1> HIDE DEF Bad
<1>2. PICK T \in Bad : \A W \in SUBSET T : W # T => W \notin Bad
  BY <1>1, SmallestSubset
<1>3. T \in SUBSET S /\ SumOver(f, T) \notin Int /\ IsFiniteSet(T)
  BY <1>2, FS_Subset DEF Bad
<1>4. SumOver(f, T) = IF T = {} THEN 0 ELSE f[Pick(T)] + SumOver(f, T \ {Pick(T)})
  BY <1>3, SumOnce
<1>5. T # {}
  BY <1>3, <1>4
<1>6. Pick(T) \in T
  BY <1>5 DEF Pick
<1>7. SumOver(f, T \ {Pick(T)}) \in Int
  <2> DEFINE U == T \ {Pick(T)}
  <2>1. U \in SUBSET T /\ U # T /\ U \in SUBSET S
    BY <1>3, <1>6
  <2> HIDE DEF U
  <2>2. SumOver(f, U) \in Int
    BY <1>2, <2>1 DEF Bad
  <2> QED  BY <2>2 DEF U
<1>8. f[Pick(T)] \in Int
  BY <1>3, <1>6
<1> QED  BY <1>3, <1>4, <1>5, <1>7, <1>8

\* Functions that differ at one argument have sums that differ by as much.
LEMMA SumChange ==
  ASSUME NEW S, IsFiniteSet(S), NEW f \in [S -> Int], NEW g \in [S -> Int],
         NEW p \in S, \A q \in S : q # p => g[q] = f[q]
  PROVE  SumOver(g, S) = SumOver(f, S) + (g[p] - f[p])
<1> DEFINE d(T) == IF p \in T THEN g[p] - f[p] ELSE 0
           Bad == {T \in SUBSET S : SumOver(g, T) # SumOver(f, T) + d(T)}
<1> SUFFICES ASSUME Bad # {} PROVE FALSE
  OBVIOUS
<1>1. Bad \subseteq SUBSET S
  OBVIOUS
<1> HIDE DEF Bad
<1>2. PICK T \in Bad : \A W \in SUBSET T : W # T => W \notin Bad
  BY <1>1, SmallestSubset
<1>3. T \in SUBSET S /\ SumOver(g, T) # SumOver(f, T) + d(T) /\ IsFiniteSet(T)
  BY <1>2, FS_Subset DEF Bad
<1>4. /\ SumOver(f, T) = IF T = {} THEN 0 ELSE f[Pick(T)] + SumOver(f, T \ {Pick(T)})
      /\ SumOver(g, T) = IF T = {} THEN 0 ELSE g[Pick(T)] + SumOver(g, T \ {Pick(T)})
  BY <1>3, SumOnce
<1>5. T # {}
  BY <1>3, <1>4
<1>6. Pick(T) \in T
  BY <1>5 DEF Pick
<1> DEFINE U == T \ {Pick(T)}
<1>7. SumOver(g, U) = SumOver(f, U) + d(U) /\ U \in SUBSET S
  <2>1. U \in SUBSET T /\ U # T /\ U \in SUBSET S
    BY <1>3, <1>6
  <2> HIDE DEF U, d
  <2> QED  BY <1>2, <2>1 DEF Bad
<1>8. f[Pick(T)] \in Int /\ g[Pick(T)] \in Int /\ f[p] \in Int /\ g[p] \in Int
  BY <1>3, <1>6
<1>9. SumOver(f, U) \in Int
  BY <1>7, SumType
<1>10. SumOver(f, T) = f[Pick(T)] + SumOver(f, U) /\ SumOver(g, T) = g[Pick(T)] + SumOver(g, U)
  BY <1>4, <1>5
<1>11. g[Pick(T)] + d(U) = f[Pick(T)] + d(T)
  <2>1. CASE Pick(T) = p
    BY <1>6, <1>8, <2>1
  <2>2. CASE Pick(T) # p
    <3>1. g[Pick(T)] = f[Pick(T)]
      BY <1>3, <1>6, <2>2
    <3>2. d(U) = d(T)
      BY <2>2
    <3> QED  BY <3>1, <3>2
  <2> QED  BY <2>1, <2>2
<1>12. d(U) \in Int /\ d(T) \in Int
  BY <1>8
<1> HIDE DEF U, d
<1> QED  BY <1>3, <1>7, <1>8, <1>9, <1>10, <1>11, <1>12

LEMMA SumZeros ==
  ASSUME NEW S, IsFiniteSet(S), NEW f, \A p \in S : f[p] = 0
  PROVE  SumOver(f, S) = 0
<1> DEFINE Bad == {T \in SUBSET S : SumOver(f, T) # 0}
<1> SUFFICES ASSUME Bad # {} PROVE FALSE
  OBVIOUS
<1>1. Bad \subseteq SUBSET S
  OBVIOUS
<1> HIDE DEF Bad
<1>2. PICK T \in Bad : \A W \in SUBSET T : W # T => W \notin Bad
  BY <1>1, SmallestSubset
<1>3. T \in SUBSET S /\ SumOver(f, T) # 0 /\ IsFiniteSet(T)
  BY <1>2, FS_Subset DEF Bad
<1>4. SumOver(f, T) = IF T = {} THEN 0 ELSE f[Pick(T)] + SumOver(f, T \ {Pick(T)})
  BY <1>3, SumOnce
<1>5. T # {}
  BY <1>3, <1>4
<1>6. Pick(T) \in T
  BY <1>5 DEF Pick
<1>7. SumOver(f, T \ {Pick(T)}) = 0
  <2> DEFINE U == T \ {Pick(T)}
  <2>1. U \in SUBSET T /\ U # T /\ U \in SUBSET S
    BY <1>3, <1>6
  <2> HIDE DEF U
  <2>2. SumOver(f, U) = 0
    BY <1>2, <2>1 DEF Bad
  <2> QED  BY <2>2 DEF U
<1>8. f[Pick(T)] = 0
  BY <1>3, <1>6
<1> QED  BY <1>3, <1>4, <1>5, <1>7, <1>8

-----------------------------------------------------------------------------
(* What is left in the semaphore and what will come back are its value.    *)

SemStep(p) ==
  \/ UNCHANGED <<value, undo, base>> /\ hit \subseteq hit'
  \/ \E n \in {-1, 1} : SemOp(p, n, "SEM_UNDO")
  \/ \E v \in {0, 1} : SemSet(p, v)
  \/ SemRemove(p)
  \/ \E fate \in {{}, {"kill"}} : Terminate(p, fate)

LEMMA SemSteps ==
  ASSUME Next
  PROVE  \E p \in Process : SemStep(p)
<1>1. ASSUME NEW p \in Process, LettersStep(p) PROVE SemStep(p)
  BY <1>1
  DEF LettersStep, LettersSemget, LettersSetSemValue, LettersP, LettersPutchar, LettersV,
      LettersDelSemValue, LettersReturn, SemStep, SemCreate, SemFind, NoSemCall, semVars, Leave
<1>2. ASSUME NEW p \in Process, BufferStep(p) PROVE SemStep(p)
  BY <1>2
  DEF BufferStep, WriterSetup, BufferP, PrinterSetup, PrinterPutchar, BufferV, BufferCrash,
      SemStep, SemCreate, SemFind, NoSemCall, semVars, Crash
<1>3. ASSUME NEW p \in Process, SumStep(p) PROVE SemStep(p)
  BY <1>3
  DEF SumStep, SumShmget, SumZero, SumSemaphore, SumP, SumLoad, SumStore, SumV, SumShmdt,
      SumReturn, SemStep, SemCreate, NoSemCall, semVars, Leave, Crash
<1>4. ASSUME NEW p \in Process, Type(p) \/ Interrupt(p) \/ StartAgain(p) PROVE SemStep(p)
  BY <1>4
  DEF Type, BufferInput, WriterGetchar, Interrupt, Kill, StartAgain, Restart, SemStep, NoSemCall,
      semVars
<1> QED  BY <1>1, <1>2, <1>3, <1>4 DEF Next, Step

LEMMA SumOfUndo == Sum(undo) = SumOver(undo, Process) /\ Sum(undo)' = SumOver(undo', Process)
<1>1. Sum(undo) = SumOver(undo, Process)
  BY DEF Sum, SumOver, MapThenSumSet, MapThenFoldSet
<1>2. Sum(undo)' = SumOver(undo', Process)
  BY DEF Sum, SumOver, MapThenSumSet, MapThenFoldSet
<1> QED  BY <1>1, <1>2

LEMMA ConservedNext == TypeOK /\ Conserved /\ [Next]_vars => Conserved'
<1> SUFFICES ASSUME TypeOK, Conserved, [Next]_vars, "clamp" \notin hit'
             PROVE  value' + SumOver(undo', Process) = base'
  BY SumOfUndo DEF Conserved
<1>0. /\ undo \in [Process -> Int] /\ value \in Int /\ base \in Int
      /\ SumOver(undo, Process) \in Int
      /\ "clamp" \notin hit => value + SumOver(undo, Process) = base
  <2>1. undo \in [Process -> Int] /\ value \in Int /\ base \in Int
    BY DEF TypeOK, SystemTypeOK
  <2>2. Process \in SUBSET Process
    OBVIOUS
  <2> QED  BY <2>1, <2>2, SumType, SumOfUndo DEF Conserved
<1>1. CASE UNCHANGED vars
  BY <1>0, <1>1 DEF vars, systemVars, semVars
<1>2. ASSUME NEW p \in Process, SemStep(p)
      PROVE  value' + SumOver(undo', Process) = base'
  <2>1. ASSUME UNCHANGED <<value, undo, base>>, hit \subseteq hit'
        PROVE  value' + SumOver(undo', Process) = base'
    BY <1>0, <2>1
  <2>2. ASSUME \A q \in Process : undo'[q] = 0, value' = base'
        PROVE  value' + SumOver(undo', Process) = base'
    <3>1. SumOver(undo', Process) = 0
      BY <2>2, SumZeros
    <3>2. value' \in Int
      BY TypesNext DEF TypeOK, SystemTypeOK
    <3>3. \A x \in Int : x + 0 = x
      OBVIOUS
    <3> QED  BY <2>2, <3>1, <3>2, <3>3
  <2>3. ASSUME NEW n \in Int, "clamp" \notin hit, base' = base, value' = value + n,
               undo' \in [Process -> Int], undo'[p] = undo[p] - n,
               \A q \in Process : q # p => undo'[q] = undo[q]
        PROVE  value' + SumOver(undo', Process) = base'
    <3>1. SumOver(undo', Process) = SumOver(undo, Process) + (undo'[p] - undo[p])
      BY <1>0, <2>3, SumChange
    <3>2. undo[p] \in Int
      BY <1>0
    <3> DEFINE X == SumOver(undo, Process)
               Y == SumOver(undo', Process)
    <3>3. X \in Int /\ value + X = base /\ Y = X + (undo'[p] - undo[p])
      BY <1>0, <2>3, <3>1
    <3> HIDE DEF X, Y
    <3>4. value' + Y = base'
      BY <1>0, <2>3, <3>2, <3>3
    <3> QED  BY <3>4 DEF Y
  <2>4. CASE \E n \in {-1, 1} : SemOp(p, n, "SEM_UNDO")
    <3>1. PICK n \in {-1, 1} : SemOp(p, n, "SEM_UNDO")
      BY <2>4
    <3>2. CASE value' = value + n /\ undo' = [undo EXCEPT ![p] = @ - n] /\ UNCHANGED <<base, hit>>
      <4>1. /\ undo' \in [Process -> Int] /\ undo'[p] = undo[p] - n
            /\ \A q \in Process : q # p => undo'[q] = undo[q]
        BY <1>0, <3>2
      <4>2. n \in Int /\ "clamp" \notin hit /\ base' = base /\ value' = value + n
        BY <3>2
      <4> QED  BY <2>3, <4>1, <4>2
    <3>3. CASE UNCHANGED semVars /\ hit \subseteq hit'
      BY <2>1, <3>3 DEF semVars
    <3> QED  BY <3>1, <3>2, <3>3 DEF SemOp, NoSemCall
  <2>5. CASE \E v \in {0, 1} : SemSet(p, v)
    BY <2>1, <2>2, <2>5 DEF SemSet, NoSemCall, semVars
  <2>6. CASE SemRemove(p)
    BY <2>1, <2>2, <2>6 DEF SemRemove, NoSemCall, semVars
  <2>7. CASE \E fate \in {{}, {"kill"}} : Terminate(p, fate)
    <3>1. /\ undo' = [undo EXCEPT ![p] = 0] /\ base' = base /\ hit \subseteq hit'
          /\ value' = Min({SemMax, Max({0, Undone(p)})})
          /\ Undone(p) \notin 0 .. SemMax => "clamp" \in hit'
      BY <2>7 DEF Terminate
    <3>2. Undone(p) = value + undo[p] /\ Undone(p) \in Int /\ undo[p] \in Int
      BY <1>0 DEF Undone
    <3>3. value' = IF Undone(p) < 0 THEN 0 ELSE IF Undone(p) > SemMax THEN SemMax ELSE Undone(p)
      BY <3>1, <3>2, Clamp
    <3>4. value' = value + undo[p]
      <4>1. Undone(p) \in 0 .. SemMax
        BY <3>1
      <4> HIDE DEF Undone
      <4> QED  BY <3>2, <3>3, <4>1
    <3>5. /\ undo' \in [Process -> Int] /\ undo'[p] = undo[p] - undo[p]
          /\ \A q \in Process : q # p => undo'[q] = undo[q]
      BY <1>0, <3>1, <3>2
    <3> QED  BY <2>3, <3>1, <3>2, <3>4, <3>5
  <2> QED  BY <1>2, <2>1, <2>4, <2>5, <2>6, <2>7 DEF SemStep
<1> QED  BY <1>1, <1>2, SemSteps

\* What processes took and have not put back comes back when they end, by
\* their own semop() or by SEM_UNDO, wherever they are killed, as long as the
\* kernel does not stop at a bound (SemOp, Terminate).
THEOREM ConservedTheorem == Spec => []Conserved
<1>1. Init => Conserved
  <2> SUFFICES ASSUME Init PROVE value + SumOver(undo, Process) = base
    BY SumOfUndo DEF Conserved
  <2>1. value = 0 /\ base = 0 /\ \A p \in Process : undo[p] = 0
    BY DEF Init, SystemInit
  <2>2. SumOver(undo, Process) = 0
    BY <2>1, SumZeros
  <2> QED  BY <2>1, <2>2
<1> QED  BY <1>1, TypesTheorem, ConservedNext, PTL DEF Spec
=============================================================================
