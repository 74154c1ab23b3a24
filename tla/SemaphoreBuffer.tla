--------------------------- MODULE SemaphoreBuffer --------------------------
(***************************************************************************)
(* Lab 7, Ex 2: the process started with an argument (the writer) copies   *)
(* what it reads into shared memory, Size characters at a time; the others *)
(* (the printers) print the memory.  semaforoP() adds one to the semaphore *)
(* and semaforoV() takes one: they are a notice that there is a message,   *)
(* and the wait for it.  A character is modelled by the number of the      *)
(* message it belongs to, and by 0 when nobody has written it.             *)
(***************************************************************************)
EXTENDS SystemV, Sequences

CONSTANTS
  Size,      (* The length of a message, 16 in the code.                   *)
  Messages   (* How many messages the user types (a bound).                *)

ASSUME SizeAssumption == Size \in Nat \ {0} /\ Messages \in Nat

VARIABLES
  msg,       (* The shared memory.                                         *)
  typed,     (* The characters stored in it so far.                        *)
  line       (* What each printer has printed since it last waited.        *)

bufferVars == <<msg, typed, line>>

BufferInit ==
  /\ msg = [k \in 1 .. Size |-> 0]
  /\ typed = 0
  /\ line = [p \in Process |-> <<>>]

\* Mutant of WriterSetup: semaforoP() at the head of the loop.
WriterSetup_NoticeFirst(p) ==
  /\ \/ /\ At(p, {"writer"}, "shmget") /\ ShmCreate(p) /\ NoSemCall
        /\ Goto(p, "semget")
     \/ /\ At(p, {"writer"}, "semget") /\ SemCreate(p) /\ UNCHANGED shmVars
        /\ Goto(p, "semctl")
     \/ /\ At(p, {"writer"}, "semctl") /\ SemSet(p, 0) /\ UNCHANGED shmVars
        /\ Goto(p, "P")
  /\ UNCHANGED <<i, bufferVars>>

WriterSetup(p) ==
  /\ \/ /\ At(p, {"writer"}, "shmget") /\ ShmCreate(p) /\ NoSemCall
        /\ Goto(p, "semget")
     \/ /\ At(p, {"writer"}, "semget") /\ SemCreate(p) /\ UNCHANGED shmVars
        /\ Goto(p, "semctl")
     \/ /\ At(p, {"writer"}, "semctl") /\ SemSet(p, 0) /\ UNCHANGED shmVars
        /\ Goto(p, "getchar")
  /\ UNCHANGED <<i, bufferVars>>

\* Mutant of WriterGetchar: semaforoP() inside the inner loop.
WriterGetchar_NoticeEach(p) ==
  /\ At(p, {"writer"}, "getchar") /\ p \in attached
  /\ typed < Messages * Size
  /\ msg' = [msg EXCEPT ![i[p] + 1] = (typed \div Size) + 1]
  /\ typed' = typed + 1
  /\ i' = [i EXCEPT ![p] = @ + 1]
  /\ Goto(p, "P")
  /\ NoSemCall /\ UNCHANGED <<shmVars, line>>

\* getchar() until there is a character, and the character stored.
WriterGetchar(p) ==
  /\ At(p, {"writer"}, "getchar") /\ p \in attached
  /\ typed < Messages * Size
  /\ msg' = [msg EXCEPT ![i[p] + 1] = (typed \div Size) + 1]
  /\ typed' = typed + 1
  /\ i' = [i EXCEPT ![p] = @ + 1]
  /\ Goto(p, IF i'[p] < Size THEN "getchar" ELSE "P")
  /\ NoSemCall /\ UNCHANGED <<shmVars, line>>

BufferP(p) ==
  /\ At(p, {"writer"}, "P")
  /\ SemOp(p, 1, "SEM_UNDO")
  /\ i' = [i EXCEPT ![p] = 0]
  /\ Goto(p, "getchar")
  /\ UNCHANGED <<shmVars, bufferVars>>

PrinterSetup(p) ==
  /\ \/ /\ At(p, {"printer"}, "semget") /\ SemFind(p) /\ UNCHANGED shmVars
        /\ Goto(p, "shmget")
     \/ /\ At(p, {"printer"}, "shmget") /\ ShmAttach(p) /\ NoSemCall
        /\ Goto(p, "putchar")
  /\ UNCHANGED <<i, bufferVars>>

PrinterPutchar(p) ==
  /\ At(p, {"printer"}, "putchar") /\ p \in attached
  /\ line' = [line EXCEPT ![p] = Append(@, msg[i[p] + 1])]
  /\ i' = [i EXCEPT ![p] = @ + 1]
  /\ Goto(p, IF i'[p] < Size THEN "putchar" ELSE "V")
  /\ NoSemCall /\ UNCHANGED <<shmVars, msg, typed>>

\* Mutant of BufferV: sem_op = -2.
BufferV_TakesTwo(p) ==
  /\ At(p, {"printer"}, "V")
  /\ SemOp(p, -2, "SEM_UNDO")
  /\ i' = [i EXCEPT ![p] = 0]
  /\ line' = [line EXCEPT ![p] = <<>>]
  /\ Goto(p, "putchar")
  /\ UNCHANGED <<shmVars, msg, typed>>

BufferV(p) ==
  /\ At(p, {"printer"}, "V")
  /\ SemOp(p, -1, "SEM_UNDO")
  /\ i' = [i EXCEPT ![p] = 0]
  /\ line' = [line EXCEPT ![p] = <<>>]
  /\ Goto(p, "putchar")
  /\ UNCHANGED <<shmVars, msg, typed>>

\* SIGSEGV at the first msg[i].  A writer needs a character to store for it.
BufferCrash(p) ==
  /\ \/ At(p, {"writer"}, "getchar") /\ typed < Messages * Size
     \/ At(p, {"printer"}, "putchar")
  /\ Crash(p)
  /\ UNCHANGED <<msg, typed>>
  /\ line' = [line EXCEPT ![p] = <<>>]

BufferStep(p) ==
  \/ /\ \/ WriterSetup(p) \/ BufferP(p)
        \/ PrinterSetup(p) \/ PrinterPutchar(p) \/ BufferV(p)
     /\ UNCHANGED <<program, starts>>
  \/ BufferCrash(p)

\* The user types, at his own pace.
BufferInput(p) == WriterGetchar(p) /\ UNCHANGED <<program, starts>>
=============================================================================
