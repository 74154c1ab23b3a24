------------------------- MODULE SemaphoreExercises -------------------------
(***************************************************************************)
(* The three exercises of Lab 7 under the same users: they run the         *)
(* programs of one exercise at a time, kill processes and start them       *)
(* again.                                                                  *)
(***************************************************************************)
EXTENDS SemaphoreLetters, SemaphoreBuffer, SemaphoreSum

\* The exercises use different keys: nobody in the other two meets the
\* semaphore and the segment of the one the users run.
ASSUME OneExercise ==
  \A s \in Scenarios :
    \E exercise \in {Letters, {"writer", "printer"}, SumPrograms} :
      \A p \in Process : s[p] \in exercise \cup {"nobody"}

vars == <<systemVars, bufferVars, sumVars>>

Entry(prog) ==
  CASE prog \in Letters \cup {"printer"} -> "semget"
    [] prog \in SumPrograms \cup {"writer"} -> "shmget"
    [] prog = "nobody" -> "gone"

Init ==
  /\ SystemInit
  /\ pc = [p \in Process |-> Entry(program[p])]
  /\ BufferInit
  /\ SumInit

Step(p) ==
  \/ LettersStep(p) /\ UNCHANGED <<bufferVars, sumVars>>
  \/ BufferStep(p) /\ UNCHANGED sumVars
  \/ SumStep(p) /\ UNCHANGED bufferVars

Type(p) == BufferInput(p) /\ UNCHANGED sumVars

Interrupt(p) ==
  /\ Kill(p)
  /\ line' = [line EXCEPT ![p] = <<>>]
  /\ loaded' = [loaded EXCEPT ![p] = 0]
  /\ UNCHANGED <<msg, typed, mem, due>>

StartAgain(p) ==
  /\ program[p] # "nobody"
  /\ Restart(p, Entry(program[p]))
  /\ UNCHANGED <<bufferVars, sumVars>>

Next == \E p \in Process : Step(p) \/ Type(p) \/ Interrupt(p) \/ StartAgain(p)

\* Every process that can go on does.  Nobody has to type, to kill or to
\* start a process again.
Spec == Init /\ [][Next]_vars /\ \A p \in Process : WF_vars(Step(p))

-----------------------------------------------------------------------------
Turns == Letters \cup SumPrograms

Inside(p) == program[p] \in Turns /\ pc[p] \in {"upper", "lower", "load", "store", "V"}

\* What a process has taken from the semaphore comes back when it ends, by
\* its own semop() or by SEM_UNDO, at whatever point it is killed: only a
\* bound of the kernel stops that.
Conserved == "clamp" \notin hit => value + Sum(undo) = base

\* "Entra na regiao critica": the letters of two processes do not mix and
\* the additions do not overlap, though processes are killed in the region
\* and started again.  Two things undo it: a SETVAL while somebody is in the
\* region, which every program of Ex 3 makes when it starts, and the
\* leader's IPC_RMID.
Exclusive ==
  hit \cap {"reset", "remove"} = {} => Cardinality({p \in Process : Inside(p)}) <= 1

\* No addition to mem is lost, unless a SETVAL lets two processes into the
\* region, or a process zeroes mem between another's load and its store.
NothingLost == hit \cap {"reset", "zero"} = {} => mem = due

\* A printer that has been told of n messages prints nothing older than the
\* n-th, though a line may mix it with messages that came later: the writer
\* does not wait for the printers.
Fresh ==
  \A p \in Process :
    program[p] = "printer" => \A k \in 1 .. Len(line[p]) : line[p][k] >= undo[p]

\* A notice is dropped, or a printer prints without one, only when as many
\* messages have been sent as the semaphore can count.
LimitNeedsMessages == "range" \in hit => typed >= SemMax * Size

Stranded(p) ==
  base = 0 /\ (pc[p] = "P" \/ At(p, {"follower"}, "semget"))

\* Every process of Ex 1 and Ex 3 ends, whoever is killed and whatever is
\* reset or removed, except those that wait for a semaphore nobody creates
\* or nobody sets.
Ends == <>[]\A p \in Process : program[p] \in Turns /\ Alive(p) => Stranded(p)

Told(n) == \E p \in Process : program[p] = "writer" /\ undo[p] = -n

Printed(n) ==
  \E p \in Process :
    program[p] = "printer" /\ Len(line[p]) = Size /\ \A k \in 1 .. Size : line[p][k] >= n

\* When nobody is killed, what the writer gives notice of is printed, or
\* something later is.
Delivered == <>[](hit = {} => \A n \in 1 .. Messages : Told(n) => Printed(n))
=============================================================================
