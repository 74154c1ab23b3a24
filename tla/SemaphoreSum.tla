---------------------------- MODULE SemaphoreSum ----------------------------
(***************************************************************************)
(* Lab 7, Ex 3: two programs, one adding 5 and one adding 1, again and     *)
(* again, to an integer in shared memory.  Given an argument, either sets  *)
(* it to 0 first.  Each creates the semaphore when it has to, sets it to 1 *)
(* and guards its additions with it; at its end it removes the segment.    *)
(* No program of the repository creates the segment: it is there when the  *)
(* user has made it.                                                       *)
(***************************************************************************)
EXTENDS SystemV

CONSTANT Additions   (* 10 in the code. *)

ASSUME AdditionsAssumption == Additions \in Nat \ {0}

VARIABLES
  mem,       (* The shared integer.                                        *)
  loaded,    (* What each process has read of it to add to.                *)
  due        (* A history variable: the sum of what was added since mem    *)
             (* was last set to 0.                                         *)

sumVars == <<mem, loaded, due>>

Adders == {"add5", "add1"}
Zeroers == {"add5 zero", "add1 zero"}
SumPrograms == Adders \cup Zeroers

Term(p) == IF program[p] \in {"add5", "add5 zero"} THEN 5 ELSE 1

SumInit == mem = 0 /\ due = 0 /\ loaded = [p \in Process |-> 0]

SumShmget(p) ==
  /\ At(p, SumPrograms, "shmget")
  /\ ShmAttach(p)
  /\ Goto(p, IF program[p] \in Zeroers THEN "zero" ELSE "semget")
  /\ NoSemCall /\ UNCHANGED <<i, sumVars>>

\* *mem = 0.  Who has read mem already will write the old sum back.
SumZero(p) ==
  /\ At(p, Zeroers, "zero") /\ p \in attached
  /\ mem' = 0 /\ due' = 0
  /\ hit' = hit \cup IF \E q \in Process : At(q, SumPrograms, "store") THEN {"zero"} ELSE {}
  /\ Goto(p, "semget")
  /\ UNCHANGED <<i, semVars, shmVars, loaded>>

SumSemaphore(p) ==
  /\ \/ At(p, SumPrograms, "semget") /\ SemCreate(p) /\ Goto(p, "semctl")
     \/ At(p, SumPrograms, "semctl") /\ SemSet(p, 1) /\ Goto(p, "P")
  /\ UNCHANGED <<i, shmVars, sumVars>>

\* Mutant of SumP: no semop().
SumP_NoCall(p) ==
  At(p, SumPrograms, "P") /\ NoSemCall /\ Goto(p, "load") /\ UNCHANGED <<i, shmVars, sumVars>>

SumP(p) ==
  /\ At(p, SumPrograms, "P")
  /\ SemOp(p, -1, "SEM_UNDO")
  /\ Goto(p, "load")
  /\ UNCHANGED <<i, shmVars, sumVars>>

\* *mem += 5, or 1
SumLoad(p) ==
  /\ At(p, SumPrograms, "load") /\ p \in attached
  /\ loaded' = [loaded EXCEPT ![p] = mem]
  /\ Goto(p, "store")
  /\ NoSemCall /\ UNCHANGED <<i, shmVars, mem, due>>

SumStore(p) ==
  /\ At(p, SumPrograms, "store")
  /\ mem' = loaded[p] + Term(p)
  /\ due' = due + Term(p)
  /\ loaded' = [loaded EXCEPT ![p] = 0]
  /\ Goto(p, "V")
  /\ NoSemCall /\ UNCHANGED <<i, shmVars>>

SumV(p) ==
  /\ At(p, SumPrograms, "V")
  /\ SemOp(p, 1, "SEM_UNDO")
  /\ i' = [i EXCEPT ![p] = @ + 1]
  /\ Goto(p, IF i'[p] < Additions THEN "P" ELSE "shmdt")
  /\ UNCHANGED <<shmVars, sumVars>>

SumShmdt(p) ==
  /\ At(p, SumPrograms, "shmdt")
  /\ ShmRemove(p)
  /\ Goto(p, "return")
  /\ NoSemCall /\ UNCHANGED <<i, sumVars>>

SumReturn(p) ==
  /\ \/ At(p, SumPrograms, "return") /\ Leave(p)
     \/ (At(p, Zeroers, "zero") \/ At(p, SumPrograms, "load")) /\ Crash(p)
  /\ UNCHANGED sumVars

SumStep(p) ==
  \/ /\ \/ SumShmget(p) \/ SumZero(p) \/ SumSemaphore(p) \/ SumP(p)
        \/ SumLoad(p) \/ SumStore(p) \/ SumV(p) \/ SumShmdt(p)
     /\ UNCHANGED <<program, starts>>
  \/ SumReturn(p)
=============================================================================
