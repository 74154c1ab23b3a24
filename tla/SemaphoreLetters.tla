-------------------------- MODULE SemaphoreLetters --------------------------
(***************************************************************************)
(* Lab 7, Ex 1: processes that take turns to write a letter twice.  The    *)
(* one started with an argument (the leader) creates the semaphore, gives  *)
(* it its value and, at the end, removes it.  The others (the followers)   *)
(* wait until there is one.                                                *)
(***************************************************************************)
EXTENDS SystemV

CONSTANT Rounds   (* 10 in the code. *)

ASSUME RoundsAssumption == Rounds \in Nat \ {0}

Letters == {"leader", "follower"}

LettersSemget(p) ==
  /\ UNCHANGED <<i, shmVars>>
  /\ \/ At(p, {"leader"}, "semget") /\ SemCreate(p) /\ Goto(p, "semctl")
     \/ At(p, {"follower"}, "semget") /\ SemFind(p) /\ Goto(p, "P")

LettersSetSemValue(p) ==
  /\ At(p, {"leader"}, "semctl")
  /\ SemSet(p, 1)
  /\ Goto(p, "P")
  /\ UNCHANGED <<i, shmVars>>

\* Mutant of LettersP: sem_flg = 0.
LettersP_NoUndo(p) ==
  At(p, Letters, "P") /\ SemOp(p, -1, "") /\ Goto(p, "upper") /\ UNCHANGED <<i, shmVars>>

LettersP(p) ==
  /\ At(p, Letters, "P")
  /\ SemOp(p, -1, "SEM_UNDO")
  /\ Goto(p, "upper")
  /\ UNCHANGED <<i, shmVars>>

LettersPutchar(p) ==
  /\ \/ At(p, Letters, "upper") /\ Goto(p, "lower")
     \/ At(p, Letters, "lower") /\ Goto(p, "V")
  /\ NoSemCall
  /\ UNCHANGED <<i, shmVars>>

\* Mutants of LettersV: sem_flg = 0; no semop().
LettersV_NoUndo(p) ==
  /\ At(p, Letters, "V")
  /\ SemOp(p, 1, "")
  /\ i' = [i EXCEPT ![p] = @ + 1]
  /\ Goto(p, IF i'[p] < Rounds THEN "P" ELSE "end")
  /\ UNCHANGED shmVars

LettersV_NoCall(p) ==
  /\ At(p, Letters, "V")
  /\ NoSemCall
  /\ i' = [i EXCEPT ![p] = @ + 1]
  /\ Goto(p, IF i'[p] < Rounds THEN "P" ELSE "end")
  /\ UNCHANGED shmVars

LettersV(p) ==
  /\ At(p, Letters, "V")
  /\ SemOp(p, 1, "SEM_UNDO")
  /\ i' = [i EXCEPT ![p] = @ + 1]
  /\ Goto(p, IF i'[p] < Rounds THEN "P" ELSE "end")
  /\ UNCHANGED shmVars

LettersDelSemValue(p) ==
  /\ At(p, {"leader"}, "end")
  /\ SemRemove(p)
  /\ Goto(p, "return")
  /\ UNCHANGED <<i, shmVars>>

LettersReturn(p) ==
  /\ At(p, {"follower"}, "end") \/ At(p, {"leader"}, "return")
  /\ Leave(p)

LettersStep(p) ==
  \/ /\ \/ LettersSemget(p) \/ LettersSetSemValue(p) \/ LettersP(p)
        \/ LettersPutchar(p) \/ LettersV(p) \/ LettersDelSemValue(p)
     /\ UNCHANGED <<program, starts>>
  \/ LettersReturn(p)
=============================================================================
