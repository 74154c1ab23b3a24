-------------------------------- MODULE Races -------------------------------
(***************************************************************************)
(* The thread exercises of Labs 8 and 9 that share a counter.  One of      *)
(* their programs runs; the others' variables stay as they are.            *)
(***************************************************************************)
EXTENDS FrogRace, CountingThreads

VARIABLE exercise   (* The program that runs. *)

vars == <<exercise, threadVars, frogVars, countVars>>

Frog == exercise = "Lab 9"
Counting == exercise = "Lab 8"

Init ==
  /\ exercise \in {"Lab 8", "Lab 9"}
  /\ ThreadsInit(IF Frog THEN Frogs ELSE 1 .. 2)
  /\ FrogInit
  /\ CountInit

FrogStep(f) == Frog /\ Correr(f) /\ UNCHANGED <<exercise, countVars>>
CountStep(t) == Counting /\ Count(t) /\ UNCHANGED <<exercise, frogVars>>

MainStep ==
  /\ \/ Frog /\ FrogMain /\ UNCHANGED countVars
     \/ Counting /\ CountMain /\ UNCHANGED frogVars
  /\ UNCHANGED exercise

Next == MainStep \/ (\E f \in Frogs : FrogStep(f)) \/ (\E t \in 1 .. 2 : CountStep(t))

\* Every thread runs.  A jump of length 0 changes nothing, so that fairness
\* also says that rand() does not give a frog 0 for ever.
Fairness ==
  /\ WF_vars(MainStep)
  /\ \A f \in Frogs : WF_vars(FrogStep(f))
  /\ \A t \in 1 .. 2 : WF_vars(CountStep(t))

Spec == Init /\ [][Next]_vars /\ Fairness

-----------------------------------------------------------------------------
\* Without the mutex frogs may be told the same place, but none a worse one
\* than the one it has: a frog counts the place up only after its own line
\* is out.
NoPlaceTooLate == \A k \in 1 .. Len(lines) : lines[k].place <= k

FL == INSTANCE FinishLine WITH report <- IF mutexed THEN lines ELSE <<>>

\* With the mutex the race implements the finish line that hands out the
\* places in order, each once.
ImplementsFinishLine == FL!FinishLineSpec

\* What main() may rely on when it has joined its threads.  Of the race: every
\* frog has had its line, and the counters are right with the mutex; without
\* it at least one increment is left of each.  Of the two threads of Lab 8: no
\* count is made up and, though a late store undoes all that the other thread
\* has counted since its load, two counts are left.
Outcome ==
  /\ Frog /\ MainReturns(NUM_THREADS) =>
       /\ {lines[k].frog : k \in 1 .. Len(lines)} = Frogs
       /\ cont \in 1 .. NUM_THREADS /\ classificacao \in 2 .. NUM_THREADS + 1
       /\ mutexed => cont = NUM_THREADS /\ classificacao = NUM_THREADS + 1
  /\ Counting /\ MainReturns(2) =>
       /\ global <= Rounds[1] + Rounds[2]
       /\ Rounds[1] >= 2 /\ Rounds[2] >= 2 => global >= 2

\* The race and the counting come to their end.
MainEnds == <>(main = 2 * (IF Frog THEN NUM_THREADS ELSE 2))
=============================================================================
