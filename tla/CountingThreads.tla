--------------------------- MODULE CountingThreads --------------------------
(***************************************************************************)
(* Lab 8, Ex 2: two threads that each count `global' up, without a mutex.  *)
(***************************************************************************)
EXTENDS Threads

CONSTANT Rounds   (* How often each does: <<20, 30>> in the code. *)

ASSUME RoundsAssumption == Rounds \in [1 .. 2 -> Nat]

VARIABLES
  global,         (* The shared counter.                 *)
  i               (* The rounds each thread has made.    *)

countVars == <<global, i>>

CountInit == global = 0 /\ i = [t \in 1 .. 2 |-> 0]

\* The head of the for loop and the load of global++.
CountLoad(t) ==
  /\ At(t, "loop")
  /\ IF i[t] < Rounds[t]
       THEN Load(t, global) /\ Goto(t, "store")
       ELSE Goto(t, "exit") /\ UNCHANGED reg
  /\ UNCHANGED <<main, countVars>>

\* Mutant of CountStore: contDecrescente() counts down.
CountStore_Down(t) ==
  /\ At(t, "store")
  /\ global' = IF t = 1 THEN reg[t] + 1 ELSE reg[t] - 1
  /\ i' = [i EXCEPT ![t] = @ + 1]
  /\ Goto(t, "loop")
  /\ UNCHANGED <<main, reg>>

\* The store, and the thread's line.
CountStore(t) ==
  /\ At(t, "store")
  /\ global' = reg[t] + 1
  /\ i' = [i EXCEPT ![t] = @ + 1]
  /\ Goto(t, "loop")
  /\ UNCHANGED <<main, reg>>

Count(t) == CountLoad(t) \/ CountStore(t)

CountMain == (Create(2) \/ Join(2)) /\ UNCHANGED countVars
=============================================================================
