------------------------------ MODULE FrogRace ------------------------------
(***************************************************************************)
(* Lab 9, Ex 1 and Ex 2: frogs jump to the finish, print the place they    *)
(* came in and count it up, for the next one.  Ex 2 guards the finish with *)
(* a mutex.                                                                *)
(***************************************************************************)
EXTENDS Threads, Sequences

CONSTANTS
  NUM_THREADS,               (* The frogs, 5 in the code.                  *)
  PULO_MAXIMO,               (* A jump is shorter than this: 100.          *)
  DISTANCIA_PARA_CORRER      (* A frog jumps until it is farther: 100.     *)

ASSUME FrogRaceAssumption ==
  /\ NUM_THREADS \in Nat \ {0}
  /\ PULO_MAXIMO \in Nat \ {0, 1}
  /\ DISTANCIA_PARA_CORRER \in Nat

VARIABLES
  mutexed,                   (* Whether it is Ex 2.                        *)
  lock,                      (* The frog that holds the mutex, 0 if none.  *)
  distanciaJaCorrida,        (* How far each frog is.                      *)
  cont, classificacao,       (* The shared counters.                       *)
  lines                      (* What the frogs printed: frog and place.    *)

frogVars == <<mutexed, lock, distanciaJaCorrida, cont, classificacao, lines>>

Frogs == 1 .. NUM_THREADS

FrogInit ==
  /\ mutexed \in BOOLEAN
  /\ lock = 0
  /\ distanciaJaCorrida = [f \in Frogs |-> 0]
  /\ cont = 0 /\ classificacao = 1
  /\ lines = <<>>

Jump(f) ==
  /\ At(f, "loop")
  /\ distanciaJaCorrida[f] <= DISTANCIA_PARA_CORRER
  /\ \E pulo \in 0 .. PULO_MAXIMO - 1 :
       distanciaJaCorrida' = [distanciaJaCorrida EXCEPT ![f] = @ + pulo]
  /\ UNCHANGED <<threadVars, mutexed, lock, cont, classificacao, lines>>

\* Mutant of Arrive: the mutex is not taken.
Arrive_NoLock(f) ==
  /\ At(f, "loop")
  /\ distanciaJaCorrida[f] > DISTANCIA_PARA_CORRER
  /\ Goto(f, "read place")
  /\ UNCHANGED <<main, reg, frogVars>>

\* The end of the while loop and, in Ex 2, pthread_mutex_lock().
Arrive(f) ==
  /\ At(f, "loop")
  /\ distanciaJaCorrida[f] > DISTANCIA_PARA_CORRER
  /\ IF mutexed THEN lock = 0 /\ lock' = f ELSE UNCHANGED lock
  /\ Goto(f, "read place")
  /\ UNCHANGED <<main, reg, mutexed, distanciaJaCorrida, cont, classificacao, lines>>

\* Mutant of ReadPlace: ++classificacao, as if it counted from 0.
ReadPlace_ZeroBased(f) ==
  /\ At(f, "read place")
  /\ Load(f, classificacao + 1)
  /\ Goto(f, "print")
  /\ UNCHANGED <<main, frogVars>>

\* printf() has its arguments before it has the terminal.
ReadPlace(f) ==
  /\ At(f, "read place")
  /\ Load(f, classificacao)
  /\ Goto(f, "print")
  /\ UNCHANGED <<main, frogVars>>

PrintLine(f) ==
  /\ At(f, "print")
  /\ lines' = Append(lines, [frog |-> f, place |-> reg[f]])
  /\ Goto(f, "read cont")
  /\ UNCHANGED <<main, reg, mutexed, lock, distanciaJaCorrida, cont, classificacao>>

\* cont++
CountUp(f) ==
  \/ /\ At(f, "read cont") /\ Load(f, cont) /\ Goto(f, "write cont")
     /\ UNCHANGED <<main, frogVars>>
  \/ /\ At(f, "write cont") /\ cont' = reg[f] + 1 /\ Goto(f, "read classificacao")
     /\ UNCHANGED <<main, reg, mutexed, lock, distanciaJaCorrida, classificacao, lines>>

\* classificacao++
PlaceUp(f) ==
  \/ /\ At(f, "read classificacao") /\ Load(f, classificacao)
     /\ Goto(f, "write classificacao")
     /\ UNCHANGED <<main, frogVars>>
  \/ /\ At(f, "write classificacao") /\ classificacao' = reg[f] + 1
     /\ Goto(f, "unlock")
     /\ UNCHANGED <<main, reg, mutexed, lock, distanciaJaCorrida, cont, lines>>

\* Mutant of LeaveRace: the mutex is kept.
LeaveRace_KeepsLock(f) ==
  At(f, "unlock") /\ Goto(f, "exit") /\ UNCHANGED <<main, reg, frogVars>>

\* pthread_mutex_unlock(), in Ex 2, and pthread_exit()
LeaveRace(f) ==
  /\ At(f, "unlock")
  /\ lock' = IF mutexed THEN 0 ELSE lock
  /\ Goto(f, "exit")
  /\ UNCHANGED <<main, reg, mutexed, distanciaJaCorrida, cont, classificacao, lines>>

Correr(f) ==
  Jump(f) \/ Arrive(f) \/ ReadPlace(f) \/ PrintLine(f) \/ CountUp(f) \/ PlaceUp(f) \/ LeaveRace(f)

FrogMain == (Create(NUM_THREADS) \/ Join(NUM_THREADS)) /\ UNCHANGED frogVars
=============================================================================
