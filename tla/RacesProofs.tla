----------------------------- MODULE RacesProofs ----------------------------
(***************************************************************************)
(* The frog race, for any number of frogs and any jumps: with the mutex it *)
(* implements FinishLine; with and without, nobody is told too late a      *)
(* place.                                                                  *)
(***************************************************************************)
EXTENDS Races, SequenceTheorems, FiniteSetTheorems, TLAPS

Label ==
  {"start", "loop", "read place", "print", "read cont", "write cont",
   "read classificacao", "write classificacao", "unlock", "exit"}

\* Where a frog holds the mutex, where it has its line, and where it has
\* counted up.
Finishing == Label \ {"start", "loop", "exit"}
PrintedAt == {"read cont", "write cont", "read classificacao", "write classificacao",
              "unlock", "exit"}
CountedAt == {"unlock", "exit"}

Printed == {f \in Frogs : pc[f] \in PrintedAt}
Counted == {f \in Frogs : pc[f] \in CountedAt}

TypeInv ==
  /\ exercise \in {"Lab 8", "Lab 9"}
  /\ main \in Nat
  /\ mutexed \in BOOLEAN
  /\ lock \in Nat
  /\ cont \in Nat /\ classificacao \in Nat
  /\ lines \in Seq([frog : Frogs, place : Nat])
  /\ Frog => pc \in [Frogs -> Label] /\ reg \in [Frogs -> Nat]
  /\ ~Frog => lines = <<>>

\* No frog has more than one line, and only those that are past printf().
OneLineEach ==
  Frog => \A k \in 1 .. Len(lines) : lines[k].frog \in Printed

(***************************************************************************)
(* With the mutex: who holds it is finishing and nobody else, and the      *)
(* place is the number of lines and 1, except while the holder has printed *)
(* and not yet counted.  What it has read from classificacao is still      *)
(* true.                                                                   *)
(***************************************************************************)
MutexHeld == Frog /\ mutexed => \A f \in Frogs : pc[f] \in Finishing <=> lock = f

PlaceIsNext ==
  Frog /\ mutexed =>
    /\ (\A f \in Frogs : pc[f] \notin PrintedAt \ CountedAt) => classificacao = Len(lines) + 1
    /\ \A f \in Frogs :
         /\ pc[f] \in PrintedAt \ CountedAt => classificacao = Len(lines)
         /\ pc[f] \in {"print", "write classificacao"} => reg[f] = classificacao

\* Who has not been created has not started.
NotYet == Frog => \A f \in Frogs : f > main => pc[f] = "start"

MutexInv == NotYet /\ TypeInv /\ OneLineEach /\ MutexHeld /\ PlaceIsNext

-----------------------------------------------------------------------------
LEMMA FrogsAreNumbers == Frogs \subseteq Nat /\ 0 \notin Frogs
BY FrogRaceAssumption DEF Frogs

LEMMA AppendFacts ==
  ASSUME NEW S, NEW s \in Seq(S), NEW e \in S
  PROVE  /\ Append(s, e) \in Seq(S)
         /\ Len(s) \in Nat
         /\ Len(Append(s, e)) = Len(s) + 1
         /\ Append(s, e)[Len(s) + 1] = e
         /\ \A k \in 1 .. Len(s) : Append(s, e)[k] = s[k]
         /\ \A k \in 1 .. Len(s) + 1 : k \in 1 .. Len(s) \/ k = Len(s) + 1
BY AppendProperties, LenProperties

LEMMA OneMore == \A n \in Nat : n + 1 \in Nat
OBVIOUS

\* A frog's next statement is its own.
LEMMA GotoMovesOne ==
  ASSUME NEW f \in Frogs, NEW label \in Label, pc \in [Frogs -> Label], Goto(f, label)
  PROVE  /\ pc' \in [Frogs -> Label]
         /\ pc'[f] = label
         /\ \A g \in Frogs \ {f} : pc'[g] = pc[g]
BY DEF Goto

LEMMA LoadMovesOne ==
  ASSUME NEW f \in Frogs, NEW x \in Nat, reg \in [Frogs -> Nat], Load(f, x)
  PROVE  /\ reg' \in [Frogs -> Nat]
         /\ reg'[f] = x
         /\ \A g \in Frogs \ {f} : reg'[g] = reg[g]
BY DEF Load

LEMMA InitMutex == Init => MutexInv
<1> SUFFICES ASSUME Init PROVE MutexInv
  OBVIOUS
<1>0. Frogs \subseteq Nat /\ 0 \notin Frogs
  BY FrogsAreNumbers
<1>e. <<>> \in Seq([frog : Frogs, place : Nat]) /\ Len(<<>>) = 0
  BY EmptySeq
<1>1. lines = <<>> /\ lock = 0 /\ classificacao = 1 /\ cont = 0 /\ mutexed \in BOOLEAN
  BY DEF Init, FrogInit
<1>2. exercise \in {"Lab 8", "Lab 9"} /\ main = 0
  BY DEF Init, ThreadsInit
<1>3. Frog => pc = [f \in Frogs |-> "start"] /\ reg = [f \in Frogs |-> 0]
  BY DEF Init, ThreadsInit
<1>4. TypeInv
  <2>1. Frog => pc \in [Frogs -> Label] /\ reg \in [Frogs -> Nat]
    <3> SUFFICES ASSUME Frog PROVE pc \in [Frogs -> Label] /\ reg \in [Frogs -> Nat]
      OBVIOUS
    <3>1. "start" \in Label /\ 0 \in Nat
      BY DEF Label
    <3> QED  BY <1>3, <3>1
  <2>2. main \in Nat /\ lock \in Nat /\ cont \in Nat /\ classificacao \in Nat
    BY <1>1, <1>2
  <2>3. lines \in Seq([frog : Frogs, place : Nat])
    BY <1>1, <1>e
  <2> QED  BY <1>1, <1>2, <2>1, <2>2, <2>3 DEF TypeInv
<1>5. OneLineEach
  BY <1>1, <1>e DEF OneLineEach
<1>6. MutexHeld
  BY <1>0, <1>1, <1>3 DEF MutexHeld, Finishing, Label
<1>7. PlaceIsNext
  <2> SUFFICES ASSUME Frog PROVE PlaceIsNext
    BY DEF PlaceIsNext
  <2>1. \A f \in Frogs : pc[f] = "start"
    BY <1>3
  <2>2. classificacao = Len(lines) + 1
    BY <1>1, <1>e
  <2> QED  BY <2>1, <2>2 DEF PlaceIsNext, PrintedAt, CountedAt
<1>8. NotYet
  BY <1>3 DEF NotYet
<1> QED  BY <1>4, <1>5, <1>6, <1>7, <1>8 DEF MutexInv

\* A step of the counting threads does not touch the race.
LEMMA CountingKeeps ==
  ASSUME MutexInv, exercise' = exercise, UNCHANGED frogVars, main' \in Nat, ~Frog
  PROVE  MutexInv'
<1>1. ~Frog' /\ UNCHANGED <<lines, lock, cont, classificacao, mutexed>>
  BY DEF Frog, frogVars
<1>2. TypeInv'
  BY <1>1 DEF MutexInv, TypeInv
<1> QED  BY <1>1, <1>2 DEF MutexInv, NotYet, OneLineEach, MutexHeld, PlaceIsNext

LEMMA ArriveKeeps ==
  ASSUME MutexInv, Frog, exercise' = exercise, NEW f \in Frogs, Arrive(f)
  PROVE  MutexInv'
<1>0. Frog' /\ Frogs \subseteq Nat /\ 0 \notin Frogs
  BY FrogsAreNumbers DEF Frog
<1>t. NotYet /\ TypeInv /\ OneLineEach /\ MutexHeld /\ PlaceIsNext
  BY DEF MutexInv
<1>1. /\ pc[f] = "loop" /\ Goto(f, "read place")
      /\ IF mutexed THEN lock = 0 /\ lock' = f ELSE lock' = lock
      /\ UNCHANGED <<main, reg, mutexed, cont, classificacao, lines>>
  BY DEF Arrive, At
<1>2. pc' \in [Frogs -> Label] /\ pc'[f] = "read place" /\ \A g \in Frogs \ {f} : pc'[g] = pc[g]
  BY <1>1, <1>t, GotoMovesOne DEF TypeInv, Label
<1>3. TypeInv'
  BY <1>0, <1>1, <1>2, <1>t DEF TypeInv
<1>4. OneLineEach'
  <2>1. Printed' = Printed
    BY <1>1, <1>2 DEF Printed, PrintedAt
  <2> QED  BY <2>1, <1>1, <1>t DEF OneLineEach
<1>5. MutexHeld'
  BY <1>0, <1>1, <1>2, <1>t DEF MutexHeld, Finishing, Label
<1>6. PlaceIsNext'
  BY <1>1, <1>2, <1>t DEF PlaceIsNext, PrintedAt, CountedAt
<1>9. NotYet'
  BY <1>0, <1>1, <1>2, <1>t DEF NotYet
<1> QED  BY <1>3, <1>4, <1>5, <1>6, <1>9 DEF MutexInv

LEMMA ReadPlaceKeeps ==
  ASSUME MutexInv, Frog, exercise' = exercise, NEW f \in Frogs, ReadPlace(f)
  PROVE  MutexInv'
<1>0. Frog' /\ Frogs \subseteq Nat /\ 0 \notin Frogs
  BY FrogsAreNumbers DEF Frog
<1>t. NotYet /\ TypeInv /\ OneLineEach /\ MutexHeld /\ PlaceIsNext
  BY DEF MutexInv
<1>1. /\ pc[f] = "read place" /\ Goto(f, "print") /\ Load(f, classificacao)
      /\ UNCHANGED <<main, mutexed, lock, cont, classificacao, lines>>
  BY DEF ReadPlace, At, frogVars
<1>2. pc' \in [Frogs -> Label] /\ pc'[f] = "print" /\ \A g \in Frogs \ {f} : pc'[g] = pc[g]
  BY <1>1, <1>t, GotoMovesOne DEF TypeInv, Label
<1>3. reg' \in [Frogs -> Nat] /\ reg'[f] = classificacao /\ \A g \in Frogs \ {f} : reg'[g] = reg[g]
  BY <1>1, <1>t, LoadMovesOne DEF TypeInv
<1>4. TypeInv'
  BY <1>0, <1>1, <1>2, <1>3, <1>t DEF TypeInv
<1>5. OneLineEach'
  <2>1. Printed' = Printed
    BY <1>1, <1>2 DEF Printed, PrintedAt
  <2> QED  BY <2>1, <1>1, <1>t DEF OneLineEach
<1>6. MutexHeld'
  BY <1>0, <1>1, <1>2, <1>t DEF MutexHeld, Finishing, Label
<1>7. PlaceIsNext'
  BY <1>1, <1>2, <1>3, <1>t DEF PlaceIsNext, PrintedAt, CountedAt
<1>9. NotYet'
  BY <1>0, <1>1, <1>2, <1>t DEF NotYet
<1> QED  BY <1>4, <1>5, <1>6, <1>7, <1>9 DEF MutexInv

\* Nobody but the holder of the mutex is finishing.
LEMMA NobodyElse ==
  ASSUME MutexHeld, Frog, mutexed, NEW f \in Frogs, pc[f] \in Finishing
  PROVE  \A g \in Frogs \ {f} : pc[g] \notin Finishing
BY DEF MutexHeld

\* What printing a frog's line does to the lines.
LEMMA PrintLineAppends ==
  ASSUME TypeInv, Frog, NEW f \in Frogs, PrintLine(f)
  PROVE  /\ lines' \in Seq([frog : Frogs, place : Nat])
         /\ Len(lines) \in Nat
         /\ Len(lines') = Len(lines) + 1
         /\ lines'[Len(lines) + 1] = [frog |-> f, place |-> reg[f]]
         /\ \A k \in 1 .. Len(lines) : lines'[k] = lines[k]
         /\ \A k \in 1 .. Len(lines) + 1 : k \in 1 .. Len(lines) \/ k = Len(lines) + 1
<1> DEFINE line == [frog |-> f, place |-> reg[f]]
           Line == [frog : Frogs, place : Nat]
<1>1. line \in Line
  BY DEF TypeInv
<1>2. lines \in Seq(Line)
  BY DEF TypeInv
<1>3. lines' = Append(lines, line)
  BY DEF PrintLine
<1> HIDE DEF line, Line
<1>4. /\ Append(lines, line) \in Seq(Line)
      /\ Len(lines) \in Nat
      /\ Len(Append(lines, line)) = Len(lines) + 1
      /\ Append(lines, line)[Len(lines) + 1] = line
      /\ \A k \in 1 .. Len(lines) : Append(lines, line)[k] = lines[k]
      /\ \A k \in 1 .. Len(lines) + 1 : k \in 1 .. Len(lines) \/ k = Len(lines) + 1
  BY <1>1, <1>2, AppendFacts, Zenon
<1>5. /\ lines' \in Seq(Line)
      /\ Len(lines') = Len(lines) + 1
      /\ lines'[Len(lines) + 1] = line
      /\ \A k \in 1 .. Len(lines) : lines'[k] = lines[k]
  BY <1>3, <1>4, Zenon
<1> QED  BY <1>4, <1>5, Zenon DEF line, Line

LEMMA PrintLineKeeps ==
  ASSUME MutexInv, Frog, exercise' = exercise, NEW f \in Frogs, PrintLine(f)
  PROVE  MutexInv'
<1>0. Frog' /\ Frogs \subseteq Nat /\ 0 \notin Frogs
  BY FrogsAreNumbers DEF Frog
<1>t. NotYet /\ TypeInv /\ OneLineEach /\ MutexHeld /\ PlaceIsNext
  BY DEF MutexInv
<1> DEFINE line == [frog |-> f, place |-> reg[f]]
<1>1. /\ pc[f] = "print" /\ Goto(f, "read cont") /\ lines' = Append(lines, line)
      /\ UNCHANGED <<main, reg, mutexed, lock, cont, classificacao>>
  BY DEF PrintLine, At
<1>2. pc' \in [Frogs -> Label] /\ pc'[f] = "read cont" /\ \A g \in Frogs \ {f} : pc'[g] = pc[g]
  BY <1>1, <1>t, GotoMovesOne DEF TypeInv, Label
<1>3. /\ lines' \in Seq([frog : Frogs, place : Nat])
      /\ Len(lines) \in Nat
      /\ Len(lines') = Len(lines) + 1
      /\ lines'[Len(lines) + 1] = line
      /\ \A k \in 1 .. Len(lines) : lines'[k] = lines[k]
      /\ \A k \in 1 .. Len(lines) + 1 : k \in 1 .. Len(lines) \/ k = Len(lines) + 1
  BY <1>t, PrintLineAppends
<1>4. TypeInv'
  BY <1>0, <1>1, <1>2, <1>3, <1>t DEF TypeInv, Frog
<1>5. OneLineEach'
  <2>1. Printed \subseteq Printed' /\ f \in Printed'
    BY <1>1, <1>2 DEF Printed, PrintedAt
  <2>2. \A k \in 1 .. Len(lines) : lines'[k].frog \in Printed
    BY <1>3, <1>t DEF OneLineEach
  <2>3. lines'[Len(lines) + 1].frog = f
    BY <1>3
  <2> QED  BY <1>3, <2>1, <2>2, <2>3 DEF OneLineEach
<1>6. MutexHeld'
  BY <1>0, <1>1, <1>2, <1>t DEF MutexHeld, Finishing, Label
<1>7. PlaceIsNext'
  <2> SUFFICES ASSUME mutexed PROVE PlaceIsNext'
    BY <1>1 DEF PlaceIsNext
  <2>1. \A g \in Frogs \ {f} : pc[g] \notin Finishing
    BY <1>1, <1>t, NobodyElse DEF Finishing, Label
  <2>2. classificacao = Len(lines) + 1
    BY <1>1, <1>t, <2>1 DEF PlaceIsNext, PrintedAt, CountedAt, Finishing, Label
  <2>3. classificacao' = Len(lines')
    BY <2>2, <1>1, <1>3
  <2> QED  BY <2>1, <2>3, <1>2 DEF PlaceIsNext, PrintedAt, CountedAt, Finishing, Label
<1>9. NotYet'
  BY <1>0, <1>1, <1>2, <1>t DEF NotYet
<1> QED  BY <1>4, <1>5, <1>6, <1>7, <1>9 DEF MutexInv

LEMMA CountUpKeeps ==
  ASSUME MutexInv, Frog, exercise' = exercise, NEW f \in Frogs, CountUp(f)
  PROVE  MutexInv'
<1>0. Frog' /\ Frogs \subseteq Nat /\ 0 \notin Frogs
  BY FrogsAreNumbers DEF Frog
<1>t. NotYet /\ TypeInv /\ OneLineEach /\ MutexHeld /\ PlaceIsNext
  BY DEF MutexInv
<1>1. PICK label \in {"write cont", "read classificacao"} :
        /\ pc[f] = (IF label = "write cont" THEN "read cont" ELSE "write cont")
        /\ Goto(f, label)
        /\ IF label = "write cont"
             THEN Load(f, cont) /\ cont' = cont
             ELSE reg' = reg /\ cont' = reg[f] + 1
        /\ UNCHANGED <<main, mutexed, lock, classificacao, lines>>
  BY DEF CountUp, At, frogVars
<1>2. pc' \in [Frogs -> Label] /\ pc'[f] = label /\ \A g \in Frogs \ {f} : pc'[g] = pc[g]
  BY <1>1, <1>t, GotoMovesOne DEF TypeInv, Label
<1>3. reg' \in [Frogs -> Nat] /\ cont' \in Nat /\ \A g \in Frogs \ {f} : reg'[g] = reg[g]
  <2>0. reg \in [Frogs -> Nat] /\ cont \in Nat
    BY <1>t DEF TypeInv
  <2>1. CASE label = "write cont"
    BY <1>1, <2>0, <2>1, LoadMovesOne
  <2>2. CASE label = "read classificacao"
    <3>1. reg' = reg /\ cont' = reg[f] + 1
      BY <1>1, <2>2
    <3>2. cont' \in Nat
      BY <2>0, <3>1, OneMore, Zenon
    <3>3. reg' \in [Frogs -> Nat] /\ \A g \in Frogs \ {f} : reg'[g] = reg[g]
      BY <2>0, <3>1
    <3> QED  BY <3>2, <3>3
  <2> QED  BY <2>1, <2>2
<1>4. TypeInv'
  BY <1>0, <1>1, <1>2, <1>3, <1>t DEF TypeInv
<1>5. OneLineEach'
  <2>1. Printed' = Printed
    BY <1>1, <1>2 DEF Printed, PrintedAt
  <2> QED  BY <2>1, <1>1, <1>t DEF OneLineEach
<1>6. MutexHeld'
  BY <1>0, <1>1, <1>2, <1>t DEF MutexHeld, Finishing, Label
<1>7. PlaceIsNext'
  BY <1>1, <1>2, <1>3, <1>t DEF PlaceIsNext, PrintedAt, CountedAt
<1>9. NotYet'
  BY <1>0, <1>1, <1>2, <1>t DEF NotYet
<1> QED  BY <1>4, <1>5, <1>6, <1>7, <1>9 DEF MutexInv

LEMMA PlaceUpKeeps ==
  ASSUME MutexInv, Frog, exercise' = exercise, NEW f \in Frogs, PlaceUp(f)
  PROVE  MutexInv'
<1>0. Frog' /\ Frogs \subseteq Nat /\ 0 \notin Frogs
  BY FrogsAreNumbers DEF Frog
<1>t. NotYet /\ TypeInv /\ OneLineEach /\ MutexHeld /\ PlaceIsNext
  BY DEF MutexInv
<1>1. PICK label \in {"write classificacao", "unlock"} :
        /\ pc[f] = (IF label = "unlock" THEN "write classificacao" ELSE "read classificacao")
        /\ Goto(f, label)
        /\ IF label = "unlock"
             THEN reg' = reg /\ classificacao' = reg[f] + 1
             ELSE Load(f, classificacao) /\ classificacao' = classificacao
        /\ UNCHANGED <<main, mutexed, lock, cont, lines>>
  BY DEF PlaceUp, At, frogVars
<1>2. pc' \in [Frogs -> Label] /\ pc'[f] = label /\ \A g \in Frogs \ {f} : pc'[g] = pc[g]
  BY <1>1, <1>t, GotoMovesOne DEF TypeInv, Label
<1>3. /\ reg' \in [Frogs -> Nat] /\ classificacao' \in Nat
      /\ label = "write classificacao" => reg'[f] = classificacao
      /\ \A g \in Frogs \ {f} : reg'[g] = reg[g]
  <2>0. reg \in [Frogs -> Nat] /\ classificacao \in Nat
    BY <1>t DEF TypeInv
  <2>1. CASE label = "write classificacao"
    BY <1>1, <2>0, <2>1, LoadMovesOne
  <2>2. CASE label = "unlock"
    <3>1. reg' = reg /\ classificacao' = reg[f] + 1
      BY <1>1, <2>2
    <3>2. reg[f] \in Nat
      BY <2>0
    <3> QED  BY <2>0, <2>2, <3>1, <3>2
  <2> QED  BY <2>1, <2>2
<1>4. TypeInv'
  BY <1>0, <1>1, <1>2, <1>3, <1>t DEF TypeInv
<1>5. OneLineEach'
  <2>1. Printed' = Printed
    BY <1>1, <1>2 DEF Printed, PrintedAt
  <2> QED  BY <2>1, <1>1, <1>t DEF OneLineEach
<1>6. MutexHeld'
  BY <1>0, <1>1, <1>2, <1>t DEF MutexHeld, Finishing, Label
<1>7. PlaceIsNext'
  <2> SUFFICES ASSUME mutexed PROVE PlaceIsNext'
    BY <1>1 DEF PlaceIsNext
  <2>1. \A g \in Frogs \ {f} : pc[g] \notin Finishing
    BY <1>1, <1>t, NobodyElse DEF Finishing, Label
  <2>2. classificacao = Len(lines) /\ (label = "unlock" => reg[f] = classificacao)
    BY <1>1, <1>t DEF PlaceIsNext, PrintedAt, CountedAt
  <2> QED  BY <2>1, <2>2, <1>1, <1>2, <1>3 DEF PlaceIsNext, PrintedAt, CountedAt, Finishing, Label
<1>9. NotYet'
  BY <1>0, <1>1, <1>2, <1>t DEF NotYet
<1> QED  BY <1>4, <1>5, <1>6, <1>7, <1>9 DEF MutexInv

LEMMA LeaveRaceKeeps ==
  ASSUME MutexInv, Frog, exercise' = exercise, NEW f \in Frogs, LeaveRace(f)
  PROVE  MutexInv'
<1>0. Frog' /\ Frogs \subseteq Nat /\ 0 \notin Frogs
  BY FrogsAreNumbers DEF Frog
<1>t. NotYet /\ TypeInv /\ OneLineEach /\ MutexHeld /\ PlaceIsNext
  BY DEF MutexInv
<1>1. /\ pc[f] = "unlock" /\ Goto(f, "exit") /\ lock' = IF mutexed THEN 0 ELSE lock
      /\ UNCHANGED <<main, reg, mutexed, cont, classificacao, lines>>
  BY DEF LeaveRace, At
<1>2. pc' \in [Frogs -> Label] /\ pc'[f] = "exit" /\ \A g \in Frogs \ {f} : pc'[g] = pc[g]
  BY <1>1, <1>t, GotoMovesOne DEF TypeInv, Label
<1>4. TypeInv'
  BY <1>0, <1>1, <1>2, <1>t DEF TypeInv
<1>5. OneLineEach'
  <2>1. Printed' = Printed
    BY <1>1, <1>2 DEF Printed, PrintedAt
  <2> QED  BY <2>1, <1>1, <1>t DEF OneLineEach
<1>6. MutexHeld'
  <2> SUFFICES ASSUME mutexed PROVE MutexHeld'
    BY <1>1 DEF MutexHeld
  <2>1. \A g \in Frogs \ {f} : pc[g] \notin Finishing
    BY <1>1, <1>t, NobodyElse DEF Finishing, Label
  <2> QED  BY <2>1, <1>0, <1>1, <1>2 DEF MutexHeld, Finishing, Label
<1>7. PlaceIsNext'
  BY <1>1, <1>2, <1>t DEF PlaceIsNext, PrintedAt, CountedAt
<1>9. NotYet'
  BY <1>0, <1>1, <1>2, <1>t DEF NotYet
<1> QED  BY <1>4, <1>5, <1>6, <1>7, <1>9 DEF MutexInv

-----------------------------------------------------------------------------
\* main() creates or joins a thread.
LEMMA MainKeeps ==
  ASSUME MutexInv, MainStep
  PROVE  MutexInv'
<1>0. exercise' = exercise
  BY DEF MainStep
<1>t. NotYet /\ TypeInv /\ OneLineEach /\ MutexHeld /\ PlaceIsNext
  BY DEF MutexInv
<1>1. main \in Nat /\ main' = main + 1
  BY <1>t DEF MainStep, FrogMain, CountMain, Create, Join, TypeInv
<1>m. main' \in Nat
  BY <1>1
<1>2. CASE ~Frog
  <2>1. UNCHANGED frogVars
    BY <1>2 DEF MainStep
  <2> QED  BY <1>0, <1>m, <1>2, <2>1, CountingKeeps
<1>3. CASE Frog
  <2>0. /\ Frog' /\ Frogs \subseteq Nat
        /\ UNCHANGED <<mutexed, lock, cont, classificacao, lines, reg>>
    BY <1>0, <1>3, FrogsAreNumbers DEF MainStep, FrogMain, Create, Join, frogVars, Frog, Counting
  <2>1. CASE pc' = pc
    <3>1. TypeInv' /\ OneLineEach'
      BY <1>0, <1>m, <1>3, <2>0, <2>1, <1>t DEF TypeInv, OneLineEach, Printed, Frog
    <3>2. MutexHeld' /\ PlaceIsNext'
      BY <1>3, <2>0, <2>1, <1>t DEF MutexHeld, PlaceIsNext
    <3>3. NotYet'
      BY <1>1, <1>3, <2>0, <2>1, <1>t DEF NotYet
    <3> QED  BY <3>1, <3>2, <3>3 DEF MutexInv
  <2>2. CASE main < NUM_THREADS /\ Goto(main', "loop")
    <3>1. main' \in Frogs /\ main' > main
      BY <1>1, <2>2, FrogRaceAssumption DEF Frogs
    <3>2. pc[main'] = "start"
      BY <3>1, <1>3, <1>t DEF NotYet
    <3>3. /\ pc' \in [Frogs -> Label] /\ pc'[main'] = "loop"
          /\ \A g \in Frogs \ {main'} : pc'[g] = pc[g]
      BY <2>2, <3>1, <1>3, <1>t DEF TypeInv, Goto, Label
    <3>4. TypeInv'
      BY <1>0, <1>m, <1>3, <2>0, <3>3, <1>t DEF TypeInv, Frog
    <3>5. OneLineEach'
      <4>1. Printed' = Printed
        BY <3>1, <3>2, <3>3 DEF Printed, PrintedAt
      <4> QED  BY <2>0, <4>1, <1>t, <1>3 DEF OneLineEach
    <3>6. MutexHeld' /\ PlaceIsNext'
      BY <1>3, <2>0, <3>1, <3>2, <3>3, <1>t DEF MutexHeld, PlaceIsNext, Finishing, Label, PrintedAt, CountedAt
    <3>7. NotYet'
      BY <1>1, <1>3, <2>0, <3>1, <3>2, <3>3, <1>t DEF NotYet
    <3> QED  BY <3>4, <3>5, <3>6, <3>7 DEF MutexInv
  <2> QED  BY <1>3, <2>1, <2>2 DEF MainStep, FrogMain, Create, Join, Frog, Counting
<1> QED  BY <1>2, <1>3

LEMMA NextKeepsMutex == MutexInv /\ [Next]_vars => MutexInv'
<1> SUFFICES ASSUME MutexInv, [Next]_vars PROVE MutexInv'
  OBVIOUS
<1>1. CASE MainStep
  BY <1>1, MainKeeps
<1>2. ASSUME NEW f \in Frogs, FrogStep(f) PROVE MutexInv'
  <2>0. Frog /\ exercise' = exercise
    BY <1>2 DEF FrogStep
  <2>1. CASE Jump(f)
    BY <2>0, <2>1 DEF Jump, threadVars, MutexInv, NotYet, TypeInv, OneLineEach, MutexHeld, PlaceIsNext, Printed, Frog
  <2> QED  BY <1>2, <2>0, <2>1, ArriveKeeps, ReadPlaceKeeps, PrintLineKeeps, CountUpKeeps,
              PlaceUpKeeps, LeaveRaceKeeps DEF FrogStep, Correr
<1>3. ASSUME NEW t \in 1 .. 2, CountStep(t) PROVE MutexInv'
  <2>1. ~Frog /\ exercise' = exercise /\ UNCHANGED frogVars
    BY <1>3 DEF CountStep, Counting, Frog
  <2>2. main' \in Nat
    BY <1>3 DEF CountStep, Count, CountLoad, CountStore, MutexInv, TypeInv
  <2> QED  BY <2>1, <2>2, CountingKeeps
<1>4. CASE UNCHANGED vars
  BY <1>4 DEF vars, threadVars, frogVars, MutexInv, NotYet, TypeInv, OneLineEach, MutexHeld, PlaceIsNext, Printed, Frog
<1> QED  BY <1>1, <1>2, <1>3, <1>4 DEF Next

LEMMA MutexInvariant == Spec => []MutexInv
<1> QED  BY InitMutex, NextKeepsMutex, PTL DEF Spec

-----------------------------------------------------------------------------
\* A step of the race is a step of the finish line, or none.
LEMMA StepCrosses ==
  ASSUME MutexInv, [Next]_vars
  PROVE  [FL!FinishLineNext]_(IF mutexed THEN lines ELSE <<>>)
<1>t. NotYet /\ TypeInv /\ OneLineEach /\ MutexHeld /\ PlaceIsNext
  BY DEF MutexInv
<1>1. ASSUME NEW f \in Frogs, Frog, PrintLine(f), mutexed
      PROVE  FL!Cross(f)
  <2>1. pc[f] = "print" /\ lines' = Append(lines, [frog |-> f, place |-> reg[f]]) /\ mutexed'
    BY <1>1 DEF PrintLine, At
  <2>2. \A g \in Frogs \ {f} : pc[g] \notin Finishing
    BY <1>1, <1>t, <2>1, NobodyElse DEF Finishing, Label
  <2>3. reg[f] = Len(lines) + 1
    BY <1>1, <1>t, <2>1, <2>2 DEF PlaceIsNext, PrintedAt, CountedAt, Finishing, Label
  <2>4. \A k \in 1 .. Len(lines) : lines[k].frog # f
    BY <1>1, <1>t, <2>1 DEF OneLineEach, Printed, PrintedAt
  <2> QED  BY <1>1, <2>1, <2>3, <2>4 DEF FL!Cross
<1>2. (\E f \in Frogs : Frog /\ PrintLine(f)) \/ UNCHANGED lines
  <2>1. CASE MainStep
    BY <2>1 DEF MainStep, FrogMain, frogVars
  <2>2. ASSUME NEW f \in Frogs, FrogStep(f), ~PrintLine(f) PROVE UNCHANGED lines
    BY <2>2 DEF FrogStep, Correr, Jump, Arrive, ReadPlace, CountUp, PlaceUp, LeaveRace, frogVars
  <2>3. CASE \E t \in 1 .. 2 : CountStep(t)
    BY <2>3 DEF CountStep, frogVars
  <2>4. CASE UNCHANGED vars
    BY <2>4 DEF vars, frogVars
  <2> QED  BY <2>1, <2>2, <2>3, <2>4 DEF Next, FrogStep
<1>3. mutexed' = mutexed
  <2>1. CASE MainStep
    BY <2>1 DEF MainStep, FrogMain, frogVars
  <2>2. ASSUME NEW f \in Frogs, FrogStep(f) PROVE mutexed' = mutexed
    BY <2>2 DEF FrogStep, Correr, Jump, Arrive, ReadPlace, PrintLine, CountUp, PlaceUp, LeaveRace, frogVars
  <2>3. CASE \E t \in 1 .. 2 : CountStep(t)
    BY <2>3 DEF CountStep, frogVars
  <2>4. CASE UNCHANGED vars
    BY <2>4 DEF vars, frogVars
  <2> QED  BY <2>1, <2>2, <2>3, <2>4 DEF Next
<1>4. CASE ~mutexed
  BY <1>3, <1>4
<1>5. CASE UNCHANGED lines
  BY <1>3, <1>5
<1>6. CASE mutexed /\ \E f \in Frogs : Frog /\ PrintLine(f)
  BY <1>1, <1>6 DEF FL!FinishLineNext
<1> QED  BY <1>2, <1>4, <1>5, <1>6

\* ImplementsFinishLine: with the mutex of Ex 2, for any number of frogs and
\* any length of the race, the places are handed out in order and each once.
THEOREM MutexMakesFinishLine == Spec => ImplementsFinishLine
<1>1. Init => FL!FinishLineInit
  BY DEF Init, FrogInit, FL!FinishLineInit
<1>2. MutexInv /\ [Next]_vars => [FL!FinishLineNext]_(IF mutexed THEN lines ELSE <<>>)
  BY StepCrosses
<1> QED  BY <1>1, <1>2, MutexInvariant, PTL DEF Spec, ImplementsFinishLine, FL!FinishLineSpec

-----------------------------------------------------------------------------
(***************************************************************************)
(* Without the mutex: classificacao may be behind, but it never gets ahead *)
(* of the frogs that have counted it up, and these have their line.        *)
(***************************************************************************)
Holding == {"print", "write classificacao"}

Places ==
  Frog =>
    /\ Cardinality(Printed) = Len(lines)
    /\ classificacao <= Cardinality(Counted) + 1
    /\ \A f \in Frogs : pc[f] \in Holding => reg[f] <= Cardinality(Counted) + 1

PlacesInv == MutexInv /\ Places /\ NoPlaceTooLate

LEMMA CountedHavePrinted ==
  /\ IsFiniteSet(Printed) /\ IsFiniteSet(Counted)
  /\ Cardinality(Printed) \in Nat /\ Cardinality(Counted) \in Nat
  /\ Cardinality(Counted) <= Cardinality(Printed)
<1>1. IsFiniteSet(Frogs)
  BY FS_Interval, FrogRaceAssumption DEF Frogs
<1>2. Printed \subseteq Frogs /\ Counted \subseteq Printed
  BY DEF Printed, Counted, PrintedAt, CountedAt
<1> QED  BY <1>1, <1>2, FS_Subset, FS_CardinalityType

LEMMA InitPlaces == Init => PlacesInv
<1> SUFFICES ASSUME Init PROVE PlacesInv
  OBVIOUS
<1>1. MutexInv
  BY InitMutex
<1>2. lines = <<>> /\ classificacao = 1 /\ Len(<<>>) = 0
  BY EmptySeq DEF Init, FrogInit
<1>3. Frog => \A f \in Frogs : pc[f] = "start"
  BY DEF Init, ThreadsInit
<1>4. NoPlaceTooLate
  BY <1>2 DEF NoPlaceTooLate
<1>5. Places
  <2> SUFFICES ASSUME Frog PROVE Places
    BY DEF Places
  <2>1. Printed = {} /\ Counted = {}
    BY <1>3 DEF Printed, Counted, PrintedAt, CountedAt
  <2>2. Cardinality({}) = 0
    BY FS_EmptySet
  <2>3. Cardinality(Printed) = Len(lines) /\ classificacao <= Cardinality(Counted) + 1
    BY <1>2, <2>1, <2>2
  <2>4. \A f \in Frogs : pc[f] \notin Holding
    BY <1>3 DEF Holding
  <2> QED  BY <2>3, <2>4 DEF Places
<1> QED  BY <1>1, <1>4, <1>5 DEF PlacesInv

\* A step that neither prints nor counts up, and after which a frog holds at
\* most what it held before or what classificacao is.
LEMMA QuietKeepsPlaces ==
  ASSUME Places, NoPlaceTooLate, Frog, Frog',
         UNCHANGED <<lines, classificacao>>, Printed' = Printed, Counted' = Counted,
         \A f \in Frogs : pc'[f] \in Holding =>
           reg'[f] = classificacao \/ (pc[f] \in Holding /\ reg'[f] = reg[f])
  PROVE  Places' /\ NoPlaceTooLate'
BY DEF Places, NoPlaceTooLate

LEMMA PrintLineKeepsPlaces ==
  ASSUME PlacesInv, Frog, exercise' = exercise, NEW f \in Frogs, PrintLine(f)
  PROVE  Places' /\ NoPlaceTooLate'
<1> DEFINE line == [frog |-> f, place |-> reg[f]]
<1>t. TypeInv /\ Places /\ NoPlaceTooLate
  BY DEF PlacesInv, MutexInv
<1>1. /\ pc[f] = "print" /\ Goto(f, "read cont") /\ lines' = Append(lines, line)
      /\ UNCHANGED <<reg, classificacao>>
  BY DEF PrintLine, At
<1>2. pc'[f] = "read cont" /\ \A g \in Frogs \ {f} : pc'[g] = pc[g]
  BY <1>1, <1>t, GotoMovesOne DEF TypeInv, Label
<1>3. /\ Len(lines) \in Nat
      /\ Len(lines') = Len(lines) + 1
      /\ lines'[Len(lines) + 1] = line
      /\ \A k \in 1 .. Len(lines) : lines'[k] = lines[k]
      /\ \A k \in 1 .. Len(lines) + 1 : k \in 1 .. Len(lines) \/ k = Len(lines) + 1
  BY <1>t, PrintLineAppends
<1>4. Printed' = Printed \cup {f} /\ f \notin Printed /\ Counted' = Counted
  BY <1>1, <1>2 DEF Printed, Counted, PrintedAt, CountedAt
<1>5. Cardinality(Printed') = Cardinality(Printed) + 1
  BY <1>4, CountedHavePrinted, FS_AddElement
<1>6. reg[f] <= Cardinality(Counted) + 1 /\ Cardinality(Printed) = Len(lines)
  BY <1>1, <1>t DEF Places, Holding
<1>7. reg[f] <= Len(lines) + 1
  <2>1. reg[f] \in Nat
    BY <1>t DEF TypeInv
  <2> QED  BY <1>3, <1>6, <2>1, CountedHavePrinted
<1>8. NoPlaceTooLate'
  <2>1. lines'[Len(lines) + 1].place = reg[f]
    BY <1>3
  <2> QED  BY <2>1, <1>3, <1>7, <1>t DEF NoPlaceTooLate
<1>9. Places'
  BY <1>1, <1>2, <1>3, <1>4, <1>5, <1>6, <1>t DEF Places, Holding
<1> QED  BY <1>8, <1>9

LEMMA PlaceUpKeepsPlaces ==
  ASSUME PlacesInv, Frog, exercise' = exercise, NEW f \in Frogs, PlaceUp(f)
  PROVE  Places' /\ NoPlaceTooLate'
<1>0. Frog'
  BY DEF Frog
<1>t. TypeInv /\ Places /\ NoPlaceTooLate
  BY DEF PlacesInv, MutexInv
<1>1. CASE pc[f] = "read classificacao"
  <2>1. Goto(f, "write classificacao") /\ Load(f, classificacao) /\ UNCHANGED <<lines, classificacao>>
    BY <1>1 DEF PlaceUp, At, frogVars
  <2>2. /\ pc'[f] = "write classificacao" /\ reg'[f] = classificacao
        /\ \A g \in Frogs \ {f} : pc'[g] = pc[g] /\ reg'[g] = reg[g]
    BY <2>1, <1>t, GotoMovesOne, LoadMovesOne DEF TypeInv, Label
  <2>3. Printed' = Printed /\ Counted' = Counted
    BY <1>1, <2>2 DEF Printed, Counted, PrintedAt, CountedAt
  <2> QED  BY <1>0, <1>t, <2>1, <2>2, <2>3, QuietKeepsPlaces
<1>2. CASE pc[f] = "write classificacao"
  <2>1. Goto(f, "unlock") /\ classificacao' = reg[f] + 1 /\ UNCHANGED <<lines, reg>>
    BY <1>2 DEF PlaceUp, At, frogVars
  <2>2. pc'[f] = "unlock" /\ \A g \in Frogs \ {f} : pc'[g] = pc[g]
    BY <2>1, <1>t, GotoMovesOne DEF TypeInv, Label
  <2>3. Printed' = Printed /\ Counted' = Counted \cup {f} /\ f \notin Counted
    BY <1>2, <2>2 DEF Printed, Counted, PrintedAt, CountedAt
  <2>4. Cardinality(Counted') = Cardinality(Counted) + 1
    BY <2>3, CountedHavePrinted, FS_AddElement
  <2>5. reg[f] <= Cardinality(Counted) + 1
    BY <1>2, <1>t DEF Places, Holding
  <2>6. \A g \in Frogs : reg[g] \in Nat
    BY <1>t DEF TypeInv
  <2>7. classificacao' <= Cardinality(Counted') + 1
    BY <2>1, <2>4, <2>5, <2>6, CountedHavePrinted
  <2>8. ASSUME NEW g \in Frogs, pc'[g] \in Holding
        PROVE  reg'[g] <= Cardinality(Counted') + 1
    <3>1. reg'[g] = reg[g] /\ pc[g] \in Holding
      BY <2>1, <2>2, <2>8 DEF Holding
    <3>2. reg[g] <= Cardinality(Counted) + 1
      BY <3>1, <1>t DEF Places
    <3> QED  BY <3>1, <3>2, <2>4, <2>6, CountedHavePrinted
  <2>9. Cardinality(Printed') = Len(lines') /\ lines' = lines
    BY <2>1, <2>3, <1>t DEF Places
  <2> QED  BY <1>t, <2>7, <2>8, <2>9 DEF Places, NoPlaceTooLate
<1> QED  BY <1>1, <1>2 DEF PlaceUp, At

LEMMA NextKeepsPlaces == PlacesInv /\ [Next]_vars => PlacesInv'
<1> SUFFICES ASSUME PlacesInv, [Next]_vars PROVE PlacesInv'
  OBVIOUS
<1>0. MutexInv'
  BY NextKeepsMutex DEF PlacesInv
<1> SUFFICES Places' /\ NoPlaceTooLate'
  BY <1>0 DEF PlacesInv
<1>t. NotYet /\ TypeInv /\ Places /\ NoPlaceTooLate
  BY DEF PlacesInv, MutexInv
<1>1. CASE ~Frog /\ exercise' = exercise /\ UNCHANGED frogVars
  BY <1>1, <1>t DEF Frog, frogVars, Places, NoPlaceTooLate
<1>2. CASE Frog /\ MainStep
  <2>1. Frog' /\ UNCHANGED <<lines, classificacao, reg>>
    BY <1>2 DEF Frog, Counting, MainStep, FrogMain, Create, Join, frogVars
  <2>2. CASE pc' = pc
    BY <1>2, <1>t, <2>1, <2>2, QuietKeepsPlaces DEF Printed, Counted
  <2>3. CASE main < NUM_THREADS /\ main' = main + 1 /\ Goto(main', "loop")
    <3>0. main \in Nat
      BY <1>t DEF TypeInv
    <3>1. main' \in Frogs /\ main' > main
      BY <2>3, <3>0, FrogRaceAssumption DEF Frogs
    <3>2. /\ pc[main'] = "start" /\ pc'[main'] = "loop"
          /\ \A g \in Frogs \ {main'} : pc'[g] = pc[g]
      BY <2>3, <3>1, <1>2, <1>t DEF NotYet, TypeInv, Goto
    <3>3. Printed' = Printed /\ Counted' = Counted
      BY <3>1, <3>2 DEF Printed, Counted, PrintedAt, CountedAt
    <3>4. \A g \in Frogs : pc'[g] \in Holding => pc[g] \in Holding /\ reg'[g] = reg[g]
      BY <2>1, <3>2 DEF Holding
    <3> QED  BY <1>2, <1>t, <2>1, <3>3, <3>4, QuietKeepsPlaces
  <2> QED  BY <1>2, <2>2, <2>3 DEF MainStep, FrogMain, Create, Join, Frog, Counting
<1>3. ASSUME NEW f \in Frogs, FrogStep(f)
      PROVE  Places' /\ NoPlaceTooLate'
  <2>0. Frog /\ Frog' /\ exercise' = exercise
    BY <1>3 DEF FrogStep, Frog
  <2>1. CASE Jump(f)
    BY <2>0, <2>1, <1>t, QuietKeepsPlaces DEF Jump, threadVars, Printed, Counted
  <2>2. CASE Arrive(f)
    <3>1. pc[f] = "loop" /\ Goto(f, "read place") /\ UNCHANGED <<reg, classificacao, lines>>
      BY <2>2 DEF Arrive, At
    <3>2. pc'[f] = "read place" /\ \A g \in Frogs \ {f} : pc'[g] = pc[g]
      BY <2>0, <3>1, <1>t, GotoMovesOne DEF TypeInv, Label
    <3>3. Printed' = Printed /\ Counted' = Counted
      BY <3>1, <3>2 DEF Printed, Counted, PrintedAt, CountedAt
    <3>4. \A g \in Frogs : pc'[g] \in Holding => pc[g] \in Holding /\ reg'[g] = reg[g]
      BY <3>1, <3>2 DEF Holding
    <3> QED  BY <2>0, <1>t, <3>1, <3>3, <3>4, QuietKeepsPlaces
  <2>3. CASE ReadPlace(f)
    <3>1. /\ pc[f] = "read place" /\ Goto(f, "print") /\ Load(f, classificacao)
          /\ UNCHANGED <<classificacao, lines>>
      BY <2>3 DEF ReadPlace, At, frogVars
    <3>2. /\ pc'[f] = "print" /\ reg'[f] = classificacao
          /\ \A g \in Frogs \ {f} : pc'[g] = pc[g] /\ reg'[g] = reg[g]
      BY <2>0, <3>1, <1>t, GotoMovesOne, LoadMovesOne DEF TypeInv, Label
    <3>3. Printed' = Printed /\ Counted' = Counted
      BY <3>1, <3>2 DEF Printed, Counted, PrintedAt, CountedAt
    <3> QED  BY <2>0, <1>t, <3>1, <3>2, <3>3, QuietKeepsPlaces
  <2>4. CASE PrintLine(f)
    BY <2>0, <2>4, PrintLineKeepsPlaces
  <2>5. CASE CountUp(f)
    <3>1. /\ pc[f] \in {"read cont", "write cont"} /\ UNCHANGED <<classificacao, lines>>
          /\ \/ Goto(f, "write cont") /\ Load(f, cont)
             \/ Goto(f, "read classificacao") /\ UNCHANGED reg
      BY <2>5 DEF CountUp, At, frogVars
    <3>2. /\ pc'[f] \in {"write cont", "read classificacao"}
          /\ \A g \in Frogs \ {f} : pc'[g] = pc[g] /\ reg'[g] = reg[g]
      BY <2>0, <3>1, <1>t, GotoMovesOne, LoadMovesOne DEF TypeInv, Label
    <3>3. Printed' = Printed /\ Counted' = Counted
      BY <3>1, <3>2 DEF Printed, Counted, PrintedAt, CountedAt
    <3>4. \A g \in Frogs : pc'[g] \in Holding => pc[g] \in Holding /\ reg'[g] = reg[g]
      BY <3>2 DEF Holding
    <3> QED  BY <2>0, <1>t, <3>1, <3>3, <3>4, QuietKeepsPlaces
  <2>6. CASE PlaceUp(f)
    BY <2>0, <2>6, PlaceUpKeepsPlaces
  <2>7. CASE LeaveRace(f)
    <3>1. pc[f] = "unlock" /\ Goto(f, "exit") /\ UNCHANGED <<reg, classificacao, lines>>
      BY <2>7 DEF LeaveRace, At
    <3>2. pc'[f] = "exit" /\ \A g \in Frogs \ {f} : pc'[g] = pc[g]
      BY <2>0, <3>1, <1>t, GotoMovesOne DEF TypeInv, Label
    <3>3. Printed' = Printed /\ Counted' = Counted
      BY <3>1, <3>2 DEF Printed, Counted, PrintedAt, CountedAt
    <3>4. \A g \in Frogs : pc'[g] \in Holding => pc[g] \in Holding /\ reg'[g] = reg[g]
      BY <3>1, <3>2 DEF Holding
    <3> QED  BY <2>0, <1>t, <3>1, <3>3, <3>4, QuietKeepsPlaces
  <2> QED  BY <1>3, <2>1, <2>2, <2>3, <2>4, <2>5, <2>6, <2>7 DEF FrogStep, Correr
<1>4. CASE UNCHANGED vars
  BY <1>4, <1>t DEF vars, threadVars, frogVars, Places, NoPlaceTooLate, Printed, Counted, Frog
<1>5. CASE MainStep
  BY <1>1, <1>2, <1>5 DEF MainStep, Counting, Frog
<1>6. ASSUME NEW t \in 1 .. 2, CountStep(t) PROVE Places' /\ NoPlaceTooLate'
  BY <1>1, <1>6 DEF CountStep, Counting, Frog
<1> QED  BY <1>3, <1>4, <1>5, <1>6 DEF Next

\* NoPlaceTooLate: with the mutex or without, for any number of frogs, the
\* k-th line never names a place after the k-th.
THEOREM NobodyIsToldTooLate == Spec => []NoPlaceTooLate
<1>1. PlacesInv => NoPlaceTooLate
  BY DEF PlacesInv
<1> QED  BY <1>1, InitPlaces, NextKeepsPlaces, PTL DEF Spec

-----------------------------------------------------------------------------
(***************************************************************************)
(* Outcome of the race.  Whoever has been joined is gone, whoever is past  *)
(* printf() has a line, and the counters are bounded by the number of      *)
(* frogs that have counted them up: from above because a late store only   *)
(* undoes counts, from below because every store writes at least one more  *)
(* than the counter began with.                                            *)
(***************************************************************************)
UppedAt == {"read classificacao", "write classificacao", "unlock", "exit"}
Upped == {f \in Frogs : pc[f] \in UppedAt}

FrogsJoined == Frog => \A f \in Frogs : f + NUM_THREADS <= main => pc[f] = "exit"

HasLine(f) == \E k \in 1 .. Len(lines) : lines[k].frog = f
LineForAll == Frog => \A f \in Printed : HasLine(f)

ContBounds ==
  Frog =>
    /\ cont <= Cardinality(Upped)
    /\ Upped # {} => cont >= 1
    /\ \A f \in Frogs : pc[f] = "write cont" => reg[f] <= Cardinality(Upped)

ContExact ==
  Frog /\ mutexed =>
    /\ cont = Cardinality(Upped)
    /\ \A f \in Frogs : pc[f] = "write cont" => reg[f] = cont

PlaceBounds ==
  Frog =>
    /\ classificacao >= 1
    /\ Counted # {} => classificacao >= 2
    /\ \A f \in Frogs : pc[f] = "write classificacao" => reg[f] >= 1

FrogsInv == PlacesInv /\ FrogsJoined /\ LineForAll /\ ContBounds /\ ContExact /\ PlaceBounds

\* The path of a frog: what each of its statements does.
Moves(f) ==
  \/ pc[f] = "loop" /\ pc'[f] \in {"loop", "read place"} /\ UNCHANGED <<lines, cont, classificacao>>
  \/ pc[f] = "read place" /\ pc'[f] = "print" /\ UNCHANGED <<lines, cont, classificacao>>
  \/ /\ pc[f] = "print" /\ pc'[f] = "read cont" /\ PrintLine(f)
     /\ UNCHANGED <<cont, classificacao>>
  \/ /\ pc[f] = "read cont" /\ pc'[f] = "write cont" /\ reg'[f] = cont
     /\ UNCHANGED <<lines, cont, classificacao>>
  \/ /\ pc[f] = "write cont" /\ pc'[f] = "read classificacao" /\ cont' = reg[f] + 1
     /\ UNCHANGED <<lines, classificacao>>
  \/ /\ pc[f] = "read classificacao" /\ pc'[f] = "write classificacao"
     /\ reg'[f] = classificacao /\ UNCHANGED <<lines, cont, classificacao>>
  \/ /\ pc[f] = "write classificacao" /\ pc'[f] = "unlock" /\ classificacao' = reg[f] + 1
     /\ UNCHANGED <<lines, cont>>
  \/ pc[f] = "unlock" /\ pc'[f] = "exit" /\ UNCHANGED <<lines, cont, classificacao>>

LEMMA FrogMoves ==
  ASSUME TypeInv, NEW f \in Frogs, FrogStep(f)
  PROVE  /\ Frog /\ Frog' /\ main' = main /\ mutexed' = mutexed
         /\ \A g \in Frogs \ {f} : pc'[g] = pc[g] /\ reg'[g] = reg[g]
         /\ Moves(f)
<1>0. Frog /\ Frog' /\ exercise' = exercise /\ pc \in [Frogs -> Label] /\ reg \in [Frogs -> Nat]
  BY DEF FrogStep, Frog, TypeInv
<1>m. main' = main /\ mutexed' = mutexed
  BY DEF FrogStep, Correr, Jump, Arrive, ReadPlace, PrintLine, CountUp, PlaceUp, LeaveRace,
         threadVars, frogVars
<1>c. cont \in Nat /\ classificacao \in Nat
  BY DEF TypeInv
<1>l. Label \subseteq Label /\ {"read place", "print", "read cont", "write cont",
        "read classificacao", "write classificacao", "unlock", "exit"} \subseteq Label
  BY DEF Label
<1> SUFFICES /\ \A g \in Frogs \ {f} : pc'[g] = pc[g] /\ reg'[g] = reg[g]
             /\ Moves(f)
  BY <1>0, <1>m
<1>1. CASE Jump(f)
  BY <1>1 DEF Jump, At, threadVars, Moves
<1>2. CASE Arrive(f)
  <2>1. pc[f] = "loop" /\ Goto(f, "read place") /\ UNCHANGED <<reg, lines, cont, classificacao>>
    BY <1>2 DEF Arrive, At
  <2> QED  BY <2>1, <1>0, <1>l, GotoMovesOne DEF Moves
<1>3. CASE ReadPlace(f)
  <2>1. /\ pc[f] = "read place" /\ Goto(f, "print") /\ Load(f, classificacao)
        /\ UNCHANGED <<lines, cont, classificacao>>
    BY <1>3 DEF ReadPlace, At, frogVars
  <2> QED  BY <2>1, <1>0, <1>c, <1>l, GotoMovesOne, LoadMovesOne DEF Moves
<1>4. CASE PrintLine(f)
  <2>1. pc[f] = "print" /\ Goto(f, "read cont") /\ UNCHANGED <<reg, cont, classificacao>>
    BY <1>4 DEF PrintLine, At
  <2> QED  BY <2>1, <1>0, <1>4, <1>l, GotoMovesOne DEF Moves
<1>5. CASE CountUp(f)
  <2>1. \/ /\ pc[f] = "read cont" /\ Goto(f, "write cont") /\ Load(f, cont)
           /\ UNCHANGED <<lines, cont, classificacao>>
        \/ /\ pc[f] = "write cont" /\ Goto(f, "read classificacao") /\ cont' = reg[f] + 1
           /\ UNCHANGED <<reg, lines, classificacao>>
    BY <1>5 DEF CountUp, At, frogVars
  <2> QED  BY <2>1, <1>0, <1>c, <1>l, GotoMovesOne, LoadMovesOne DEF Moves
<1>6. CASE PlaceUp(f)
  <2>1. \/ /\ pc[f] = "read classificacao" /\ Goto(f, "write classificacao")
           /\ Load(f, classificacao) /\ UNCHANGED <<lines, cont, classificacao>>
        \/ /\ pc[f] = "write classificacao" /\ Goto(f, "unlock") /\ classificacao' = reg[f] + 1
           /\ UNCHANGED <<reg, lines, cont>>
    BY <1>6 DEF PlaceUp, At, frogVars
  <2> QED  BY <2>1, <1>0, <1>c, <1>l, GotoMovesOne, LoadMovesOne DEF Moves
<1>7. CASE LeaveRace(f)
  <2>1. pc[f] = "unlock" /\ Goto(f, "exit") /\ UNCHANGED <<reg, lines, cont, classificacao>>
    BY <1>7 DEF LeaveRace, At
  <2> QED  BY <2>1, <1>0, <1>l, GotoMovesOne DEF Moves
<1> QED  BY <1>1, <1>2, <1>3, <1>4, <1>5, <1>6, <1>7 DEF FrogStep, Correr

LEMMA OneMoreEach ==
  \A a, b \in Nat : a <= b => a + 1 <= b + 1 /\ a + 1 >= 1 /\ a <= b + 1
OBVIOUS

LEMMA UppedType == IsFiniteSet(Upped) /\ Cardinality(Upped) \in Nat
<1>1. IsFiniteSet(Frogs)
  BY FS_Interval, FrogRaceAssumption DEF Frogs
<1>2. Upped \subseteq Frogs
  BY DEF Upped
<1> QED  BY <1>1, <1>2, FS_Subset, FS_CardinalityType

LEMMA InitFrogs == Init => FrogsInv
<1> SUFFICES ASSUME Init PROVE FrogsInv
  OBVIOUS
<1>1. PlacesInv
  BY InitPlaces
<1> SUFFICES ASSUME Frog
             PROVE  FrogsJoined /\ LineForAll /\ ContBounds /\ ContExact /\ PlaceBounds
  BY <1>1 DEF FrogsInv, FrogsJoined, LineForAll, ContBounds, ContExact, PlaceBounds
<1>2. cont = 0 /\ classificacao = 1 /\ main = 0
  BY DEF Init, FrogInit, ThreadsInit
<1>3. \A f \in Frogs : pc[f] = "start"
  BY DEF Init, ThreadsInit
<1>n. \A f \in Frogs : f + NUM_THREADS > 0
  BY FrogRaceAssumption DEF Frogs
<1>4. Upped = {} /\ Counted = {} /\ Printed = {}
  BY <1>3 DEF Upped, UppedAt, Counted, CountedAt, Printed, PrintedAt
<1>5. Cardinality({}) = 0
  BY FS_EmptySet
<1>6. FrogsJoined
  BY <1>2, <1>n, FrogRaceAssumption DEF FrogsJoined, Frogs
<1>7. LineForAll
  BY <1>4 DEF LineForAll
<1>8. ContBounds /\ ContExact
  <2>1. cont = Cardinality(Upped) /\ cont <= Cardinality(Upped) /\ ~(Upped # {})
    BY <1>2, <1>4, <1>5
  <2>2. \A f \in Frogs : pc[f] # "write cont"
    BY <1>3
  <2> QED  BY <2>1, <2>2 DEF ContBounds, ContExact
<1>9. PlaceBounds
  <2>1. classificacao >= 1 /\ ~(Counted # {})
    BY <1>2, <1>4
  <2>2. \A f \in Frogs : pc[f] # "write classificacao"
    BY <1>3
  <2> QED  BY <2>1, <2>2 DEF PlaceBounds
<1> QED  BY <1>6, <1>7, <1>8, <1>9

\* A step of the race keeps who has come to the end.
LEMMA MoveKeepsJoined ==
  ASSUME TypeInv, FrogsJoined, NEW f \in Frogs, FrogStep(f)
  PROVE  FrogsJoined'
<1>1. /\ Frog /\ main' = main /\ Moves(f)
      /\ \A g \in Frogs \ {f} : pc'[g] = pc[g] /\ reg'[g] = reg[g]
  BY FrogMoves
<1>2. pc[f] # "exit"
  BY <1>1 DEF Moves
<1> QED  BY <1>1, <1>2 DEF FrogsJoined

LEMMA MoveKeepsLines ==
  ASSUME TypeInv, LineForAll, NEW f \in Frogs, FrogStep(f)
  PROVE  LineForAll'
<1>1. /\ Frog /\ Moves(f) /\ \A g \in Frogs \ {f} : pc'[g] = pc[g] /\ reg'[g] = reg[g]
  BY FrogMoves
<1>2. CASE PrintLine(f)
  <2>1. /\ Len(lines) \in Nat /\ Len(lines') = Len(lines) + 1
        /\ lines'[Len(lines) + 1] = [frog |-> f, place |-> reg[f]]
        /\ \A k \in 1 .. Len(lines) : lines'[k] = lines[k]
    BY <1>1, <1>2, PrintLineAppends
  <2>2. \A k \in 1 .. Len(lines) : k \in 1 .. Len(lines')
    BY <2>1
  <2>3. Len(lines) + 1 \in 1 .. Len(lines')
    BY <2>1
  <2>4. \E k \in 1 .. Len(lines') : lines'[k].frog = f
    BY <2>1, <2>3
  <2>5. ASSUME NEW g \in Printed', g # f PROVE \E k \in 1 .. Len(lines') : lines'[k].frog = g
    <3>1. g \in Printed
      BY <1>1, <2>5 DEF Printed
    <3>2. PICK k \in 1 .. Len(lines) : lines[k].frog = g
      BY <1>1, <3>1 DEF LineForAll, HasLine
    <3> QED  BY <2>1, <2>2, <3>2
  <2> QED  BY <2>4, <2>5 DEF LineForAll, HasLine
<1>3. CASE ~PrintLine(f)
  <2>1. Printed' = Printed /\ lines' = lines
    BY <1>1, <1>3 DEF Moves, Printed, PrintedAt
  <2> QED  BY <1>1, <2>1 DEF LineForAll, HasLine
<1> QED  BY <1>2, <1>3

LEMMA MoveKeepsCont ==
  ASSUME MutexInv, MutexInv', ContBounds, ContExact, NEW f \in Frogs, FrogStep(f)
  PROVE  ContBounds' /\ ContExact'
<1>t. TypeInv /\ MutexHeld
  BY DEF MutexInv
<1>1. /\ Frog /\ Frog' /\ mutexed' = mutexed /\ Moves(f)
      /\ \A g \in Frogs \ {f} : pc'[g] = pc[g] /\ reg'[g] = reg[g]
  BY <1>t, FrogMoves
<1>2. /\ cont \in Nat /\ \A g \in Frogs : reg[g] \in Nat /\ reg'[g] \in Nat
  BY <1>1 DEF MutexInv, TypeInv
<1>3. CASE pc[f] = "write cont"
  <2>1. pc'[f] = "read classificacao" /\ cont' = reg[f] + 1
    BY <1>1, <1>3 DEF Moves
  <2>2. Upped' = Upped \cup {f} /\ f \notin Upped
    BY <1>1, <1>3, <2>1 DEF Upped, UppedAt
  <2>3. Cardinality(Upped') = Cardinality(Upped) + 1 /\ Cardinality(Upped) \in Nat
    BY <2>2, UppedType, FS_AddElement
  <2>4. ContBounds'
    <3>1. reg[f] <= Cardinality(Upped) /\ reg[f] \in Nat
      BY <1>1, <1>2, <1>3 DEF ContBounds
    <3>2. cont' <= Cardinality(Upped') /\ cont' >= 1
      BY <2>1, <2>3, <3>1, OneMoreEach, Zenon
    <3>3. ASSUME NEW g \in Frogs, pc'[g] = "write cont" PROVE reg'[g] <= Cardinality(Upped')
      <4>1. pc[g] = "write cont" /\ reg'[g] = reg[g] /\ reg[g] \in Nat
        BY <1>1, <1>2, <2>1, <3>3
      <4>2. reg[g] <= Cardinality(Upped)
        BY <1>1, <4>1 DEF ContBounds
      <4> QED  BY <2>3, <4>1, <4>2, OneMoreEach, Zenon
    <3> QED  BY <3>2, <3>3 DEF ContBounds
  <2>5. mutexed => \A g \in Frogs \ {f} : pc'[g] # "write cont"
    BY <1>1, <1>3, <1>t, NobodyElse DEF Finishing, Label
  <2>6. ContExact'
    BY <1>1, <1>2, <1>3, <2>1, <2>3, <2>5 DEF ContExact
  <2> QED  BY <2>4, <2>6
<1>4. CASE pc[f] # "write cont"
  <2>1. Upped' = Upped /\ cont' = cont
    BY <1>1, <1>4 DEF Moves, Upped, UppedAt
  <2>2. pc'[f] = "write cont" => reg'[f] = cont
    BY <1>1, <1>4 DEF Moves
  <2>3. \A g \in Frogs : pc'[g] = "write cont" =>
          reg'[g] = cont \/ (pc[g] = "write cont" /\ reg'[g] = reg[g])
    BY <1>1, <2>2
  <2>4. ContBounds'
    BY <1>1, <2>1, <2>3 DEF ContBounds
  <2>5. ContExact'
    BY <1>1, <2>1, <2>3 DEF ContExact
  <2> QED  BY <2>4, <2>5
<1> QED  BY <1>3, <1>4

LEMMA MoveKeepsPlaceBounds ==
  ASSUME TypeInv, PlaceBounds, NEW f \in Frogs, FrogStep(f)
  PROVE  PlaceBounds'
<1>1. /\ Frog /\ Moves(f) /\ \A g \in Frogs \ {f} : pc'[g] = pc[g] /\ reg'[g] = reg[g]
  BY FrogMoves
<1>2. /\ classificacao \in Nat /\ \A g \in Frogs : reg[g] \in Nat
  BY <1>1 DEF TypeInv
<1>3. CASE pc[f] = "write classificacao"
  <2>1. pc'[f] = "unlock" /\ classificacao' = reg[f] + 1 /\ reg[f] >= 1
    BY <1>1, <1>3 DEF Moves, PlaceBounds
  <2>2. classificacao' >= 2 /\ classificacao' >= 1
    BY <1>2, <2>1
  <2>3. \A g \in Frogs : pc'[g] = "write classificacao" => reg'[g] = reg[g] /\ pc[g] = pc'[g]
    BY <1>1, <2>1
  <2> QED  BY <1>1, <1>2, <2>2, <2>3 DEF PlaceBounds
<1>4. CASE pc[f] # "write classificacao"
  <2>1. classificacao' = classificacao /\ Counted' = Counted
    BY <1>1, <1>4 DEF Moves, Counted, CountedAt
  <2>2. pc'[f] = "write classificacao" => reg'[f] = classificacao
    BY <1>1, <1>4 DEF Moves
  <2> QED  BY <1>1, <1>2, <2>1, <2>2 DEF PlaceBounds
<1> QED  BY <1>3, <1>4

\* main() creates a frog, which starts, or joins one, which is gone.
LEMMA MainMoves ==
  ASSUME MutexInv, Frog, MainStep
  PROVE  /\ Frog' /\ UNCHANGED <<reg, lines, cont, classificacao, mutexed>>
         /\ main \in Nat /\ main' = main + 1
         /\ \/ /\ main < NUM_THREADS /\ main' \in Frogs
               /\ pc[main'] = "start" /\ pc'[main'] = "loop"
               /\ \A g \in Frogs \ {main'} : pc'[g] = pc[g]
            \/ /\ main >= NUM_THREADS /\ pc' = pc
               /\ pc[main - NUM_THREADS + 1] = "exit"
<1>t. NotYet /\ TypeInv
  BY DEF MutexInv
<1>1. Frog' /\ UNCHANGED <<reg, lines, cont, classificacao, mutexed>>
  BY DEF Frog, Counting, MainStep, FrogMain, Create, Join, frogVars
<1>2. main \in Nat
  BY <1>t DEF TypeInv
<1>3. CASE main < NUM_THREADS /\ main' = main + 1 /\ Goto(main', "loop")
  <2>1. main' \in Frogs /\ main' > main
    BY <1>2, <1>3, FrogRaceAssumption DEF Frogs
  <2>2. /\ pc[main'] = "start" /\ pc'[main'] = "loop"
        /\ \A g \in Frogs \ {main'} : pc'[g] = pc[g]
    BY <1>3, <2>1, <1>t DEF NotYet, TypeInv, Goto
  <2> QED  BY <1>1, <1>2, <1>3, <2>1, <2>2
<1>4. CASE /\ main >= NUM_THREADS /\ main' = main + 1 /\ pc' = pc
           /\ pc[main - NUM_THREADS + 1] = "exit"
  BY <1>1, <1>2, <1>4
<1> QED  BY <1>3, <1>4 DEF MainStep, FrogMain, Create, Join, At, Frog, Counting

LEMMA MainKeepsFrogs ==
  ASSUME FrogsInv, Frog, MainStep
  PROVE  FrogsJoined' /\ LineForAll' /\ ContBounds' /\ ContExact' /\ PlaceBounds'
<1>t. MutexInv /\ FrogsJoined /\ LineForAll /\ ContBounds /\ ContExact /\ PlaceBounds
  BY DEF FrogsInv, PlacesInv
<1>1. /\ Frog' /\ UNCHANGED <<reg, lines, cont, classificacao, mutexed>>
      /\ main \in Nat /\ main' = main + 1
      /\ \/ /\ main < NUM_THREADS /\ main' \in Frogs
            /\ pc[main'] = "start" /\ pc'[main'] = "loop"
            /\ \A g \in Frogs \ {main'} : pc'[g] = pc[g]
         \/ /\ main >= NUM_THREADS /\ pc' = pc
            /\ pc[main - NUM_THREADS + 1] = "exit"
  BY <1>t, MainMoves
<1>2. \A g \in Frogs : pc'[g] = pc[g] \/ (pc[g] = "start" /\ pc'[g] = "loop")
  BY <1>1
<1>3. Upped' = Upped /\ Counted' = Counted /\ Printed' = Printed
  BY <1>2 DEF Upped, UppedAt, Counted, CountedAt, Printed, PrintedAt
<1>4. FrogsJoined'
  <2> SUFFICES ASSUME NEW f \in Frogs, f + NUM_THREADS <= main' PROVE pc'[f] = "exit"
    BY <1>1 DEF FrogsJoined
  <2>0. f \in Nat /\ f >= 1 /\ NUM_THREADS \in Nat
    BY FrogRaceAssumption DEF Frogs
  <2>1. main >= NUM_THREADS
    BY <1>1, <2>0
  <2>2. pc' = pc /\ pc[main - NUM_THREADS + 1] = "exit"
    BY <1>1, <2>0, <2>1
  <2>3. f + NUM_THREADS <= main \/ f = main - NUM_THREADS + 1
    BY <1>1, <2>0
  <2> QED  BY <1>t, <2>2, <2>3, Zenon DEF FrogsJoined
<1>5. LineForAll'
  BY <1>1, <1>3, <1>t DEF LineForAll, HasLine
<1>6. \A g \in Frogs : pc'[g] \in {"write cont", "write classificacao"} => pc'[g] = pc[g]
  BY <1>2
<1>7. ContBounds' /\ ContExact'
  BY <1>1, <1>3, <1>6, <1>t DEF ContBounds, ContExact
<1>8. PlaceBounds'
  BY <1>1, <1>3, <1>6, <1>t DEF PlaceBounds
<1> QED  BY <1>4, <1>5, <1>7, <1>8

LEMMA NextKeepsFrogs == FrogsInv /\ [Next]_vars => FrogsInv'
<1> SUFFICES ASSUME FrogsInv, [Next]_vars PROVE FrogsInv'
  OBVIOUS
<1>0. PlacesInv' /\ PlacesInv
  BY NextKeepsPlaces DEF FrogsInv
<1>t. /\ MutexInv /\ MutexInv' /\ TypeInv
      /\ FrogsJoined /\ LineForAll /\ ContBounds /\ ContExact /\ PlaceBounds
  BY <1>0 DEF FrogsInv, PlacesInv, MutexInv
<1> SUFFICES FrogsJoined' /\ LineForAll' /\ ContBounds' /\ ContExact' /\ PlaceBounds'
  BY <1>0 DEF FrogsInv
<1>1. CASE ~Frog /\ exercise' = exercise
  BY <1>1 DEF Frog, FrogsJoined, LineForAll, ContBounds, ContExact, PlaceBounds
<1>2. CASE MainStep
  BY <1>1, <1>2, MainKeepsFrogs DEF MainStep
<1>3. ASSUME NEW f \in Frogs, FrogStep(f)
      PROVE  FrogsJoined' /\ LineForAll' /\ ContBounds' /\ ContExact' /\ PlaceBounds'
  BY <1>3, <1>t, MoveKeepsJoined, MoveKeepsLines, MoveKeepsCont, MoveKeepsPlaceBounds
<1>4. ASSUME NEW t \in 1 .. 2, CountStep(t)
      PROVE  FrogsJoined' /\ LineForAll' /\ ContBounds' /\ ContExact' /\ PlaceBounds'
  BY <1>1, <1>4 DEF CountStep, Counting, Frog
<1>5. CASE UNCHANGED vars
  <2>1. UNCHANGED <<exercise, main, pc, reg, mutexed, cont, classificacao, lines>>
    BY <1>5 DEF vars, threadVars, frogVars
  <2>2. Upped' = Upped /\ Counted' = Counted /\ Printed' = Printed /\ Frog' = Frog
    BY <2>1 DEF Upped, Counted, Printed, Frog
  <2> QED  BY <2>1, <2>2, <1>t DEF FrogsJoined, LineForAll, HasLine, ContBounds, ContExact, PlaceBounds
<1> QED  BY <1>2, <1>3, <1>4, <1>5 DEF Next

-----------------------------------------------------------------------------
(***************************************************************************)
(* Outcome of the counting threads.  A store writes at most one more than  *)
(* the rounds that are done, and at least 1; a thread's second load finds  *)
(* what a store, at the latest its own first, has left.                    *)
(***************************************************************************)
CountLabel == {"start", "loop", "store", "exit"}

CountType ==
  Counting =>
    /\ pc \in [1 .. 2 -> CountLabel] /\ reg \in [1 .. 2 -> Nat] /\ i \in [1 .. 2 -> Nat]
    /\ global \in Nat
    /\ \A t \in 1 .. 2 :
         /\ t > main => pc[t] = "start"
         /\ i[t] <= Rounds[t]
         /\ pc[t] = "store" => i[t] < Rounds[t]
         /\ pc[t] = "exit" => i[t] = Rounds[t]
         /\ t + 2 <= main => pc[t] = "exit"

AtMostRounds ==
  Counting =>
    /\ global <= i[1] + i[2]
    /\ \A t \in 1 .. 2 : pc[t] = "store" => reg[t] <= i[1] + i[2]

TwoAreLeft ==
  Counting =>
    /\ \A t \in 1 .. 2 :
         /\ i[t] >= 1 => global >= 1
         /\ i[t] >= 1 /\ pc[t] = "store" => reg[t] >= 1
    /\ Rounds[1] >= 2 /\ Rounds[2] >= 2 /\ i[1] = Rounds[1] /\ i[2] = Rounds[2] => global >= 2

CountInv == CountType /\ AtMostRounds /\ TwoAreLeft

LEMMA TwoThreads == 1 .. 2 = {1, 2} /\ Rounds[1] \in Nat /\ Rounds[2] \in Nat
BY RoundsAssumption

LEMMA InitCount == Init => CountInv
<1> SUFFICES ASSUME Init, Counting PROVE CountInv
  BY DEF CountInv, CountType, AtMostRounds, TwoAreLeft
<1>0. ~Frog
  BY DEF Counting, Frog
<1>1. /\ pc = [t \in 1 .. 2 |-> "start"] /\ reg = [t \in 1 .. 2 |-> 0] /\ i = [t \in 1 .. 2 |-> 0]
      /\ global = 0 /\ main = 0
  BY <1>0 DEF Init, ThreadsInit, CountInit
<1>2. pc \in [1 .. 2 -> CountLabel] /\ reg \in [1 .. 2 -> Nat] /\ i \in [1 .. 2 -> Nat]
  BY <1>1 DEF CountLabel
<1>3. \A t \in 1 .. 2 : pc[t] = "start" /\ i[t] = 0
  BY <1>1
<1> QED  BY <1>1, <1>2, <1>3, TwoThreads DEF CountInv, CountType, AtMostRounds, TwoAreLeft

LEMMA CountLoadKeeps ==
  ASSUME CountInv, Counting, NEW t \in 1 .. 2, CountLoad(t), exercise' = exercise
  PROVE  CountInv'
<1>0. /\ Counting' /\ UNCHANGED <<main, global, i>> /\ pc[t] = "loop"
      /\ pc \in [1 .. 2 -> CountLabel] /\ reg \in [1 .. 2 -> Nat] /\ i \in [1 .. 2 -> Nat]
      /\ global \in Nat /\ Rounds[1] \in Nat /\ Rounds[2] \in Nat
  BY TwoThreads DEF Counting, CountLoad, At, countVars, CountInv, CountType
<1>1. /\ pc'[t] = (IF i[t] < Rounds[t] THEN "store" ELSE "exit")
      /\ pc' \in [1 .. 2 -> CountLabel] /\ reg' \in [1 .. 2 -> Nat]
      /\ pc'[t] = "store" => reg'[t] = global
      /\ \A s \in 1 .. 2 : s # t => pc'[s] = pc[s] /\ reg'[s] = reg[s]
  BY <1>0 DEF CountLoad, Load, Goto, CountLabel
<1>2. CountType'
  <2>1. \A s \in 1 .. 2 : s # t =>
          /\ s > main => pc'[s] = "start"
          /\ i[s] <= Rounds[s]
          /\ pc'[s] = "store" => i[s] < Rounds[s]
          /\ pc'[s] = "exit" => i[s] = Rounds[s]
          /\ s + 2 <= main => pc'[s] = "exit"
    BY <1>0, <1>1 DEF CountInv, CountType
  <2>2. ~(t > main) /\ ~(t + 2 <= main) /\ i[t] <= Rounds[t]
    BY <1>0 DEF CountInv, CountType
  <2>3. pc'[t] = "exit" => i[t] = Rounds[t]
    <3>1. i[t] \in Nat /\ Rounds[t] \in Nat
      BY <1>0, TwoThreads
    <3> QED  BY <1>1, <2>2, <3>1
  <2>4. pc'[t] = "store" => i[t] < Rounds[t]
    BY <1>1
  <2>5. pc'[t] # "start"
    BY <1>1
  <2> QED  BY <1>0, <1>1, <2>1, <2>2, <2>3, <2>4 DEF CountType
<1>3. AtMostRounds'
  BY <1>0, <1>1, TwoThreads DEF CountInv, AtMostRounds
<1>4. TwoAreLeft'
  BY <1>0, <1>1, TwoThreads DEF CountInv, TwoAreLeft
<1> QED  BY <1>2, <1>3, <1>4 DEF CountInv

LEMMA CountStoreKeeps ==
  ASSUME CountInv, Counting, NEW t \in 1 .. 2, CountStore(t), exercise' = exercise
  PROVE  CountInv'
<1>0. /\ Counting' /\ UNCHANGED <<main, reg>> /\ pc[t] = "store" /\ global' = reg[t] + 1
      /\ pc \in [1 .. 2 -> CountLabel] /\ reg \in [1 .. 2 -> Nat] /\ i \in [1 .. 2 -> Nat]
      /\ global \in Nat /\ Rounds[1] \in Nat /\ Rounds[2] \in Nat
  BY TwoThreads DEF Counting, CountStore, At, CountInv, CountType
<1>1. /\ pc'[t] = "loop" /\ i'[t] = i[t] + 1
      /\ pc' \in [1 .. 2 -> CountLabel] /\ i' \in [1 .. 2 -> Nat]
      /\ \A s \in 1 .. 2 : s # t => pc'[s] = pc[s] /\ i'[s] = i[s]
  BY <1>0 DEF CountStore, Goto, CountLabel
<1>r. reg[t] \in Nat /\ i[t] \in Nat /\ Rounds[t] \in Nat /\ global' \in Nat
  BY <1>0, TwoThreads
<1>2. i[t] < Rounds[t] /\ ~(t > main) /\ ~(t + 2 <= main)
  BY <1>0 DEF CountInv, CountType
<1>3. CountType'
  <2>1. \A s \in 1 .. 2 : s # t =>
          /\ s > main => pc'[s] = "start"
          /\ i'[s] <= Rounds[s]
          /\ pc'[s] = "store" => i'[s] < Rounds[s]
          /\ pc'[s] = "exit" => i'[s] = Rounds[s]
          /\ s + 2 <= main => pc'[s] = "exit"
    BY <1>0, <1>1 DEF CountInv, CountType
  <2>2. i'[t] <= Rounds[t]
    BY <1>1, <1>2, <1>r
  <2> QED  BY <1>0, <1>1, <1>2, <1>r, <2>1, <2>2 DEF CountType
<1>4. i'[1] + i'[2] = i[1] + i[2] + 1
  <2>1. t = 1 \/ t = 2
    BY TwoThreads
  <2>2. i[1] \in Nat /\ i[2] \in Nat
    BY <1>0, TwoThreads
  <2>3. CASE t = 1
    <3>1. i'[1] = i[1] + 1 /\ i'[2] = i[2]
      BY <1>1, <2>3, TwoThreads
    <3> QED  BY <2>2, <3>1
  <2>4. CASE t = 2
    <3>1. i'[2] = i[2] + 1 /\ i'[1] = i[1]
      BY <1>1, <2>4, TwoThreads
    <3> QED  BY <2>2, <3>1
  <2> QED  BY <2>1, <2>3, <2>4
<1>5. AtMostRounds'
  <2>1. reg[t] <= i[1] + i[2] /\ i[1] + i[2] \in Nat
    BY <1>0, TwoThreads DEF CountInv, AtMostRounds
  <2>2. global' <= i'[1] + i'[2]
    BY <1>0, <1>4, <1>r, <2>1
  <2>3. ASSUME NEW s \in 1 .. 2, pc'[s] = "store" PROVE reg'[s] <= i'[1] + i'[2]
    <3>1. pc[s] = "store" /\ reg'[s] = reg[s] /\ reg[s] \in Nat
      BY <1>0, <1>1, <2>3
    <3>2. reg[s] <= i[1] + i[2]
      BY <3>1 DEF CountInv, AtMostRounds
    <3> QED  BY <1>4, <2>1, <3>1, <3>2
  <2> QED  BY <2>2, <2>3 DEF AtMostRounds
<1>6. TwoAreLeft'
  <2>1. global' >= 1
    BY <1>0, <1>r
  <2>2. ASSUME NEW s \in 1 .. 2, i'[s] >= 1, pc'[s] = "store" PROVE reg'[s] >= 1
    <3>1. s # t /\ pc[s] = "store" /\ i[s] >= 1 /\ reg'[s] = reg[s]
      BY <1>0, <1>1, <2>2
    <3> QED  BY <3>1 DEF CountInv, TwoAreLeft
  <2>3. ASSUME Rounds[1] >= 2, Rounds[2] >= 2, i'[1] = Rounds[1], i'[2] = Rounds[2]
        PROVE  global' >= 2
    <3>1. i'[t] = Rounds[t] /\ Rounds[t] >= 2
      BY <2>3, TwoThreads
    <3>2. i[t] >= 1
      BY <1>1, <1>r, <3>1
    <3>3. reg[t] >= 1
      BY <1>0, <3>2 DEF CountInv, TwoAreLeft
    <3> QED  BY <1>0, <1>r, <3>3
  <2> QED  BY <2>1, <2>2, <2>3 DEF TwoAreLeft
<1> QED  BY <1>3, <1>5, <1>6 DEF CountInv

LEMMA CountMainKeeps ==
  ASSUME CountInv, TypeInv, Counting, MainStep
  PROVE  CountInv'
<1>0. /\ Counting' /\ UNCHANGED <<reg, global, i>> /\ main \in Nat /\ main' = main + 1
      /\ pc \in [1 .. 2 -> CountLabel] /\ reg \in [1 .. 2 -> Nat] /\ i \in [1 .. 2 -> Nat]
      /\ global \in Nat
  BY DEF Counting, Frog, MainStep, CountMain, Create, Join, countVars, CountInv, CountType, TypeInv
<1>1. \/ /\ main < 2 /\ pc' = [pc EXCEPT ![main + 1] = "loop"]
      \/ /\ main >= 2 /\ main < 4 /\ pc' = pc /\ pc[main - 1] = "exit"
  <2>1. \/ main < 2 /\ Goto(main', "loop")
        \/ main >= 2 /\ main < 2 * 2 /\ pc[main - 2 + 1] = "exit" /\ pc' = pc
    BY DEF Counting, Frog, MainStep, CountMain, Create, Join, At
  <2>2. main - 2 + 1 = main - 1 /\ 2 * 2 = 4
    BY <1>0
  <2> QED  BY <1>0, <2>1, <2>2 DEF Goto
<1>2. CASE main < 2 /\ pc' = [pc EXCEPT ![main + 1] = "loop"]
  <2>1. main + 1 \in 1 .. 2 /\ main + 1 > main
    BY <1>0, <1>2
  <2>2. pc[main + 1] = "start" /\ pc'[main + 1] = "loop" /\ pc' \in [1 .. 2 -> CountLabel]
        /\ \A s \in 1 .. 2 : s # main + 1 => pc'[s] = pc[s]
    BY <1>0, <1>2, <2>1 DEF CountInv, CountType, CountLabel
  <2>3. \A s \in 1 .. 2 : ~(s + 2 <= main') /\ (s > main' => s > main /\ s # main + 1)
    BY <1>0, <1>2
  <2>4. CountType'
    <3>1. ASSUME NEW s \in 1 .. 2
          PROVE  /\ s > main' => pc'[s] = "start"
                 /\ i[s] <= Rounds[s]
                 /\ pc'[s] = "store" => i[s] < Rounds[s]
                 /\ pc'[s] = "exit" => i[s] = Rounds[s]
      BY <1>0, <2>2, <2>3 DEF CountInv, CountType
    <3> QED  BY <1>0, <2>2, <2>3, <3>1 DEF CountType
  <2>5. AtMostRounds' /\ TwoAreLeft'
    BY <1>0, <2>2 DEF CountInv, AtMostRounds, TwoAreLeft
  <2> QED  BY <2>4, <2>5 DEF CountInv
<1>3. CASE main >= 2 /\ main < 4 /\ pc' = pc /\ pc[main - 1] = "exit"
  <2>1. \A s \in 1 .. 2 : /\ s > main' => s > main
                          /\ s + 2 <= main' => s + 2 <= main \/ s = main - 1
    BY <1>0, <1>3
  <2>2. CountType'
    BY <1>0, <1>3, <2>1, Zenon DEF CountInv, CountType
  <2>3. AtMostRounds' /\ TwoAreLeft'
    BY <1>0, <1>3 DEF CountInv, AtMostRounds, TwoAreLeft
  <2> QED  BY <2>2, <2>3 DEF CountInv
<1> QED  BY <1>1, <1>2, <1>3

LEMMA NextKeepsCount == MutexInv /\ CountInv /\ [Next]_vars => CountInv'
<1> SUFFICES ASSUME MutexInv, CountInv, [Next]_vars PROVE CountInv'
  OBVIOUS
<1>1. CASE ~Counting /\ exercise' = exercise
  BY <1>1 DEF Counting, CountInv, CountType, AtMostRounds, TwoAreLeft
<1>2. CASE MainStep
  BY <1>1, <1>2, CountMainKeeps DEF MainStep, MutexInv
<1>3. ASSUME NEW f \in Frogs, FrogStep(f) PROVE CountInv'
  BY <1>1, <1>3 DEF FrogStep, Counting, Frog
<1>4. ASSUME NEW t \in 1 .. 2, CountStep(t) PROVE CountInv'
  BY <1>4, CountLoadKeeps, CountStoreKeeps DEF CountStep, Count
<1>5. CASE UNCHANGED vars
  <2>1. UNCHANGED <<exercise, main, pc, reg, global, i>>
    BY <1>5 DEF vars, threadVars, countVars
  <2> QED  BY <2>1 DEF CountInv, CountType, AtMostRounds, TwoAreLeft, Counting
<1> QED  BY <1>2, <1>3, <1>4, <1>5 DEF Next

-----------------------------------------------------------------------------
LEMMA FrogsOutcome ==
  ASSUME FrogsInv, Frog, MainReturns(NUM_THREADS)
  PROVE  /\ {lines[k].frog : k \in 1 .. Len(lines)} = Frogs
         /\ cont \in 1 .. NUM_THREADS /\ classificacao \in 2 .. NUM_THREADS + 1
         /\ mutexed => cont = NUM_THREADS /\ classificacao = NUM_THREADS + 1
<1>t. /\ PlacesInv /\ MutexInv /\ TypeInv /\ OneLineEach /\ Places /\ PlaceIsNext
      /\ FrogsJoined /\ LineForAll /\ ContBounds /\ ContExact /\ PlaceBounds
  BY DEF FrogsInv, PlacesInv, MutexInv
<1>n. NUM_THREADS \in Nat /\ NUM_THREADS >= 1 /\ main = 2 * NUM_THREADS
  BY FrogRaceAssumption DEF MainReturns
<1>1. \A f \in Frogs : pc[f] = "exit"
  <2> SUFFICES ASSUME NEW f \in Frogs PROVE f + NUM_THREADS <= main
    BY <1>t DEF FrogsJoined
  <2> QED  BY <1>n DEF Frogs
<1>2. Printed = Frogs /\ Counted = Frogs /\ Upped = Frogs
  BY <1>1 DEF Printed, PrintedAt, Counted, CountedAt, Upped, UppedAt
<1>3. Cardinality(Frogs) = NUM_THREADS
  BY <1>n, FS_Interval DEF Frogs
<1>4. 1 \in Frogs
  BY <1>n DEF Frogs
<1>5. cont \in Nat /\ classificacao \in Nat
  BY <1>t DEF TypeInv
<1>6. Len(lines) = NUM_THREADS /\ classificacao <= NUM_THREADS + 1
  BY <1>2, <1>3, <1>t DEF Places
<1>7. {lines[k].frog : k \in 1 .. Len(lines)} = Frogs
  <2>1. \A k \in 1 .. Len(lines) : lines[k].frog \in Frogs
    BY <1>2, <1>t DEF OneLineEach
  <2>2. \A f \in Frogs : \E k \in 1 .. Len(lines) : lines[k].frog = f
    BY <1>2, <1>t DEF LineForAll, HasLine
  <2> QED  BY <2>1, <2>2
<1>8. cont <= NUM_THREADS /\ cont >= 1
  BY <1>2, <1>3, <1>4, <1>t DEF ContBounds
<1>9. classificacao >= 2
  BY <1>2, <1>4, <1>t DEF PlaceBounds
<1>10. mutexed => cont = NUM_THREADS
  BY <1>2, <1>3, <1>t DEF ContExact
<1>11. mutexed => classificacao = NUM_THREADS + 1
  BY <1>1, <1>6, <1>t DEF PlaceIsNext, PrintedAt, CountedAt
<1> QED  BY <1>n, <1>5, <1>6, <1>7, <1>8, <1>9, <1>10, <1>11

LEMMA CountOutcome ==
  ASSUME CountInv, Counting, MainReturns(2)
  PROVE  /\ global <= Rounds[1] + Rounds[2]
         /\ Rounds[1] >= 2 /\ Rounds[2] >= 2 => global >= 2
<1>1. main = 4 /\ CountType /\ AtMostRounds /\ TwoAreLeft
  BY DEF MainReturns, CountInv
<1>2. \A t \in 1 .. 2 : pc[t] = "exit" /\ i[t] = Rounds[t]
  BY <1>1 DEF CountType
<1>3. i[1] = Rounds[1] /\ i[2] = Rounds[2]
  BY <1>2, TwoThreads
<1> QED  BY <1>1, <1>3 DEF AtMostRounds, TwoAreLeft

\* Outcome: for any number of frogs and any length of the race, and for any
\* number of rounds, what main() finds when it has joined its threads.
THEOREM OutcomeTheorem == Spec => []Outcome
<1>1. Init => FrogsInv /\ CountInv
  BY InitFrogs, InitCount
<1>2. FrogsInv /\ CountInv /\ [Next]_vars => (FrogsInv /\ CountInv)'
  <2>1. FrogsInv => MutexInv
    BY DEF FrogsInv, PlacesInv
  <2> QED  BY <2>1, NextKeepsFrogs, NextKeepsCount
<1>3. FrogsInv /\ CountInv => Outcome
  BY FrogsOutcome, CountOutcome DEF Outcome
<1> QED  BY <1>1, <1>2, <1>3, PTL DEF Spec
=============================================================================
