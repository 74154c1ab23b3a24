----------------------------- MODULE RoundRobin -----------------------------
(***************************************************************************)
(* What the round-robin scheduler of T1 promises, one step per interrupted *)
(* slice: a ready list served strictly in order of arrival, and a wait     *)
(* list of which the oldest process becomes ready at the end of a slice.   *)
(***************************************************************************)
EXTENDS Naturals, Sequences

CONSTANT
  N         (* Number of programs.                                         *)

VARIABLES
  cpu,      (* The process that holds the CPU, or << >>.                   *)
  ready,    (* The ready list, next to run first.                          *)
  waiting,  (* Processes in I/O, the longest waiting first.                *)
  finished  (* The processes that are done.                                *)

abstractVars == <<cpu, ready, waiting, finished>>

Take(q) == SubSeq(q, 1, IF q = << >> THEN 0 ELSE 1)
Drop(q) == SubSeq(q, Len(Take(q)) + 1, Len(q))

\* Programs run in the order of the command line.
AbstractInit ==
  /\ cpu = <<1>>
  /\ ready = [i \in 1 .. N - 1 |-> i + 1]
  /\ waiting = << >>
  /\ finished = {}

Dispatch(q) == cpu' = Take(q) /\ ready' = Drop(q)

\* A time slice ends: the process that waited longest is ready before the one
\* that is preempted.
SliceEnds ==
  /\ Dispatch(ready \o Take(waiting) \o cpu)
  /\ waiting' = Drop(waiting)
  /\ UNCHANGED finished

\* The running process starts an I/O and gives the rest of its slice away.
StartIO ==
  /\ cpu # << >>
  /\ Dispatch(ready)
  /\ waiting' = waiting \o cpu
  /\ UNCHANGED finished

Finish ==
  /\ cpu # << >>
  /\ finished' = finished \cup {cpu[1]}
  /\ Dispatch(ready)
  /\ UNCHANGED waiting

AbstractNext == SliceEnds \/ StartIO \/ Finish

AbstractSpec == AbstractInit /\ [][AbstractNext]_abstractVars
=============================================================================
