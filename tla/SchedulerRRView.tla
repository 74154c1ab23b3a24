-------------------------- MODULE SchedulerRRView ---------------------------
(***************************************************************************)
(* SchedulerRR implements RoundRobin.  A handler changes the queues in     *)
(* several steps; the history variable `seen' holds them as they were when *)
(* main() last had the CPU to itself, and only there are they compared.    *)
(***************************************************************************)
EXTENDS SchedulerRR

VARIABLE seen

viewVars == <<vars, seen>>

InProgram(p) == IF p = None THEN << >> ELSE <<p>>

Snapshot ==
  [cpu      |-> InProgram(current),
   ready    |-> mainQueue,
   waiting  |-> waitQueue,
   finished |-> {p \in Pid : life[p] = "exited"}]

ViewInit ==
  /\ Init
  /\ seen = [cpu |-> <<1>>, ready |-> [i \in 1 .. N - 1 |-> i + 1],
             waiting |-> << >>, finished |-> {}]

\* The last snapshot is taken when the scheduler gives up its loop.
ViewNext ==
  /\ Next
  /\ seen' = IF Quiet' THEN Snapshot' ELSE seen

ViewSpec == ViewInit /\ [][ViewNext]_viewVars /\ Fairness

Abstract == INSTANCE RoundRobin WITH
  cpu <- seen.cpu, ready <- seen.ready,
  waiting <- seen.waiting, finished <- seen.finished

\* Seen from one quiet moment to the next, every cascade of signal handlers is
\* one step of a round-robin scheduler: strict arrival order, one waiting
\* process released per slice, before the preempted one.
ImplementsRoundRobin == Abstract!AbstractSpec
=============================================================================
