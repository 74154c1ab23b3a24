------------------------------- MODULE Threads ------------------------------
(***************************************************************************)
(* What the small thread exercises of Labs 8 and 9 share: a main() that    *)
(* creates its threads one after the other and then joins them in that     *)
(* order, and x++, which the build makes a load and a store.               *)
(***************************************************************************)
EXTENDS Naturals

VARIABLES
  main,      (* The pthread_create() and pthread_join() main() has made.   *)
  pc,        (* The next statement of each thread.                         *)
  reg        (* The register of each thread.                               *)

threadVars == <<main, pc, reg>>

ThreadsInit(Thread) ==
  /\ main = 0
  /\ pc = [t \in Thread |-> "start"]
  /\ reg = [t \in Thread |-> 0]

At(t, label) == pc[t] = label
Goto(t, label) == pc' = [pc EXCEPT ![t] = label]

Load(t, x) == reg' = [reg EXCEPT ![t] = x]

Create(n) ==
  /\ main < n
  /\ main' = main + 1
  /\ Goto(main', "loop")
  /\ UNCHANGED reg

Join(n) ==
  /\ main >= n /\ main < 2 * n
  /\ At(main - n + 1, "exit")
  /\ main' = main + 1
  /\ UNCHANGED <<pc, reg>>

MainReturns(n) == main = 2 * n
=============================================================================
