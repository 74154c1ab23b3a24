----------------------------- MODULE FinishLine -----------------------------
(***************************************************************************)
(* What the frog race of Lab 9 is to report: each frog once, with the      *)
(* places counting up from 1.                                              *)
(***************************************************************************)
EXTENDS Naturals, Sequences

CONSTANT Frogs

VARIABLE report   (* The lines printed at the finish. *)

FinishLineInit == report = <<>>

Cross(f) ==
  /\ \A k \in 1 .. Len(report) : report[k].frog # f
  /\ report' = Append(report, [frog |-> f, place |-> Len(report) + 1])

FinishLineNext == \E f \in Frogs : Cross(f)

FinishLineSpec == FinishLineInit /\ [][FinishLineNext]_report
=============================================================================
