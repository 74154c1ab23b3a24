------------------------ MODULE MCSemaphoreExercises ------------------------
(***************************************************************************)
(* SemaphoreExercises for TLC: who runs what.                              *)
(***************************************************************************)
EXTENDS SemaphoreExercises

MCProcess == 1 .. 3

MCScenarios ==
  { <<"leader", "follower", "follower">>, <<"leader", "leader", "follower">>,
    <<"writer", "printer", "printer">>, <<"writer", "writer", "printer">>,
    <<"add5 zero", "add1", "nobody">> }
=============================================================================
