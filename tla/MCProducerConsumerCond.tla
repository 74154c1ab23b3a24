----------------------- MODULE MCProducerConsumerCond -----------------------
(***************************************************************************)
(* ProducerConsumerCond for TLC: the producers are alike, and so are the   *)
(* consumers.                                                              *)
(***************************************************************************)
EXTENDS ProducerConsumerCond, TLC

Symmetry == Permutations(Producers) \cup Permutations(Consumers)
=============================================================================
