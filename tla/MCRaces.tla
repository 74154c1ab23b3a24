------------------------------ MODULE MCRaces -------------------------------
(***************************************************************************)
(* Races for TLC: how often the threads of Lab 8, Ex 2 count.              *)
(***************************************************************************)
EXTENDS Races

MCRounds == <<3, 4>>
=============================================================================
