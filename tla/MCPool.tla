------------------------------- MODULE MCPool -------------------------------
(***************************************************************************)
(* Instances of Pool for TLC.                                              *)
(***************************************************************************)
EXTENDS PoolProperties, TLC
CONSTANTS w1, w2

MCWorkers == {w1, w2}
Symmetry == Permutations(MCWorkers)
=============================================================================
