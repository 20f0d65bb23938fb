---------------------------- MODULE MCConsensus ----------------------------
(* A finite instance of Consensus, in units of 10 m and of weight 0.40. *)
EXTENDS Consensus

(* Three points that agree, at and below the limit; two that draw a        *)
(* centroid on; one that agrees with nobody; one more than 1 km away.      *)
SomePoints  == {<<0, 0>>, <<10, 0>>, <<5, 8>>, <<15, 0>>, <<18, 0>>,
                <<5, 40>>, <<130, 0>>}
SomeWeights == {1, 2}
=============================================================================
