------------------------------ MODULE MCCascade ------------------------------
(* A finite instance of Cascade. *)
EXTENDS Cascade, TLC

CONSTANTS census, tiger, ga, d3

(* Census outweighs Tiger; a fuzzy match may be worth more or less.        *)
SomeTrust == (census :> 90) @@ (tiger :> 40)
SomeZips  == (d3 :> {ga}) @@ (NoState :> {})
PlaceSymmetry == Permutations(Places)
=============================================================================
