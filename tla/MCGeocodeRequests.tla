------------------------- MODULE MCGeocodeRequests -------------------------
(* Finite instances of GeocodeRequests. *)
EXTENDS GeocodeRequests, TLC

CONSTANTS census, nominatim

OneRemote  == <<census>>
TwoRemotes == <<census, nominatim>>

EveryOp         == AllOps
GeocodeVsAdmin  == {"geocode", "override"}
GeocodeAndRefresh == {"geocode", "refresh"}
RequestSymmetry == Permutations(Requests)
=============================================================================
