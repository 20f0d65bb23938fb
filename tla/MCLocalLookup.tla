--------------------------- MODULE MCLocalLookup ----------------------------
(* Instances of LocalLookup. *)
EXTENDS LocalLookup, TLC

CONSTANTS elm, alm, oak, letters

At(s, id, n, w, x, z, k) ==
  [source |-> s, id |-> id, number |-> n, street |-> w, suffix |-> x, zip |-> z, kind |-> k]

Here  == <<3, 1, 2, 0, 1>>
There == <<3, 1, 2, 1, 0>>

SomePoints ==
  {At(Oa, 1, 10, elm, "ST", Here, "rooftop"), At(Oa, 2, 10, elm, "ST", Here, "parcel"),
   At(Oa, 2, 13, elm, Absent, Here, "rooftop"), At(Oa, 2, 99, elm, "ST", Here, "centroid"),
   At(Oa, 2, 14, elm, "ST", Here, "interpolation"),
   At(Oa, 3, 13, elm, "ST", Here, ""), At(Oa, 3, 10, elm, "ST", There, ""),
   At(Nad, 1, 12, alm, "ST", Here, "Site"), At(Nad, 1, 10, elm, "ST", There, "Linear Geocode"),
   At(Macon, 1, 8, oak, "ST", Here, "PARCEL"), At(Macon, 1, 10, elm, "ST", Here, "STRUCTURE")}

Ask(n, x, z) == [number |-> n, street |-> elm, suffix |-> x, zip |-> z]

SomeQueries ==
  {Ask(10, "ST", Here), Ask(12, Absent, Here), Ask(letters, "ST", <<3, 1, 2, 0>>),
   Ask(10, "ST", <<3, 1, 2>>), Ask(10, "ST", <<3, 1, 2, 0>>), Ask(10, "ST", Absent)}

Sounds == (elm :> 1) @@ (alm :> 3) @@ (oak :> 3)
SomeTiger ==
  {[rating |-> 120, known |-> TRUE, county |-> 21], [rating |-> 5, known |-> TRUE, county |-> Absent],
   [rating |-> 5, known |-> FALSE, county |-> Absent]}
Scores == (elm :> 90) @@ (alm :> 88) @@ (oak :> 70)
=============================================================================
