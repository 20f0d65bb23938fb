--------------------------- MODULE MCBatchSession ---------------------------
(* Instances of BatchSession. *)
EXTENDS BatchSession

CONSTANTS a1, b1
=============================================================================
