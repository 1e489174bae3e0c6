--------------------------- MODULE MCJobDispatch ----------------------------
(* Instances of JobDispatch for TLC. *)
EXTENDS JobDispatch, TLC
=============================================================================
