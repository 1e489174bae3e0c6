---------------------------- MODULE MCEnginePool ----------------------------
(* Instances of EnginePool for TLC. *)
EXTENDS EnginePool, TLC
=============================================================================
