-------------------------- MODULE MCResponseCache ---------------------------
(* Instances of ResponseCache for TLC. *)
EXTENDS ResponseCache, TLC

CONSTANTS statistics, traps, training

Tagged ==
    [k \in Cached |-> CASE k = statistics -> "stats" [] k = traps -> "traps" [] k = training -> "training"]
=============================================================================
