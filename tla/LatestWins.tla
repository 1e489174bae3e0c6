----------------------------- MODULE LatestWins -----------------------------
(***************************************************************************)
(* What the broadcast of "current state, refetch if interested" events     *)
(* promises (events/coalescing.py): of each key a browser is shown some of *)
(* the events that were published, never one older than it has been shown. *)
(***************************************************************************)
EXTENDS Naturals

CONSTANTS Keys, Browsers

VARIABLES
    latest,  \* the number of the last event published of each key
    seen     \* the number of the last event each browser was shown of it

LatestInit ==
    /\ latest = [k \in Keys |-> 0]
    /\ seen = [b \in Browsers |-> [k \in Keys |-> 0]]

Publishes(k) ==
    /\ latest'[k] > latest[k]
    /\ latest' = [latest EXCEPT ![k] = latest'[k]]
    /\ UNCHANGED seen

Shows(b, k) ==
    /\ seen[b][k] < seen'[b][k] /\ seen'[b][k] <= latest[k]
    /\ seen' = [seen EXCEPT ![b] = [@ EXCEPT ![k] = seen'[b][k]]]
    /\ UNCHANGED latest

LatestNext ==
    \/ \E k \in Keys : Publishes(k)
    \/ \E b \in Browsers, k \in Keys : Shows(b, k)

LatestSpec == LatestInit /\ [][LatestNext]_<<latest, seen>>
=============================================================================
