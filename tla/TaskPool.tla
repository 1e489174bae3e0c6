------------------------------ MODULE TaskPool ------------------------------
(***************************************************************************)
(* What a pool of workers promises to the code that submits work to it,    *)
(* with no queue, no worker and no engine in sight: a submitted task is    *)
(* accounted for exactly once, its future is written at most once, and a   *)
(* caller of drain() gets control back only when every task that had been  *)
(* submitted when it called has been accounted for.                        *)
(*                                                                         *)
(* EnginePool implements this specification (see EnginePool!Promise).      *)
(***************************************************************************)
CONSTANTS
    Tasks,    \* the tasks that may be submitted, each at most once
    Clients,  \* the coroutines that call drain()
    MayLose   \* TRUE when a task may be accounted for with its future unset

VARIABLES
    fut,      \* state of the future handed out for each task
    done,     \* the tasks that have been accounted for
    drain,    \* where each client stands in its call of drain()
    before    \* the tasks submitted when the client called drain()

vars == <<fut, done, drain, before>>

Settled   == {"result", "error", "cancelled"}
Submitted == {t \in Tasks : fut[t] # "unsubmitted"}

Init ==
    /\ fut = [t \in Tasks |-> "unsubmitted"]
    /\ done = {}
    /\ drain = [c \in Clients |-> "out"]
    /\ before = [c \in Clients |-> {}]

Submit(t) ==
    /\ fut[t] = "unsubmitted"
    /\ fut' = [fut EXCEPT ![t] = "pending"]
    /\ UNCHANGED <<done, drain, before>>

\* The awaiting coroutine gives up on its future.
GiveUp(t) ==
    /\ fut[t] = "pending"
    /\ fut' = [fut EXCEPT ![t] = "cancelled"]
    /\ UNCHANGED <<done, drain, before>>

\* Some of the clients whose tasks are all accounted for get control back.
MayRelease ==
    \A c \in Clients :
        \/ drain'[c] = drain[c]
        \/ /\ drain[c] = "waiting"
           /\ drain'[c] = "returned"
           /\ before[c] \subseteq done'

Account(t) ==
    /\ t \in Submitted \ done
    /\ done' = done \cup {t}
    /\ \/ fut[t] = "pending" /\ \E s \in Settled : fut' = [fut EXCEPT ![t] = s]
       \/ fut[t] = "cancelled" /\ fut' = fut
       \/ MayLose /\ fut' = fut
    /\ drain' \in [Clients -> {"out", "waiting", "returned"}]
    /\ MayRelease
    /\ before' = before

\* drain() waits, or returns at once when nothing is outstanding.
Drain(c) ==
    /\ drain[c] # "waiting"
    /\ before' = [before EXCEPT ![c] = Submitted]
    /\ \/ drain' = [drain EXCEPT ![c] = "waiting"]
       \/ /\ Submitted \subseteq done
          /\ drain' = [drain EXCEPT ![c] = "returned"]
    /\ UNCHANGED <<fut, done>>

\* A waiting client also returns on a step that accounts for no task.
Release ==
    /\ drain' \in [Clients -> {"out", "waiting", "returned"}]
    /\ UNCHANGED <<fut, done, before>>
    /\ MayRelease

Next ==
    \/ \E t \in Tasks : Submit(t) \/ GiveUp(t) \/ Account(t)
    \/ \E c \in Clients : Drain(c)
    \/ Release

Spec == Init /\ [][Next]_vars
=============================================================================
