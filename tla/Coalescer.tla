------------------------------ MODULE Coalescer -----------------------------
(***************************************************************************)
(* How events reach the browsers: the consumer of the bus                  *)
(* (events/websocket_manager.py) sends the ones that pass through at once, *)
(* and parks the others, the latest of each key, until the window of the   *)
(* coalescer is over (events/coalescing.py).  The consumer and the flush   *)
(* task send at the same time, one connection after the other, and wait at *)
(* each.  Events are numbered in the order they are published.             *)
(*                                                                         *)
(* One user's connections; the window is open (EVENT_COALESCE_WINDOW_MS is *)
(* not 0).  In what order the keys of one flush are sent is left open.     *)
(***************************************************************************)
EXTENDS Naturals, Sequences, FiniteSets

CONSTANTS
    Keys,       \* (scope, type) of stats, traps, training; (job, type) of progress
    Discrete,   \* the key of all events that pass through
    Browsers,   \* connections
    MaxEvents   \* bound: events published

ASSUME CoalescerAssumption == Discrete \notin Keys /\ MaxEvents \in Nat

Senders == {"loop", "timer"}

VARIABLES
    key,      \* keys of the events published so far
    queue,    \* the broadcaster's queue on the bus
    pending,  \* CoalescingBroadcaster._pending: the events parked
    timer,    \* its flush task: "none", "sleeping", "flushing", "closed"
    batch,    \* events the flush task has taken and not begun to send
    sending,  \* the event each sender is sending, 0 for none
    todo,     \* the connections it has still to go to
    failed,   \* those it could not send to
    conn,     \* each connection: "absent", "open", "subscribed", "closed"
    since,    \* history: events published before the connection subscribed
    got,      \* history: events sent to it
    seen      \* history: the last one of each key

parked == <<pending, timer, batch>>
sends  == <<sending, todo, failed>>
conns  == <<conn, since>>
shown  == <<got, seen>>
vars   == <<key, queue, parked, sends, conns, shown>>

Events == 1..MaxEvents
Published == DOMAIN key
Connected == {b \in Browsers : conn[b] \in {"open", "subscribed"}}

Init ==
    /\ key = <<>> /\ queue = <<>>
    /\ pending = {} /\ timer = "none" /\ batch = {}
    /\ sending = [s \in Senders |-> 0]
    /\ todo = [s \in Senders |-> {}] /\ failed = [s \in Senders |-> {}]
    /\ conn = [b \in Browsers |-> "absent"] /\ since = [b \in Browsers |-> 0]
    /\ got = [b \in Browsers |-> {}]
    /\ seen = [b \in Browsers |-> [k \in Keys |-> 0]]
-----------------------------------------------------------------------------
Publish(k) ==
    /\ Len(key) < MaxEvents /\ timer # "closed"
    /\ key' = Append(key, k)
    /\ queue' = Append(queue, Len(key) + 1)
    /\ UNCHANGED <<parked, sends, conns, shown>>
-----------------------------------------------------------------------------
(* CoalescingBroadcaster.                                                   *)

\* broadcast_event goes through the connections there are when it begins.
StartSending(s, e) ==
    /\ sending' = [sending EXCEPT ![s] = e]
    /\ todo' = [todo EXCEPT ![s] = Connected]
    /\ UNCHANGED failed

\* Whether submit parks an event: the faulty variant sends it at once when the
\* flush is under way, since no timer is running then.
ParksWhileAsleep(e) == key[e] # Discrete /\ timer # "flushing"
Parks(e) == key[e] # Discrete

\* The latest of a key takes the place of the one parked; the task is started
\* unless there is one that has not ended.  The faulty variant keeps the first of
\* a burst.
ParkFirst(e) ==
    pending' = IF \E d \in pending : key[d] = key[e] THEN pending ELSE pending \cup {e}
Park(e) == pending' = {d \in pending : key[d] # key[e]} \cup {e}
Arm == timer' = IF timer = "none" THEN "sleeping" ELSE timer

\* submit: its sections under the lock never wait, and are one step.
Submit ==
    /\ sending["loop"] = 0 /\ timer # "closed"
    /\ queue # <<>>
    /\ queue' = Tail(queue)
    /\ LET e == Head(queue)
       IN IF Parks(e)
            THEN Park(e) /\ Arm /\ UNCHANGED <<batch, sends>>
            ELSE StartSending("loop", e) /\ UNCHANGED parked
    /\ UNCHANGED <<key, conns, shown>>

Wake ==
    /\ timer = "sleeping"
    /\ timer' = "flushing"
    /\ batch' = pending /\ pending' = {}
    /\ UNCHANGED <<key, queue, sends, conns, shown>>

FlushNext(e) ==
    /\ timer = "flushing" /\ sending["timer"] = 0
    /\ e \in batch
    /\ batch' = batch \ {e}
    /\ StartSending("timer", e)
    /\ UNCHANGED <<key, queue, pending, timer, conns, shown>>

\* The end of the flush task starts the next one if events were parked while it
\* was sending; the faulty variant, of before that was seen, does not.
LeaveParked == timer' = "none"
Rearm == timer' = IF pending # {} THEN "sleeping" ELSE "none"

FlushEnds ==
    /\ timer = "flushing" /\ sending["timer"] = 0
    /\ batch = {}
    /\ Rearm
    /\ UNCHANGED <<key, queue, pending, batch, sends, conns, shown>>

\* Shutdown cancels the loop and closes the coalescer: what is parked is dropped.
Close ==
    /\ timer # "closed"
    /\ timer' = "closed"
    /\ pending' = {} /\ batch' = {} /\ queue' = <<>>
    /\ sending' = [s \in Senders |-> 0]
    /\ todo' = [s \in Senders |-> {}] /\ failed' = [s \in Senders |-> {}]
    /\ UNCHANGED <<key, conns, shown>>
-----------------------------------------------------------------------------
(* broadcast_event, and the connections.                                    *)

\* A connection of the round may be gone by its turn, or not be subscribed.
ShouldDeliver(b) == conn[b] = "subscribed"

Deliver(s, b) ==
    /\ sending[s] # 0 /\ b \in todo[s]
    /\ ShouldDeliver(b)
    /\ LET e == sending[s]
       IN /\ got' = [got EXCEPT ![b] = @ \cup {e}]
          /\ seen' = IF key[e] = Discrete THEN seen
                     ELSE [seen EXCEPT ![b] = [@ EXCEPT ![key[e]] = e]]
    /\ todo' = [todo EXCEPT ![s] = @ \ {b}]
    /\ UNCHANGED <<key, queue, parked, sending, failed, conns>>

Skip(s, b) ==
    /\ sending[s] # 0 /\ b \in todo[s]
    /\ ~ShouldDeliver(b)
    /\ todo' = [todo EXCEPT ![s] = @ \ {b}]
    /\ UNCHANGED <<key, queue, parked, sending, failed, conns, shown>>

SendFails(s, b) ==
    /\ sending[s] # 0 /\ b \in todo[s]
    /\ ShouldDeliver(b)
    /\ todo' = [todo EXCEPT ![s] = @ \ {b}]
    /\ failed' = [failed EXCEPT ![s] = @ \cup {b}]
    /\ UNCHANGED <<key, queue, parked, sending, conns, shown>>

\* Those who failed are disconnected when the round is over.
EndRound(s) ==
    /\ sending[s] # 0 /\ todo[s] = {}
    /\ sending' = [sending EXCEPT ![s] = 0]
    /\ conn' = [b \in Browsers |-> IF b \in failed[s] THEN "closed" ELSE conn[b]]
    /\ failed' = [failed EXCEPT ![s] = {}]
    /\ UNCHANGED <<key, queue, parked, todo, since, shown>>

Connect(b) ==
    /\ conn[b] = "absent"
    /\ conn' = [conn EXCEPT ![b] = "open"]
    /\ UNCHANGED <<key, queue, parked, sends, since, shown>>

Subscribe(b) ==
    /\ conn[b] = "open"
    /\ conn' = [conn EXCEPT ![b] = "subscribed"]
    /\ since' = [since EXCEPT ![b] = Len(key)]
    /\ UNCHANGED <<key, queue, parked, sends, shown>>

Disconnect(b) ==
    /\ b \in Connected
    /\ conn' = [conn EXCEPT ![b] = "closed"]
    /\ UNCHANGED <<key, queue, parked, sends, since, shown>>
-----------------------------------------------------------------------------
FlushTask == Wake \/ FlushEnds \/ \E e \in Events : FlushNext(e)
Send(s) ==
    \/ \E b \in Browsers : Deliver(s, b) \/ Skip(s, b) \/ SendFails(s, b)
    \/ EndRound(s)

Next ==
    \/ \E k \in Keys \cup {Discrete} : Publish(k)
    \/ Submit \/ FlushTask \/ Close
    \/ \E s \in Senders : Send(s)
    \/ \E b \in Browsers : Connect(b) \/ Subscribe(b) \/ Disconnect(b)

Spec == Init /\ [][Next]_vars

\* The event loop runs the consumer and the flush task; a send returns or
\* raises.  Nobody has to publish, to connect or to shut down.
FairSpec ==
    /\ Spec
    /\ WF_vars(Submit) /\ WF_vars(FlushTask)
    /\ \A s \in Senders : WF_vars(Send(s))
-----------------------------------------------------------------------------
(* Properties.                                                              *)

LastOf(k) ==
    IF \E e \in Published : key[e] = k
      THEN CHOOSE e \in Published : key[e] = k /\ \A d \in Published : key[d] = k => d <= e
      ELSE 0
latest == [k \in Keys |-> LastOf(k)]

TypeOK ==
    /\ key \in Seq(Keys \cup {Discrete}) /\ Len(key) <= MaxEvents
    /\ queue \in Seq(Published)
    /\ pending \subseteq Published /\ batch \subseteq Published
    /\ timer \in {"none", "sleeping", "flushing", "closed"}
    /\ sending \in [Senders -> Published \cup {0}]
    /\ todo \in [Senders -> SUBSET Browsers] /\ failed \in [Senders -> SUBSET Browsers]
    /\ conn \in [Browsers -> {"absent", "open", "subscribed", "closed"}]
    /\ since \in [Browsers -> 0..MaxEvents]
    /\ got \in [Browsers -> SUBSET Published]
    /\ seen \in [Browsers -> [Keys -> Published \cup {0}]]
    /\ \A d, e \in pending : key[d] = key[e] => d = e
    /\ \A s \in Senders : sending[s] = 0 => todo[s] = {} /\ failed[s] = {}

\* "The last event of a burst is never stranded waiting for an unrelated future
\* submit": what is parked has a flush task that will come for it.
NeverStranded == pending # {} => timer \in {"sleeping", "flushing"}

\* An event that was published while a connection was subscribed is sent to it,
\* or on its way, or a later one of its key is; the exceptions are connections
\* that could not be sent to, and shutdown.
OnItsWay(e, b) ==
    \/ \E n \in DOMAIN queue : queue[n] = e
    \/ e \in pending \cup batch
    \/ \E s \in Senders : sending[s] = e /\ b \in todo[s] \cup failed[s]
NothingForgotten ==
    timer # "closed" =>
        \A b \in Browsers, e \in Published :
            conn[b] = "subscribed" /\ e > since[b] =>
                \/ e \in got[b] \/ OnItsWay(e, b)
                \/ \E s \in Senders : b \in failed[s]
                \/ key[e] # Discrete /\ \E d \in Published : d > e /\ key[d] = key[e]

\* A connection is never shown an event of a key after a later one of that key,
\* although a flush, the next flush and the consumer overlap.
Promise == INSTANCE LatestWins
KeepsPromise == Promise!LatestSpec

\* The last event of each key is shown to every connection that stays.
LastIsShown ==
    \A b \in Browsers : \A k \in Keys : \A e \in Events :
        (conn[b] = "subscribed" /\ since[b] < e /\ latest[k] = e)
            ~> (seen[b][k] >= e \/ conn[b] # "subscribed" \/ timer = "closed")
=============================================================================
