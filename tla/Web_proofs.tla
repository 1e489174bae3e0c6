----------------------------- MODULE Web_proofs -----------------------------
(***************************************************************************)
(* Theorems about what a browser is told: by the events the broadcaster    *)
(* sends on (Coalescer), for any keys, connections and number of events;   *)
(* by answers from the cache (ResponseCache), for any cached requests and  *)
(* their tags, requests in progress, operations and time to live; and by   *)
(* the reports, the trainer and the tables of the traps (Reports), for any *)
(* games, engine verdicts, book, traps, filters, profiles and bounds.      *)
(***************************************************************************)
EXTENDS Coalescer, ResponseCache, Reports, FiniteSetTheorems, SequenceTheorems, WellFoundedInduction, TLAPS

-----------------------------------------------------------------------------
(* The broadcaster.                                                         *)

(* The queue after its first element is taken.                              *)
LEMMA QueueTail ==
    ASSUME NEW S, NEW q \in Seq(S), q # <<>>
    PROVE  /\ Head(q) \in S /\ Tail(q) \in Seq(S)
           /\ 1 \in DOMAIN q /\ Head(q) = q[1]
           /\ \A n \in DOMAIN Tail(q) : n + 1 \in DOMAIN q /\ Tail(q)[n] = q[n + 1]
           /\ \A n \in DOMAIN q : n = 1 \/ (n - 1 \in DOMAIN Tail(q) /\ Tail(q)[n - 1] = q[n])
<1>1. Len(q) \in Nat /\ Len(q) # 0 /\ DOMAIN q = 1..Len(q)
    BY EmptySeq, LenProperties
<1>2. /\ Head(q) \in S /\ Tail(q) \in Seq(S) /\ Head(q) = q[1]
      /\ Len(Tail(q)) = Len(q) - 1
      /\ \A n \in 1..Len(q) - 1 : Tail(q)[n] = q[n + 1]
    BY HeadTailProperties, <1>1
<1>3. DOMAIN Tail(q) = 1..Len(q) - 1
    BY <1>1, <1>2, LenProperties
<1> QED BY <1>1, <1>2, <1>3

(* What Publish does to the two sequences.                                  *)
LEMMA Appended ==
    ASSUME NEW S, NEW q \in Seq(S), NEW x \in S
    PROVE  /\ Append(q, x) \in Seq(S)
           /\ Len(q) \in Nat /\ Len(Append(q, x)) = Len(q) + 1
           /\ DOMAIN q = 1..Len(q)
           /\ DOMAIN Append(q, x) = 1..Len(q) + 1
           /\ \A n \in DOMAIN q : Append(q, x)[n] = q[n]
           /\ Append(q, x)[Len(q) + 1] = x
BY AppendProperties, LenProperties

LEMMA TypeInit == Init => TypeOK
BY CoalescerAssumption DEF Init, TypeOK, Published, Senders

LEMMA PublishType ==
    ASSUME TypeOK, NEW k \in Keys \cup {Discrete}, Publish(k)
    PROVE  /\ TypeOK'
           /\ Published \subseteq Published' /\ \A e \in Published : key'[e] = key[e]
           /\ Len(key) \in Nat /\ Len(key) + 1 \in Published' /\ key'[Len(key) + 1] = k
           /\ Published = 1..Len(key) /\ Published' = 1..Len(key) + 1
<1>1. /\ key' \in Seq(Keys \cup {Discrete}) /\ Len(key') = Len(key) + 1 /\ Len(key) \in Nat
      /\ Published = 1..Len(key) /\ Published' = 1..Len(key) + 1
      /\ \A e \in Published : key'[e] = key[e]
      /\ key'[Len(key) + 1] = k
    BY Appended DEF TypeOK, Publish, Published
<1>2. Published \subseteq Published' /\ Len(key) + 1 \in Published'
    BY <1>1
<1>3. queue \in Seq(Published')
    BY <1>2, SeqMonotonic DEF TypeOK
<1>4. queue' \in Seq(Published')
    BY <1>2, <1>3, Appended DEF Publish
<1>5. Len(key') <= MaxEvents
    BY <1>1, CoalescerAssumption DEF Publish
<1>6. TypeOK'
    BY <1>1, <1>2, <1>4, <1>5 DEF TypeOK, Publish, parked, sends, conns, shown
<1> QED BY <1>1, <1>2, <1>6

LEMMA TypeStep == TypeOK /\ [Next]_vars => TypeOK'
<1> SUFFICES ASSUME TypeOK, [Next]_vars PROVE TypeOK'
    OBVIOUS
<1> USE DEF parked, sends, conns, shown
<1>1. ASSUME NEW k \in Keys \cup {Discrete}, Publish(k) PROVE TypeOK'
    BY <1>1, PublishType
<1>2. CASE Submit
    <2>1. Head(queue) \in Published /\ queue' \in Seq(Published)
        BY <1>2, QueueTail DEF TypeOK, Submit
    <2>2. CASE Parks(Head(queue))
        BY <1>2, <2>1, <2>2 DEF Submit, Park, Arm, TypeOK, Published
    <2>3. CASE ~Parks(Head(queue))
        BY <1>2, <2>1, <2>3 DEF Submit, StartSending, Connected, TypeOK, Published, Senders
    <2> QED BY <2>2, <2>3
<1>3. CASE Wake
    BY <1>3 DEF Wake, TypeOK, Published
<1>4. ASSUME NEW e \in Events, FlushNext(e) PROVE TypeOK'
    BY <1>4 DEF FlushNext, StartSending, Connected, TypeOK, Published, Senders
<1>5. CASE FlushEnds
    BY <1>5 DEF FlushEnds, Rearm, TypeOK, Published
<1>6. CASE Close
    <2>1. queue' \in Seq(Published)
        BY <1>6, EmptySeq DEF Close
    <2> QED BY <1>6, <2>1 DEF Close, TypeOK, Published, Senders
<1>7. ASSUME NEW s \in Senders, NEW b \in Browsers, Deliver(s, b) PROVE TypeOK'
    <2>1. sending[s] \in Published /\ key[sending[s]] \in Keys \cup {Discrete}
        BY <1>7, ElementOfSeq, LenProperties DEF Deliver, TypeOK, Published
    <2>2. got' \in [Browsers -> SUBSET Published] /\ seen' \in [Browsers -> [Keys -> Published \cup {0}]]
        BY <1>7, <2>1 DEF Deliver, TypeOK
    <2> QED BY <1>7, <2>2 DEF Deliver, TypeOK, Published
<1>8. ASSUME NEW s \in Senders, NEW b \in Browsers, Skip(s, b) PROVE TypeOK'
    BY <1>8 DEF Skip, TypeOK, Published
<1>9. ASSUME NEW s \in Senders, NEW b \in Browsers, SendFails(s, b) PROVE TypeOK'
    BY <1>9 DEF SendFails, TypeOK, Published
<1>10. ASSUME NEW s \in Senders, EndRound(s) PROVE TypeOK'
    BY <1>10 DEF EndRound, TypeOK, Published
<1>11. ASSUME NEW b \in Browsers, Connect(b) PROVE TypeOK'
    BY <1>11 DEF Connect, TypeOK, Published
<1>12. ASSUME NEW b \in Browsers, Subscribe(b) PROVE TypeOK'
    <2>1. Len(key) \in 0..MaxEvents
        BY LenProperties, CoalescerAssumption DEF TypeOK
    <2> QED BY <1>12, <2>1 DEF Subscribe, TypeOK, Published
<1>13. ASSUME NEW b \in Browsers, Disconnect(b) PROVE TypeOK'
    BY <1>13 DEF Disconnect, TypeOK, Published
<1>14. CASE UNCHANGED vars
    BY <1>14 DEF vars, TypeOK, Published
<1> QED BY <1>1, <1>2, <1>3, <1>4, <1>5, <1>6, <1>7, <1>8, <1>9, <1>10, <1>11, <1>12, <1>13, <1>14
        DEF Next, FlushTask, Send
-----------------------------------------------------------------------------
(* Parked events are come for.                                              *)

LEMMA StrandedStep == TypeOK /\ NeverStranded /\ [Next]_vars => NeverStranded'
BY DEF NeverStranded, TypeOK, Next, vars, parked, Publish, Submit, Park, Arm, StartSending,
       FlushTask, Wake, FlushEnds, Rearm, FlushNext, Close,
       Send, Deliver, Skip, SendFails, EndRound, Connect, Subscribe, Disconnect

(* "The last event of a burst is never stranded waiting for an unrelated    *)
(* future submit": whatever is parked, the flush task is asleep or at work, *)
(* for any number of keys, connections and events.                          *)
THEOREM NothingStranded == Spec => [](TypeOK /\ NeverStranded)
<1>1. Init => TypeOK /\ NeverStranded
    BY TypeInit DEF Init, NeverStranded
<1>2. TypeOK /\ NeverStranded /\ [Next]_vars => (TypeOK /\ NeverStranded)'
    BY TypeStep, StrandedStep
<1> QED BY <1>1, <1>2, PTL DEF Spec
-----------------------------------------------------------------------------
(* The order of what is under way.  The consumer sends only events that pass *)
(* through, the flush task the others; the events of a key are, from the    *)
(* oldest: seen, being sent by the flush task or still in its batch, parked, *)
(* queued.                                                                  *)

Flushing == batch \cup (IF sending["timer"] = 0 THEN {} ELSE {sending["timer"]})

Roles ==
    /\ sending["loop"] # 0 => key[sending["loop"]] = Discrete
    /\ \A e \in pending \cup Flushing : key[e] \in Keys
    /\ Flushing # {} => timer = "flushing"

\* One event of a key is in the flush at a time.
OneOfEachKey ==
    /\ sending["timer"] \notin batch
    /\ \A d, e \in Flushing : key[d] = key[e] => d = e

QueueIsLast ==
    /\ \A m, n \in DOMAIN queue : m < n => queue[m] < queue[n]
    /\ \A n \in DOMAIN queue : \A e \in pending \cup Flushing : e < queue[n]
    /\ \A n \in DOMAIN queue : \A b \in Browsers, k \in Keys : seen[b][k] < queue[n]

ParkedIsLater ==
    \A e \in pending :
        /\ \A d \in Flushing : key[d] = key[e] => d < e
        /\ \A b \in Browsers : seen[b][key[e]] < e

SeenIsFirst ==
    /\ \A e \in batch : \A b \in Browsers : seen[b][key[e]] < e
    /\ sending["timer"] # 0 =>
          \A b \in todo["timer"] : seen[b][key[sending["timer"]]] < sending["timer"]

Ordered == Roles /\ OneOfEachKey /\ QueueIsLast /\ ParkedIsLater /\ SeenIsFirst

LEMMA OrderedInit == Init => Ordered
BY DEF Init, Ordered, Roles, OneOfEachKey, QueueIsLast, ParkedIsLater, SeenIsFirst, Flushing, Senders

(* What is published is a number, and its key one of the two sorts.         *)
LEMMA Numbers ==
    ASSUME TypeOK
    PROVE  /\ Len(key) \in Nat /\ Published = 1..Len(key)
           /\ \A e \in Published : e \in Nat /\ e # 0 /\ key[e] \in Keys \cup {Discrete}
           /\ \A n \in DOMAIN queue : queue[n] \in Published /\ n \in Nat
           /\ Flushing \subseteq Published
           /\ \A b \in Browsers, k \in Keys : seen[b][k] \in Nat /\ seen[b][k] <= Len(key)
<1>1. Len(key) \in Nat /\ Published = 1..Len(key)
      /\ \A e \in Published : key[e] \in Keys \cup {Discrete}
    BY LenProperties, ElementOfSeq DEF TypeOK, Published
<1>2. \A n \in DOMAIN queue : queue[n] \in Published /\ n \in Nat
    BY LenProperties, ElementOfSeq DEF TypeOK
<1>3. Flushing \subseteq Published
    BY DEF Flushing, TypeOK, Senders
<1> QED BY <1>1, <1>2, <1>3 DEF TypeOK

LEMMA OrderedPublish ==
    ASSUME TypeOK, Ordered, NEW k \in Keys \cup {Discrete}, Publish(k)
    PROVE  Ordered'
<1>1. /\ \A e \in Published : key'[e] = key[e]
      /\ Len(key) \in Nat /\ Published = 1..Len(key)
      /\ Flushing' = Flushing
      /\ UNCHANGED <<pending, timer, batch, sending, todo, seen>>
    BY PublishType DEF Publish, Flushing, parked, sends, shown
<1>2. /\ DOMAIN queue = 1..Len(queue) /\ Len(queue) \in Nat
      /\ DOMAIN queue' = 1..Len(queue) + 1
      /\ \A n \in DOMAIN queue : queue'[n] = queue[n]
      /\ queue'[Len(queue) + 1] = Len(key) + 1
    <2>1. queue \in Seq(Nat) /\ Len(key) + 1 \in Nat
        BY <1>1, SeqMonotonic DEF TypeOK
    <2> QED BY <2>1, Appended DEF Publish
<1>3. QueueIsLast'
    <2>1. \A m, n \in DOMAIN queue' : m < n => queue'[m] < queue'[n]
        <3> SUFFICES ASSUME NEW m \in 1..Len(queue) + 1, NEW n \in 1..Len(queue) + 1, m < n
                     PROVE  queue'[m] < queue'[n]
            BY <1>2
        <3>1. m \in DOMAIN queue /\ queue'[m] = queue[m] /\ queue[m] \in 1..Len(key)
            BY <1>1, <1>2, Numbers
        <3>2. CASE n \in DOMAIN queue
            BY <1>2, <3>1, <3>2 DEF QueueIsLast, Ordered
        <3>3. CASE n = Len(queue) + 1
            BY <1>1, <1>2, <3>1, <3>3
        <3> QED BY <1>2, <3>2, <3>3
    <2>2. \A n \in DOMAIN queue' : \A e \in pending' \cup Flushing' : e < queue'[n]
        <3> SUFFICES ASSUME NEW n \in DOMAIN queue', NEW e \in pending \cup Flushing
                     PROVE  e < queue'[n]
            BY <1>1
        <3>1. e \in Published
            BY Numbers DEF TypeOK
        <3> QED BY <1>1, <1>2, <3>1 DEF QueueIsLast, Ordered
    <2>3. \A n \in DOMAIN queue' : \A b \in Browsers, j \in Keys : seen'[b][j] < queue'[n]
        BY <1>1, <1>2, Numbers DEF QueueIsLast, Ordered
    <2> QED BY <2>1, <2>2, <2>3 DEF QueueIsLast
<1>4. /\ \A e \in pending \cup Flushing : key'[e] = key[e]
      /\ sending["loop"] # 0 => key'[sending["loop"]] = key[sending["loop"]]
      /\ sending["timer"] # 0 => sending["timer"] \in Flushing
    BY <1>1, Numbers DEF TypeOK, Senders, Flushing
<1>5. Roles' /\ OneOfEachKey' /\ ParkedIsLater'
    BY <1>1, <1>4 DEF Ordered, Roles, OneOfEachKey, ParkedIsLater
<1>6. SeenIsFirst'
    BY <1>1, <1>4 DEF Ordered, SeenIsFirst, Flushing
<1> QED BY <1>3, <1>5, <1>6 DEF Ordered

LEMMA OrderedSubmit ==
    ASSUME TypeOK, Ordered, Submit
    PROVE  Ordered'
<1> DEFINE e == Head(queue)
<1>1. /\ e \in Published /\ e \in Nat /\ e # 0 /\ 1 \in DOMAIN queue /\ e = queue[1]
      /\ \A n \in DOMAIN queue' : n + 1 \in DOMAIN queue /\ queue'[n] = queue[n + 1] /\ n \in Nat /\ n > 0
    <2>1. queue' \in Seq(Published)
        BY QueueTail DEF TypeOK, Submit
    <2> QED BY <2>1, QueueTail, Numbers, LenProperties DEF TypeOK, Submit
<1>2. \A n \in DOMAIN queue' : e < queue'[n]
    <2> SUFFICES ASSUME NEW n \in DOMAIN queue' PROVE queue[1] < queue[n + 1]
        BY <1>1
    <2>1. 1 \in DOMAIN queue /\ n + 1 \in DOMAIN queue /\ 1 < n + 1
        BY <1>1
    <2> QED BY <2>1 DEF Ordered, QueueIsLast
<1>3. \A d \in pending \cup Flushing : d < e
    BY <1>1 DEF Ordered, QueueIsLast
<1>4. \A b \in Browsers, k \in Keys : seen[b][k] < e
    BY <1>1 DEF Ordered, QueueIsLast
<1>5. \A m, n \in DOMAIN queue' : m < n => queue'[m] < queue'[n]
    BY <1>1 DEF Ordered, QueueIsLast
<1>6. CASE Parks(e)
    <2>1. /\ UNCHANGED <<key, batch, sending, todo, failed, conn, since, got, seen>>
          /\ pending' = {d \in pending : key[d] # key[e]} \cup {e}
          /\ timer' = IF timer = "none" THEN "sleeping" ELSE timer
          /\ Flushing' = Flushing
        BY <1>6 DEF Submit, Park, Arm, sends, conns, shown, Flushing
    <2>2. key[e] \in Keys
        BY <1>1, <1>6, Numbers DEF Parks
    <2>3. Roles'
        BY <2>1, <2>2 DEF Ordered, Roles
    <2>4. OneOfEachKey' /\ SeenIsFirst'
        BY <2>1 DEF Ordered, OneOfEachKey, SeenIsFirst
    <2>5. QueueIsLast'
        BY <1>1, <1>2, <1>5, <2>1 DEF Ordered, QueueIsLast
    <2>6. ParkedIsLater'
        BY <1>3, <1>4, <2>1, <2>2 DEF Ordered, ParkedIsLater
    <2> QED BY <2>3, <2>4, <2>5, <2>6 DEF Ordered
<1>7. CASE ~Parks(e)
    <2>1. /\ UNCHANGED <<key, pending, timer, batch, failed, conn, since, got, seen>>
          /\ sending' = [sending EXCEPT !["loop"] = e]
          /\ todo' = [todo EXCEPT !["loop"] = Connected]
          /\ sending'["timer"] = sending["timer"] /\ todo'["timer"] = todo["timer"]
          /\ sending'["loop"] = e /\ key[e] = Discrete
          /\ Flushing' = Flushing
        BY <1>7 DEF Submit, StartSending, Parks, parked, conns, shown, Flushing, TypeOK, Senders
    <2>2. Roles' /\ OneOfEachKey' /\ ParkedIsLater' /\ SeenIsFirst'
        BY <2>1 DEF Ordered, Roles, OneOfEachKey, ParkedIsLater, SeenIsFirst
    <2>3. QueueIsLast'
        BY <1>1, <1>5, <2>1 DEF Ordered, QueueIsLast
    <2> QED BY <2>2, <2>3 DEF Ordered
<1> QED BY <1>6, <1>7

LEMMA OrderedWake ==
    ASSUME TypeOK, Ordered, Wake
    PROVE  Ordered'
<1>1. /\ UNCHANGED <<key, queue, sending, todo, seen>>
      /\ batch' = pending /\ pending' = {} /\ timer' = "flushing" /\ timer = "sleeping"
    BY DEF Wake, sends, shown
<1>2. Flushing = {} /\ sending["timer"] = 0
    BY <1>1, Numbers DEF Ordered, Roles, Flushing
<1>3. Flushing' = pending /\ \A e \in pending : e # 0
    BY <1>1, <1>2, Numbers DEF Flushing, TypeOK
<1>4. Roles' /\ QueueIsLast' /\ ParkedIsLater' /\ SeenIsFirst'
    BY <1>1, <1>2, <1>3 DEF Ordered, Roles, QueueIsLast, ParkedIsLater, SeenIsFirst
<1>5. OneOfEachKey'
    BY <1>1, <1>2, <1>3 DEF OneOfEachKey, TypeOK
<1> QED BY <1>4, <1>5 DEF Ordered

LEMMA OrderedFlushNext ==
    ASSUME TypeOK, Ordered, NEW e \in Events, FlushNext(e)
    PROVE  Ordered'
<1>1. /\ UNCHANGED <<key, queue, pending, timer, seen>>
      /\ e \in batch /\ batch' = batch \ {e} /\ timer = "flushing" /\ sending["timer"] = 0
      /\ sending'["timer"] = e /\ sending'["loop"] = sending["loop"]
      /\ todo'["timer"] \subseteq Browsers
    BY DEF FlushNext, StartSending, Connected, shown, TypeOK, Senders
<1>2. e # 0 /\ Flushing' = Flushing
    BY <1>1, Numbers DEF Flushing, TypeOK
<1>3. (Roles /\ QueueIsLast /\ ParkedIsLater)'
    BY <1>1, <1>2 DEF Ordered, Roles, QueueIsLast, ParkedIsLater
<1>4. OneOfEachKey'
    BY <1>1, <1>2 DEF Ordered, OneOfEachKey
<1>5. SeenIsFirst'
    BY <1>1, <1>2 DEF Ordered, SeenIsFirst
<1> QED BY <1>3, <1>4, <1>5 DEF Ordered

LEMMA OrderedDeliver ==
    ASSUME TypeOK, Ordered, NEW s \in Senders, NEW b \in Browsers, Deliver(s, b)
    PROVE  Ordered'
<1> DEFINE e == sending[s]
<1>1. /\ UNCHANGED <<key, queue, pending, timer, batch, sending>>
      /\ Flushing' = Flushing
      /\ e # 0 /\ b \in todo[s] /\ e \in Published
      /\ todo' = [todo EXCEPT ![s] = @ \ {b}]
    BY DEF Deliver, parked, conns, Flushing, TypeOK
<1>2. (Roles /\ OneOfEachKey)'
    BY <1>1 DEF Ordered, Roles, OneOfEachKey
<1>3. CASE s = "loop"
    <2>1. seen' = seen /\ todo'["timer"] = todo["timer"]
        BY <1>1, <1>3 DEF Deliver, Ordered, Roles, TypeOK, Senders
    <2>2. (QueueIsLast /\ ParkedIsLater /\ SeenIsFirst)'
        BY <1>1, <2>1 DEF Ordered, QueueIsLast, ParkedIsLater, SeenIsFirst
    <2> QED BY <1>2, <2>2 DEF Ordered
<1>4. CASE s = "timer"
    <2>1. e \in Flushing /\ key[e] \in Keys /\ e \notin batch
        BY <1>1, <1>4 DEF Ordered, Roles, OneOfEachKey, Flushing
    <2>2. seen' = [seen EXCEPT ![b] = [@ EXCEPT ![key[e]] = e]]
        BY <2>1, CoalescerAssumption DEF Deliver
    <2>3. \A c \in Browsers, k \in Keys :
             seen'[c][k] = IF c = b /\ k = key[e] THEN e ELSE seen[c][k]
        BY <2>1, <2>2 DEF TypeOK
    <2>4. QueueIsLast'
        BY <1>1, <2>1, <2>3 DEF Ordered, QueueIsLast
    <2>5. ParkedIsLater'
        BY <1>1, <2>1, <2>3 DEF Ordered, Roles, ParkedIsLater
    <2>6. \A d \in batch : key[d] \in Keys /\ key[d] # key[e]
        BY <2>1 DEF Ordered, Roles, OneOfEachKey, Flushing
    <2>7. todo'["timer"] = todo["timer"] \ {b} /\ todo["timer"] \subseteq Browsers
        BY <1>1, <1>4 DEF TypeOK
    <2>8. SeenIsFirst'
        BY <1>1, <1>4, <2>1, <2>3, <2>6, <2>7 DEF Ordered, SeenIsFirst
    <2> QED BY <1>2, <2>4, <2>5, <2>8 DEF Ordered
<1> QED BY <1>3, <1>4 DEF Senders

LEMMA OrderedStep == TypeOK /\ Ordered /\ [Next]_vars => Ordered'
<1> SUFFICES ASSUME TypeOK, Ordered, [Next]_vars PROVE Ordered'
    OBVIOUS
<1> USE DEF parked, sends, conns, shown
\* A step that leaves the events where they are, but for the turns of a round.
<1>1. ASSUME UNCHANGED <<key, queue, pending, timer, batch, sending, seen>>,
             todo'["timer"] \subseteq todo["timer"]
      PROVE  Ordered'
    <2>1. Flushing' = Flushing
        BY <1>1 DEF Flushing
    <2> QED BY <1>1, <2>1
            DEF Ordered, Roles, OneOfEachKey, QueueIsLast, ParkedIsLater, SeenIsFirst
<1>2. ASSUME NEW s \in Senders, NEW b \in Browsers, Skip(s, b) \/ SendFails(s, b) PROVE Ordered'
    BY <1>1, <1>2 DEF Skip, SendFails, TypeOK, Senders
<1>3. ASSUME NEW s \in Senders, EndRound(s) PROVE Ordered'
    <2>1. /\ UNCHANGED <<key, queue, pending, timer, batch, todo, seen>>
          /\ sending'["timer"] \in {0, sending["timer"]} /\ sending'["loop"] \in {0, sending["loop"]}
        BY <1>3 DEF EndRound, TypeOK, Senders
    <2>2. Flushing' \subseteq Flushing /\ 0 \notin batch
        BY <2>1, Numbers DEF Flushing
    <2>3. (Roles /\ QueueIsLast /\ ParkedIsLater)'
        BY <2>1, <2>2 DEF Ordered, Roles, QueueIsLast, ParkedIsLater
    <2>4. (OneOfEachKey /\ SeenIsFirst)'
        BY <2>1, <2>2 DEF Ordered, OneOfEachKey, SeenIsFirst
    <2> QED BY <2>3, <2>4 DEF Ordered
<1>4. ASSUME NEW b \in Browsers, Connect(b) \/ Subscribe(b) \/ Disconnect(b) PROVE Ordered'
    BY <1>1, <1>4 DEF Connect, Subscribe, Disconnect
<1>5. CASE FlushEnds
    <2>1. UNCHANGED <<key, queue, pending, batch, sending, todo, seen>> /\ Flushing' = {} /\ Flushing = {}
        BY <1>5 DEF FlushEnds, Flushing
    <2> QED BY <2>1 DEF Ordered, Roles, OneOfEachKey, QueueIsLast, ParkedIsLater, SeenIsFirst
<1>6. CASE Close
    BY <1>6
        DEF Close, Flushing, Senders, Ordered, Roles, OneOfEachKey, QueueIsLast, ParkedIsLater, SeenIsFirst
<1>7. CASE UNCHANGED vars
    BY <1>1, <1>7 DEF vars
<1> QED BY <1>2, <1>3, <1>4, <1>5, <1>6, <1>7, OrderedPublish, OrderedSubmit, OrderedWake,
           OrderedFlushNext, OrderedDeliver
        DEF Next, FlushTask, Send
-----------------------------------------------------------------------------
(* The refinement of LatestWins.                                            *)

\* The published events of a key that has any have a last one.
HasLast ==
    \A k \in Keys : (\E e \in Published : key[e] = k) =>
        \E e \in Published : key[e] = k /\ \A d \in Published : key[d] = k => d <= e

LEMMA LastOfIsLast ==
    ASSUME TypeOK, HasLast, NEW k \in Keys
    PROVE  /\ LastOf(k) \in Nat /\ LastOf(k) <= Len(key)
           /\ \A d \in Published : key[d] = k => d <= LastOf(k)
           /\ LastOf(k) # 0 => LastOf(k) \in Published /\ key[LastOf(k)] = k
BY Numbers, SMTT(20) DEF LastOf, HasLast

LEMMA PublishLast ==
    ASSUME TypeOK, HasLast, NEW k \in Keys \cup {Discrete}, Publish(k)
    PROVE  /\ HasLast'
           /\ \A j \in Keys : LastOf(j)' = IF j = k THEN Len(key) + 1 ELSE LastOf(j)
<1>1. /\ \A e \in Published : key'[e] = key[e]
      /\ Len(key) \in Nat /\ Published = 1..Len(key)
      /\ Published' = Published \cup {Len(key) + 1} /\ key'[Len(key) + 1] = k
      /\ Published' \in SUBSET Nat
    BY PublishType
<1>2. ASSUME NEW j \in Keys, j # k
      PROVE  /\ (\E e \in Published' : key'[e] = j) =>
                  \E e \in Published' : key'[e] = j /\ \A d \in Published' : key'[d] = j => d <= e
             /\ LastOf(j)' = LastOf(j)
    <2>1. \A e : e \in Published' /\ key'[e] = j <=> e \in Published /\ key[e] = j
        BY <1>1, <1>2
    <2>2. CASE \E e \in Published : key[e] = j
        <3>1. PICK m \in Published : key[m] = j /\ \A d \in Published : key[d] = j => d <= m
            BY <2>2 DEF HasLast
        <3>2. m \in Published' /\ key'[m] = j /\ \A d \in Published' : key'[d] = j => d <= m
            BY <2>1, <3>1
        <3>3. LastOf(j) \in Published /\ key[LastOf(j)] = j /\ \A d \in Published : key[d] = j => d <= LastOf(j)
            BY <3>1 DEF LastOf
        <3>4. LastOf(j)' \in Published' /\ key'[LastOf(j)'] = j /\ \A d \in Published' : key'[d] = j => d <= LastOf(j)'
            BY <3>2 DEF LastOf
        <3>5. LastOf(j) <= LastOf(j)' /\ LastOf(j)' <= LastOf(j)
            BY <2>1, <3>3, <3>4
        <3>6. LastOf(j) \in Nat /\ LastOf(j)' \in Nat
            BY <1>1, <3>3, <3>4
        <3>7. LastOf(j)' = LastOf(j)
            BY <3>5, <3>6
        <3> QED BY <3>2, <3>7
    <2>3. CASE ~\E e \in Published : key[e] = j
        BY <2>1, <2>3 DEF LastOf
    <2> QED BY <2>2, <2>3
<1>3. CASE k \in Keys
    <2>1. /\ Len(key) + 1 \in Published' /\ key'[Len(key) + 1] = k
          /\ \A d \in Published' : key'[d] = k => d <= Len(key) + 1
        BY <1>1
    <2>2. LastOf(k)' = Len(key) + 1
        <3>1. LastOf(k)' \in Published' /\ \A d \in Published' : key'[d] = k => d <= LastOf(k)'
            BY <2>1 DEF LastOf
        <3> QED BY <1>1, <2>1, <3>1
    <2>3. HasLast'
        BY <1>2, <2>1 DEF HasLast
    <2> QED BY <1>2, <2>2, <2>3
<1>4. CASE k \notin Keys
    BY <1>2, <1>4 DEF HasLast
<1> QED BY <1>3, <1>4

Refining == TypeOK /\ Ordered /\ HasLast

LEMMA RefiningInit == Init => Refining
BY TypeInit, OrderedInit DEF Refining, HasLast, Init, Published

LEMMA KeyKept ==
    ASSUME key' = key
    PROVE  latest' = latest /\ (HasLast => HasLast')
BY DEF latest, LastOf, HasLast, Published

LEMMA RefiningStep == Refining /\ [Next]_vars => Refining'
<1> SUFFICES ASSUME Refining, [Next]_vars PROVE HasLast'
    BY TypeStep, OrderedStep DEF Refining
<1>1. CASE \E k \in Keys \cup {Discrete} : Publish(k)
    BY <1>1, PublishLast DEF Refining
<1>2. CASE key' = key
    BY <1>2, KeyKept DEF Refining
<1> QED BY <1>1, <1>2
        DEF Next, vars, parked, sends, conns, shown, Submit, FlushTask, Wake, FlushEnds, FlushNext,
            Close, Send, Deliver, Skip, SendFails, EndRound, Connect, Subscribe, Disconnect

(* Every step publishes an event of a key, shows a browser one that is newer *)
(* than it has seen, or changes nothing that LatestWins speaks of.          *)
LEMMA StepRefines == Refining /\ [Next]_vars => [Promise!LatestNext]_<<latest, seen>>
<1> SUFFICES ASSUME Refining, [Next]_vars PROVE [Promise!LatestNext]_<<latest, seen>>
    OBVIOUS
<1>1. ASSUME NEW k \in Keys \cup {Discrete}, Publish(k)
      PROVE  [Promise!LatestNext]_<<latest, seen>>
    <2>1. seen' = seen /\ \A j \in Keys : LastOf(j)' = IF j = k THEN Len(key) + 1 ELSE LastOf(j)
        BY <1>1, PublishLast DEF Refining, Publish, shown
    <2>2. CASE k \in Keys
        <3>1. LastOf(k) <= Len(key) /\ LastOf(k) \in Nat /\ Len(key) \in Nat
            BY <2>2, LastOfIsLast, Numbers DEF Refining
        <3>2. latest' = [j \in Keys |-> IF j = k THEN Len(key) + 1 ELSE LastOf(j)]
            BY <2>1, Zenon DEF latest
        <3>3. latest = [j \in Keys |-> LastOf(j)]
            BY DEF latest
        <3>4. latest'[k] = Len(key) + 1 /\ latest[k] = LastOf(k)
            BY <2>2, <3>2, <3>3
        <3>5. latest'[k] > latest[k] /\ latest' = [latest EXCEPT ![k] = latest'[k]]
            BY <3>1, <3>2, <3>3, <3>4
        <3> QED BY <2>1, <2>2, <3>5 DEF Promise!LatestNext, Promise!Publishes
    <2>3. CASE k \notin Keys
        <3>1. latest' = latest
            BY <2>1, <2>3 DEF latest
        <3> QED BY <2>1, <3>1
    <2> QED BY <2>2, <2>3
<1>2. ASSUME NEW s \in Senders, NEW b \in Browsers, Deliver(s, b)
      PROVE  [Promise!LatestNext]_<<latest, seen>>
    <2> DEFINE e == sending[s]
    <2>1. key' = key /\ latest' = latest /\ e # 0 /\ e \in Published /\ b \in todo[s]
        BY <1>2, KeyKept DEF Deliver, Refining, TypeOK
    <2>2. CASE key[e] = Discrete
        BY <1>2, <2>1, <2>2 DEF Deliver
    <2>3. CASE key[e] # Discrete
        <3>1. s = "timer" /\ key[e] \in Keys
            BY <2>1, <2>3, Numbers DEF Refining, Ordered, Roles, Senders
        <3>2. seen[b][key[e]] < e
            BY <2>1, <3>1 DEF Refining, Ordered, SeenIsFirst
        <3>3. e <= latest[key[e]]
            BY <2>1, <3>1, LastOfIsLast DEF Refining, latest
        <3>4. seen' = [seen EXCEPT ![b] = [@ EXCEPT ![key[e]] = e]] /\ seen'[b][key[e]] = e
            BY <1>2, <2>3, <3>1 DEF Deliver, Refining, TypeOK
        <3>5. Promise!Shows(b, key[e])
            BY <2>1, <3>2, <3>3, <3>4 DEF Promise!Shows
        <3> QED BY <3>1, <3>5 DEF Promise!LatestNext
    <2> QED BY <2>2, <2>3
<1>3. CASE key' = key /\ seen' = seen
    BY <1>3, KeyKept
<1> QED BY <1>1, <1>2, <1>3
        DEF Next, vars, parked, sends, conns, shown, Submit, FlushTask, Wake, FlushEnds, FlushNext,
            Close, Send, Skip, SendFails, EndRound, Connect, Subscribe, Disconnect

(* No browser is shown an older event of a key after a later one, however   *)
(* flushes, rounds of sends and bursts overlap: the coalescer implements    *)
(* LatestWins, for any keys, connections and number of events.              *)
THEOREM ImplementsLatestWins == Spec => KeepsPromise
<1>1. Init => Promise!LatestInit
    BY DEF Init, Promise!LatestInit, latest, LastOf, Published
<1> QED BY <1>1, RefiningInit, RefiningStep, StepRefines, PTL
        DEF Spec, KeepsPromise, Promise!LatestSpec
-----------------------------------------------------------------------------
(* What becomes of an event that a connection was subscribed for.           *)

Accounted(b, e) ==
    \/ e \in got[b] \/ OnItsWay(e, b)
    \/ \E s \in Senders : b \in failed[s]
    \/ key[e] # Discrete /\ \E d \in Published : d > e /\ key[d] = key[e]

Owed(b, e) == conn[b] = "subscribed" /\ e > since[b]

LEMMA QueueMoves ==
    ASSUME TypeOK, queue # <<>>, queue' = Tail(queue), NEW e
    PROVE  (\E n \in DOMAIN queue : queue[n] = e) =>
               e = Head(queue) \/ \E n \in DOMAIN queue' : queue'[n] = e
<1> SUFFICES ASSUME NEW n \in DOMAIN queue, queue[n] = e, e # Head(queue)
             PROVE  \E m \in DOMAIN Tail(queue) : Tail(queue)[m] = e
    OBVIOUS
<1>1. /\ Head(queue) = queue[1]
      /\ n = 1 \/ (n - 1 \in DOMAIN Tail(queue) /\ Tail(queue)[n - 1] = queue[n])
    BY QueueTail DEF TypeOK
<1> QED BY <1>1

LEMMA AccountedStep ==
    ASSUME TypeOK, Ordered, [Next]_vars, timer' # "closed",
           NEW b \in Browsers, NEW e \in Published, Owed(b, e)', Owed(b, e) => Accounted(b, e)
    PROVE  Accounted(b, e)'
<1> USE DEF parked, sends, conns, shown
<1>1. ASSUME NEW k \in Keys \cup {Discrete}, Publish(k) PROVE Accounted(b, e)'
    <2>1. /\ Published \subseteq Published' /\ \A d \in Published : key'[d] = key[d]
        BY <1>1, PublishType
    <2>2. \A n \in DOMAIN queue : n \in DOMAIN queue' /\ queue'[n] = queue[n]
        <3>1. queue \in Seq(Nat) /\ Len(key) + 1 \in Nat
            BY Numbers, SeqMonotonic DEF TypeOK
        <3> QED BY <1>1, <3>1, Appended DEF Publish
    <2>3. Owed(b, e)
        BY <1>1 DEF Owed, Publish
    <2> QED BY <1>1, <2>1, <2>2, <2>3 DEF Accounted, OnItsWay, Publish
<1>2. CASE Submit
    <2> DEFINE h == Head(queue)
    <2>1. /\ Owed(b, e) /\ key' = key /\ got' = got /\ failed' = failed
          /\ batch' = batch /\ conn[b] = "subscribed" /\ sending["loop"] = 0
        BY <1>2 DEF Submit, Owed, StartSending
    <2>2. (\E n \in DOMAIN queue : queue[n] = e) =>
             e = h \/ \E n \in DOMAIN queue' : queue'[n] = e
        BY <1>2, QueueMoves DEF Submit
    <2>3. CASE Parks(h)
        <3>1. /\ pending' = {d \in pending : key[d] # key[h]} \cup {h}
              /\ sending' = sending /\ todo' = todo
            BY <1>2, <2>3 DEF Submit, Park
        <3>2. h \in Published /\ \A d \in pending : d < h /\ key[d] # Discrete
            <4>1. h \in Published /\ 1 \in DOMAIN queue /\ h = queue[1]
                BY <1>2, QueueTail DEF TypeOK, Submit
            <4> QED BY <4>1, CoalescerAssumption DEF Ordered, QueueIsLast, Roles
        <3>3. CASE e \in pending /\ key[e] = key[h]
            BY <2>1, <3>2, <3>3 DEF Accounted, Published
        <3>4. CASE ~(e \in pending /\ key[e] = key[h])
            BY <2>1, <2>2, <3>1, <3>4 DEF Accounted, OnItsWay, Published
        <3> QED BY <3>3, <3>4
    <2>4. CASE ~Parks(h)
        <3>1. /\ pending' = pending
              /\ sending' = [sending EXCEPT !["loop"] = h] /\ todo' = [todo EXCEPT !["loop"] = Connected]
            BY <1>2, <2>4 DEF Submit, StartSending
        <3>2. b \in Connected /\ e # 0 /\ sending'["loop"] = h /\ todo'["loop"] = Connected
              /\ sending'["timer"] = sending["timer"] /\ todo'["timer"] = todo["timer"]
            BY <2>1, <3>1, Numbers DEF Connected, TypeOK, Senders
        <3> QED BY <2>1, <2>2, <3>1, <3>2 DEF Accounted, OnItsWay, Published, Senders
    <2> QED BY <2>3, <2>4
<1>3. CASE Wake
    <2>1. /\ Owed(b, e) /\ UNCHANGED <<key, queue, sending, todo, failed, got>>
          /\ batch' = pending /\ batch = {}
        BY <1>3 DEF Wake, Owed, Ordered, Roles, Flushing
    <2> QED BY <2>1 DEF Accounted, OnItsWay, Published
<1>4. ASSUME NEW d \in Events, FlushNext(d) PROVE Accounted(b, e)'
    <2>1. /\ Owed(b, e) /\ b \in Connected /\ e # 0
          /\ UNCHANGED <<key, queue, pending, got, failed>> /\ batch' = batch \ {d}
          /\ sending["timer"] = 0 /\ sending'["timer"] = d /\ todo'["timer"] = Connected
          /\ sending'["loop"] = sending["loop"] /\ todo'["loop"] = todo["loop"]
        BY <1>4, Numbers DEF FlushNext, StartSending, Connected, Owed, TypeOK, Senders
    <2> QED BY <2>1 DEF Accounted, OnItsWay, Published, Senders
<1>5. CASE FlushEnds
    BY <1>5 DEF FlushEnds, Owed, Accounted, OnItsWay, Published
<1>6. ~Close
    BY DEF Close
<1>7. ASSUME NEW s \in Senders, NEW c \in Browsers, Deliver(s, c) PROVE Accounted(b, e)'
    <2>1. /\ Owed(b, e) /\ UNCHANGED <<key, queue, pending, batch, sending, failed>>
          /\ todo' = [todo EXCEPT ![s] = @ \ {c}] /\ got' = [got EXCEPT ![c] = @ \cup {sending[s]}]
        BY <1>7 DEF Deliver, Owed
    <2>2. \A r \in Senders : b \in todo[r] =>
             b \in todo'[r] \/ (b = c /\ r = s)
        BY <2>1 DEF TypeOK
    <2>3. got[b] \subseteq got'[b] /\ sending[s] \in got'[c]
        BY <2>1 DEF TypeOK
    <2> QED BY <2>1, <2>2, <2>3 DEF Accounted, OnItsWay, Published
<1>8. ASSUME NEW s \in Senders, NEW c \in Browsers, Skip(s, c) \/ SendFails(s, c)
      PROVE  Accounted(b, e)'
    <2>1. /\ Owed(b, e) /\ UNCHANGED <<key, queue, pending, batch, sending, got>>
          /\ todo' = [todo EXCEPT ![s] = @ \ {c}]
          /\ \/ failed' = [failed EXCEPT ![s] = @ \cup {c}]
             \/ failed' = failed /\ c # b
        BY <1>8 DEF Skip, SendFails, ShouldDeliver, Owed
    <2>2. \A r \in Senders : b \in todo[r] \cup failed[r] => b \in todo'[r] \cup failed'[r]
        BY <2>1 DEF TypeOK
    <2>3. \A r \in Senders : b \in failed[r] => b \in failed'[r]
        BY <2>1 DEF TypeOK
    <2> QED BY <2>1, <2>2, <2>3 DEF Accounted, OnItsWay, Published
<1>9. ASSUME NEW s \in Senders, EndRound(s) PROVE Accounted(b, e)'
    <2>1. /\ UNCHANGED <<key, queue, pending, batch, got, todo, since>>
          /\ todo[s] = {} /\ sending' = [sending EXCEPT ![s] = 0]
          /\ failed' = [failed EXCEPT ![s] = {}]
          /\ conn'[b] = IF b \in failed[s] THEN "closed" ELSE conn[b]
        BY <1>9 DEF EndRound
    <2>2. b \notin failed[s] /\ conn[b] = "subscribed" /\ Owed(b, e)
        BY <2>1 DEF Owed
    <2>3. \A r \in Senders : r # s => sending'[r] = sending[r] /\ failed'[r] = failed[r]
        BY <2>1 DEF TypeOK
    <2> QED BY <2>1, <2>2, <2>3 DEF Accounted, OnItsWay, Published
<1>10. ASSUME NEW c \in Browsers, Connect(c) \/ Subscribe(c) \/ Disconnect(c) PROVE Accounted(b, e)'
    <2>1. /\ UNCHANGED <<key, queue, pending, batch, sending, todo, failed, got>>
        BY <1>10 DEF Connect, Subscribe, Disconnect
    <2>2. Owed(b, e)
        BY <1>10, Numbers DEF Connect, Subscribe, Disconnect, Owed, TypeOK
    <2> QED BY <2>1, <2>2 DEF Accounted, OnItsWay, Published
<1>11. CASE UNCHANGED vars
    BY <1>11 DEF vars, Owed, Accounted, OnItsWay, Published
<1> QED BY <1>1, <1>2, <1>3, <1>4, <1>5, <1>6, <1>7, <1>8, <1>9, <1>10, <1>11
        DEF Next, FlushTask, Send

(* Every event published while a connection was subscribed was sent to it,  *)
(* is on its way, or is superseded by a later one of its key, until the     *)
(* connection fails or the process shuts down.                              *)
THEOREM EventsAreAccountedFor == Spec => []NothingForgotten
<1>1. Init => NothingForgotten
    BY DEF Init, NothingForgotten
<1>2. TypeOK /\ Ordered /\ NothingForgotten /\ [Next]_vars => NothingForgotten'
    <2> SUFFICES ASSUME TypeOK, Ordered, NothingForgotten, [Next]_vars, timer' # "closed",
                        NEW b \in Browsers, NEW e \in Published', Owed(b, e)'
                 PROVE  Accounted(b, e)'
        BY DEF NothingForgotten, Accounted, Owed
    <2>1. timer # "closed"
        BY DEF Next, vars, parked, sends, conns, shown, Publish, Submit, FlushTask, Wake, FlushEnds,
               FlushNext, Close, Send, Deliver, Skip, SendFails, EndRound, Connect, Subscribe, Disconnect
    <2>2. CASE e \in Published
        BY <2>1, <2>2, AccountedStep DEF NothingForgotten, Accounted, Owed
    <2>3. CASE e \notin Published
        <3>1. PICK k \in Keys \cup {Discrete} : Publish(k)
            BY <2>3 DEF Next, vars, parked, sends, conns, shown, Submit, FlushTask, Wake, FlushEnds,
               FlushNext, Close, Send, Deliver, Skip, SendFails, EndRound, Connect, Subscribe, Disconnect,
               Published
        <3>2. e = Len(key) + 1 /\ Len(key) \in Nat
            BY <2>3, <3>1, PublishType
        <3>3. queue'[Len(queue) + 1] = e /\ Len(queue) + 1 \in DOMAIN queue'
            <4>1. queue \in Seq(Nat)
                BY Numbers, SeqMonotonic DEF TypeOK
            <4>2. Len(queue) + 1 \in 1..Len(queue) + 1
                BY <4>1, LenProperties
            <4> QED BY <3>1, <3>2, <4>1, <4>2, Appended DEF Publish
        <3> QED BY <3>3 DEF Accounted, OnItsWay
    <2> QED BY <2>2, <2>3
<1>3. TypeOK /\ Ordered /\ [Next]_vars => (TypeOK /\ Ordered)'
    BY TypeStep, OrderedStep
<1> QED BY <1>1, <1>2, <1>3, TypeInit, OrderedInit, PTL DEF Spec
-----------------------------------------------------------------------------
(* The cached responses.                                                    *)

AllTags == UNION {Changes[o] : o \in DOMAIN Changes}

LEMMA KeysAndTags ==
    /\ \A o \in Kinds : Announces[o] \in Seq(AllTags) /\ Announced(o) \subseteq AllTags
    /\ Tags \subseteq AllTags /\ \A k \in Cached : TagOf[k] \in Tags
    /\ TTL \in Nat
<1>1. \A o \in DOMAIN Changes : Announces[o] \in Seq(AllTags)
    <2>1. {"stats", "traps", "training", "elo_rating"} \subseteq AllTags
        <3>1. Changes["delete_all_data"] \subseteq AllTags
            BY DEF AllTags, Changes
        <3> QED BY <3>1 DEF Changes
    <2>2. DOMAIN Changes = {"analyze", "import", "backfill_traps", "delete_all_data",
                            "delete_profile", "submit_move"}
        BY DEF Changes
    <2>3. /\ Announces["analyze"] = <<"stats">>
          /\ Announces["import"] = <<"stats", "elo_rating">>
          /\ Announces["backfill_traps"] = <<"stats", "traps">>
          /\ Announces["delete_all_data"] = <<"stats", "elo_rating">>
          /\ Announces["delete_profile"] = <<"elo_rating">>
          /\ Announces["submit_move"] = <<"training">>
        BY DEF Announces
    <2>4. /\ \A a \in AllTags : <<a>> \in Seq(AllTags)
          /\ \A a, b \in AllTags : <<a, b>> \in Seq(AllTags)
        OBVIOUS
    <2> QED BY <2>1, <2>2, <2>3, <2>4
<1>2. Kinds \subseteq DOMAIN Changes
    BY ResponseCacheAssumption
<1>3. \A o \in Kinds : Announced(o) \subseteq AllTags
    BY <1>1, <1>2, ElementOfSeq, LenProperties DEF Announced
<1> QED BY <1>1, <1>2, <1>3, ResponseCacheAssumption DEF Tags, AllTags

(* The index holds exactly the keys that have an entry.                     *)
Indexed == tag_index = [t \in Tags |-> {k \in Cached : TagOf[k] = t /\ store[k] # Miss}]

(* An answer just stored is an entry, and no entry is taken for none.       *)
LEMMA EntriesAreNotMiss ==
    /\ Miss \in Entries
    /\ \A x \in BOOLEAN : [old |-> x, age |-> 0] \in Entries /\ [old |-> x, age |-> 0] # Miss
<1>1. 0 \in 0..TTL + 1 /\ 0 # TTL + 2
    BY KeysAndTags
<1>2. \A x \in BOOLEAN : [old |-> x, age |-> 0].age = 0 /\ Miss.age = TTL + 2
    BY DEF Miss
<1> QED BY <1>1, <1>2 DEF Entries

LEMMA RemovedType ==
    ASSUME CacheTypeOK, NEW k \in Cached, RemoveKey(k)
    PROVE  store' \in [Cached -> Entries] /\ Indexed'
BY KeysAndTags, EntriesAreNotMiss DEF CacheTypeOK, RemoveKey, Indexed

LEMMA InvalidatedType ==
    ASSUME CacheTypeOK, NEW ts \in SUBSET Tags, InvalidateTags(ts)
    PROVE  /\ store' \in [Cached -> Entries] /\ Indexed'
           /\ \A k \in Cached : store'[k] = IF TagOf[k] \in ts THEN Miss ELSE store[k]
<1> DEFINE gone == UNION {tag_index[t] : t \in ts}
<1>1. \A k \in Cached : k \in gone <=> TagOf[k] \in ts /\ store[k] # Miss
    <2>1. \A t \in ts : tag_index[t] = {k \in Cached : TagOf[k] = t /\ store[k] # Miss}
        BY DEF CacheTypeOK
    <2> QED BY <2>1
<1>2. /\ store' = [k \in Cached |-> IF k \in gone THEN Miss ELSE store[k]]
      /\ tag_index' = [t \in Tags |-> IF t \in ts THEN {} ELSE tag_index[t]]
    BY DEF InvalidateTags
<1> HIDE DEF gone
<1>3. \A k \in Cached : store'[k] = IF TagOf[k] \in ts THEN Miss ELSE store[k]
    BY <1>1, <1>2
<1>4. store' \in [Cached -> Entries]
    BY <1>2, EntriesAreNotMiss DEF CacheTypeOK
<1>5. \A t \in Tags : tag_index'[t] = {k \in Cached : TagOf[k] = t /\ store'[k] # Miss}
    <2> TAKE t \in Tags
    <2>1. CASE t \in ts
        BY <1>2, <1>3, <2>1
    <2>2. CASE t \notin ts
        BY <1>2, <1>3, <2>2 DEF CacheTypeOK
    <2> QED BY <2>1, <2>2
<1> QED BY <1>2, <1>3, <1>4, <1>5 DEF Indexed

LEMMA OvertakenType ==
    ASSUME CacheTypeOK, NEW ts \in SUBSET Tags, Overtaken(ts)
    PROVE  /\ reader' \in [Readers -> Requests \cup {AtRest}]
           /\ late' \subseteq Cached /\ silent' \subseteq Tags
BY DEF CacheTypeOK, Overtaken, Requests

LEMMA CacheTypeInit == CacheInit => CacheTypeOK
BY EntriesAreNotMiss, ResponseCacheAssumption DEF CacheInit, CacheTypeOK

(* A request in progress is a record of its own kind.                       *)
LEMMA Asking ==
    ASSUME CacheTypeOK, NEW r \in Readers, reader[r] # AtRest
    PROVE  /\ reader[r] \in Requests /\ reader[r].key \in Cached
           /\ reader[r].old \in BOOLEAN /\ reader[r].late \in BOOLEAN
BY DEF CacheTypeOK, Requests

LEMMA CacheTypeStep == CacheTypeOK /\ [CacheNext]_cacheVars => CacheTypeOK'
<1> SUFFICES ASSUME CacheTypeOK, [CacheNext]_cacheVars PROVE CacheTypeOK'
    OBVIOUS
<1> USE DEF cache, work, past
<1>1. ASSUME NEW k \in Cached, Hit(k) PROVE CacheTypeOK'
    BY <1>1 DEF Hit, LeavesIt, CacheTypeOK
<1>2. ASSUME NEW k \in Cached, NEW r \in Readers, GetMisses(r, k) PROVE CacheTypeOK'
    <2>1. store' \in [Cached -> Entries] /\ Indexed'
        BY <1>2, RemovedType DEF GetMisses
    <2>2. reader' \in [Readers -> Requests \cup {AtRest}]
        BY <1>2 DEF GetMisses, CacheTypeOK, Requests
    <2> QED BY <1>2, <2>1, <2>2 DEF GetMisses, CacheTypeOK, Indexed
<1>3. ASSUME NEW r \in Readers, Compute(r) PROVE CacheTypeOK'
    <2>1. reader' \in [Readers -> Requests \cup {AtRest}]
        BY <1>3, Asking DEF Compute, CacheTypeOK, Requests
    <2> QED BY <1>3, <2>1 DEF Compute, CacheTypeOK
<1>4. ASSUME NEW r \in Readers, ComputeRaises(r) PROVE CacheTypeOK'
    BY <1>4 DEF ComputeRaises, CacheTypeOK
<1>5. ASSUME NEW r \in Readers, Set(r) PROVE CacheTypeOK'
    <2> DEFINE k == reader[r].key
               entry == [old |-> reader[r].old, age |-> 0]
    <2>1. k \in Cached /\ entry \in Entries /\ entry # Miss
        BY <1>5, Asking, EntriesAreNotMiss DEF Set
    <2>2. /\ store' = [store EXCEPT ![k] = entry]
          /\ tag_index' = [t \in Tags |-> IF t = TagOf[k] THEN tag_index[t] \cup {k} ELSE tag_index[t] \ {k}]
        BY <1>5 DEF Set, RemoveThenIndex
    <2> HIDE DEF k, entry
    <2>3. store' \in [Cached -> Entries] /\ Indexed'
        BY <2>1, <2>2 DEF CacheTypeOK, Indexed
    <2>4. reader' \in [Readers -> Requests \cup {AtRest}] /\ late' \subseteq Cached
        BY <1>5, <2>1 DEF Set, CacheTypeOK, k
    <2> QED BY <1>5, <2>3, <2>4 DEF Set, CacheTypeOK, Indexed
<1>6. CASE Tick
    <2>1. \A k \in Cached : Live(k) => /\ [store[k] EXCEPT !.age = @ + 1] \in Entries
                                    /\ [store[k] EXCEPT !.age = @ + 1] # Miss /\ store[k] # Miss
        <3> SUFFICES ASSUME NEW k \in Cached, Live(k)
                     PROVE  /\ [store[k] EXCEPT !.age = @ + 1] \in Entries
                            /\ [store[k] EXCEPT !.age = @ + 1] # Miss /\ store[k] # Miss
            OBVIOUS
        <3>1. Miss.age = TTL + 2 /\ TTL \in Nat /\ store[k].age <= TTL
            BY KeysAndTags DEF Miss, Live
        <3>2. store[k] \in [old : BOOLEAN, age : 0..TTL + 1] /\ store[k] # Miss
            BY <3>1 DEF CacheTypeOK, Entries
        <3>3. [store[k] EXCEPT !.age = @ + 1] \in [old : BOOLEAN, age : 0..TTL + 1]
            BY <3>1, <3>2
        <3> QED BY <3>1, <3>2, <3>3 DEF Entries
    <2>2. store' \in [Cached -> Entries]
        BY <1>6, <2>1 DEF Tick, CacheTypeOK
    <2>3. \A k \in Cached : store'[k] # Miss <=> store[k] # Miss
        BY <1>6, <2>1 DEF Tick
    <2> QED BY <1>6, <2>2, <2>3 DEF Tick, CacheTypeOK
<1>7. CASE Invalidate
    <2>1. {Head(news)} \cap Tags \in SUBSET Tags /\ news' \in Seq(AllTags)
        BY <1>7, HeadTailProperties DEF Invalidate, CacheTypeOK, AllTags
    <2>2. store' \in [Cached -> Entries] /\ Indexed'
        BY <1>7, <2>1, InvalidatedType DEF Invalidate
    <2>3. /\ reader' \in [Readers -> Requests \cup {AtRest}]
          /\ late' \subseteq Cached /\ silent' \subseteq Tags
        BY <1>7, <2>1 DEF Invalidate, Overtaken, CacheTypeOK, Requests
    <2> QED BY <1>7, <2>1, <2>2, <2>3 DEF Invalidate, CacheTypeOK, Indexed, AllTags
<1>8. CASE Clear
    BY <1>8, InvalidatedType, OvertakenType DEF Clear, CacheTypeOK, Indexed
<1>9. ASSUME NEW o \in Kinds, Begin(o) PROVE CacheTypeOK'
    <2>1. ops' \in 0..MaxOps /\ underway' \subseteq Kinds
        BY <1>9, ResponseCacheAssumption DEF Begin, CacheTypeOK
    <2>2. CASE o = "delete_all_data"
        BY <1>9, <2>1, <2>2, InvalidatedType, OvertakenType DEF Begin, CacheTypeOK, Indexed
    <2>3. CASE o # "delete_all_data"
        BY <1>9, <2>1, <2>3 DEF Begin, CacheTypeOK
    <2> QED BY <2>2, <2>3
<1>10. ASSUME NEW o \in Kinds, NEW t \in Tags, Write(o, t) PROVE CacheTypeOK'
    <2>1. \A k \in Cached : store[k] # Miss =>
             [store[k] EXCEPT !.old = TRUE] \in Entries /\ [store[k] EXCEPT !.old = TRUE] # Miss
        BY KeysAndTags DEF CacheTypeOK, Entries, Miss
    <2>2. /\ store' \in [Cached -> Entries]
          /\ \A k \in Cached : store'[k] # Miss <=> store[k] # Miss
        BY <1>10, <2>1 DEF Write, CacheTypeOK
    <2>3. reader' \in [Readers -> Requests \cup {AtRest}]
        BY <1>10, ZenonT(30) DEF Write, CacheTypeOK, Requests
    <2>4. wrote' \in [Kinds -> SUBSET Tags] /\ silent' \subseteq Tags
        BY <1>10 DEF Write, CacheTypeOK
    <2> QED BY <1>10, <2>2, <2>3, <2>4 DEF Write, CacheTypeOK
<1>11. ASSUME NEW o \in Kinds, Complete(o) PROVE CacheTypeOK'
    <2>1. news' \in Seq(AllTags)
        <3>1. news \in Seq(AllTags) /\ Announces[o] \in Seq(AllTags)
            BY KeysAndTags DEF CacheTypeOK, AllTags
        <3>2. news' \in {news, news \o Announces[o]}
            BY <1>11 DEF Complete, AllOf
        <3> QED BY <3>1, <3>2, ConcatProperties
    <2>2. silent' \subseteq Tags
        BY <1>11 DEF Complete, CacheTypeOK
    <2> QED BY <1>11, <2>1, <2>2 DEF Complete, Ends, CacheTypeOK, AllTags
<1>12. ASSUME NEW o \in Kinds, Fail(o) PROVE CacheTypeOK'
    BY <1>12 DEF Fail, Ends, CacheTypeOK
<1>13. CASE UNCHANGED cacheVars
    BY <1>13 DEF cacheVars, CacheTypeOK
<1> QED BY <1>1, <1>2, <1>3, <1>4, <1>5, <1>6, <1>7, <1>8, <1>9, <1>10, <1>11, <1>12, <1>13
        DEF CacheNext, Request
-----------------------------------------------------------------------------
(* Why an answer may be old: also one that has expired, and one that a      *)
(* request has computed and not yet stored.                                 *)

EntriesExplained ==
    \A k \in Cached : store[k].old => WillHear(TagOf[k]) \/ k \in late \/ TagOf[k] \in silent

Old(r) == reader[r] # AtRest /\ reader[r].old = TRUE
Because(r, t) == WillHear(t) \/ reader[r].late = TRUE \/ t \in silent

RequestsExplained ==
    \A r \in Readers, t \in Tags :
        Old(r) /\ t = TagOf[reader[r].key] => reader[r].step = "read" /\ Because(r, t)

Explained == EntriesExplained /\ RequestsExplained

LEMMA ExplainedInit == CacheInit => Explained
BY DEF CacheInit, Explained, EntriesExplained, RequestsExplained, Miss, Old

(* What an invalidation of some tags does to the explanations: nothing is   *)
(* left under these tags but what requests have computed, and they are late. *)
LEMMA InvalidationExplains ==
    ASSUME CacheTypeOK, Explained, NEW ts \in SUBSET Tags, InvalidateTags(ts), Overtaken(ts),
           \A t \in Tags \ ts : WillHear(t) => WillHear(t)'
    PROVE  Explained'
<1>1. \A k \in Cached : TagOf[k] \in Tags
    BY KeysAndTags
<1>2. EntriesExplained'
    BY <1>1, InvalidatedType DEF Explained, EntriesExplained, Overtaken, Miss
<1>3. RequestsExplained'
    <2> SUFFICES ASSUME NEW r \in Readers, NEW t \in Tags, Old(r)', t = TagOf[reader'[r].key]
                 PROVE  reader'[r].step = "read" /\ Because(r, t)'
        BY DEF RequestsExplained
    <2>1. reader[r] # AtRest
        BY DEF Overtaken, Old
    <2>2. /\ reader[r] \in Requests
          /\ reader'[r].key = reader[r].key /\ reader'[r].step = reader[r].step
          /\ reader'[r].old = reader[r].old
          /\ TagOf[reader[r].key] \in ts => reader'[r].late = (reader[r].step = "read")
          /\ TagOf[reader[r].key] \notin ts => reader'[r] = reader[r]
        BY <2>1, Asking DEF Overtaken, Requests
    <2>3. Old(r) /\ t = TagOf[reader[r].key]
        BY <2>1, <2>2 DEF Old
    <2>4. reader[r].step = "read" /\ Because(r, t)
        BY <2>3 DEF Explained, RequestsExplained
    <2>5. CASE t \in ts
        BY <2>2, <2>3, <2>4, <2>5 DEF Because
    <2>6. CASE t \notin ts
        BY <2>2, <2>3, <2>4, <2>6 DEF Because, Overtaken
    <2> QED BY <2>5, <2>6
<1> QED BY <1>2, <1>3 DEF Explained

LEMMA ExplainedStep == CacheTypeOK /\ Explained /\ [CacheNext]_cacheVars => Explained'
<1> SUFFICES ASSUME CacheTypeOK, Explained, [CacheNext]_cacheVars PROVE Explained'
    OBVIOUS
<1> USE DEF cache, work, past
<1>1. ASSUME NEW k \in Cached, Hit(k) PROVE Explained'
    BY <1>1 DEF Hit, LeavesIt, Explained, EntriesExplained, RequestsExplained, Old, Because, WillHear
<1>2. ASSUME NEW k \in Cached, NEW r \in Readers, GetMisses(r, k) PROVE Explained'
    <2>1. EntriesExplained'
        BY <1>2 DEF GetMisses, RemoveKey, CacheTypeOK, Explained, EntriesExplained, WillHear, Miss
    <2>2. RequestsExplained'
        BY <1>2 DEF GetMisses, CacheTypeOK, Explained, RequestsExplained, Old, Because, WillHear
    <2> QED BY <2>1, <2>2 DEF Explained
<1>3. ASSUME NEW r \in Readers, Compute(r) PROVE Explained'
    <2>1. /\ UNCHANGED <<store, underway, wrote, news, late, silent>>
          /\ \A q \in Readers : q # r => reader'[q] = reader[q]
          /\ reader'[r].old = reader[r].old /\ ~reader[r].old
        BY <1>3, KeysAndTags, Asking DEF Compute, CacheTypeOK, Explained, RequestsExplained, Requests, Old
    <2> QED BY <2>1 DEF Explained, EntriesExplained, RequestsExplained, Old, Because, WillHear
<1>4. ASSUME NEW r \in Readers, ComputeRaises(r) PROVE Explained'
    <2>1. /\ UNCHANGED <<store, underway, wrote, news, late, silent>>
          /\ \A q \in Readers : q # r => reader'[q] = reader[q]
          /\ reader'[r] = AtRest
        BY <1>4 DEF ComputeRaises, CacheTypeOK
    <2> QED BY <2>1 DEF Explained, EntriesExplained, RequestsExplained, Old, Because, WillHear
<1>5. ASSUME NEW r \in Readers, Set(r) PROVE Explained'
    <2> DEFINE k == reader[r].key
    <2>1. /\ UNCHANGED <<underway, wrote, news, silent>>
          /\ \A q \in Readers : q # r => reader'[q] = reader[q]
          /\ reader'[r] = AtRest /\ reader[r] # AtRest
          /\ k \in Cached /\ store'[k].old = reader[r].old
          /\ \A j \in Cached : j # k => store'[j] = store[j]
          /\ late' = IF reader[r].late THEN late \cup {k} ELSE late \ {k}
        BY <1>5, Asking DEF Set, CacheTypeOK
    <2>2. EntriesExplained'
        BY <2>1, KeysAndTags, Asking
            DEF Explained, EntriesExplained, RequestsExplained, Old, Because, WillHear
    <2>3. RequestsExplained'
        BY <2>1 DEF Explained, RequestsExplained, Old, Because, WillHear
    <2> QED BY <2>2, <2>3 DEF Explained
<1>6. CASE Tick
    <2>1. /\ UNCHANGED <<reader, underway, wrote, news, late, silent>>
          /\ \A k \in Cached : store'[k].old = store[k].old
        BY <1>6 DEF Tick, CacheTypeOK, Entries, Miss
    <2> QED BY <2>1 DEF Explained, EntriesExplained, RequestsExplained, Old, Because, WillHear
<1>7. CASE Invalidate
    <2>1. ASSUME NEW t \in Tags \ ({Head(news)} \cap Tags), WillHear(t) PROVE WillHear(t)'
        <3>1. UNCHANGED <<underway, wrote>> /\ news' = Tail(news) /\ news # <<>>
            BY <1>7 DEF Invalidate
        <3>2. CASE \E o \in underway : t \in wrote[o] \cap Announced(o)
            BY <3>1, <3>2 DEF WillHear
        <3>3. ASSUME NEW n \in DOMAIN news, news[n] = t PROVE WillHear(t)'
            <4>1. n # 1 /\ n \in 1..Len(news) /\ Len(news) \in Nat
                BY <3>1, <3>3, <2>1, LenProperties DEF CacheTypeOK
            <4>2. /\ n - 1 \in 1..Len(Tail(news)) /\ Tail(news)[n - 1] = t
                  /\ DOMAIN Tail(news) = 1..Len(Tail(news))
                BY <3>1, <3>3, <4>1, HeadTailProperties, LenProperties DEF CacheTypeOK
            <4> QED BY <3>1, <4>2 DEF WillHear
        <3> QED BY <2>1, <3>2, <3>3 DEF WillHear
    <2> QED BY <1>7, <2>1, InvalidationExplains DEF Invalidate
<1>8. CASE Clear
    BY <1>8, InvalidationExplains DEF Clear
<1>9. ASSUME NEW o \in Kinds, Begin(o) PROVE Explained'
    <2>1. \A t \in Tags : WillHear(t) => WillHear(t)'
        BY <1>9 DEF Begin, WillHear
    <2>2. CASE o = "delete_all_data"
        BY <1>9, <2>1, <2>2, InvalidationExplains DEF Begin
    <2>3. CASE o # "delete_all_data"
        BY <1>9, <2>1, <2>3, KeysAndTags, Asking
            DEF Begin, Explained, EntriesExplained, RequestsExplained, Old, Because
    <2> QED BY <2>2, <2>3
<1>10. ASSUME NEW o \in Kinds, NEW t \in Tags, Write(o, t) PROVE Explained'
    <2>1. \A u \in Tags : WillHear(u) => WillHear(u)'
        BY <1>10 DEF Write, WillHear, CacheTypeOK
    <2>2. WillHear(t)' \/ t \in silent'
        BY <1>10 DEF Write, WillHear, CacheTypeOK
    <2>3. silent \subseteq silent' /\ late' = late
        BY <1>10 DEF Write
    <2>4. \A k \in Cached : TagOf[k] # t => store'[k] = store[k]
        BY <1>10 DEF Write
    <2>5. \A r \in Readers : reader[r] # AtRest /\ TagOf[reader[r].key] = t =>
             /\ reader'[r].key = reader[r].key /\ reader'[r].step = reader[r].step
             /\ reader'[r].old = (reader[r].step = "read")
        BY <1>10, Asking DEF Write, Requests
    <2>6. \A r \in Readers : reader[r] = AtRest \/ TagOf[reader[r].key] # t => reader'[r] = reader[r]
        BY <1>10 DEF Write
    <2>7. EntriesExplained'
        BY <2>1, <2>2, <2>3, <2>4, KeysAndTags DEF Explained, EntriesExplained
    <2>8. RequestsExplained'
        <3> SUFFICES ASSUME NEW r \in Readers, NEW u \in Tags, Old(r)', u = TagOf[reader'[r].key]
                     PROVE  reader'[r].step = "read" /\ Because(r, u)'
            BY DEF RequestsExplained
        <3>1. CASE reader[r] # AtRest /\ TagOf[reader[r].key] = t
            BY <2>2, <2>5, <3>1 DEF Old, Because
        <3>2. CASE reader[r] # AtRest /\ TagOf[reader[r].key] # t
            BY <2>1, <2>3, <2>6, <3>2 DEF Explained, RequestsExplained, Old, Because
        <3>3. CASE reader[r] = AtRest
            BY <2>6, <3>3 DEF Old
        <3> QED BY <3>1, <3>2, <3>3
    <2> QED BY <2>7, <2>8 DEF Explained
<1>11. ASSUME NEW o \in Kinds, Complete(o) PROVE Explained'
    <2>0. CASE UNCHANGED news /\ silent' = silent \cup wrote[o]
        <3>1. ASSUME NEW t \in Tags, WillHear(t) PROVE WillHear(t)' \/ t \in silent'
            BY <1>11, <2>0, <3>1 DEF Complete, Ends, WillHear, CacheTypeOK
        <3> QED BY <1>11, <2>0, <3>1, KeysAndTags, Asking
                DEF Complete, Explained, EntriesExplained, RequestsExplained, Old, Because
    <2>1. ASSUME AllOf(o), NEW t \in Tags, WillHear(t) PROVE WillHear(t)'
        <3>1. /\ news \in Seq(AllTags) /\ Announces[o] \in Seq(AllTags)
              /\ news' = news \o Announces[o]
            BY <1>11, <2>1, KeysAndTags DEF AllOf, CacheTypeOK, AllTags
        <3>2. /\ \A n \in DOMAIN news : n \in DOMAIN news' /\ news'[n] = news[n]
              /\ \A n \in DOMAIN Announces[o] : Len(news) + n \in DOMAIN news'
                                               /\ news'[Len(news) + n] = Announces[o][n]
            <4> DEFINE q == news  an == Announces[o]
            <4>1. /\ q \in Seq(AllTags) /\ an \in Seq(AllTags) /\ news' = q \o an
                  /\ DOMAIN q = 1..Len(q) /\ DOMAIN an = 1..Len(an) /\ Len(q) \in Nat /\ Len(an) \in Nat
                BY <3>1, LenProperties
            <4> HIDE DEF q, an
            <4>2. /\ DOMAIN (q \o an) = 1..(Len(q) + Len(an))
                  /\ \A n \in 1..(Len(q) + Len(an)) :
                        (q \o an)[n] = IF n <= Len(q) THEN q[n] ELSE an[n - Len(q)]
                BY <4>1, ConcatProperties, LenProperties
            <4>3. \A n \in DOMAIN q : n \in DOMAIN news' /\ news'[n] = q[n]
                BY <4>1, <4>2
            <4>4. \A n \in DOMAIN an : Len(q) + n \in DOMAIN news' /\ news'[Len(q) + n] = an[n]
                BY <4>1, <4>2
            <4> QED BY <4>3, <4>4 DEF q, an
        <3>3. CASE \E n \in DOMAIN news : news[n] = t
            BY <3>2, <3>3 DEF WillHear
        <3>4. CASE t \in Announced(o)
            BY <3>2, <3>4 DEF WillHear, Announced
        <3>5. ASSUME NEW p \in underway, p # o, t \in wrote[p] \cap Announced(p) PROVE WillHear(t)'
            BY <1>11, <3>5 DEF Complete, Ends, WillHear, CacheTypeOK
        <3> QED BY <2>1, <3>3, <3>4, <3>5 DEF WillHear
    <2>2. CASE AllOf(o) /\ UNCHANGED silent
        BY <1>11, <2>1, <2>2, KeysAndTags, Asking
            DEF Complete, Explained, EntriesExplained, RequestsExplained, Old, Because
    <2> QED BY <1>11, <2>0, <2>2 DEF Complete
<1>12. ASSUME NEW o \in Kinds, Fail(o) PROVE Explained'
    <2>1. ASSUME NEW t \in Tags, WillHear(t) PROVE WillHear(t)' \/ t \in silent'
        BY <1>12, <2>1 DEF Fail, Ends, WillHear, CacheTypeOK
    <2> QED BY <1>12, <2>1, KeysAndTags, Asking
            DEF Fail, Explained, EntriesExplained, RequestsExplained, Old, Because
<1>13. CASE UNCHANGED cacheVars
    BY <1>13 DEF cacheVars, Explained, EntriesExplained, RequestsExplained, Old, Because, WillHear
<1> QED BY <1>1, <1>2, <1>3, <1>4, <1>5, <1>6, <1>7, <1>8, <1>9, <1>10, <1>11, <1>12, <1>13
        DEF CacheNext, Request

(* The index reaches every entry, and a stale answer always has one of the  *)
(* named causes, for any cached requests, tags and times to live, and any   *)
(* number of operations and requests in progress.                           *)
THEOREM StaleAnswersAreExplained == CacheSpec => [](CacheTypeOK /\ StaleIsExplained)
<1>1. CacheTypeOK /\ Explained => StaleIsExplained
    BY DEF Explained, EntriesExplained, StaleIsExplained, Stale
<1>2. CacheTypeOK /\ Explained /\ [CacheNext]_cacheVars => (CacheTypeOK /\ Explained)'
    BY CacheTypeStep, ExplainedStep
<1> QED BY <1>1, <1>2, CacheTypeInit, ExplainedInit, PTL DEF CacheSpec
-----------------------------------------------------------------------------
(* What rests.                                                              *)

IsAttempt(a) ==
    /\ a = [game |-> a.game, ply |-> a.ply, right |-> a.right, resting |-> a.resting]
    /\ a.right \in BOOLEAN /\ a.resting \in BOOLEAN
AttemptsTyped == \A n \in DOMAIN attempts : IsAttempt(attempts[n])

(* What is left to choose from has been solved only since it was looked up. *)
Choosing == request.kind = "puzzle" /\ request.step = "choose"
LeftIsFresh ==
    Choosing =>
        /\ request = [kind |-> "puzzle", step |-> "choose", late |-> request.late, left |-> request.left]
        /\ \A r \in request.left : <<r[1], r[2].ply>> \in Solved => <<r[1], r[2].ply>> \in request.late

Resolves(n, puzzle) ==
    /\ n \in DOMAIN attempts /\ attempts[n].right = TRUE /\ attempts[n].resting = TRUE
    /\ puzzle = <<attempts[n].game, attempts[n].ply>>

LEMMA SolvedAre == AttemptsTyped => \A puzzle : puzzle \in Solved <=> \E n : Resolves(n, puzzle)
<1> SUFFICES ASSUME AttemptsTyped, NEW puzzle
             PROVE  puzzle \in Solved <=> \E n : Resolves(n, puzzle)
    OBVIOUS
<1>1. \A n \in DOMAIN attempts : /\ attempts[n].right <=> attempts[n].right = TRUE
                                 /\ attempts[n].resting <=> attempts[n].resting = TRUE
    BY DEF AttemptsTyped, IsAttempt
<1>2. ASSUME puzzle \in Solved PROVE \E n : Resolves(n, puzzle)
    BY <1>1, <1>2 DEF Solved, ToSet, Resolves
<1>3. ASSUME NEW n, Resolves(n, puzzle) PROVE puzzle \in Solved
    BY <1>1, <1>3 DEF Solved, ToSet, Resolves
<1> QED BY <1>2, <1>3

LEMMA RestInit == ReportsInit => AttemptsTyped /\ LeftIsFresh
BY DEF ReportsInit, AttemptsTyped, LeftIsFresh, Choosing, Idle

(* A step that solves nothing and goes on with the choice leaves it fresh.  *)
LEMMA NothingSolved ==
    ASSUME AttemptsTyped, LeftIsFresh, AttemptsTyped',
           \A n \in DOMAIN attempts' :
               n \in DOMAIN attempts /\ /\ attempts'[n].game = attempts[n].game
                                        /\ attempts'[n].ply = attempts[n].ply
                                        /\ attempts'[n].right = attempts[n].right
                                        /\ attempts'[n].resting = TRUE => attempts[n].resting = TRUE,
           Choosing' => request' = request
    PROVE  LeftIsFresh'
<1>1. \A n, puzzle : Resolves(n, puzzle)' => Resolves(n, puzzle)
    BY DEF Resolves
<1>2. \A puzzle : puzzle \in Solved' => \E n : Resolves(n, puzzle)'
    <2>1. (AttemptsTyped => \A puzzle : puzzle \in Solved <=> \E n : Resolves(n, puzzle))'
        BY SolvedAre, PTL
    <2> QED BY <2>1
<1>3. Solved' \subseteq Solved
    BY <1>1, <1>2, SolvedAre
<1> QED BY <1>3 DEF LeftIsFresh, Choosing

(* The collapse report holds what its first query found, while nothing is   *)
(* written.                                                                 *)
FirstsFit ==
    request.kind = "collapse" =>
        /\ request = [kind |-> "collapse", filter |-> request.filter, firsts |-> request.firsts,
                      moved |-> request.moved]
        /\ request.filter \in Filters /\ request.moved \in BOOLEAN
        /\ request.moved = FALSE => request.firsts = FirstBlunders(request.filter)

TablesTyped ==
    /\ index \subseteq Games /\ analysed \subseteq index
    /\ IsFiniteSet(DOMAIN attempts) /\ AttemptsTyped

ReportsInv == TablesTyped /\ LeftIsFresh /\ FirstsFit

LEMMA RequestInit == ReportsInit => ReportsInv
BY FS_EmptySet DEF ReportsInit, ReportsInv, TablesTyped, AttemptsTyped, LeftIsFresh, FirstsFit, Choosing, Idle

LEMMA MovedRequest ==
    ASSUME NEW f, NEW x, NEW m, NEW t
    PROVE  [[kind |-> "collapse", filter |-> f, firsts |-> x, moved |-> m] EXCEPT !.moved = t]
             = [kind |-> "collapse", filter |-> f, firsts |-> x, moved |-> t]
<1> DEFINE a == [kind |-> "collapse", filter |-> f, firsts |-> x, moved |-> m]
           c == [kind |-> "collapse", filter |-> f, firsts |-> x, moved |-> t]
<1>1. DOMAIN a = {"kind", "filter", "firsts", "moved"} /\ DOMAIN c = {"kind", "filter", "firsts", "moved"}
    OBVIOUS
<1>2. \A i \in DOMAIN a : c[i] = IF i = "moved" THEN t ELSE a[i]
    OBVIOUS
<1>3. c = [i \in DOMAIN a |-> IF i = "moved" THEN t ELSE a[i]]
    BY <1>1, <1>2
<1> QED BY <1>3

(* Tables that tell of a change.                                            *)
LEMMA TouchedKeeps ==
    ASSUME FirstsFit, Touched
    PROVE  /\ Choosing' => request' = request
           /\ FirstsFit'
<1>1. CASE request.kind = "collapse"
    <2>1. /\ request' = [request EXCEPT !.moved = TRUE]
          /\ request = [kind |-> "collapse", filter |-> request.filter, firsts |-> request.firsts,
                        moved |-> request.moved]
          /\ request.filter \in Filters
        BY <1>1 DEF Touched, FirstsFit
    <2> DEFINE Made(f, x, m) == [kind |-> "collapse", filter |-> f, firsts |-> x, moved |-> m]
    <2>2. PICK f, x, m : request = Made(f, x, m)
        BY <2>1
    <2>3. request' = Made(f, x, TRUE)
        BY <2>1, <2>2, MovedRequest
    <2>4. /\ request.filter = f /\ request.firsts = x
          /\ request'.kind = "collapse" /\ request'.filter = f /\ request'.firsts = x /\ request'.moved = TRUE
        BY <2>2, <2>3
    <2> QED BY <2>1, <2>3, <2>4 DEF FirstsFit, Choosing
<1>2. CASE request.kind # "collapse"
    BY <1>2 DEF Touched, FirstsFit
<1> QED BY <1>1, <1>2

LEMMA UntouchedKeeps ==
    ASSUME FirstsFit, UNCHANGED <<index, analysed, moves, phased, request>>
    PROVE  /\ Choosing' => request' = request
           /\ FirstsFit'
<1>1. FirstBlunders(request.filter)' = FirstBlunders(request.filter)
    BY DEF FirstBlunders, Blunders, Selected
<1> QED BY <1>1 DEF FirstsFit

LEMMA SameAttempts ==
    ASSUME ReportsInv, UNCHANGED attempts, Choosing' => request' = request
    PROVE  LeftIsFresh' /\ AttemptsTyped'
<1>1. AttemptsTyped'
    BY DEF ReportsInv, TablesTyped, AttemptsTyped
<1> QED BY <1>1, NothingSolved DEF ReportsInv, TablesTyped

LEMMA QuietSteps ==
    ASSUME ReportsInv, UNCHANGED <<tables, request>>
    PROVE  ReportsInv' /\ (Choosing' => request' = request)
<1>1. FirstsFit' /\ (Choosing' => request' = request)
    BY UntouchedKeeps DEF ReportsInv, tables
<1>2. LeftIsFresh' /\ AttemptsTyped'
    BY <1>1, SameAttempts DEF tables
<1> QED BY <1>1, <1>2 DEF ReportsInv, TablesTyped, tables

LEMMA ImportKeeps == ASSUME ReportsInv, NEW g \in Games, Import(g) PROVE ReportsInv'
<1>1. FirstsFit' /\ LeftIsFresh' /\ AttemptsTyped'
    BY TouchedKeeps, SameAttempts DEF ReportsInv, Import
<1> QED BY <1>1 DEF ReportsInv, TablesTyped, Import

LEMMA UploadKeeps == ASSUME ReportsInv, NEW g \in Games, Upload(g) PROVE ReportsInv'
<1>1. FirstsFit' /\ LeftIsFresh' /\ AttemptsTyped'
    BY TouchedKeeps, SameAttempts DEF ReportsInv, Upload
<1> QED BY <1>1 DEF ReportsInv, TablesTyped, Upload

LEMMA FillPhaseKeeps == ASSUME ReportsInv, NEW g \in Games, FillPhase(g) PROVE ReportsInv'
<1>1. FirstsFit' /\ LeftIsFresh' /\ AttemptsTyped'
    BY TouchedKeeps, SameAttempts DEF ReportsInv, FillPhase
<1> QED BY <1>1 DEF ReportsInv, TablesTyped, FillPhase

LEMMA WriteMovesKeeps == ASSUME ReportsInv, NEW g \in Games, WriteMoves(g) PROVE ReportsInv'
<1>1. FirstsFit' /\ LeftIsFresh' /\ AttemptsTyped'
    BY TouchedKeeps, SameAttempts DEF ReportsInv, WriteMoves
<1> QED BY <1>1 DEF ReportsInv, TablesTyped, WriteMoves

LEMMA MarkAnalysedKeeps == ASSUME ReportsInv, NEW g \in Games, MarkAnalysed(g) PROVE ReportsInv'
<1>1. FirstsFit' /\ LeftIsFresh' /\ AttemptsTyped'
    BY TouchedKeeps, SameAttempts DEF ReportsInv, MarkAnalysed
<1> QED BY <1>1 DEF ReportsInv, TablesTyped, MarkAnalysed

(* Attempts that go take nothing with them that was not solved.             *)
LEMMA FewerAttempts ==
    ASSUME ReportsInv, Choosing' => request' = request,
           DOMAIN attempts' \subseteq DOMAIN attempts,
           \A n \in DOMAIN attempts' : attempts'[n] = attempts[n]
    PROVE  LeftIsFresh' /\ AttemptsTyped' /\ IsFiniteSet(DOMAIN attempts')
<1>1. AttemptsTyped'
    BY DEF ReportsInv, TablesTyped, AttemptsTyped
<1>2. IsFiniteSet(DOMAIN attempts')
    BY FS_Subset DEF ReportsInv, TablesTyped
<1> QED BY <1>1, <1>2, NothingSolved DEF ReportsInv, TablesTyped

LEMMA DeleteProfileKeeps == ASSUME ReportsInv, NEW p, DeleteProfile(p) PROVE ReportsInv'
<1>1. FirstsFit' /\ (Choosing' => request' = request)
    BY TouchedKeeps DEF ReportsInv, DeleteProfile
<1>2. /\ DOMAIN attempts' \subseteq DOMAIN attempts
      /\ \A n \in DOMAIN attempts' : attempts'[n] = attempts[n]
      /\ index' \subseteq Games /\ analysed' \subseteq index'
    BY DEF DeleteProfile, ReportsInv, TablesTyped
<1> QED BY <1>1, <1>2, FewerAttempts DEF ReportsInv, TablesTyped

LEMMA WipeTableKeeps == ASSUME ReportsInv, WipeTable PROVE ReportsInv'
<1>1. FirstsFit' /\ (Choosing' => request' = request)
    BY TouchedKeeps DEF ReportsInv, WipeTable
<1>2. /\ DOMAIN attempts' \subseteq DOMAIN attempts
      /\ \A n \in DOMAIN attempts' : attempts'[n] = attempts[n]
    BY DEF WipeTable
<1>3. index' \subseteq Games /\ analysed' \subseteq index'
    BY DEF WipeTable, ReportsInv, TablesTyped
<1> QED BY <1>1, <1>2, <1>3, FewerAttempts DEF ReportsInv, TablesTyped

LEMMA RestEndsKeeps == ASSUME ReportsInv, NEW n \in DOMAIN attempts, RestEnds(n) PROVE ReportsInv'
<1>1. FirstsFit' /\ (Choosing' => request' = request)
    BY UntouchedKeeps DEF ReportsInv, RestEnds
<1>2. /\ DOMAIN attempts' = DOMAIN attempts
      /\ \A m \in DOMAIN attempts :
            attempts'[m] = [attempts[m] EXCEPT !.resting = attempts[m].resting /\ m > n]
    BY DEF RestEnds
<1>3. ASSUME NEW m \in DOMAIN attempts
      PROVE  /\ IsAttempt(attempts'[m])
             /\ attempts'[m].game = attempts[m].game
             /\ attempts'[m].ply = attempts[m].ply
             /\ attempts'[m].right = attempts[m].right
             /\ attempts'[m].resting = TRUE => attempts[m].resting = TRUE
    <2>1. IsAttempt(attempts[m])
        BY DEF ReportsInv, TablesTyped, AttemptsTyped
    <2>2. (attempts[m].resting /\ m > n) \in BOOLEAN
        OBVIOUS
    <2>3. DOMAIN attempts[m] = {"game", "ply", "right", "resting"}
        BY <2>1 DEF IsAttempt
    <2>4. /\ DOMAIN attempts'[m] = {"game", "ply", "right", "resting"}
          /\ attempts'[m].resting = (attempts[m].resting /\ m > n)
          /\ attempts'[m].game = attempts[m].game
          /\ attempts'[m].ply = attempts[m].ply
          /\ attempts'[m].right = attempts[m].right
        BY <1>2, <2>3
    <2>5. attempts'[m].resting = TRUE => attempts[m].resting = TRUE
        BY <2>1, <2>4 DEF IsAttempt
    <2>6. attempts'[m].resting \in BOOLEAN /\ attempts'[m].right \in BOOLEAN
        BY <2>1, <2>2, <2>4 DEF IsAttempt
    <2>7. attempts'[m] = [game |-> attempts'[m].game, ply |-> attempts'[m].ply,
                          right |-> attempts'[m].right, resting |-> attempts'[m].resting]
        BY <1>2, <2>1, <2>4 DEF IsAttempt
    <2> QED BY <2>4, <2>5, <2>6, <2>7 DEF IsAttempt
<1>4. AttemptsTyped'
    BY <1>2, <1>3 DEF AttemptsTyped
<1>5. LeftIsFresh'
    BY <1>1, <1>2, <1>3, <1>4, NothingSolved DEF ReportsInv, TablesTyped
<1> QED BY <1>1, <1>2, <1>4, <1>5 DEF ReportsInv, TablesTyped, RestEnds

(* The steps of a request.                                                  *)
LEMMA RequestKeeps ==
    ASSUME ReportsInv, UNCHANGED tables, ~Choosing', request'.kind # "collapse"
    PROVE  ReportsInv'
BY DEF ReportsInv, TablesTyped, AttemptsTyped, LeftIsFresh, FirstsFit, tables

LEMMA AskCollapseKeeps == ASSUME ReportsInv, NEW f \in Filters, AskCollapse(f) PROVE ReportsInv'
<1>1. UNCHANGED tables
    BY DEF AskCollapse
<1>2. FirstBlunders(f)' = FirstBlunders(f)
    BY <1>1 DEF tables, FirstBlunders, Blunders, Selected
<1>3. /\ request' = [kind |-> "collapse", filter |-> f, firsts |-> FirstBlunders(f), moved |-> FALSE]
      /\ request'.kind = "collapse" /\ request'.filter = f
      /\ request'.firsts = FirstBlunders(f) /\ request'.moved = FALSE
    BY DEF AskCollapse
<1>4. FirstsFit' /\ LeftIsFresh'
    BY <1>2, <1>3 DEF FirstsFit, LeftIsFresh, Choosing
<1> QED BY <1>1, <1>4 DEF ReportsInv, TablesTyped, AttemptsTyped, tables

LEMMA AnswerKeeps == ASSUME ReportsInv, AnswerCollapse \/ Sent PROVE ReportsInv'
<1>1. UNCHANGED tables
    BY DEF AnswerCollapse, Sent
<1>2. request'.kind \in {"collapsed", "none"}
    BY DEF AnswerCollapse, Sent, Idle
<1> QED BY <1>1, <1>2, RequestKeeps DEF Choosing

LEMMA PuzzleKeeps ==
    ASSUME ReportsInv, (Puzzle /\ ~FilterRecentlySolved)
                       \/ (\E f \in Filters : AskPuzzle(f)) \/ \E g \in Games : \E m \in Known(g) : AskSpecific(g, m)
    PROVE  ReportsInv'
<1>1. UNCHANGED tables
    BY DEF Puzzle, FetchBlunders, FilterByDate, NoBlundersFound, Serve, GameNotFound, Choose, AskPuzzle,
           AskSpecific, Goes, Fails
<1> DEFINE Other == /\ request'.kind \in {"puzzle", "none", "served"}
                    /\ request'.kind = "puzzle" => request'.step # "choose"
<1>2. ASSUME Fails PROVE Other
    BY <1>2 DEF Fails, Idle
<1>3. FetchBlunders => Other
    BY DEF FetchBlunders, Goes
<1>4. FilterByDate => Other
    BY DEF FilterByDate, Goes
<1>5. NoBlundersFound \/ GameNotFound => Other
    BY <1>2 DEF NoBlundersFound, GameNotFound
<1>6. Serve => Other
    BY DEF Serve, Goes
<1>7. Choose => Other
    BY DEF Choose, Goes
<1>8. \A f : AskPuzzle(f) => Other
    BY DEF AskPuzzle, Goes
<1>9. \A g, m : AskSpecific(g, m) => Other
    BY DEF AskSpecific, Goes
<1>10. Other
    BY <1>3, <1>4, <1>5, <1>6, <1>7, <1>8, <1>9 DEF Puzzle
<1>11. ~Choosing' /\ request'.kind # "collapse"
    BY <1>10 DEF Choosing
<1> QED BY <1>1, <1>11, RequestKeeps

LEMMA FilterKeeps == ASSUME ReportsInv, FilterRecentlySolved PROVE ReportsInv'
<1>1. UNCHANGED tables
    BY DEF FilterRecentlySolved, Goes
<1>2. Solved' = Solved
    BY <1>1 DEF Solved, tables
<1> DEFINE fresh == {r \in request.left : <<r[1], r[2].ply>> \notin Solved}
<1>3. /\ request' = [kind |-> "puzzle", step |-> "choose", late |-> {}, left |-> fresh]
      /\ request'.kind = "puzzle" /\ request'.step = "choose" /\ request'.late = {} /\ request'.left = fresh
    BY DEF FilterRecentlySolved, Goes
<1>4. LeftIsFresh' /\ FirstsFit'
    BY <1>2, <1>3 DEF LeftIsFresh, FirstsFit
<1> QED BY <1>1, <1>4 DEF ReportsInv, TablesTyped, AttemptsTyped, tables

(* An answer adds one attempt, and is noted if it came while one chose.     *)
LEMMA LateRequest ==
    ASSUME NEW l, NEW x, NEW t
    PROVE  [[kind |-> "puzzle", step |-> "choose", late |-> l, left |-> x] EXCEPT !.late = t]
             = [kind |-> "puzzle", step |-> "choose", late |-> t, left |-> x]
<1> DEFINE a == [kind |-> "puzzle", step |-> "choose", late |-> l, left |-> x]
           c == [kind |-> "puzzle", step |-> "choose", late |-> t, left |-> x]
<1>1. DOMAIN a = {"kind", "step", "late", "left"} /\ DOMAIN c = {"kind", "step", "late", "left"}
    OBVIOUS
<1>2. \A i \in DOMAIN a : c[i] = IF i = "late" THEN t ELSE a[i]
    OBVIOUS
<1>3. c = [i \in DOMAIN a |-> IF i = "late" THEN t ELSE a[i]]
    BY <1>1, <1>2
<1> QED BY <1>3

LEMMA RecordedAre ==
    ASSUME ReportsInv, NEW g, NEW ply, NEW right \in BOOLEAN, attempts' = Recorded(g, ply, right)
    PROVE  /\ AttemptsTyped' /\ IsFiniteSet(DOMAIN attempts')
           /\ \A puzzle \in Solved' : puzzle \in Solved \/ (right = TRUE /\ puzzle = <<g, ply>>)
<1> DEFINE id == Max(DOMAIN attempts \cup {0}) + 1
           new == [game |-> g, ply |-> ply, right |-> right, resting |-> TRUE]
<1> HIDE DEF id
<1>1. /\ DOMAIN attempts' = DOMAIN attempts \cup {id}
      /\ \A n \in DOMAIN attempts' : attempts'[n] = IF n = id THEN new ELSE attempts[n]
    BY DEF Recorded, id
<1>2. IsAttempt(new)
    BY DEF IsAttempt
<1>3. AttemptsTyped'
    BY <1>1, <1>2 DEF AttemptsTyped, ReportsInv, TablesTyped
<1>4. IsFiniteSet(DOMAIN attempts')
    BY <1>1, FS_AddElement DEF ReportsInv, TablesTyped
<1>5. \A n, puzzle : Resolves(n, puzzle)' => Resolves(n, puzzle) \/ (right = TRUE /\ puzzle = <<g, ply>>)
    BY <1>1 DEF Resolves
<1>6. \A puzzle : puzzle \in Solved' => \E n : Resolves(n, puzzle)'
    <2>1. (AttemptsTyped => \A puzzle : puzzle \in Solved <=> \E n : Resolves(n, puzzle))'
        BY SolvedAre, PTL
    <2> QED BY <2>1, <1>3
<1>7. \A puzzle \in Solved' : puzzle \in Solved \/ (right = TRUE /\ puzzle = <<g, ply>>)
    BY <1>5, <1>6, SolvedAre DEF ReportsInv, TablesTyped
<1> QED BY <1>3, <1>4, <1>7

LEMMA SubmitKeeps ==
    ASSUME ReportsInv, NEW g, NEW ply, NEW right \in BOOLEAN, SubmitAttempt(g, ply, right)
    PROVE  ReportsInv' /\ (Choosing => Choosing')
<1>1. /\ AttemptsTyped' /\ IsFiniteSet(DOMAIN attempts')
      /\ \A puzzle \in Solved' : puzzle \in Solved \/ (right = TRUE /\ puzzle = <<g, ply>>)
    BY RecordedAre DEF SubmitAttempt
<1>2. UNCHANGED <<index, analysed, moves, phased>>
    BY DEF SubmitAttempt
<1>3. CASE right = TRUE /\ Choosing
    <2> DEFINE Made(l, x) == [kind |-> "puzzle", step |-> "choose", late |-> l, left |-> x]
    <2>1. PICK l, x : request = Made(l, x)
        BY <1>3 DEF ReportsInv, LeftIsFresh
    <2>2. request.late = l /\ request.left = x
        BY <2>1
    <2>3. request' = [request EXCEPT !.late = @ \cup {<<g, ply>>}]
        BY <1>3 DEF SubmitAttempt, Choosing
    <2>4. request' = Made(l \cup {<<g, ply>>}, x)
        BY <2>1, <2>2, <2>3, LateRequest
    <2>5. /\ request'.late = l \cup {<<g, ply>>} /\ request'.left = x
          /\ request'.kind = "puzzle" /\ request'.step = "choose"
        BY <2>4
    <2>6. \A r \in x : <<r[1], r[2].ply>> \in Solved => <<r[1], r[2].ply>> \in l
        BY <1>3, <2>2 DEF ReportsInv, LeftIsFresh
    <2>7. LeftIsFresh' /\ FirstsFit' /\ Choosing'
        BY <1>1, <2>4, <2>5, <2>6 DEF LeftIsFresh, FirstsFit, Choosing
    <2> QED BY <1>1, <1>2, <2>7 DEF ReportsInv, TablesTyped
<1>4. CASE ~(right = TRUE /\ Choosing)
    <2>1. request' = request
        BY <1>4 DEF SubmitAttempt, Choosing
    <2>2. FirstsFit'
        BY <1>2, <2>1, UntouchedKeeps DEF ReportsInv
    <2>3. LeftIsFresh'
        BY <1>1, <1>4, <2>1 DEF ReportsInv, LeftIsFresh, Choosing
    <2> QED BY <1>1, <1>2, <2>1, <2>2, <2>3 DEF ReportsInv, TablesTyped, Choosing
<1> QED BY <1>3, <1>4

LEMMA ReportsStep == ASSUME ReportsInv, [ReportsNext]_reportVars PROVE ReportsInv'
<1>1. CASE UNCHANGED reportVars
    BY <1>1, QuietSteps DEF reportVars
<1>2. ASSUME NEW g \in Games, AnalysisStep(g) PROVE ReportsInv'
    <2>1. CASE Upload(g) \/ WriteMoves(g) \/ MarkAnalysed(g)
        BY <2>1, UploadKeeps, WriteMovesKeeps, MarkAnalysedKeeps
    <2>2. CASE ~(Upload(g) \/ WriteMoves(g) \/ MarkAnalysed(g))
        <3>1. UNCHANGED <<tables, request>>
            BY <1>2, <2>2 DEF AnalysisStep, Analyse, SkipStep, ComputeStep, LookForTraps, SaveMatch, TrapsAreSaved, StepFails,
               CutShort, Record
        <3> QED BY <3>1, QuietSteps
    <2> QED BY <2>1, <2>2
<1>3. ASSUME (\E g \in Games : BackfillGame(g) \/ FillEco(g)) \/ BeginBackfill \/ EndBackfill
             \/ (\E m \in backfill.todo : BackfillMatch(m)) \/ BeginWipe \/ WipeFails
      PROVE  ReportsInv'
    <2>1. UNCHANGED <<tables, request>>
        BY <1>3 DEF BackfillGame, FillEco, BeginBackfill, EndBackfill, BackfillMatch, BeginWipe, WipeFails
    <2> QED BY <2>1, QuietSteps
<1>4. CASE Tables
    BY <1>2, <1>3, <1>4, ImportKeeps, FillPhaseKeeps, DeleteProfileKeeps, WipeTableKeeps, RestEndsKeeps DEF Tables
<1>5. CASE \E f \in Filters : AskCollapse(f) \/ AskPuzzle(f)
    BY <1>5, AskCollapseKeeps, PuzzleKeeps
<1>6. CASE AnswerCollapse \/ Sent
    BY <1>6, AnswerKeeps
<1>7. CASE Puzzle
    BY <1>7, PuzzleKeeps, FilterKeeps
<1>8. CASE \E g \in Games : \E m \in Known(g) :
              AskSpecific(g, m) \/ \E right \in BOOLEAN : SubmitAttempt(g, m.ply, right)
    BY <1>8, PuzzleKeeps, SubmitKeeps
<1> QED BY <1>1, <1>4, <1>5, <1>6, <1>7, <1>8 DEF ReportsNext

(* What the reports rest on, in every state: an analysed game is indexed,   *)
(* an attempt is whole, what one chooses from was solved only since it was *)
(* looked up (get_recently_solved_puzzles), and a collapse report nothing   *)
(* was written under holds the first blunders there are.                    *)
THEOREM ReportsRest == ReportsSpec => []ReportsInv
<1>1. ReportsInit => ReportsInv
    BY RequestInit
<1>2. ReportsInv /\ [ReportsNext]_reportVars => ReportsInv'
    BY ReportsStep
<1> QED BY <1>1, <1>2, PTL DEF ReportsSpec

(* The action of SolvedRests, from the invariant.                           *)
LEMMA OnlyChooseLoads ==
    ASSUME ReportsInv, [ReportsNext]_reportVars, Choosing, request' # Idle, request'.step = "load"
    PROVE  \E r \in request.left : request'.left = {r}
<1>1. request.step = "choose" /\ request.kind = "puzzle"
    BY DEF Choosing
<1>2. ASSUME request' = request PROVE FALSE
    BY <1>1, <1>2
<1>3. ~ UNCHANGED reportVars
    BY <1>2 DEF reportVars
<1>4. Touched => request' = request
    BY <1>1 DEF Touched
<1>5. ~Tables
    <2>1. \A g : ~AnalysisStep(g)
        BY <1>2, <1>4 DEF AnalysisStep, Analyse, Upload, SkipStep, ComputeStep, WriteMoves, LookForTraps, SaveMatch,
           TrapsAreSaved, StepFails, CutShort, Record, MarkAnalysed
    <2> QED BY <1>2, <1>4, <2>1 DEF Tables, Import, FillEco, FillPhase, DeleteProfile, BackfillGame, BeginBackfill,
           EndBackfill, BackfillMatch, BeginWipe, WipeTable, WipeFails, RestEnds
<1>6. request # Idle
    BY <1>1 DEF Idle
<1>7. ~ (\E f \in Filters : AskCollapse(f) \/ AskPuzzle(f)) /\ ~AnswerCollapse /\ ~Sent
    BY <1>1, <1>6 DEF AskCollapse, AskPuzzle, AnswerCollapse, Sent
<1>8. \A g, m : ~AskSpecific(g, m)
    BY <1>6 DEF AskSpecific
<1>9. \A g, ply : \A right \in BOOLEAN : ~SubmitAttempt(g, ply, right)
    <2> SUFFICES ASSUME NEW g, NEW ply, NEW right \in BOOLEAN, SubmitAttempt(g, ply, right) PROVE FALSE
        OBVIOUS
    <2>1. Choosing'
        BY SubmitKeeps
    <2> QED BY <2>1 DEF Choosing
<1>10. Puzzle
    BY <1>3, <1>5, <1>7, <1>8, <1>9 DEF ReportsNext
<1>11. ~FetchBlunders /\ ~FilterByDate /\ ~FilterRecentlySolved /\ ~Serve
    BY <1>1 DEF FetchBlunders, FilterByDate, FilterRecentlySolved, Serve
<1>12. ~NoBlundersFound /\ ~GameNotFound
    BY <1>1 DEF NoBlundersFound, GameNotFound, Fails
<1>13. Choose
    BY <1>10, <1>11, <1>12 DEF Puzzle
<1>14. PICK r \in request.left : request' = [kind |-> "puzzle", step |-> "load", left |-> {r}]
    BY <1>13 DEF Choose, Goes
<1>15. request'.left = {r}
    BY <1>14
<1> QED BY <1>14, <1>15

(* No puzzle is chosen that was solved a short while ago, unless the answer *)
(* came while the request was choosing (Trainer._filter_recently_solved     *)
(* reads the solved ones before the choice).                                *)
THEOREM NoSolvedPuzzleIsChosen == ReportsSpec => SolvedRests
<1> DEFINE Rests ==
        request.kind = "puzzle" /\ request.step = "choose" /\ request' # Idle /\ request'.step = "load" =>
            \A r \in request'.left, n \in DOMAIN attempts :
               attempts[n].right /\ attempts[n].resting /\ <<attempts[n].game, attempts[n].ply>> = <<r[1], r[2].ply>>
                 => <<r[1], r[2].ply>> \in request.late
<1>1. ASSUME ReportsInv, [ReportsNext]_reportVars, Choosing, request' # Idle, request'.step = "load",
             NEW r \in request'.left, NEW n \in DOMAIN attempts, attempts[n].right, attempts[n].resting,
             <<attempts[n].game, attempts[n].ply>> = <<r[1], r[2].ply>>
      PROVE  <<r[1], r[2].ply>> \in request.late
    <2>1. r \in request.left
        BY <1>1, OnlyChooseLoads
    <2>2. <<r[1], r[2].ply>> \in Solved
        BY <1>1 DEF Solved, ToSet
    <2> QED BY <1>1, <2>1, <2>2 DEF ReportsInv, LeftIsFresh
<1>2. ReportsInv /\ [ReportsNext]_reportVars => [Rests]_reportVars
    BY <1>1 DEF Choosing
<1> QED BY <1>2, ReportsRest, PTL DEF ReportsSpec, SolvedRests

-----------------------------------------------------------------------------
(* Sums over functions.                                                     *)

LEMMA SmallestSet ==
    ASSUME NEW S, IsFiniteSet(S), NEW B \in SUBSET SUBSET S, B # {}
    PROVE  \E s \in B : \A t \in B : t \subseteq s => t = s
<1>1. IsWellFoundedOn(StrictSubsetOrdering(S), SUBSET S)
    BY FS_StrictSubsetOrderingWellFounded, FS_FiniteSubsetsOfFinite
<1>2. PICK s \in B : \A t \in B : ~ (<<t, s>> \in StrictSubsetOrdering(S))
    BY <1>1, WFMin
<1> QED BY <1>2 DEF StrictSubsetOrdering

LEMMA LowestIs ==
    ASSUME NEW S \in SUBSET Nat, S # {}
    PROVE  \E m \in S : \A i \in S : m <= i
<1>1. PICK m \in S : \A i \in S : <<i, m>> \notin OpToRel(<, Nat)
    BY NatLessThanWellFounded, WFMin
<1>2. \A i \in S : ~(i < m)
    BY <1>1 DEF OpToRel
<1> QED BY <1>2

LEMMA FiniteImage ==
    ASSUME NEW f, IsFiniteSet(DOMAIN f)
    PROVE  IsFiniteSet({f[k] : k \in DOMAIN f}) /\ Cardinality({f[k] : k \in DOMAIN f}) <= Cardinality(DOMAIN f)
<1> DEFINE T == {f[k] : k \in DOMAIN f}
           g == [k \in DOMAIN f |-> f[k]]
<1>1. g \in [DOMAIN f -> T] /\ \A y \in T : \E k \in DOMAIN f : g[k] = y
    OBVIOUS
<1>2. g \in Surjection(DOMAIN f, T)
    BY <1>1 DEF Surjection
<1> QED BY <1>2, FS_Surjection

(* The parts of a finite set.                                               *)
LEMMA UnionOfParts ==
    ASSUME NEW C, NEW s \in SUBSET DOMAIN C, IsFiniteSet(DOMAIN C), \A k \in DOMAIN C : IsFiniteSet(C[k])
    PROVE  IsFiniteSet(UNION {C[k] : k \in s})
<1> DEFINE f == [k \in s |-> C[k]]
<1>1. IsFiniteSet(s) /\ DOMAIN f = s
    BY FS_Subset
<1>2. {f[k] : k \in DOMAIN f} = {C[k] : k \in s}
    OBVIOUS
<1>3. IsFiniteSet({C[k] : k \in s})
    BY <1>1, <1>2, FiniteImage
<1> QED BY <1>3, FS_UNION

LEMMA DisjointUnion ==
    ASSUME NEW S, NEW T, IsFiniteSet(S), IsFiniteSet(T), S \cap T = {}
    PROVE  IsFiniteSet(S \cup T) /\ Cardinality(S \cup T) = Cardinality(S) + Cardinality(T)
<1>1. Cardinality(S) \in Nat /\ Cardinality(T) \in Nat /\ Cardinality(S \cap T) = 0
    BY FS_CardinalityType, FS_EmptySet
<1>2. IsFiniteSet(S \cup T) /\ Cardinality(S \cup T) = Cardinality(S) + Cardinality(T) - Cardinality(S \cap T)
    BY FS_Union
<1> QED BY <1>1, <1>2

(* The sum of a function whose values count disjoint sets counts them all.  *)
LEMMA SumOfParts ==
    ASSUME NEW C, IsFiniteSet(DOMAIN C), \A k \in DOMAIN C : IsFiniteSet(C[k]),
           \A j, k \in DOMAIN C : j # k => C[j] \cap C[k] = {}
    PROVE  /\ IsFiniteSet(UNION {C[k] : k \in DOMAIN C})
           /\ SumFunction([k \in DOMAIN C |-> Cardinality(C[k])]) = Cardinality(UNION {C[k] : k \in DOMAIN C})
<1> DEFINE D == DOMAIN C
           fun == [k \in D |-> Cardinality(C[k])]
           U(s) == UNION {C[k] : k \in s}
           pick(s) == CHOOSE x \in s : TRUE
           F == [s \in SUBSET D |-> Cardinality(U(s))]
           Is(g) == g = [s \in SUBSET D |-> IF s = {} THEN 0 ELSE fun[pick(s)] + g[s \ {pick(s)}]]
           iter == CHOOSE g : Is(g)
<1>1. \A s \in SUBSET D : IsFiniteSet(U(s))
    BY UnionOfParts
<1>2. F[{}] = 0
    <2>1. U({}) = {} /\ {} \in SUBSET D
        OBVIOUS
    <2> QED BY <2>1, FS_EmptySet
<1>3. ASSUME NEW s \in SUBSET D, s # {}
      PROVE  pick(s) \in s /\ F[s] = fun[pick(s)] + F[s \ {pick(s)}]
    <2> DEFINE x == pick(s)
    <2>1. x \in s
        BY <1>3
    <2> HIDE DEF x
    <2>2. U(s) = C[x] \cup U(s \ {x})
        BY <2>1
    <2>3. C[x] \cap U(s \ {x}) = {}
        BY <2>1
    <2>4. s \ {x} \in SUBSET D
        OBVIOUS
    <2>5. IsFiniteSet(C[x]) /\ IsFiniteSet(U(s \ {x}))
        BY <2>1, <2>4, <1>1
    <2>8. Cardinality(U(s)) = Cardinality(C[x]) + Cardinality(U(s \ {x}))
        BY <2>2, <2>3, <2>5, DisjointUnion
    <2>9. F[s] = fun[x] + F[s \ {x}]
        BY <2>1, <2>4, <2>8
    <2> QED BY <2>1, <2>9 DEF x
<1>4. SumFunction(fun) = iter[D]
    BY DEF SumFunction, SumFunctionOnSet, FoldFunctionOnSet, MapThenFoldSet
<1> HIDE DEF F
<1>5. \A s \in SUBSET D : F[s] = IF s = {} THEN 0 ELSE fun[pick(s)] + F[s \ {pick(s)}]
    BY <1>2, <1>3
<1>6. F = [s \in SUBSET D |-> F[s]]
    BY DEF F
<1>7. Is(F)
    BY <1>5, <1>6
<1>8. Is(iter)
    <2> HIDE DEF Is
    <2> QED BY <1>7
<1> HIDE DEF iter
<1>9. \A s \in SUBSET D : iter[s] = IF s = {} THEN 0 ELSE fun[pick(s)] + iter[s \ {pick(s)}]
    BY <1>8
<1> DEFINE Bad == {s \in SUBSET D : iter[s] # F[s]}
<1> HIDE DEF Is, fun, pick
<1> HIDE DEF Bad
<1>10. Bad = {}
    <2> SUFFICES ASSUME Bad # {} PROVE FALSE
        OBVIOUS
    <2>0. Bad \in SUBSET SUBSET D
        BY DEF Bad
    <2>1. PICK s \in Bad : \A t \in Bad : t \subseteq s => t = s
        BY <2>0, SmallestSet
    <2>a. s \in SUBSET D /\ iter[s] # F[s]
        BY DEF Bad
    <2>2. s # {}
        BY <1>5, <1>9, <2>a
    <2>3. pick(s) \in s /\ s \ {pick(s)} \in SUBSET D /\ s \ {pick(s)} \subseteq s /\ s \ {pick(s)} # s
        BY <1>3, <2>2, <2>a
    <2>4. iter[s \ {pick(s)}] = F[s \ {pick(s)}]
        BY <2>1, <2>3 DEF Bad
    <2>5. iter[s] = F[s]
        BY <1>5, <1>9, <2>2, <2>4, <2>a
    <2> QED BY <2>5, <2>a
<1>11. iter[D] = F[D]
    BY <1>10 DEF Bad
<1>12. F[D] = Cardinality(U(D))
    BY DEF F
<1> QED BY <1>1, <1>4, <1>11, <1>12 DEF fun

LEMMA GroupsAdd ==
    ASSUME NEW group, IsFiniteSet(DOMAIN group)
    PROVE  SumFunction(GroupBy(group)) = Cardinality(DOMAIN group)
<1> DEFINE K == {group[r] : r \in DOMAIN group}
           C == [k \in K |-> {r \in DOMAIN group : group[r] = k}]
<1>1. DOMAIN C = K /\ IsFiniteSet(K)
    BY FiniteImage
<1>2. \A k \in K : C[k] = {r \in DOMAIN group : group[r] = k} /\ C[k] \subseteq DOMAIN group
    OBVIOUS
<1>3. \A k \in K : IsFiniteSet(C[k])
    BY <1>2, FS_Subset
<1>4. UNION {C[k] : k \in DOMAIN C} = DOMAIN group
    <2>1. \A r \in DOMAIN group : group[r] \in K /\ r \in C[group[r]]
        BY <1>2
    <2> HIDE DEF C, K
    <2> QED BY <1>1, <1>2, <2>1
<1>5. \A j, k \in K : j # k => C[j] \cap C[k] = {}
    BY <1>2
<1>6. GroupBy(group) = [k \in K |-> Cardinality(C[k])]
    BY <1>2 DEF GroupBy
<1> HIDE DEF C, K
<1> QED BY <1>1, <1>3, <1>4, <1>5, <1>6, SumOfParts

-----------------------------------------------------------------------------
(* The collapse report.                                                     *)

LEMMA SelectedAre ==
    ASSUME NEW f \in Filters, index \subseteq Games
    PROVE  \A r : r \in Selected(f) <=> \E g, m : /\ r = <<g, m>> /\ g \in index /\ g \in moves
                                                  /\ g \in Matching[f] /\ m \in Own[g]
                                                  /\ PhaseMatches(m, g \in phased, f)
<1>1. \A g \in Games : \A whole \in BOOLEAN :
        Selection[f][g][whole] = {m \in Own[g] : g \in Matching[f] /\ PhaseMatches(m, whole, f)}
    BY DEF Selection
<1>2. \A r : r \in Selected(f) <=> \E g \in index \cap moves : r \in {g} \X Selection[f][g][(g \in phased)]
    BY DEF Selected
<1>3. \A r, g, S : r \in {g} \X S <=> \E m \in S : r = <<g, m>>
    OBVIOUS
<1>4. \A r : r \in Selected(f) <=>
        \E g \in index \cap moves : \E m \in Selection[f][g][(g \in phased)] : r = <<g, m>>
    BY <1>2, <1>3
<1>5. ASSUME NEW g \in Games, NEW m
      PROVE  m \in Selection[f][g][(g \in phased)] <=>
                m \in Own[g] /\ g \in Matching[f] /\ PhaseMatches(m, g \in phased, f)
    <2>1. CASE g \in phased
        <3>1. (g \in phased) = TRUE
            BY <2>1
        <3>2. m \in Selection[f][g][TRUE] <=> m \in Own[g] /\ g \in Matching[f] /\ PhaseMatches(m, TRUE, f)
            BY <1>1
        <3>3. PhaseMatches(m, TRUE, f) <=> PhaseMatches(m, g \in phased, f)
            BY <2>1 DEF PhaseMatches
        <3>4. Selection[f][g][(g \in phased)] = Selection[f][g][TRUE]
            BY <3>1, Zenon
        <3> QED BY <3>2, <3>3, <3>4
    <2>2. CASE g \notin phased
        <3>1. (g \in phased) = FALSE
            BY <2>2
        <3>2. m \in Selection[f][g][FALSE] <=> m \in Own[g] /\ g \in Matching[f] /\ PhaseMatches(m, FALSE, f)
            BY <1>1
        <3>3. PhaseMatches(m, FALSE, f) <=> PhaseMatches(m, g \in phased, f)
            BY <2>2 DEF PhaseMatches
        <3>4. Selection[f][g][(g \in phased)] = Selection[f][g][FALSE]
            BY <3>1, Zenon
        <3> QED BY <3>2, <3>3, <3>4
    <2> QED BY <2>1, <2>2
<1> QED BY <1>4, <1>5

LEMMA FirstsAre ==
    ASSUME ReportsInv, NEW f \in Filters
    PROVE  /\ DOMAIN FirstBlunders(f) = {r[1] : r \in {b \in Blunders(f) : b[1] \in analysed}}
           /\ \A r \in Blunders(f) : r[1] \in index \cap Matching[f]
<1>1. index \subseteq Games
    BY DEF ReportsInv, TablesTyped
<1>2. \A r \in Blunders(f) : r \in Selected(f)
    BY DEF Blunders
<1>3. \A r \in Blunders(f) : r[1] \in index \cap Matching[f]
    BY <1>1, <1>2, SelectedAre
<1> QED BY <1>3 DEF FirstBlunders

(* The clean games and the others are the analysed ones.                    *)
LEMMA CleanAndOthers ==
    ASSUME ReportsInv, ReportsAssumption, NEW f \in Filters
    PROVE  /\ IsFiniteSet(DOMAIN FirstBlunders(f))
           /\ CountAnalysed(f) - Cardinality(DOMAIN FirstBlunders(f))
                = Cardinality({g \in index \cap analysed \cap Matching[f] : \A r \in Blunders(f) : r[1] # g})
<1> DEFINE A == index \cap analysed \cap Matching[f]
           W == DOMAIN FirstBlunders(f)
           clean == {g \in A : \A r \in Blunders(f) : r[1] # g}
<1>1. IsFiniteSet(A)
    BY FS_Subset DEF ReportsInv, TablesTyped, ReportsAssumption
<1>2. W \subseteq A /\ clean = A \ W
    <2>1. W = {r[1] : r \in {b \in Blunders(f) : b[1] \in analysed}}
        BY FirstsAre
    <2> HIDE DEF W
    <2>2. \A g : g \in W <=> g \in analysed /\ \E r \in Blunders(f) : r[1] = g
        BY <2>1
    <2>3. W \subseteq A
        <3>1. \A r \in Blunders(f) : r[1] \in index \cap Matching[f]
            BY FirstsAre
        <3> QED BY <2>2, <3>1
    <2>4. \A g \in A : g \in clean <=> g \notin W
        BY <2>2
    <2> QED BY <2>3, <2>4
<1>3. A \cap W = W
    BY <1>2
<1>4. IsFiniteSet(W)
    BY <1>1, <1>2, FS_Subset
<1>5. Cardinality(A \ W) = Cardinality(A) - Cardinality(A \cap W)
    BY <1>1, FS_Difference
<1> QED BY <1>2, <1>3, <1>4, <1>5 DEF CountAnalysed

LEMMA BucketsAdd ==
    ASSUME NEW firsts, IsFiniteSet(DOMAIN firsts)
    PROVE  SumFunction(Distribution(firsts)) = Cardinality(DOMAIN firsts)
<1> DEFINE group == [g \in DOMAIN firsts |-> Bucket(firsts[g])]
<1>1. GroupBy(group) = Distribution(firsts)
    BY DEF GroupBy, Distribution
<1>2. DOMAIN group = DOMAIN firsts
    OBVIOUS
<1> QED BY <1>1, <1>2, GroupsAdd

(* Only the second query of a collapse report answers it.                   *)
LEMMA OnlyAnswers ==
    ASSUME ReportsInv, [ReportsNext]_reportVars, request.kind = "collapse", request'.kind = "collapsed"
    PROVE  AnswerCollapse
<1>1. request' # request /\ ~ UNCHANGED reportVars
    BY DEF reportVars
<1>2. ASSUME Touched PROVE FALSE
    <2> DEFINE Made(f, x, m) == [kind |-> "collapse", filter |-> f, firsts |-> x, moved |-> m]
    <2>1. PICK f, x, m : request = Made(f, x, m)
        BY DEF ReportsInv, FirstsFit
    <2>2. request' = Made(f, x, TRUE)
        BY <1>2, <2>1, MovedRequest DEF Touched
    <2>3. request'.kind = "collapse"
        BY <2>2
    <2> QED BY <2>3
<1>3. ~Tables
    <2>1. \A g : ~AnalysisStep(g)
        BY <1>1, <1>2 DEF AnalysisStep, Analyse, Upload, SkipStep, ComputeStep, WriteMoves, LookForTraps, SaveMatch,
           TrapsAreSaved, StepFails, CutShort, Record, MarkAnalysed
    <2> QED BY <1>1, <1>2, <2>1 DEF Tables, Import, FillEco, FillPhase, DeleteProfile, BackfillGame, BeginBackfill,
           EndBackfill, BackfillMatch, BeginWipe, WipeTable, WipeFails, RestEnds
<1>4. request # Idle
    BY DEF Idle
<1>5. ~ (\E f \in Filters : AskCollapse(f) \/ AskPuzzle(f)) /\ ~Sent /\ \A g, m : ~AskSpecific(g, m)
    BY <1>4 DEF AskCollapse, AskPuzzle, AskSpecific, Sent
<1>6. ~Puzzle
    BY DEF Puzzle, FetchBlunders, FilterByDate, FilterRecentlySolved, NoBlundersFound, Serve, GameNotFound, Choose
<1>7. \A g, ply, right : ~SubmitAttempt(g, ply, right)
    BY <1>1 DEF SubmitAttempt
<1> QED BY <1>1, <1>3, <1>5, <1>6, <1>7 DEF ReportsNext

(* A collapse report nothing was written under is exact: its clean games    *)
(* are the analysed ones without a blunder of the user's, and its buckets   *)
(* add up to the others (get_collapse_point).                               *)
THEOREM CollapseAddsUp == ReportsSpec => CollapseIsExact
<1> DEFINE Exact ==
        request.kind = "collapse" /\ ~request.moved /\ request'.kind = "collapsed" =>
            /\ request'.total_games_without_blunders =
                 Cardinality({g \in index \cap analysed \cap Matching[request.filter] :
                                \A r \in Blunders(request.filter) : r[1] # g})
            /\ SumFunction(request'.distribution) = request'.total_games_with_blunders
<1>1. ASSUME ReportsInv, [ReportsNext]_reportVars,
             request.kind = "collapse", ~request.moved, request'.kind = "collapsed"
      PROVE  /\ request'.total_games_without_blunders =
                  Cardinality({g \in index \cap analysed \cap Matching[request.filter] :
                                 \A r \in Blunders(request.filter) : r[1] # g})
             /\ SumFunction(request'.distribution) = request'.total_games_with_blunders
    <2> DEFINE f == request.filter
               with == Cardinality(DOMAIN FirstBlunders(f))
    <2>1. AnswerCollapse
        BY <1>1, OnlyAnswers
    <2>2. f \in Filters /\ request.firsts = FirstBlunders(f)
        BY <1>1 DEF ReportsInv, FirstsFit
    <2>3. request' = [kind |-> "collapsed", total_games_with_blunders |-> with,
                      total_games_without_blunders |-> CountAnalysed(f) - with,
                      distribution |-> Distribution(FirstBlunders(f))]
        BY <2>1, <2>2 DEF AnswerCollapse
    <2>4. /\ request'.total_games_with_blunders = with
          /\ request'.total_games_without_blunders = CountAnalysed(f) - with
          /\ request'.distribution = Distribution(FirstBlunders(f))
        BY <2>3
    <2> HIDE DEF f
    <2>5. /\ IsFiniteSet(DOMAIN FirstBlunders(f))
          /\ CountAnalysed(f) - with
               = Cardinality({g \in index \cap analysed \cap Matching[f] : \A r \in Blunders(f) : r[1] # g})
        BY <1>1, <2>2, CleanAndOthers, ReportsAssumption
    <2>6. SumFunction(Distribution(FirstBlunders(f))) = with
        BY <2>5, BucketsAdd
    <2> QED BY <2>4, <2>5, <2>6 DEF f
<1>2. ReportsInv /\ [ReportsNext]_reportVars => [Exact]_reportVars
    BY <1>1
<1> QED BY <1>2, ReportsRest, PTL DEF ReportsSpec, CollapseIsExact

-----------------------------------------------------------------------------
(* The windows of the growth report.                                        *)

LEMMA WholeWindows ==
    ASSUME NEW n \in Nat, NEW w \in Nat, w # 0, NEW k \in 1..(n \div w)
    PROVE  (k - 1) * w \in Nat /\ (k - 1) * w + w <= n
<1>1. (n \div w) \in Nat /\ (n \div w) * w <= n
    OBVIOUS
<1>2. k \in Nat /\ k >= 1 /\ k <= n \div w
    BY <1>1
<1>3. k * w <= (n \div w) * w
    BY <1>1, <1>2
<1>4. (k - 1) * w + w = k * w
    BY <1>2
<1>5. (k - 1) * w \in Nat
    BY <1>2
<1>6. k * w \in Nat /\ (n \div w) * w \in Nat
    BY <1>1, <1>2
<1> QED BY <1>1, <1>3, <1>4, <1>5, <1>6

LEMMA MoreWindows ==
    ASSUME NEW m \in Nat, NEW n \in Nat, NEW w \in Nat, w # 0, m <= n
    PROVE  m \div w \in Nat /\ n \div w \in Nat /\ m \div w <= n \div w
OBVIOUS

WindowsOf(games) == [k \in 1..(Len(games) \div Window) |-> Totals(WindowOf(games, k))]

LEMMA WindowsOfAPrefix ==
    ASSUME ReportsAssumption, NEW S, NEW s \in Seq(S), NEW t \in Seq(S), IsPrefix(s, t)
    PROVE  IsPrefix(WindowsOf(s), WindowsOf(t))
<1>1. Window \in Nat /\ Window # 0
    BY DEF ReportsAssumption
<1>2. Len(s) \in Nat /\ Len(t) \in Nat /\ Len(s) <= Len(t) /\ \A i \in 1..Len(s) : s[i] = t[i]
    BY DEF IsPrefix
<1> DEFINE a == Len(s) \div Window
           b == Len(t) \div Window
<1>3. a \in Nat /\ b \in Nat /\ a <= b
    BY <1>1, <1>2, MoreWindows
<1>4. ASSUME NEW k \in 1..a PROVE WindowOf(s, k) = WindowOf(t, k)
    <2>1. (k - 1) * Window \in Nat /\ (k - 1) * Window + Window <= Len(s)
        BY <1>1, <1>2, WholeWindows
    <2> DEFINE start == (k - 1) * Window
    <2>2. start \in Nat /\ start + Window <= Len(s) /\ 0 + start = start
        BY <2>1
    <2>3. /\ WindowOf(s, k) = SubSeq(s, 0 + start + 1, 0 + start + Window)
          /\ WindowOf(t, k) = SubSeq(t, 0 + start + 1, 0 + start + Window)
        BY Zenon DEF WindowOf, FromOldest
    <2> HIDE DEF start
    <2>4. SubSeq(s, start + 1, start + Window) = SubSeq(t, start + 1, start + Window)
        BY <1>1, <1>2, <2>2
    <2> QED BY <2>2, <2>3, <2>4
<1>5. /\ DOMAIN WindowsOf(s) = 1..a /\ DOMAIN WindowsOf(t) = 1..b
      /\ \A k \in 1..a : WindowsOf(s)[k] = Totals(WindowOf(s, k))
      /\ \A k \in 1..b : WindowsOf(t)[k] = Totals(WindowOf(t, k))
    BY DEF WindowsOf
<1> HIDE DEF a, b
<1>6. \A k \in 1..a : WindowsOf(s)[k] = WindowsOf(t)[k]
    BY <1>3, <1>4, <1>5
<1>7. Len(WindowsOf(s)) = a /\ Len(WindowsOf(t)) = b
    BY <1>3, <1>5
<1> QED BY <1>3, <1>5, <1>6, <1>7 DEF IsPrefix

LEMMA InOrderIs ==
    ASSUME ReportsAssumption, NEW X \in SUBSET Games
    PROVE  IsFiniteSet(X) /\ Cardinality(X) \in Nat /\ DOMAIN InOrder[X] = 1..Cardinality(X)
BY FS_Subset, FS_CardinalityType DEF ReportsAssumption, InOrder

GrowthEntries == {Entry[InOrder[X][n]] : X \in SUBSET Games, n \in Nat}

GrowthTyped == \A f \in Filters : Growth(f) \in Seq(GrowthEntries)

LEMMA GrowthIs == ReportsInv => GrowthTyped
<1> SUFFICES ASSUME ReportsInv, NEW f \in Filters PROVE Growth(f) \in Seq(GrowthEntries)
    BY DEF GrowthTyped
<1> DEFINE X == {g \in index \cap analysed \cap moves \cap Matching[f] : Own[g] # {}}
<1>1. X \in SUBSET Games
    BY DEF ReportsInv, TablesTyped
<1> HIDE DEF X
<1>2. Cardinality(X) \in Nat /\ DOMAIN InOrder[X] = 1..Cardinality(X)
    BY <1>1, InOrderIs, ReportsAssumption
<1>3. Growth(f) = [n \in 1..Cardinality(X) |-> Entry[InOrder[X][n]]]
    BY <1>2 DEF Growth, X
<1>4. \A n \in 1..Cardinality(X) : Entry[InOrder[X][n]] \in GrowthEntries
    BY <1>1, <1>2 DEF GrowthEntries
<1> QED BY <1>2, <1>3, <1>4

(* A full window of the growth report stays as it is while the list of      *)
(* games grows at its end (_compute_growth_windows).                        *)
THEOREM FullWindowsStand == ReportsSpec => WindowsStand
<1> DEFINE Stand ==
        \A g \in Games : MarkAnalysed(g) =>
            \A f \in Filters : IsPrefix(Growth(f), Growth(f)') => IsPrefix(Windows(f), Windows(f)')
<1>1. ASSUME ReportsInv, [ReportsNext]_reportVars, NEW f \in Filters, IsPrefix(Growth(f), Growth(f)')
      PROVE  IsPrefix(Windows(f), Windows(f)')
    <2>1. ReportsInv'
        BY <1>1, ReportsStep
    <2>2. Growth(f) \in Seq(GrowthEntries)
        BY <1>1, GrowthIs DEF GrowthTyped
    <2>3. Growth(f)' \in Seq(GrowthEntries)
        <3>1. (ReportsInv => GrowthTyped)'
            BY GrowthIs, PTL
        <3>2. GrowthTyped'
            BY <2>1, <3>1
        <3> QED BY <3>2 DEF GrowthTyped
    <2>4. Windows(f) = WindowsOf(Growth(f)) /\ Windows(f)' = WindowsOf(Growth(f)')
        BY DEF Windows, WindowsOf
    <2> QED BY <1>1, <2>2, <2>3, <2>4, WindowsOfAPrefix, ReportsAssumption
<1>2. ReportsInv /\ [ReportsNext]_reportVars => [Stand]_reportVars
    BY <1>1
<1> QED BY <1>2, ReportsRest, PTL DEF ReportsSpec, WindowsStand

-----------------------------------------------------------------------------
(* The breakdowns.                                                          *)

LEMMA SelectedFinite ==
    ASSUME ReportsInv, NEW f \in Filters
    PROVE  IsFiniteSet(Selected(f)) /\ IsFiniteSet(Blunders(f))
<1>1. index \cap moves \subseteq Games
    BY DEF ReportsInv, TablesTyped
<1>2. ASSUME NEW g \in Games PROVE IsFiniteSet({g} \X Selection[f][g][(g \in phased)])
    <2> DEFINE j == [m \in Sheet[g] |-> Judged(m)]
    <2>1. Rows[g] = {j[m] : m \in DOMAIN j} /\ DOMAIN j = Sheet[g]
        BY DEF Rows
    <2> HIDE DEF j
    <2>0. IsFiniteSet(Sheet[g])
        BY ReportsAssumption DEF ReportsAssumption
    <2>2. IsFiniteSet(Rows[g])
        BY <2>0, <2>1, FiniteImage
    <2>3. (g \in phased) \in BOOLEAN /\ \A whole \in BOOLEAN : Selection[f][g][whole] \subseteq Rows[g]
        BY DEF Selection, Own
    <2>4. IsFiniteSet(Selection[f][g][(g \in phased)]) /\ IsFiniteSet({g})
        BY <2>2, <2>3, FS_Subset, FS_Singleton
    <2> QED BY <2>4, FS_Product
<1> DEFINE part(g) == {g} \X Selection[f][g][(g \in phased)]
           C == [g \in index \cap moves |-> part(g)]
<1>a. /\ \A g \in Games : IsFiniteSet(part(g))
      /\ Selected(f) = UNION {part(g) : g \in index \cap moves}
    BY <1>2 DEF Selected
<1> HIDE DEF part
<1>3. DOMAIN C = index \cap moves /\ IsFiniteSet(DOMAIN C)
    BY <1>1, FS_Subset, ReportsAssumption DEF ReportsAssumption
<1>4. \A g \in DOMAIN C : C[g] = part(g) /\ IsFiniteSet(C[g])
    BY <1>1, <1>3, <1>a
<1>5. Selected(f) = UNION {C[g] : g \in index \cap moves}
    BY <1>a
<1> HIDE DEF C
<1>6. IsFiniteSet(Selected(f))
    BY <1>3, <1>4, <1>5, UnionOfParts
<1>7. Blunders(f) \subseteq Selected(f)
    BY DEF Blunders
<1> QED BY <1>6, <1>7, FS_Subset

(* Each breakdown is one of all the blunders.                               *)
LEMMA BreakdownsAgree ==
    ASSUME ReportsInv, NEW f \in Filters
    PROVE  LET total == Overview(f).total_blunders
           IN /\ SumFunction(ByPhase(f)) = total /\ SumFunction(ByColor(f)) = total
              /\ SumFunction(ByPattern(f)) = total /\ SumFunction(ByGameType(f)) = total
              /\ SumFunction(ByDifficulty(f)) = total
<1>1. IsFiniteSet(Blunders(f))
    BY SelectedFinite
<1>2. Overview(f).total_blunders = Cardinality(Blunders(f))
    BY DEF Overview
<1> DEFINE B == Blunders(f)
<1> HIDE DEF B
<1>3. \A group : DOMAIN group = B => SumFunction(GroupBy(group)) = Cardinality(B)
    BY <1>1, GroupsAdd DEF B
<1>4. SumFunction(ByPhase(f)) = Cardinality(B)
    BY <1>3 DEF ByPhase, B
<1>5. SumFunction(ByColor(f)) = Cardinality(B)
    BY <1>3 DEF ByColor, B
<1>6. SumFunction(ByPattern(f)) = Cardinality(B)
    BY <1>3 DEF ByPattern, B
<1>7. SumFunction(ByGameType(f)) = Cardinality(B)
    BY <1>3 DEF ByGameType, B
<1>8. SumFunction(ByDifficulty(f)) = Cardinality(B)
    BY <1>3 DEF ByDifficulty, B
<1> QED BY <1>2, <1>4, <1>5, <1>6, <1>7, <1>8 DEF B

LEMMA SumOfNone == SumFunction(<<>>) = 0
<1> DEFINE C == [k \in {} |-> {}]
<1>1. <<>> = [k \in DOMAIN C |-> Cardinality(C[k])]
    OBVIOUS
<1>2. UNION {C[k] : k \in DOMAIN C} = {} /\ DOMAIN C = {} /\ IsFiniteSet({}) /\ Cardinality({}) = 0
    BY FS_EmptySet
<1>3. /\ IsFiniteSet(DOMAIN C) /\ \A k \in DOMAIN C : IsFiniteSet(C[k])
      /\ \A j, k \in DOMAIN C : j # k => C[j] \cap C[k] = {}
    BY <1>2
<1> HIDE DEF C
<1>4. SumFunction([k \in DOMAIN C |-> Cardinality(C[k])]) = Cardinality(UNION {C[k] : k \in DOMAIN C})
    BY <1>3, SumOfParts
<1> QED BY <1>1, <1>2, <1>4

LEMMA SortedAdds ==
    ASSUME NEW group, IsFiniteSet(DOMAIN group), NEW null
    PROVE  SumFunction(Sorted(GroupBy(group), null)) \in {0, Cardinality(DOMAIN group)}
<1>1. Sorted(GroupBy(group), null) \in {<<>>, GroupBy(group)}
    BY DEF Sorted
<1> QED BY <1>1, SumOfNone, GroupsAdd

(* The games of the days and hours are some of the analysed ones.           *)
LEMMA AccurateAgree ==
    ASSUME ReportsInv, NEW f \in Filters
    PROVE  \A games \in {SumFunction(GamesByDay(f)), SumFunction(GamesByHour(f))} :
              games <= Overview(f).analyzed_games
<1> DEFINE A == Accurate(f)
           all == index \cap Matching[f] \cap analysed
           day == [g \in A |-> Row[g].day]
           hour == [g \in A |-> HourOf(g)]
<1>1. index \subseteq Games
    BY DEF ReportsInv, TablesTyped
<1>2. IsFiniteSet(all)
    BY <1>1, FS_Subset, ReportsAssumption DEF ReportsAssumption
<1>3. \A r \in Selected(f) : r[1] \in index \cap Matching[f]
    BY <1>1, SelectedAre
<1>4. A \subseteq all
    BY <1>3 DEF Accurate
<1>5. IsFiniteSet(A) /\ Cardinality(A) <= Cardinality(all) /\ Cardinality(A) \in Nat /\ Cardinality(all) \in Nat
    BY <1>2, <1>4, FS_Subset, FS_CardinalityType
<1>6. Overview(f).analyzed_games = Cardinality(all)
    BY DEF Overview
<1>7. /\ DOMAIN day = A /\ GamesByDay(f) = Sorted(GroupBy(day), NoDay)
      /\ DOMAIN hour = A /\ GamesByHour(f) = Sorted(GroupBy(hour), NoClock)
    BY DEF GamesByDay, GamesByHour
<1> HIDE DEF A, all, day, hour
<1>8. SumFunction(GamesByDay(f)) \in {0, Cardinality(A)} /\ SumFunction(GamesByHour(f)) \in {0, Cardinality(A)}
    BY <1>5, <1>7, SortedAdds
<1> QED BY <1>5, <1>6, <1>8

LEMMA SourcesAgree ==
    ASSUME ReportsInv, NEW f \in Filters
    PROVE  Overview(f).total_games <= SumFunction(BySource)
<1> DEFINE group == [g \in index |-> Row[g].source]
<1>1. DOMAIN group = index /\ BySource = GroupBy(group)
    BY DEF BySource
<1>2. index \subseteq Games
    BY DEF ReportsInv, TablesTyped
<1>3. IsFiniteSet(index)
    BY <1>2, FS_Subset, ReportsAssumption DEF ReportsAssumption
<1>4. Cardinality(index \cap Matching[f]) <= Cardinality(index)
    BY <1>3, FS_Subset
<1> HIDE DEF group
<1>5. SumFunction(BySource) = Cardinality(index)
    BY <1>1, <1>3, GroupsAdd
<1> QED BY <1>4, <1>5 DEF Overview

(* A finite set of numbers has a greatest.                                  *)
LEMMA GreatestIs ==
    ASSUME NEW S, NEW numbers, IsFiniteSet(S), S # {}, \A k \in S : numbers[k] \in Nat
    PROVE  \E m \in S : \A k \in S : numbers[k] <= numbers[m]
<1> DEFINE Led(T) == \E m \in T : \A k \in T : numbers[k] <= numbers[m]
           Bad == {T \in SUBSET S : T # {} /\ ~Led(T)}
<1>1. Bad = {}
    <2> SUFFICES ASSUME Bad # {} PROVE FALSE
        OBVIOUS
    <2>0. Bad \in SUBSET SUBSET S
        OBVIOUS
    <2>1. PICK T \in Bad : \A U \in Bad : U \subseteq T => U = T
        <3> HIDE DEF Bad
        <3> QED BY <2>0, SmallestSet
    <2>2. PICK x \in T : TRUE
        OBVIOUS
    <2>3. T \ {x} \notin Bad
        BY <2>1, <2>2
    <2>4. CASE T \ {x} = {}
        <3>1. \A k \in T : k = x /\ numbers[k] <= numbers[x]
            BY <2>2, <2>4
        <3> QED BY <2>2, <3>1
    <2>5. CASE T \ {x} # {}
        <3>1. PICK m \in T \ {x} : \A k \in T \ {x} : numbers[k] <= numbers[m]
            BY <2>3, <2>5
        <3>2. numbers[m] \in Nat /\ numbers[x] \in Nat /\ \A k \in T : numbers[k] \in Nat
            BY <2>2
        <3>3. CASE numbers[m] <= numbers[x]
            BY <2>2, <3>1, <3>2, <3>3
        <3>4. CASE numbers[x] <= numbers[m]
            BY <2>2, <3>1, <3>2, <3>4
        <3> QED BY <3>2, <3>3, <3>4
    <2> QED BY <2>4, <2>5
<1> QED BY <1>1

(* The newest few of a set of days: every later one is among them, they are *)
(* all if they are fewer, and from one of them on there are no more.        *)
Newest(D) == {d \in D : Cardinality({e \in D : e > d}) < DayLimit}
Onward(D, d) == {e \in D : e >= d}

LEMMA NewestDays ==
    ASSUME NEW D \in SUBSET Nat, IsFiniteSet(D), NEW newest, newest = Newest(D)
    PROVE  /\ \A d \in newest, e \in D : d <= e => e \in newest
           /\ Cardinality(newest) < DayLimit => newest = D
           /\ \A d \in newest : IsFiniteSet(Onward(D, d)) /\ Cardinality(Onward(D, d)) <= DayLimit
<1> DEFINE later == [d \in D |-> {e \in D : e > d}]
<1>0. DayLimit \in Nat /\ \A x \in D : x \in Nat
    BY ReportsAssumption DEF ReportsAssumption
<1>1. \A d \in D : later[d] \subseteq D /\ \A e \in D : e \in later[d] <=> e > d
    OBVIOUS
<1>2. newest = {d \in D : Cardinality(later[d]) < DayLimit}
    BY DEF Newest
<1> HIDE DEF later
<1>3. \A d \in D : IsFiniteSet(later[d]) /\ Cardinality(later[d]) \in Nat
    BY <1>1, FS_Subset, FS_CardinalityType
<1>4. IsFiniteSet(newest) /\ Cardinality(newest) \in Nat
    BY <1>2, FS_Subset, FS_CardinalityType
<1>5. ASSUME NEW d \in newest, NEW e \in D, d <= e PROVE e \in newest
    <2>1. d \in D /\ d \in Nat /\ e \in Nat
        BY <1>0, <1>2
    <2>3. \A x \in D : x > e => x > d
        BY <1>0, <1>5, <2>1
    <2>4. later[e] \subseteq later[d]
        BY <1>1, <2>1, <2>3
    <2>2. Cardinality(later[e]) <= Cardinality(later[d])
        BY <1>3, <2>1, <2>4, FS_Subset
    <2> QED BY <1>0, <1>2, <1>3, <2>1, <2>2
<1>6. ASSUME newest # D PROVE ~(Cardinality(newest) < DayLimit)
    <2> DEFINE rest == D \ newest
               itself == [d \in D |-> d]
    <2>1. rest # {} /\ IsFiniteSet(rest) /\ \A k \in rest : itself[k] \in Nat /\ itself[k] = k
        BY <1>2, <1>6, FS_Subset
    <2> HIDE DEF rest, itself
    <2>2. PICK m \in rest : \A k \in rest : itself[k] <= itself[m]
        BY <2>1, GreatestIs
    <2>3. m \in D /\ m \notin newest
        BY DEF rest
    <2>4. \A k \in rest : k <= m
        BY <2>1, <2>2
    <2>5. later[m] \subseteq newest
        <3> SUFFICES ASSUME NEW e \in later[m], e \notin newest PROVE FALSE
            OBVIOUS
        <3>1. e \in D /\ e > m
            BY <1>1, <2>3
        <3>2. e <= m
            BY <2>4, <3>1 DEF rest
        <3> QED BY <2>3, <3>1, <3>2
    <2>6. Cardinality(later[m]) <= Cardinality(newest)
        BY <1>4, <2>5, FS_Subset
    <2> QED BY <1>0, <1>2, <1>3, <1>4, <2>3, <2>6
<1>7. ASSUME NEW d \in newest
      PROVE  IsFiniteSet(Onward(D, d)) /\ Cardinality(Onward(D, d)) <= DayLimit
    <2>1. d \in D /\ Cardinality(later[d]) < DayLimit
        BY <1>2
    <2>2. Onward(D, d) = later[d] \cup {d} /\ later[d] \cap {d} = {}
        <3>1. \A x \in D : (x >= d <=> x > d \/ x = d) /\ ~(d > d)
            BY <1>0, <2>1
        <3> QED BY <1>1, <2>1, <3>1 DEF Onward
    <2>3. IsFiniteSet({d}) /\ Cardinality({d}) = 1
        BY FS_Singleton
    <2>4. IsFiniteSet(Onward(D, d)) /\ Cardinality(Onward(D, d)) = Cardinality(later[d]) + 1
        BY <1>3, <2>1, <2>2, <2>3, DisjointUnion
    <2> QED BY <1>0, <1>3, <2>1, <2>4
<1> QED BY <1>5, <1>6, <1>7

(* The newest rows of days and colours leave out none of a day that is shown. *)
LEMMA NewestColors ==
    ASSUME NEW D \in SUBSET Nat, IsFiniteSet(D), NEW all \in SUBSET (D \X (0..1)),
           NEW rows \in SUBSET all, NewestRows(rows, all),
           NEW d \in D, d \in Newest(D),
           NEW c \in 0..1, <<d, c>> \in all
    PROVE  <<d, c>> \in rows
<1> DEFINE onward == Onward(D, d)
<1> SUFFICES ASSUME <<d, c>> \notin rows PROVE FALSE
    OBVIOUS
<1>1. DayLimit \in Nat /\ ColorLimit = 2 * DayLimit
    BY ReportsAssumption DEF ReportsAssumption
<1>2. IsFiniteSet(onward) /\ Cardinality(onward) <= DayLimit /\ Cardinality(onward) \in Nat
    BY NewestDays, FS_CardinalityType
<1>3. Cardinality(rows) = 2 * DayLimit
    BY <1>1 DEF NewestRows
<1>4. \A r \in rows : r[1] >= d
    BY DEF NewestRows
<1>5. rows \subseteq onward \X (0..1) /\ {<<d, c>>} \subseteq onward \X (0..1)
    BY <1>4 DEF Onward
<1> HIDE DEF onward
<1>6. IsFiniteSet(0..1) /\ Cardinality(0..1) = 2
    <2>1. /\ IsFiniteSet({0}) /\ Cardinality({0}) = 1
          /\ IsFiniteSet({1}) /\ Cardinality({1}) = 1
        BY FS_Singleton
    <2>2. 0..1 = {0} \cup {1} /\ {0} \cap {1} = {}
        OBVIOUS
    <2> QED BY <2>1, <2>2, DisjointUnion
<1>7. IsFiniteSet(onward \X (0..1)) /\ Cardinality(onward \X (0..1)) = Cardinality(onward) * 2
    BY <1>2, <1>6, FS_Product
<1>8. IsFiniteSet({<<d, c>>}) /\ Cardinality({<<d, c>>}) = 1 /\ rows \cap {<<d, c>>} = {}
    BY FS_Singleton
<1>9. IsFiniteSet(rows)
    BY <1>5, <1>7, FS_Subset
<1>10. Cardinality(rows \cup {<<d, c>>}) = Cardinality(rows) + 1
    BY <1>8, <1>9, DisjointUnion
<1>11. rows \cup {<<d, c>>} \subseteq onward \X (0..1)
    BY <1>5
<1>12. Cardinality(rows \cup {<<d, c>>}) <= Cardinality(onward) * 2
    BY <1>7, <1>11, FS_Subset
<1> QED BY <1>1, <1>2, <1>3, <1>10, <1>12

(* A blunder of the user's has a side.                                      *)
LEMMA BlundersHaveSides ==
    ASSUME ReportsInv, NEW f \in Filters, NEW r \in Blunders(f)
    PROVE  r[1] \in Games /\ Side[r[1]] \in 0..1
<1>1. r \in Selected(f) /\ index \subseteq Games
    BY DEF Blunders, ReportsInv, TablesTyped
<1>2. PICK g, m : r = <<g, m>> /\ g \in index /\ m \in Own[g]
    BY <1>1, SelectedAre
<1>3. g \in Games /\ m \in Rows[g] /\ m.player = Side[g]
    BY <1>1, <1>2 DEF Own
<1>4. PICK x \in Sheet[g] : m = Judged(x)
    BY <1>3 DEF Rows
<1>5. m.player = x.player /\ x.player \in 0..1
    BY <1>3, <1>4, ReportsAssumption DEF Judged, ReportsAssumption
<1> QED BY <1>2, <1>3, <1>5

(* The days that are shown hold what happened since the oldest of them, and *)
(* their colours add up to each.                                            *)
DaysOf(f) ==
    LET days == ByDay(f)
        newest == DOMAIN days
        undated == {r \in Blunders(f) : Row[r[1]].day = NoDay}
        Of(colors, row) == IF row \in DOMAIN colors THEN colors[row] ELSE 0
    IN /\ SumFunction(days) = Cardinality({r \in DatedBlunders(f) : \E d \in newest : d <= Row[r[1]].day})
       /\ Cardinality(newest) < DayLimit => SumFunction(days) + Cardinality(undated) = Overview(f).total_blunders
       /\ \A colors \in ByDayColor(f), d \in newest :
            Of(colors, <<d, 0>>) + Of(colors, <<d, 1>>) = days[d]

LEMMA DaysAgree == ASSUME ReportsInv, NEW f \in Filters PROVE DaysOf(f)
<1> DEFINE B == DatedBlunders(f)
           N == {r \in Blunders(f) : Row[r[1]].day = NoDay}
           day == [r \in B |-> Row[r[1]].day]
           D == {day[r] : r \in B}
           newest == Newest(D)
           of == [d \in D |-> {r \in B : day[r] = d}]
           color == [r \in B |-> <<Row[r[1]].day, Side[r[1]]>>]
           C == {color[r] : r \in B}
           ofc == [k \in C |-> {r \in B : color[r] = k}]
<1>1. IsFiniteSet(B) /\ IsFiniteSet(N) /\ B \cap N = {} /\ B \cup N = Blunders(f)
    BY SelectedFinite, FS_Subset DEF DatedBlunders
<1>2. DOMAIN day = B /\ DOMAIN color = B
    OBVIOUS
<1>3. \A r \in B : /\ day[r] = Row[r[1]].day /\ day[r] \in Nat /\ Side[r[1]] \in 0..1
                    /\ color[r] = <<day[r], Side[r[1]]>>
    <2>1. \A r \in B : r \in Blunders(f)
        BY DEF DatedBlunders
    <2>2. \A r \in B : r[1] \in Games /\ Side[r[1]] \in 0..1
        BY <2>1, BlundersHaveSides
    <2> QED BY <2>2, ReportsAssumption DEF ReportsAssumption
<1>4. D \in SUBSET Nat /\ IsFiniteSet(D)
    <2>1. D \in SUBSET Nat
        BY <1>3
    <2>2. D = {day[r] : r \in DOMAIN day}
        OBVIOUS
    <2> HIDE DEF D, day
    <2> QED BY <1>1, <1>2, <2>1, <2>2, FiniteImage
<1>5. C \in SUBSET (D \X (0..1))
    <2>1. \A r \in B : day[r] \in D
        OBVIOUS
    <2>2. C = {color[r] : r \in B}
        OBVIOUS
    <2> HIDE DEF B, C, D, day, color
    <2>3. \A r \in B : color[r] \in D \X (0..1)
        <3>1. \A x \in D, y \in 0..1 : <<x, y>> \in D \X (0..1)
            OBVIOUS
        <3> SUFFICES ASSUME NEW r \in B PROVE color[r] \in D \X (0..1)
            OBVIOUS
        <3>2. day[r] \in D /\ Side[r[1]] \in 0..1 /\ color[r] = <<day[r], Side[r[1]]>>
            BY <1>3, <2>1
        <3>3. <<day[r], Side[r[1]]>> \in D \X (0..1)
            BY <3>1, <3>2
        <3> QED BY <3>2, <3>3
    <2> QED BY <2>2, <2>3
<1>6. ByDay(f) = [d \in newest |-> Cardinality(of[d])]
    <2>1. DOMAIN GroupBy(day) = D /\ \A d \in D : GroupBy(day)[d] = Cardinality(of[d])
        BY DEF GroupBy
    <2>2. ByDay(f) = Restrict(GroupBy(day), {d \in DOMAIN GroupBy(day) : Cardinality({e \in DOMAIN GroupBy(day) : e > d}) < DayLimit})
        BY DEF ByDay
    <2>3. ByDay(f) = Restrict(GroupBy(day), newest) /\ newest \subseteq D
        BY <2>1, <2>2 DEF Newest
    <2> HIDE DEF newest, of, D
    <2> QED BY <2>1, <2>3 DEF Restrict
<1>7. \A colors \in ByDayColor(f) : \E rows \in SUBSET C :
         NewestRows(rows, C) /\ colors = [k \in rows |-> Cardinality(ofc[k])]
    <2>1. DOMAIN GroupBy(color) = C /\ \A k \in C : GroupBy(color)[k] = Cardinality(ofc[k])
        BY DEF GroupBy
    <2>2. ByDayColor(f) = {Restrict(GroupBy(color), rows) :
                              rows \in {s \in SUBSET DOMAIN GroupBy(color) : NewestRows(s, DOMAIN GroupBy(color))}}
        BY DEF ByDayColor
    <2> HIDE DEF C, ofc, color
    <2>3. \A colors \in ByDayColor(f) : \E rows \in SUBSET C : NewestRows(rows, C) /\ colors = Restrict(GroupBy(color), rows)
        BY <2>1, <2>2
    <2> QED BY <2>1, <2>3 DEF Restrict
<1>8. \A d \in D : of[d] = {r \in B : day[r] = d} /\ IsFiniteSet(of[d])
    BY <1>1, FS_Subset
<1>9. \A k \in C : ofc[k] = {r \in B : color[r] = k} /\ IsFiniteSet(ofc[k])
    BY <1>1, FS_Subset
<1>10. \A r \in B : day[r] \in D /\ color[r] \in C
    OBVIOUS
<1>11. /\ newest \subseteq D
       /\ \A d \in newest, e \in D : d <= e => e \in newest
       /\ Cardinality(newest) < DayLimit => newest = D
    <2>1. newest \subseteq D /\ newest = Newest(D)
        BY DEF Newest
    <2> HIDE DEF D, newest
    <2> QED BY <1>4, <2>1, NewestDays
<1>12. \A rows \in SUBSET C : NewestRows(rows, C) =>
          \A d \in newest, c \in 0..1 : <<d, c>> \in C => <<d, c>> \in rows
    <2> HIDE DEF D, C
    <2> QED BY <1>4, <1>5, NewestColors
<1> HIDE DEF B, N, day, D, newest, of, color, C, ofc
<1>13. SumFunction(ByDay(f)) = Cardinality({r \in B : day[r] \in newest})
    <2> DEFINE group == [r \in {x \in B : day[x] \in newest} |-> day[r]]
    <2>1. IsFiniteSet(DOMAIN group) /\ DOMAIN group = {r \in B : day[r] \in newest}
        BY <1>1, FS_Subset
    <2>2. \A d \in newest : {r \in DOMAIN group : group[r] = d} = of[d]
        BY <1>8, <1>11
    <2>3. {group[r] : r \in DOMAIN group} = newest
        BY <1>11 DEF D
    <2>4. ByDay(f) = GroupBy(group)
        <3> HIDE DEF group
        <3> QED BY <1>6, <2>2, <2>3 DEF GroupBy
    <2> HIDE DEF group
    <2> QED BY <2>1, <2>4, GroupsAdd
<1>14. {r \in B : day[r] \in newest} = {r \in B : \E d \in newest : d <= Row[r[1]].day}
    BY <1>3, <1>4, <1>10, <1>11
<1>15. ASSUME Cardinality(newest) < DayLimit
       PROVE  SumFunction(ByDay(f)) + Cardinality(N) = Overview(f).total_blunders
    <2>1. {r \in B : day[r] \in newest} = B
        BY <1>10, <1>11, <1>15
    <2>2. Cardinality(Blunders(f)) = Cardinality(B) + Cardinality(N)
        BY <1>1, DisjointUnion
    <2> QED BY <1>13, <2>1, <2>2 DEF Overview
<1>16. ASSUME NEW colors \in ByDayColor(f), NEW d \in newest
       PROVE  (IF <<d, 0>> \in DOMAIN colors THEN colors[<<d, 0>>] ELSE 0)
                 + (IF <<d, 1>> \in DOMAIN colors THEN colors[<<d, 1>>] ELSE 0) = ByDay(f)[d]
    <2>1. PICK rows \in SUBSET C : NewestRows(rows, C) /\ colors = [k \in rows |-> Cardinality(ofc[k])]
        BY <1>7
    <2> DEFINE side == [c \in 0..1 |-> {r \in B : color[r] = <<d, c>>}]
    <2>2. ASSUME NEW c \in 0..1
          PROVE  /\ (IF <<d, c>> \in DOMAIN colors THEN colors[<<d, c>>] ELSE 0) = Cardinality(side[c])
                 /\ IsFiniteSet(side[c])
        <3>1. <<d, c>> \in DOMAIN colors <=> <<d, c>> \in C
            BY <1>12, <2>1
        <3>2. side[c] = {r \in B : color[r] = <<d, c>>}
            OBVIOUS
        <3> HIDE DEF side
        <3>3. CASE <<d, c>> \in C
            BY <1>9, <2>1, <3>1, <3>2, <3>3
        <3>4. CASE <<d, c>> \notin C
            <4>1. side[c] = {}
                BY <1>10, <3>2, <3>4
            <4> QED BY <3>1, <3>4, <4>1, FS_EmptySet
        <3> QED BY <3>3, <3>4
    <2>3. side[0] \cap side[1] = {}
        BY <1>3
    <2>4. side[0] \cup side[1] = of[d]
        <3>1. \A c \in 0..1 : side[c] = {r \in B : day[r] = d /\ Side[r[1]] = c}
            BY <1>3
        <3> HIDE DEF side
        <3> QED BY <1>3, <1>8, <1>11, <3>1
    <2> HIDE DEF side
    <2>5. IsFiniteSet(side[0]) /\ IsFiniteSet(side[1])
        BY <2>2
    <2>6. Cardinality(of[d]) = Cardinality(side[0]) + Cardinality(side[1])
        BY <2>3, <2>4, <2>5, DisjointUnion
    <2>7. ByDay(f)[d] = Cardinality(of[d])
        BY <1>6
    <2> QED BY <2>2, <2>6, <2>7
<1>17. DOMAIN ByDay(f) = newest
    BY <1>6
<1> QED BY <1>13, <1>14, <1>15, <1>16, <1>17 DEF DaysOf, B, N

IsTop(top, numbers, limit) ==
    /\ top \in SUBSET DOMAIN numbers
    /\ Cardinality(top) <= limit
    /\ top # DOMAIN numbers => Cardinality(top) = limit
    /\ \A a \in top, b \in DOMAIN numbers \ top : numbers[a] >= numbers[b]

(* There are always a first few.                                            *)
LEMMA TopExists ==
    ASSUME NEW numbers, IsFiniteSet(DOMAIN numbers), \A k \in DOMAIN numbers : numbers[k] \in Nat,
           NEW limit \in Nat
    PROVE  \E top : IsTop(top, numbers, limit)
<1> DEFINE Bad == {n \in Nat : \A top : ~IsTop(top, numbers, n)}
<1>1. Bad = {}
    <2> SUFFICES ASSUME Bad # {} PROVE FALSE
        OBVIOUS
    <2>1. Bad \in SUBSET Nat
        OBVIOUS
    <2> HIDE DEF Bad
    <2>2. PICK n \in Bad : \A m \in Bad : n <= m
        BY <2>1, LowestIs
    <2>3. n \in Nat /\ \A top : ~IsTop(top, numbers, n)
        BY DEF Bad
    <2>4. n # 0
        <3>1. IsTop({}, numbers, 0)
            BY FS_EmptySet DEF IsTop
        <3> QED BY <2>3, <3>1
    <2>5. n - 1 \in Nat /\ n - 1 \notin Bad
        BY <2>2, <2>3, <2>4
    <2>6. PICK top : IsTop(top, numbers, n - 1)
        BY <2>5 DEF Bad
    <2>7. IsFiniteSet(top) /\ Cardinality(top) \in Nat
        BY <2>6, FS_Subset, FS_CardinalityType DEF IsTop
    <2>8. top # DOMAIN numbers
        <3>1. top = DOMAIN numbers => IsTop(top, numbers, n)
            BY <2>3, <2>6, <2>7 DEF IsTop
        <3> QED BY <2>3, <3>1
    <2> DEFINE rest == DOMAIN numbers \ top
    <2>9. rest # {} /\ IsFiniteSet(rest) /\ \A k \in rest : numbers[k] \in Nat
        BY <2>6, <2>8, FS_Difference DEF IsTop
    <2>10. PICK x \in rest : \A k \in rest : numbers[k] <= numbers[x]
        <3> HIDE DEF rest
        <3> QED BY <2>9, GreatestIs
    <2>11. Cardinality(top \cup {x}) = n
        <3>1. Cardinality(top \cup {x}) = Cardinality(top) + 1 /\ Cardinality(top) = n - 1
            BY <2>6, <2>7, <2>8, <2>10, FS_AddElement DEF IsTop
        <3> QED BY <2>3, <3>1
    <2>12. top \cup {x} \in SUBSET DOMAIN numbers
        BY <2>6, <2>10 DEF IsTop
    <2>13. \A a \in top \cup {x}, b \in DOMAIN numbers \ (top \cup {x}) : numbers[a] >= numbers[b]
        <3> SUFFICES ASSUME NEW a \in top \cup {x}, NEW b \in DOMAIN numbers \ (top \cup {x})
                     PROVE  numbers[a] >= numbers[b]
            OBVIOUS
        <3>1. CASE a \in top
            BY <2>6, <3>1 DEF IsTop
        <3>2. CASE a = x
            <4>1. numbers[b] <= numbers[x] /\ numbers[b] \in Nat /\ numbers[x] \in Nat
                BY <2>9, <2>10
            <4> QED BY <3>2, <4>1
        <3> QED BY <3>1, <3>2
    <2>14. IsTop(top \cup {x}, numbers, n)
        BY <2>3, <2>11, <2>12, <2>13 DEF IsTop
    <2> QED BY <2>3, <2>14
<1> QED BY <1>1

(* The openings that come first have no more blunders than there are.       *)
LEMMA RankedAdds ==
    ASSUME NEW group, IsFiniteSet(DOMAIN group), NEW limit \in Nat
    PROVE  SumFunction(Ranked(GroupBy(group), limit)) \in 0..Cardinality(DOMAIN group)
<1> DEFINE K == {group[r] : r \in DOMAIN group}
           Group(k) == {r \in DOMAIN group : group[r] = k}
           numbers == GroupBy(group)
           top == Top(numbers, limit)
           C == [k \in top |-> Group(k)]
<1>1. DOMAIN numbers = K /\ \A k \in K : numbers[k] = Cardinality(Group(k))
    BY DEF GroupBy
<1>2. IsFiniteSet(K)
    BY FiniteImage
<1>3. \A k : Group(k) \subseteq DOMAIN group /\ IsFiniteSet(Group(k)) /\ Cardinality(Group(k)) \in Nat
    BY FS_Subset, FS_CardinalityType
<1> HIDE DEF K, numbers, Group
<1>4. top = CHOOSE t : IsTop(t, numbers, limit)
    BY DEF Top, IsTop
<1>5. IsTop(top, numbers, limit)
    BY <1>1, <1>2, <1>3, <1>4, TopExists
<1>6. top \subseteq K /\ IsFiniteSet(top)
    BY <1>1, <1>2, <1>5, FS_Subset DEF IsTop
<1> HIDE DEF top
<1>7. Ranked(numbers, limit) = [k \in DOMAIN C |-> Cardinality(C[k])]
    BY <1>1, <1>6 DEF Ranked, top
<1>8. DOMAIN C = top /\ \A k \in top : C[k] = Group(k)
    OBVIOUS
<1>9. \A j, k \in top : j # k => C[j] \cap C[k] = {}
    BY <1>8 DEF Group
<1>10. UNION {C[k] : k \in DOMAIN C} \subseteq DOMAIN group
    BY <1>3, <1>8
<1> HIDE DEF C
<1>11. SumFunction(Ranked(numbers, limit)) = Cardinality(UNION {C[k] : k \in DOMAIN C})
    BY <1>3, <1>6, <1>7, <1>8, <1>9, SumOfParts
<1>12. Cardinality(UNION {C[k] : k \in DOMAIN C}) \in 0..Cardinality(DOMAIN group)
    <2>1. /\ IsFiniteSet(UNION {C[k] : k \in DOMAIN C})
          /\ Cardinality(UNION {C[k] : k \in DOMAIN C}) <= Cardinality(DOMAIN group)
        BY <1>10, FS_Subset
    <2> QED BY <2>1, FS_CardinalityType
<1> QED BY <1>11, <1>12 DEF numbers

LEMMA OpeningsAgree ==
    ASSUME ReportsInv, NEW f \in Filters, NEW limit \in Nat
    PROVE  SumFunction(ByOpening(f, limit)) <= Overview(f).total_blunders
<1> DEFINE D == {b \in Blunders(f) : b[1] \in named /\ Opening[b[1]] # Nothing}
           group == [r \in D |-> Opening[r[1]]]
<1>1. IsFiniteSet(D) /\ Cardinality(D) <= Cardinality(Blunders(f))
      /\ Cardinality(D) \in Nat /\ Cardinality(Blunders(f)) \in Nat
    BY SelectedFinite, FS_Subset, FS_CardinalityType
<1>2. DOMAIN group = D /\ ByOpening(f, limit) = Ranked(GroupBy(group), limit)
    BY DEF ByOpening
<1> DEFINE sum == SumFunction(ByOpening(f, limit))
<1> HIDE DEF group, D
<1>3. sum \in 0..Cardinality(D)
    BY <1>1, <1>2, RankedAdds
<1>4. Overview(f).total_blunders = Cardinality(Blunders(f))
    BY DEF Overview
<1> QED BY <1>1, <1>3, <1>4

-----------------------------------------------------------------------------
(* The trainer's candidates.                                                *)

LEMMA FiltersAre ==
    \A f \in Filters : f.start \in Nat /\ f.end \in Nat
<1> SUFFICES ASSUME NEW a \in Asked PROVE StatsFilter(a).start \in Nat /\ StatsFilter(a).end \in Nat
    BY DEF Filters
<1>1. a \in [start : Nat, end : Nat, types : SUBSET STRING, phases : SUBSET STRING,
             patterns : SUBSET STRING, colors : SUBSET (0..1), ranges : SUBSET (Nat \X Nat)]
    BY ReportsAssumption DEF ReportsAssumption
<1>2. a.start \in Nat /\ a.end \in Nat
    BY <1>1
<1>3. "start" \in DOMAIN a /\ "end" \in DOMAIN a
    BY <1>1
<1>4. StatsFilter(a).start = a.start /\ StatsFilter(a).end = a.end
    BY <1>3 DEF StatsFilter
<1> QED BY <1>2, <1>4

LEMMA CandidatesAre ==
    ASSUME NEW f \in Filters, index \subseteq Games, NEW r \in Candidates(f, SideMap)
    PROVE  \E g, m : /\ r = <<g, m>> /\ g \in index /\ g \in moves /\ g \in Games
                     /\ m \in Own[g] /\ m.class = Blunder /\ PhaseMatches(m, g \in phased, f)
                     /\ f.types # {} => TypeOf[g] \in f.types
<1>1. PICK g \in index \cap moves \cap SideMap : r \in {g} \X Puzzles[f][g][(g \in phased)]
    BY DEF Candidates
<1>2. PICK m \in Puzzles[f][g][(g \in phased)] : r = <<g, m>>
    BY <1>1
<1>3. g \in Games
    BY <1>1
<1>4. /\ m \in Rows[g] /\ m.class = Blunder /\ PhaseMatches(m, g \in phased, f) /\ OfUser(m, g)
      /\ f.types # {} => TypeOf[g] \in f.types
    BY <1>2, <1>3 DEF Puzzles
<1>5. m \in Own[g]
    BY <1>3, <1>4 DEF Own, OfUser
<1> QED BY <1>1, <1>2, <1>3, <1>4, <1>5

(* The two codes that read the dates of a filter agree.                     *)
LEMMA DatesAgree ==
    ASSUME NEW f \in Filters, NEW g \in Games, DateInRange(g, f) \/ (f.start = NoDay /\ f.end = NoDay)
    PROVE  Within(g, f)
<1>1. f.start \in Nat /\ f.end \in Nat /\ Row[g].day \in Nat
    BY FiltersAre, ReportsAssumption DEF ReportsAssumption
<1>2. CASE f.start = NoDay /\ f.end = NoDay
    BY <1>2 DEF Within
<1>3. CASE DateInRange(g, f)
    BY <1>1, <1>3 DEF Within, DateInRange
<1> QED BY <1>2, <1>3

LEMMA PuzzlesAreBlunders ==
    ASSUME ReportsInv, NEW f \in Filters
    PROVE  OfTheDates(Candidates(f, SideMap), f) \subseteq Blunders(f)
<1>1. index \subseteq Games
    BY DEF ReportsInv, TablesTyped
<1> SUFFICES ASSUME NEW r \in OfTheDates(Candidates(f, SideMap), f) PROVE r \in Blunders(f)
    OBVIOUS
<1>2. r \in Candidates(f, SideMap) /\ (DateInRange(r[1], f) \/ (f.start = NoDay /\ f.end = NoDay))
    BY DEF OfTheDates
<1>3. PICK g, m : /\ r = <<g, m>> /\ g \in index /\ g \in moves /\ g \in Games
                  /\ m \in Own[g] /\ m.class = Blunder /\ PhaseMatches(m, g \in phased, f)
                  /\ f.types # {} => TypeOf[g] \in f.types
    BY <1>1, <1>2, CandidatesAre
<1>4. Within(g, f)
    <2>1. r[1] = g
        BY <1>3
    <2> QED BY <1>2, <1>3, <2>1, DatesAgree
<1>5. g \in Matching[f]
    BY <1>3, <1>4 DEF Matching
<1>6. r \in Selected(f)
    BY <1>1, <1>3, <1>5, SelectedAre
<1> QED BY <1>3, <1>6 DEF Blunders

-----------------------------------------------------------------------------
(* The answers of the user.                                                 *)

LEMMA AnswersAgree ==
    ASSUME ReportsInv
    PROVE  /\ UserStats.unique_puzzles <= UserStats.total_attempts
           /\ Cardinality(Solved) <= UserStats.correct_attempts
<1> DEFINE D == DOMAIN attempts
           keys == [n \in D |-> <<attempts[n].game, attempts[n].ply>>]
           right == {n \in D : attempts[n].right}
           solved == {n \in D : attempts[n].right /\ attempts[n].resting}
           done == [n \in solved |-> <<attempts[n].game, attempts[n].ply>>]
<1>1. IsFiniteSet(D)
    BY DEF ReportsInv, TablesTyped
<1>2. {<<a.game, a.ply>> : a \in ToSet(attempts)} = {keys[n] : n \in DOMAIN keys} /\ DOMAIN keys = D
    BY DEF ToSet
<1>3. Solved = {done[n] : n \in DOMAIN done} /\ DOMAIN done = solved
    BY DEF Solved, ToSet
<1>4. /\ UserStats.unique_puzzles = Cardinality({<<a.game, a.ply>> : a \in ToSet(attempts)})
      /\ UserStats.total_attempts = Cardinality(D) /\ UserStats.correct_attempts = Cardinality(right)
    BY DEF UserStats
<1>5. solved \subseteq right /\ right \subseteq D
    OBVIOUS
<1> HIDE DEF D, keys, right, solved, done
<1>6. UserStats.unique_puzzles <= UserStats.total_attempts
    BY <1>1, <1>2, <1>4, FiniteImage
<1>7. /\ IsFiniteSet(right) /\ IsFiniteSet(solved) /\ Cardinality(solved) <= Cardinality(right)
      /\ Cardinality(right) \in Nat /\ Cardinality(solved) \in Nat
    BY <1>1, <1>5, FS_Subset, FS_CardinalityType
<1>8. IsFiniteSet(Solved) /\ Cardinality(Solved) <= Cardinality(solved)
    BY <1>3, <1>7, FiniteImage
<1>9. Cardinality(Solved) \in Nat
    BY <1>8, FS_CardinalityType
<1> QED BY <1>4, <1>6, <1>7, <1>8, <1>9

-----------------------------------------------------------------------------
(* Games in their order.                                                    *)

Before(X, g) == {o \in X : Row[o].order < Row[g].order}

LEMMA OrderIs ==
    \A g, h \in Games : /\ Row[g].order \in Nat /\ Row[g].day \in Nat /\ Row[h].order \in Nat /\ Row[h].day \in Nat
                        /\ Row[g].order = Row[h].order => g = h
                        /\ Row[g].order < Row[h].order => Row[g].day <= Row[h].day
<1>1. \A g \in Games : Row[g].day \in Nat /\ Row[g].order \in Nat
    BY ReportsAssumption DEF ReportsAssumption
<1>2. \A g, h \in Games : /\ Row[g].order = Row[h].order => g = h
                          /\ Row[g].order < Row[h].order => Row[g].day <= Row[h].day
    BY ReportsAssumption DEF ReportsAssumption
<1> QED BY <1>1, <1>2

LEMMA RanksAre ==
    ASSUME NEW X \in SUBSET Games
    PROVE  /\ IsFiniteSet(X) /\ Cardinality(X) \in Nat
           /\ \A g \in X : Cardinality(Before(X, g)) \in 0..(Cardinality(X) - 1)
           /\ \A g, h \in X : Row[g].order < Row[h].order
                                => Cardinality(Before(X, g)) < Cardinality(Before(X, h))
<1>1. IsFiniteSet(X) /\ Cardinality(X) \in Nat
    BY FS_Subset, FS_CardinalityType, ReportsAssumption DEF ReportsAssumption
<1>2. \A g \in X : Row[g].order \in Nat
    BY ReportsAssumption DEF ReportsAssumption
<1>3. \A S \in SUBSET X, T \in SUBSET X : \A x \in T :
          S \subseteq T /\ x \notin S => Cardinality(S) < Cardinality(T) /\ Cardinality(S) \in Nat /\ Cardinality(T) \in Nat
    <2> SUFFICES ASSUME NEW S \in SUBSET X, NEW T \in SUBSET X, NEW x \in T, S \subseteq T, x \notin S
                 PROVE  Cardinality(S) < Cardinality(T) /\ Cardinality(S) \in Nat /\ Cardinality(T) \in Nat
        OBVIOUS
    <2>1. IsFiniteSet(T) /\ IsFiniteSet(S)
        BY <1>1, FS_Subset
    <2>2. /\ Cardinality(S) \in Nat /\ Cardinality(T) \in Nat /\ Cardinality(S) <= Cardinality(T)
          /\ Cardinality(T) = Cardinality(S) => T = S
        BY <2>1, FS_Subset, FS_CardinalityType
    <2>3. S # T
        OBVIOUS
    <2> QED BY <2>2, <2>3
<1>4. ASSUME NEW g \in X PROVE Cardinality(Before(X, g)) \in 0..(Cardinality(X) - 1)
    <2>1. Before(X, g) \in SUBSET X /\ g \notin Before(X, g)
        BY <1>2 DEF Before
    <2>2. X \in SUBSET X /\ Before(X, g) \subseteq X
        BY <2>1
    <2>3. /\ Cardinality(Before(X, g)) < Cardinality(X)
          /\ Cardinality(Before(X, g)) \in Nat /\ Cardinality(X) \in Nat
        BY <1>3, <2>1, <2>2
    <2> QED BY <2>3
<1>5. ASSUME NEW g \in X, NEW h \in X, Row[g].order < Row[h].order
      PROVE  Cardinality(Before(X, g)) < Cardinality(Before(X, h))
    <2>1. /\ Before(X, g) \in SUBSET X /\ Before(X, h) \in SUBSET X
          /\ Before(X, g) \subseteq Before(X, h) /\ g \in Before(X, h) /\ g \notin Before(X, g)
        BY <1>2, <1>5 DEF Before
    <2> QED BY <1>3, <2>1
<1> QED BY <1>1, <1>4, <1>5

LEMMA EachRankIsTaken ==
    ASSUME NEW X \in SUBSET Games, NEW n \in 1..Cardinality(X)
    PROVE  \E g \in X : Cardinality(Before(X, g)) = n - 1
<1> DEFINE N == Cardinality(X)
           rank == [g \in X |-> Cardinality(Before(X, g))]
           places == 0..(N - 1)
<1>1. IsFiniteSet(X) /\ N \in Nat /\ N # 0
    BY RanksAre
<1>2. rank \in [X -> places]
    BY RanksAre
<1>3. \A g, h \in X : rank[g] = rank[h] => g = h
    <2> SUFFICES ASSUME NEW g \in X, NEW h \in X, g # h, rank[g] = rank[h] PROVE FALSE
        OBVIOUS
    <2>1. Row[g].order \in Nat /\ Row[h].order \in Nat /\ Row[g].order # Row[h].order
        BY OrderIs
    <2>2. Row[g].order < Row[h].order \/ Row[h].order < Row[g].order
        BY <2>1
    <2>3. rank[g] < rank[h] \/ rank[h] < rank[g]
        BY <2>2, RanksAre
    <2>4. rank[g] \in Nat /\ rank[h] \in Nat
        BY <1>1, <1>2
    <2> QED BY <2>3, <2>4
<1> HIDE DEF rank
<1>4. rank \in Injection(X, places)
    BY <1>2, <1>3 DEF Injection, IsInjective
<1>5. IsFiniteSet(places) /\ Cardinality(places) = N
    <2>1. 0 \in Int /\ N - 1 \in Int /\ ~(0 > N - 1) /\ (N - 1) - 0 + 1 = N
        BY <1>1
    <2> HIDE DEF N
    <2> QED BY <2>1, FS_Interval
<1>6. rank \in Surjection(X, places)
    BY <1>4, <1>5, FS_Injection
<1>7. n - 1 \in places
    BY <1>1
<1>8. \E g \in X : rank[g] = n - 1
    BY <1>6, <1>7 DEF Surjection
<1> QED BY <1>8 DEF rank

LEMMA PlacesAre ==
    ASSUME NEW X \in SUBSET Games
    PROVE  /\ DOMAIN InOrder[X] = 1..Cardinality(X)
           /\ \A n \in DOMAIN InOrder[X] : InOrder[X][n] \in X
           /\ \A g \in X : \E n \in DOMAIN InOrder[X] : InOrder[X][n] = g
           /\ \A m, n \in DOMAIN InOrder[X] : m < n => Row[InOrder[X][m]].order < Row[InOrder[X][n]].order
<1> DEFINE N == Cardinality(X)
           Place(g) == Cardinality(Before(X, g))
<1>1. /\ InOrder[X] = [n \in 1..N |-> CHOOSE g \in X : Place(g) = n - 1]
      /\ DOMAIN InOrder[X] = 1..N
    BY DEF InOrder, Before
<1>2. N \in Nat /\ (\A g \in X : Place(g) \in 0..(N - 1))
      /\ \A g, h \in X : Row[g].order < Row[h].order => Place(g) < Place(h)
    BY RanksAre
<1>3. \A n \in 1..N : \E g \in X : Place(g) = n - 1
    BY EachRankIsTaken
<1> HIDE DEF N, Place
<1>4. \A n \in 1..N : InOrder[X][n] \in X /\ Place(InOrder[X][n]) = n - 1
    BY <1>1, <1>3
<1>5. \A g, h \in X : Place(g) <= Place(h) => Row[g].order <= Row[h].order
    <2>1. \A g \in X : Row[g].order \in Nat /\ Place(g) \in Nat
        BY <1>2, OrderIs
    <2> QED BY <1>2, <2>1
<1>6. ASSUME NEW g \in X PROVE \E n \in 1..N : InOrder[X][n] = g
    <2>1. Place(g) + 1 \in 1..N /\ Place(g) \in Nat
        BY <1>2
    <2> DEFINE h == InOrder[X][Place(g) + 1]
    <2>2. h \in X /\ Place(h) = Place(g)
        BY <1>4, <2>1
    <2>3. Row[h].order <= Row[g].order /\ Row[g].order <= Row[h].order
        BY <1>5, <2>1, <2>2
    <2>4. h = g
        BY <2>2, <2>3, OrderIs
    <2> QED BY <2>1, <2>4
<1>7. ASSUME NEW m \in 1..N, NEW n \in 1..N, m < n PROVE Row[InOrder[X][m]].order < Row[InOrder[X][n]].order
    <2> DEFINE g == InOrder[X][m]
               h == InOrder[X][n]
    <2>1. g \in X /\ h \in X /\ Place(g) < Place(h) /\ Place(g) \in Nat /\ Place(h) \in Nat
        BY <1>2, <1>4, <1>7
    <2>2. Row[g].order \in Nat /\ Row[h].order \in Nat /\ (Row[g].order = Row[h].order => g = h)
        BY <2>1, OrderIs
    <2>3. Row[g].order <= Row[h].order
        BY <1>5, <2>1
    <2>4. g # h
        BY <2>1
    <2> QED BY <2>2, <2>3, <2>4
<1>8. \A n \in 1..N : InOrder[X][n] \in X
    BY <1>4
<1> QED BY <1>1, <1>6, <1>7, <1>8 DEF N

-----------------------------------------------------------------------------
(* The rating history.                                                      *)

Dated(p, mode, from) == {g \in LatestOfDays(p, mode, from) : IsMode(mode) /\ Rating(g) # NoRating}

LEMMA HistoryIs ==
    ASSUME ReportsInv, NEW p, NEW mode
    PROVE  /\ Dated(p, mode, 1) \in SUBSET Games
           /\ RatingHistory(p, mode, 1) =
                 [n \in DOMAIN InOrder[Dated(p, mode, 1)] |->
                    LET g == InOrder[Dated(p, mode, 1)][n]
                    IN [game |-> g, day |-> Row[g].day, type |-> TypeOf[g], rating |-> Rating(g)]]
<1>1. Dated(p, mode, 1) \in SUBSET Games
    BY DEF ReportsInv, TablesTyped, Dated, LatestOfDays
<1>2. RatingHistory(p, mode, 1) =
         [n \in DOMAIN InOrder[Dated(p, mode, 1)] |->
            LET g == InOrder[Dated(p, mode, 1)][n]
            IN [game |-> g, day |-> Row[g].day, type |-> TypeOf[g], rating |-> Rating(g)]]
    BY DEF RatingHistory, Dated
<1> QED BY <1>1, <1>2

LEMMA LatestAre ==
    ASSUME NEW p, NEW mode, NEW g, g \in LatestOfDays(p, mode, 1)
    PROVE  /\ g \in index /\ Row[g].profile = p /\ Row[g].day >= 1
           /\ mode # Nothing => TypeOf[g] = mode
           /\ \A o \in index : /\ Row[o].profile = p /\ Row[o].day >= 1
                               /\ mode # Nothing => TypeOf[o] = mode
                               => (Row[o].day = Row[g].day => Row[o].order <= Row[g].order)
BY DEF LatestOfDays

(* The last game of a day is the last of its type, too.                     *)
LEMMA LatestOfItsType ==
    ASSUME NEW p, NEW g, g \in Dated(p, Nothing, 1), IsMode(TypeOf[g])
    PROVE  g \in Dated(p, TypeOf[g], 1)
BY DEF Dated, LatestOfDays

LEMMA HistoriesAgree ==
    ASSUME ReportsInv, NEW p
    PROVE  LET history == RatingHistory(p, Nothing, 1)
           IN \A n \in DOMAIN history :
                 /\ n > 1 => history[n - 1].day < history[n].day
                 /\ IsMode(history[n].type) => history[n] \in ToSet(RatingHistory(p, history[n].type, 1))
<1> DEFINE history == RatingHistory(p, Nothing, 1)
           X == Dated(p, Nothing, 1)
           order == InOrder[X]
           Point(g) == [game |-> g, day |-> Row[g].day, type |-> TypeOf[g], rating |-> Rating(g)]
<1>1. X \in SUBSET Games /\ history = [n \in DOMAIN order |-> Point(order[n])]
    BY HistoryIs
<1>2. /\ DOMAIN order = 1..Cardinality(X) /\ Cardinality(X) \in Nat
      /\ \A n \in DOMAIN order : order[n] \in X
      /\ \A m, n \in DOMAIN order : m < n => Row[order[m]].order < Row[order[n]].order
    BY <1>1, PlacesAre, RanksAre
<1>3. \A g \in X : g \in LatestOfDays(p, Nothing, 1)
    BY DEF Dated
<1> SUFFICES ASSUME NEW n \in DOMAIN history
             PROVE  /\ n > 1 => history[n - 1].day < history[n].day
                    /\ IsMode(history[n].type) => history[n] \in ToSet(RatingHistory(p, history[n].type, 1))
    OBVIOUS
<1> HIDE DEF history, X, order
<1>4. n \in DOMAIN order /\ history[n] = Point(order[n]) /\ order[n] \in X /\ order[n] \in Games
    BY <1>1, <1>2
<1>5. ASSUME n > 1 PROVE history[n - 1].day < history[n].day
    <2> DEFINE g == order[n - 1]
               h == order[n]
    <2>1. n - 1 \in DOMAIN order /\ n - 1 < n
        BY <1>2, <1>4, <1>5
    <2>2. g \in X /\ g \in Games /\ history[n - 1] = Point(g)
        BY <1>1, <1>2, <2>1
    <2>3. Row[g].order < Row[h].order
        BY <1>2, <1>4, <2>1
    <2>4. /\ Row[g].day \in Nat /\ Row[h].day \in Nat /\ Row[g].day <= Row[h].day
          /\ Row[g].order \in Nat /\ Row[h].order \in Nat
        BY <1>4, <2>2, <2>3, OrderIs
    <2>5. Row[g].day = Row[h].day => Row[h].order <= Row[g].order
        <3>1. h \in index /\ Row[h].profile = p /\ Row[h].day >= 1
            BY <1>3, <1>4, LatestAre
        <3>2. g \in LatestOfDays(p, Nothing, 1)
            BY <1>3, <2>2
        <3> QED BY <3>1, <3>2, LatestAre
    <2>6. history[n - 1].day = Row[g].day /\ history[n].day = Row[h].day
        BY <1>4, <2>2
    <2> QED BY <2>3, <2>4, <2>5, <2>6
<1>6. ASSUME IsMode(history[n].type) PROVE history[n] \in ToSet(RatingHistory(p, history[n].type, 1))
    <2> DEFINE h == order[n]
               Y == Dated(p, TypeOf[h], 1)
    <2>1. history[n].type = TypeOf[h]
        BY <1>4
    <2>2. Y \in SUBSET Games /\ RatingHistory(p, TypeOf[h], 1) = [k \in DOMAIN InOrder[Y] |-> Point(InOrder[Y][k])]
        BY HistoryIs
    <2>3. h \in Y
        BY <1>4, <1>6, <2>1, LatestOfItsType DEF X
    <2> HIDE DEF Y
    <2>4. PICK k \in DOMAIN InOrder[Y] : InOrder[Y][k] = h
        BY <2>2, <2>3, PlacesAre
    <2>5. /\ k \in DOMAIN RatingHistory(p, TypeOf[h], 1)
          /\ RatingHistory(p, TypeOf[h], 1)[k] = history[n]
        BY <1>4, <2>2, <2>4
    <2> QED BY <2>1, <2>5 DEF ToSet
<1> QED BY <1>5, <1>6

-----------------------------------------------------------------------------
(* The reports on the traps.                                                *)

LEMMA MatchesStep ==
    ASSUME IsFiniteSet(matches), [ReportsNext]_reportVars
    PROVE  IsFiniteSet(matches')
<1>1. \A m : IsFiniteSet(Saved(m))
    <2> SUFFICES ASSUME NEW m PROVE IsFiniteSet(Saved(m))
        OBVIOUS
    <2> DEFINE others == {o \in matches : o.game # m.game \/ o.trap # m.trap}
    <2>1. IsFiniteSet(others)
        BY FS_Subset
    <2>2. Saved(m) = others \cup {m}
        BY DEF Saved
    <2> QED BY <2>1, <2>2, FS_AddElement
<1>2. matches' = matches \/ (\E m : matches' = Saved(m)) \/ matches' \subseteq matches
    <2>1. UNCHANGED reportVars => matches' = matches
        BY DEF reportVars, traps
    <2>2. \A g : Import(g) \/ FillEco(g) \/ FillPhase(g) \/ BackfillGame(g) => matches' = matches
        BY DEF Import, FillEco, FillPhase, BackfillGame, traps
    <2>3. \A g, m : SaveMatch(g, m) \/ BackfillMatch(m) => matches' = Saved(m)
        BY DEF SaveMatch, BackfillMatch
    <2>10. \A g : AnalysisStep(g) => matches' = matches \/ \E m : matches' = Saved(m)
        BY <2>3 DEF AnalysisStep, Analyse, Upload, SkipStep, ComputeStep, WriteMoves, LookForTraps, TrapsAreSaved, StepFails,
           CutShort, Record, MarkAnalysed, traps
    <2>4. \A p : DeleteProfile(p) => matches' \subseteq matches
        BY DEF DeleteProfile
    <2>5. BeginBackfill \/ EndBackfill \/ BeginWipe \/ WipeTable \/ WipeFails \/ (\E n : RestEnds(n))
          => matches' = matches
        BY DEF BeginBackfill, EndBackfill, BeginWipe, WipeTable, WipeFails, RestEnds, traps
    <2>6. CASE Tables
        BY <2>2, <2>3, <2>4, <2>5, <2>6, <2>10 DEF Tables
    <2>7. (\E f \in Filters : AskCollapse(f) \/ AskPuzzle(f)) \/ AnswerCollapse \/ Sent => matches' = matches
        BY DEF AskCollapse, AskPuzzle, AnswerCollapse, Sent, Goes, traps
    <2>8. Puzzle => matches' = matches
        BY DEF Puzzle, FetchBlunders, FilterByDate, FilterRecentlySolved, NoBlundersFound, Serve, GameNotFound, Choose,
           Goes, Fails, traps
    <2>9. \A g, m, ply, right : AskSpecific(g, m) \/ SubmitAttempt(g, ply, right) => matches' = matches
        BY DEF AskSpecific, SubmitAttempt, Goes, traps
    <2> QED BY <2>1, <2>6, <2>7, <2>8, <2>9 DEF ReportsNext
<1> QED BY <1>1, <1>2, FS_Subset

(* The rows of the traps, counted trap by trap, are all of their kind.      *)
LEMMA KindsAdd ==
    ASSUME NEW rows, IsFiniteSet(rows), NEW kind \in SUBSET rows
    PROVE  SumFunction([t \in {m.trap : m \in rows} |-> Cardinality({m \in kind : m.trap = t})]) = Cardinality(kind)
<1> DEFINE K == {m.trap : m \in rows}
           C == [t \in K |-> {m \in kind : m.trap = t}]
           trap == [m \in rows |-> m.trap]
<1>1. K = {trap[m] : m \in DOMAIN trap} /\ DOMAIN trap = rows
    OBVIOUS
<1>2. IsFiniteSet(kind)
    BY FS_Subset
<1>3. DOMAIN C = K /\ \A t \in K : C[t] = {m \in kind : m.trap = t} /\ C[t] \subseteq kind
    OBVIOUS
<1>4. UNION {C[t] : t \in DOMAIN C} = kind
    <2>1. \A m \in kind : m.trap \in K /\ m \in C[m.trap]
        BY <1>3
    <2> HIDE DEF C, K
    <2> QED BY <1>3, <2>1
<1>5. \A s, t \in K : s # t => C[s] \cap C[t] = {}
    BY <1>3
<1>6. [t \in K |-> Cardinality({m \in kind : m.trap = t})] = [t \in K |-> Cardinality(C[t])]
    BY <1>3
<1> HIDE DEF C, K, trap
<1>7. IsFiniteSet(K)
    BY <1>1, FiniteImage
<1>8. \A t \in K : IsFiniteSet(C[t])
    BY <1>2, <1>3, FS_Subset
<1>9. SumFunction([t \in DOMAIN C |-> Cardinality(C[t])]) = Cardinality(UNION {C[t] : t \in DOMAIN C})
    BY <1>3, <1>5, <1>7, <1>8, SumOfParts, SMTT(30)
<1> QED BY <1>3, <1>4, <1>6, <1>9 DEF K

LEMMA TrapsAgree ==
    ASSUME IsFiniteSet(matches)
    PROVE  LET stats == TrapStats(matches)
               whole == TrapSummary(matches, 3)
               Total(Number(_)) == SumFunction([t \in DOMAIN stats |-> Number(stats[t])])
           IN /\ Total(LAMBDA r : r.total) = Cardinality(matches)
              /\ Total(LAMBDA r : r.entered) = whole.total_entered
              /\ Total(LAMBDA r : r.sprung) = whole.total_sprung
              /\ Total(LAMBDA r : r.executed) = whole.total_executed
              /\ \A t \in DOMAIN stats : Cardinality(TrapHistory(matches, index, t)) <= stats[t].total
<1> DEFINE stats == TrapStats(matches)
           whole == TrapSummary(matches, 3)
           K == {m.trap : m \in matches}
           Of(type) == {m \in matches : m.type = type}
           fallen == {m \in matches : m.type = "sprung" /\ m.victim}
<1>1. /\ DOMAIN stats = K
      /\ \A t \in K : /\ stats[t].total = Cardinality({m \in matches : m.trap = t})
                      /\ stats[t].entered = Cardinality({m \in Of("entered") : m.trap = t})
                      /\ stats[t].executed = Cardinality({m \in Of("executed") : m.trap = t})
                      /\ stats[t].sprung = Cardinality({m \in fallen : m.trap = t})
    <2>1. DOMAIN stats = K
        BY DEF TrapStats
    <2> SUFFICES ASSUME NEW t \in K
                 PROVE  /\ stats[t].total = Cardinality({m \in matches : m.trap = t})
                        /\ stats[t].entered = Cardinality({m \in Of("entered") : m.trap = t})
                        /\ stats[t].executed = Cardinality({m \in Of("executed") : m.trap = t})
                        /\ stats[t].sprung = Cardinality({m \in fallen : m.trap = t})
        BY <2>1
    <2> DEFINE its == {m \in matches : m.trap = t}
    <2>2. stats[t] = [entered |-> Cardinality({m \in its : m.type = "entered"}),
                      sprung |-> Cardinality({m \in {o \in its : o.victim} : m.type = "sprung"}),
                      executed |-> Cardinality({m \in its : m.type = "executed"}),
                      total |-> Cardinality(its)]
        BY DEF TrapStats, OfType
    <2>3. \A type : {m \in its : m.type = type} = {m \in Of(type) : m.trap = t}
        OBVIOUS
    <2>4. {m \in {o \in its : o.victim} : m.type = "sprung"} = {m \in fallen : m.trap = t}
        OBVIOUS
    <2> HIDE DEF stats, its
    <2>5. /\ stats[t].entered = Cardinality({m \in its : m.type = "entered"})
          /\ stats[t].sprung = Cardinality({m \in {o \in its : o.victim} : m.type = "sprung"})
          /\ stats[t].executed = Cardinality({m \in its : m.type = "executed"})
          /\ stats[t].total = Cardinality(its)
        BY <2>2
    <2> QED BY <2>3, <2>4, <2>5 DEF its
<1>2. /\ whole.total_entered = Cardinality(Of("entered")) /\ whole.total_executed = Cardinality(Of("executed"))
      /\ whole.total_sprung = Cardinality(fallen)
    BY DEF TrapSummary, OfType
<1> HIDE DEF stats, whole
<1>3. /\ [t \in DOMAIN stats |-> stats[t].total] = [t \in K |-> Cardinality({m \in matches : m.trap = t})]
      /\ [t \in DOMAIN stats |-> stats[t].entered] = [t \in K |-> Cardinality({m \in Of("entered") : m.trap = t})]
      /\ [t \in DOMAIN stats |-> stats[t].executed] = [t \in K |-> Cardinality({m \in Of("executed") : m.trap = t})]
      /\ [t \in DOMAIN stats |-> stats[t].sprung] = [t \in K |-> Cardinality({m \in fallen : m.trap = t})]
    BY <1>1
<1>4. /\ matches \in SUBSET matches /\ Of("entered") \in SUBSET matches /\ Of("executed") \in SUBSET matches
      /\ fallen \in SUBSET matches
    OBVIOUS
<1>5. \A t \in DOMAIN stats : Cardinality(TrapHistory(matches, index, t)) <= stats[t].total
    <2> SUFFICES ASSUME NEW t \in K PROVE Cardinality(TrapHistory(matches, index, t)) <= stats[t].total
        BY <1>1
    <2> DEFINE its == {m \in matches : m.trap = t}
    <2>1. IsFiniteSet(its) /\ TrapHistory(matches, index, t) \subseteq its
        BY FS_Subset DEF TrapHistory
    <2>2. Cardinality(TrapHistory(matches, index, t)) <= Cardinality(its)
        BY <2>1, FS_Subset
    <2> QED BY <1>1, <2>2
<1> HIDE DEF Of, fallen
<1>6. \A kind \in SUBSET matches : SumFunction([t \in K |-> Cardinality({m \in kind : m.trap = t})]) = Cardinality(kind)
    BY KindsAdd
<1>7. /\ SumFunction([t \in DOMAIN stats |-> stats[t].total]) = Cardinality(matches)
      /\ SumFunction([t \in DOMAIN stats |-> stats[t].entered]) = whole.total_entered
      /\ SumFunction([t \in DOMAIN stats |-> stats[t].executed]) = whole.total_executed
      /\ SumFunction([t \in DOMAIN stats |-> stats[t].sprung]) = whole.total_sprung
    BY <1>2, <1>3, <1>4, <1>6
<1> QED BY <1>5, <1>7 DEF stats, whole

LEMMA AllAgree == ReportsInv /\ IsFiniteSet(matches) => ReportsAgree
<1> SUFFICES ASSUME ReportsInv, IsFiniteSet(matches) PROVE ReportsAgree
    OBVIOUS
<1>1. ASSUME NEW f \in Filters
      PROVE  LET total == Overview(f).total_blunders
             IN /\ SumFunction(ByPhase(f)) = total /\ SumFunction(ByColor(f)) = total
                /\ SumFunction(ByPattern(f)) = total /\ SumFunction(ByGameType(f)) = total
                /\ SumFunction(ByDifficulty(f)) = total
                /\ DaysOf(f)
                /\ \A games \in {SumFunction(GamesByDay(f)), SumFunction(GamesByHour(f))} :
                     games <= Overview(f).analyzed_games
                /\ Overview(f).total_games <= SumFunction(BySource)
                /\ \A limit \in 1..2 : SumFunction(ByOpening(f, limit)) <= total
                /\ OfTheDates(Candidates(f, SideMap), f) \subseteq Blunders(f)
    <2>1. \A limit \in 1..2 : SumFunction(ByOpening(f, limit)) <= Overview(f).total_blunders
        <3>1. \A limit \in 1..2 : limit \in Nat
            OBVIOUS
        <3> QED BY <3>1, OpeningsAgree
    <2> QED BY <2>1, BreakdownsAgree, DaysAgree, AccurateAgree, SourcesAgree, PuzzlesAreBlunders
<1>2. \A p \in {Row[g].profile : g \in index} :
        LET history == RatingHistory(p, Nothing, 1)
        IN \A n \in DOMAIN history :
              /\ n > 1 => history[n - 1].day < history[n].day
              /\ IsMode(history[n].type) => history[n] \in ToSet(RatingHistory(p, history[n].type, 1))
    BY HistoriesAgree
<1> QED BY <1>1, <1>2, AnswersAgree, TrapsAgree DEF ReportsAgree, DaysOf

(* Whatever is imported, analysed and removed, for any games and filters:   *)
(* the breakdowns of the dashboard (stats_repository.py) are of the same    *)
(* blunders, the trainer offers none but those, a rating history has one    *)
(* point a day in order, and the traps add up to their summary.             *)
THEOREM ReportsAlwaysAgree == ReportsSpec => []ReportsAgree
<1>1. ReportsInit => IsFiniteSet(matches)
    BY FS_EmptySet DEF ReportsInit
<1>2. IsFiniteSet(matches) /\ [ReportsNext]_reportVars => IsFiniteSet(matches)'
    BY MatchesStep
<1> QED BY <1>1, <1>2, AllAgree, ReportsRest, PTL DEF ReportsSpec

-----------------------------------------------------------------------------
(* What is told of a game.                                                  *)

IsRunning(r) ==
    /\ r = Run(r.at, r.left, r.ran, r.todo)
    /\ r.at \in {"idle", "step", "save", "failed", "mark"}
    /\ r.at # "save" => r.todo = {}
    /\ r.at = "save" => "traps" \in r.left
    /\ r.at = "mark" => r.left = {}
    /\ r.at = "idle" => r.ran = {}
    /\ ~("traps" \in r.left /\ "traps" \in r.ran)

(* Rows, saved or still to save, are matches of their games.                *)
RowsAreMatches ==
    /\ \A m \in matches : m.game \in Games /\ m \in MatchGame(m.game, Side[m.game])
    /\ \A g \in Games : \A m \in running[g].todo : m \in MatchGame(g, Side[g])
    /\ \A m \in backfill.todo : /\ backfill.game \in Games
                                /\ m \in MatchGame(backfill.game, Side[backfill.game])

(* The traps of a game are told, or will be by the backfill.  They should   *)
(* be once its step was run or skipped, was recorded, or the flag is set.   *)
IsTold(g) == Due(g) \subseteq matches \cup backfill.todo
ShouldBeTold(g) ==
    \/ running[g].at # "idle" /\ "traps" \notin running[g].left
    \/ "traps" \in recorded[g]
    \/ g \in analysed

(* An analysis and a backfill between them miss no match of a game, unless  *)
(* it was removed while it was analysed.                                    *)
NothingIsMissed ==
    \A g \in Games \ untold :
        /\ running[g].at # "idle" => g \in index
        /\ running[g].at = "save" => Due(g) \subseteq matches \cup backfill.todo \cup running[g].todo
        /\ ShouldBeTold(g) => IsTold(g)

RunsAreNew == \A g \in Games : running[g].at # "idle" => g \notin analysed

ToldTyped ==
    /\ DOMAIN running = Games /\ \A g \in Games : IsRunning(running[g])
    /\ DOMAIN recorded = Games
    /\ backfill = [left |-> backfill.left, game |-> backfill.game, todo |-> backfill.todo]
    /\ backfill.left \subseteq Games

ToldInv == ToldTyped /\ RowsAreMatches /\ NothingIsMissed /\ RunsAreNew

-----------------------------------------------------------------------------
(* The book of openings, and what a game passes of it.                      *)

(* The rows of the book are read in order.                                  *)
LEMMA BookIsRead ==
    ASSUME Len(Book) \in Nat
    PROVE  \E f : /\ EcoEntries = f[Len(Book)]
                  /\ f[0] = <<>>
                  /\ \A i \in 1..Len(Book) : f[i] = Added(f[i - 1], Book[i])
<1> DEFINE n == Len(Book)
           Is(g, k) == g = [i \in 0..k |-> IF i = 0 THEN <<>> ELSE Added(g[i - 1], Book[i])]
           Bad == {k \in 0..n : \A g : ~Is(g, k)}
<1>1. Bad = {}
    <2> SUFFICES ASSUME Bad # {} PROVE FALSE
        OBVIOUS
    <2>1. Bad \in SUBSET Nat
        OBVIOUS
    <2> HIDE DEF Bad
    <2>2. PICK k \in Bad : \A m \in Bad : k <= m
        BY <2>1, LowestIs
    <2>3. k \in 0..n /\ \A g : ~Is(g, k)
        BY DEF Bad
    <2>4. k # 0
        <3> SUFFICES ASSUME k = 0 PROVE FALSE
            OBVIOUS
        <3> DEFINE first == [i \in 0..0 |-> <<>>]
        <3>1. first = [i \in 0..0 |-> IF i = 0 THEN <<>> ELSE Added(first[i - 1], Book[i])]
            <4>1. \A i \in 0..0 : i = 0
                OBVIOUS
            <4> QED BY <4>1
        <3> HIDE DEF first
        <3>2. Is(first, 0)
            BY <3>1
        <3> QED BY <2>3, <3>2
    <2>5. k - 1 \in 0..n /\ k - 1 \notin Bad
        BY <2>1, <2>2, <2>3, <2>4
    <2>6. PICK g : Is(g, k - 1)
        BY <2>5 DEF Bad
    <2> DEFINE h == [i \in 0..k |-> IF i = k THEN Added(g[k - 1], Book[k]) ELSE g[i]]
    <2>7. ASSUME NEW i \in 0..k
          PROVE  h[i] = IF i = 0 THEN <<>> ELSE Added(h[i - 1], Book[i])
        <3>1. CASE i = k
            <4>1. i # 0 /\ i - 1 \in 0..k /\ i - 1 # k
                BY <2>3, <2>4, <3>1
            <4>2. h[i - 1] = g[i - 1] /\ h[i] = Added(g[i - 1], Book[i])
                BY <3>1, <4>1
            <4> QED BY <4>1, <4>2
        <3>2. CASE i # k
            <4>1. i \in 0..(k - 1) /\ h[i] = g[i]
                BY <2>3, <3>2
            <4>2. g[i] = IF i = 0 THEN <<>> ELSE Added(g[i - 1], Book[i])
                BY <2>6, <4>1
            <4>3. i # 0 => i - 1 \in 0..k /\ i - 1 # k /\ h[i - 1] = g[i - 1]
                BY <2>3, <4>1
            <4> QED BY <4>1, <4>2, <4>3
        <3> QED BY <3>1, <3>2
    <2>8. Is(h, k)
        <3>1. h = [i \in 0..k |-> h[i]]
            OBVIOUS
        <3> HIDE DEF h
        <3> QED BY <2>7, <3>1
    <2> HIDE DEF Is
    <2> QED BY <2>3, <2>8
<1> DEFINE f == CHOOSE g : Is(g, n)
<1>2. \E g : Is(g, n)
    <2>1. n \in Nat /\ n \in 0..n
        OBVIOUS
    <2> HIDE DEF Is, n
    <2> QED BY <1>1, <2>1
<1>3. Is(f, n)
    <2> HIDE DEF Is
    <2> QED BY <1>2
<1>4. EcoEntries = f[n]
    BY DEF EcoEntries
<1> HIDE DEF f, n
<1>5. n \in Nat
    BY DEF n
<1>6. \A i \in 0..n : f[i] = IF i = 0 THEN <<>> ELSE Added(f[i - 1], Book[i])
    BY <1>3
<1>7. 0 \in 0..n /\ \A i \in 1..n : i \in 0..n /\ i # 0
    BY <1>5
<1> QED BY <1>4, <1>6, <1>7 DEF n

(* Moves are taken back until a position of the book is met.                *)
(* What a position says, after what the ones before it said.                *)
Named(o, n, before) ==
    IF Positions[o][n] \in DOMAIN EcoEntries THEN EcoEntries[Positions[o][n]].code ELSE before

LEMMA MovesAreTakenBack ==
    ASSUME NEW o \in Games, Len(Positions[o]) \in Nat
    PROVE  \E f : /\ Classified(o) = f[Len(Positions[o])]
                  /\ f[0] = Nothing
                  /\ \A i \in 1..Len(Positions[o]) : f[i] = Named(o, i, f[i - 1])
<1> DEFINE n == Len(Positions[o])
           Is(g, k) == g = [i \in 0..k |-> IF i = 0 THEN Nothing ELSE Named(o, i, g[i - 1])]
           Bad == {k \in 0..n : \A g : ~Is(g, k)}
<1>1. Bad = {}
    <2> SUFFICES ASSUME Bad # {} PROVE FALSE
        OBVIOUS
    <2>1. Bad \in SUBSET Nat
        OBVIOUS
    <2> HIDE DEF Bad
    <2>2. PICK k \in Bad : \A m \in Bad : k <= m
        BY <2>1, LowestIs
    <2>3. k \in 0..n /\ \A g : ~Is(g, k)
        BY DEF Bad
    <2>4. k # 0
        <3> SUFFICES ASSUME k = 0 PROVE FALSE
            OBVIOUS
        <3> DEFINE first == [i \in 0..0 |-> Nothing]
        <3>1. first = [i \in 0..0 |-> IF i = 0 THEN Nothing ELSE Named(o, i, first[i - 1])]
            <4>1. \A i \in 0..0 : i = 0
                OBVIOUS
            <4> QED BY <4>1
        <3> HIDE DEF first
        <3>2. Is(first, 0)
            BY <3>1
        <3> QED BY <2>3, <3>2
    <2>5. k - 1 \in 0..n /\ k - 1 \notin Bad
        BY <2>1, <2>2, <2>3, <2>4
    <2>6. PICK g : Is(g, k - 1)
        BY <2>5 DEF Bad
    <2> DEFINE h == [i \in 0..k |-> IF i = k THEN Named(o, k, g[k - 1]) ELSE g[i]]
    <2>7. ASSUME NEW i \in 0..k
          PROVE  h[i] = IF i = 0 THEN Nothing ELSE Named(o, i, h[i - 1])
        <3>1. CASE i = k
            <4>1. i # 0 /\ i - 1 \in 0..k /\ i - 1 # k
                BY <2>3, <2>4, <3>1
            <4>2. h[i - 1] = g[i - 1] /\ h[i] = Named(o, i, g[i - 1])
                BY <3>1, <4>1
            <4> QED BY <4>1, <4>2
        <3>2. CASE i # k
            <4>1. i \in 0..(k - 1) /\ h[i] = g[i]
                BY <2>3, <3>2
            <4>2. g[i] = IF i = 0 THEN Nothing ELSE Named(o, i, g[i - 1])
                BY <2>6, <4>1
            <4>3. i # 0 => i - 1 \in 0..k /\ i - 1 # k /\ h[i - 1] = g[i - 1]
                BY <2>3, <4>1
            <4> QED BY <4>1, <4>2, <4>3
        <3> QED BY <3>1, <3>2
    <2>8. Is(h, k)
        <3>1. h = [i \in 0..k |-> h[i]]
            OBVIOUS
        <3> HIDE DEF h
        <3> QED BY <2>7, <3>1
    <2> HIDE DEF Is
    <2> QED BY <2>3, <2>8
<1> DEFINE f == CHOOSE g : Is(g, n)
<1>2. \E g : Is(g, n)
    <2>1. n \in Nat /\ n \in 0..n
        OBVIOUS
    <2> HIDE DEF Is, n
    <2> QED BY <1>1, <2>1
<1>3. Is(f, n)
    <2> HIDE DEF Is
    <2> QED BY <1>2
<1>4. Classified(o) = f[n]
    BY DEF Classified, Named
<1> HIDE DEF f, n
<1>5. n \in Nat
    BY DEF n
<1>6. \A i \in 0..n : f[i] = IF i = 0 THEN Nothing ELSE Named(o, i, f[i - 1])
    BY <1>3
<1>7. 0 \in 0..n /\ \A i \in 1..n : i \in 0..n /\ i # 0
    BY <1>5
<1> QED BY <1>4, <1>6, <1>7 DEF n

(* The positions of a game are looked at in order.                          *)
LEMMA GameIsScanned ==
    ASSUME NEW o \in Games, Len(Moves[o]) \in Nat
    PROVE  \E f : /\ Scanned(o) = Finalize(f[Len(Moves[o])], o)
                  /\ f[0] = [entered |-> {}, triggered |-> <<>>]
                  /\ \A i \in 1..Len(Moves[o]) : f[i] = Scan(f[i - 1], o, i)
<1> DEFINE n == Len(Moves[o])
           Is(g, k) == g = [i \in 0..k |-> IF i = 0 THEN [entered |-> {}, triggered |-> <<>>] ELSE Scan(g[i - 1], o, i)]
           Bad == {k \in 0..n : \A g : ~Is(g, k)}
<1>1. Bad = {}
    <2> SUFFICES ASSUME Bad # {} PROVE FALSE
        OBVIOUS
    <2>1. Bad \in SUBSET Nat
        OBVIOUS
    <2> HIDE DEF Bad
    <2>2. PICK k \in Bad : \A m \in Bad : k <= m
        BY <2>1, LowestIs
    <2>3. k \in 0..n /\ \A g : ~Is(g, k)
        BY DEF Bad
    <2>4. k # 0
        <3> SUFFICES ASSUME k = 0 PROVE FALSE
            OBVIOUS
        <3> DEFINE first == [i \in 0..0 |-> [entered |-> {}, triggered |-> <<>>]]
        <3>1. first = [i \in 0..0 |-> IF i = 0 THEN [entered |-> {}, triggered |-> <<>>] ELSE Scan(first[i - 1], o, i)]
            <4>1. \A i \in 0..0 : i = 0
                OBVIOUS
            <4> QED BY <4>1
        <3> HIDE DEF first
        <3>2. Is(first, 0)
            BY <3>1
        <3> QED BY <2>3, <3>2
    <2>5. k - 1 \in 0..n /\ k - 1 \notin Bad
        BY <2>1, <2>2, <2>3, <2>4
    <2>6. PICK g : Is(g, k - 1)
        BY <2>5 DEF Bad
    <2> DEFINE h == [i \in 0..k |-> IF i = k THEN Scan(g[k - 1], o, k) ELSE g[i]]
    <2>7. ASSUME NEW i \in 0..k
          PROVE  h[i] = IF i = 0 THEN [entered |-> {}, triggered |-> <<>>] ELSE Scan(h[i - 1], o, i)
        <3>1. CASE i = k
            <4>1. i # 0 /\ i - 1 \in 0..k /\ i - 1 # k
                BY <2>3, <2>4, <3>1
            <4>2. h[i - 1] = g[i - 1] /\ h[i] = Scan(g[i - 1], o, i)
                BY <3>1, <4>1
            <4> QED BY <4>1, <4>2
        <3>2. CASE i # k
            <4>1. i \in 0..(k - 1) /\ h[i] = g[i]
                BY <2>3, <3>2
            <4>2. g[i] = IF i = 0 THEN [entered |-> {}, triggered |-> <<>>] ELSE Scan(g[i - 1], o, i)
                BY <2>6, <4>1
            <4>3. i # 0 => i - 1 \in 0..k /\ i - 1 # k /\ h[i - 1] = g[i - 1]
                BY <2>3, <4>1
            <4> QED BY <4>1, <4>2, <4>3
        <3> QED BY <3>1, <3>2
    <2>8. Is(h, k)
        <3>1. h = [i \in 0..k |-> h[i]]
            OBVIOUS
        <3> HIDE DEF h
        <3> QED BY <2>7, <3>1
    <2> HIDE DEF Is
    <2> QED BY <2>3, <2>8
<1> DEFINE f == CHOOSE g : Is(g, n)
<1>2. \E g : Is(g, n)
    <2>1. n \in Nat /\ n \in 0..n
        OBVIOUS
    <2> HIDE DEF Is, n
    <2> QED BY <1>1, <2>1
<1>3. Is(f, n)
    <2> HIDE DEF Is
    <2> QED BY <1>2
<1>4. Scanned(o) = Finalize(f[n], o)
    BY DEF Scanned
<1> HIDE DEF f, n
<1>5. n \in Nat
    BY DEF n
<1>6. \A i \in 0..n : f[i] = IF i = 0 THEN [entered |-> {}, triggered |-> <<>>] ELSE Scan(f[i - 1], o, i)
    BY <1>3
<1>7. 0 \in 0..n /\ \A i \in 1..n : i \in 0..n /\ i # 0
    BY <1>5
<1> QED BY <1>4, <1>6, <1>7 DEF n

(* The book knows the positions of its rows, each by a row of its own.      *)
Reads(found, n) ==
    /\ \A p : p \in DOMAIN found <=> \E i \in 1..n : Book[i].at = p /\ p # Nothing
    /\ \A p \in DOMAIN found : \E i \in 1..n : found[p] = Book[i] /\ Book[i].at = p

LEMMA AddedReads ==
    ASSUME NEW found, NEW n \in Nat, n # 0, Reads(found, n - 1)
    PROVE  Reads(Added(found, Book[n]), n)
<1> DEFINE row == Book[n]
           more == Added(found, row)
<1>1. \A i : i \in 1..n <=> i \in 1..(n - 1) \/ i = n
    OBVIOUS
<1>2. CASE row.at = Nothing
    <2>1. more = found
        BY <1>2 DEF Added
    <2> QED BY <1>1, <1>2, <2>1 DEF Reads
<1>3. CASE row.at # Nothing /\ Kept(found, row)
    <2>1. more = found /\ row.at \in DOMAIN found
        BY <1>3 DEF Added, Kept
    <2> QED BY <1>1, <1>3, <2>1 DEF Reads
<1>4. CASE row.at # Nothing /\ ~Kept(found, row)
    <2>1. more = [p \in DOMAIN found \cup {row.at} |-> IF p = row.at THEN row ELSE found[p]]
        BY <1>4 DEF Added
    <2>2. /\ DOMAIN more = DOMAIN found \cup {row.at}
          /\ \A p \in DOMAIN more : more[p] = IF p = row.at THEN row ELSE found[p]
        BY <2>1
    <2> HIDE DEF more
    <2> HIDE DEF row
    <2>3. \A p : p \in DOMAIN more <=> \E i \in 1..n : Book[i].at = p /\ p # Nothing
        BY <1>1, <1>4, <2>2 DEF Reads, row
    <2>4. \A p \in DOMAIN more : \E i \in 1..n : more[p] = Book[i] /\ Book[i].at = p
        BY <1>1, <1>4, <2>2 DEF Reads, row
    <2> QED BY <2>3, <2>4 DEF Reads, more, row
<1> QED BY <1>2, <1>3, <1>4

LEMMA EcoEntriesAre == Len(Book) \in Nat /\ Reads(EcoEntries, Len(Book))
<1>1. Len(Book) \in Nat
    BY OpeningsAssumption DEF OpeningsAssumption
<1> DEFINE n == Len(Book)
<1>2. PICK f : /\ EcoEntries = f[n] /\ f[0] = <<>>
               /\ \A i \in 1..n : f[i] = Added(f[i - 1], Book[i])
    BY <1>1, BookIsRead
<1> DEFINE Bad == {k \in 0..n : ~Reads(f[k], k)}
<1>3. Bad = {}
    <2> SUFFICES ASSUME Bad # {} PROVE FALSE
        OBVIOUS
    <2>1. Bad \in SUBSET Nat /\ \A k : k \in Bad <=> k \in 0..n /\ ~Reads(f[k], k)
        BY <1>1
    <2> HIDE DEF Bad, n
    <2>2. PICK k \in Bad : \A m \in Bad : k <= m
        BY <2>1, LowestIs
    <2>3. k # 0
        <3>1. DOMAIN <<>> = {} /\ 1..0 = {}
            OBVIOUS
        <3>2. Reads(<<>>, 0)
            BY <3>1 DEF Reads
        <3> QED BY <1>2, <2>1, <3>2
    <2>4. k \in Nat /\ k - 1 \in 0..n /\ k - 1 \notin Bad /\ k \in 1..n
        BY <1>1, <2>1, <2>2, <2>3 DEF n
    <2>5. Reads(f[k - 1], k - 1)
        BY <2>1, <2>4
    <2>6. Reads(f[k], k)
        BY <1>2, <2>3, <2>4, <2>5, AddedReads
    <2> QED BY <2>1, <2>2, <2>6
<1>4. n \in 0..n
    BY <1>1
<1> QED BY <1>1, <1>2, <1>3, <1>4

(* The opening of a game is that of the last position of the book it passed. *)
LEMMA OpeningsAre ==
    ASSUME NEW o \in Games
    PROVE  LET last == Len(Positions[o])
               InBook(n) == Positions[o][n] \in DOMAIN EcoEntries
           IN /\ last \in Nat
              /\ Opening[o] = Nothing <=> \A n \in 1..last : ~InBook(n)
              /\ Opening[o] # Nothing =>
                    \E n \in 1..last : /\ InBook(n) /\ Opening[o] = EcoEntries[Positions[o][n]].code
                                       /\ \A k \in (n + 1)..last : ~InBook(k)
<1> DEFINE last == Len(Positions[o])
           InBook(n) == Positions[o][n] \in DOMAIN EcoEntries
           Is(code, m) ==
               /\ code = Nothing <=> \A n \in 1..m : ~InBook(n)
               /\ code # Nothing =>
                     \E n \in 1..m : /\ InBook(n) /\ code = EcoEntries[Positions[o][n]].code
                                     /\ \A k \in (n + 1)..m : ~InBook(k)
<1>1. last \in Nat
    BY OpeningsAssumption DEF OpeningsAssumption
<1>2. PICK f : /\ Classified(o) = f[last] /\ f[0] = Nothing
               /\ \A i \in 1..last : f[i] = IF Positions[o][i] \in DOMAIN EcoEntries
                                              THEN EcoEntries[Positions[o][i]].code ELSE f[i - 1]
    BY <1>1, MovesAreTakenBack DEF Named
<1>3. \A p \in DOMAIN EcoEntries : EcoEntries[p].code # Nothing
    <2> SUFFICES ASSUME NEW p \in DOMAIN EcoEntries PROVE EcoEntries[p].code # Nothing
        OBVIOUS
    <2>1. PICK i \in 1..Len(Book) : EcoEntries[p] = Book[i]
        BY EcoEntriesAre DEF Reads
    <2>2. Book[i] \in ToSet(Book)
        BY EcoEntriesAre, OpeningsAssumption DEF OpeningsAssumption, ToSet
    <2> QED BY <2>1, <2>2, OpeningsAssumption DEF OpeningsAssumption
<1> DEFINE Bad == {k \in 0..last : ~Is(f[k], k)}
<1>4. Bad = {}
    <2> SUFFICES ASSUME Bad # {} PROVE FALSE
        OBVIOUS
    <2>1. Bad \in SUBSET Nat /\ \A k : k \in Bad <=> k \in 0..last /\ ~Is(f[k], k)
        BY <1>1
    <2> HIDE DEF Bad, last
    <2>2. PICK k \in Bad : \A m \in Bad : k <= m
        BY <2>1, LowestIs
    <2>3. k # 0
        BY <1>2, <2>1
    <2>4. k \in Nat /\ k - 1 \in 0..last /\ k - 1 \notin Bad /\ k \in 1..last
        BY <1>1, <2>1, <2>2, <2>3 DEF last
    <2>5. Is(f[k - 1], k - 1)
        BY <2>1, <2>4
    <2>6. CASE InBook(k)
        <3>1. f[k] = EcoEntries[Positions[o][k]].code /\ f[k] # Nothing
            BY <1>2, <1>3, <2>4, <2>6
        <3>2. k \in 1..k /\ (k + 1)..k = {}
            BY <2>4
        <3> QED BY <2>1, <2>6, <3>1, <3>2
    <2>7. CASE ~InBook(k)
        <3>1. f[k] = f[k - 1]
            BY <1>2, <2>4, <2>7
        <3>2. \A i : i \in 1..k <=> i \in 1..(k - 1) \/ i = k
            BY <2>4
        <3>3. \A n \in 1..(k - 1) : \A i \in (n + 1)..k : i \in (n + 1)..(k - 1) \/ i = k
            BY <2>4
        <3>4. Is(f[k], k)
            BY <2>5, <2>7, <3>1, <3>2, <3>3
        <3> QED BY <2>1, <3>4
    <2> QED BY <2>6, <2>7
<1>5. Is(f[last], last)
    <2>1. last \in 0..last
        BY <1>1
    <2> HIDE DEF Is
    <2> QED BY <1>4, <2>1
<1>6. Opening[o] = f[last]
    BY <1>2 DEF Opening
<1> QED BY <1>1, <1>5, <1>6

-----------------------------------------------------------------------------
(* The scan of a game for traps.                                            *)

Errs(g, t, n) == \E s \in Spots[t] : s.at = Positions[g][n] /\ s.mistake = Moves[g][n]

(* What was seen of the first n positions, and of the moves from them.      *)
Sees(scan, g, n) ==
    /\ \A t : t \in scan.entered <=> t \in Traps /\ \E i \in 1..n : t \in Met(g, i)
    /\ \A t : t \in DOMAIN scan.triggered <=> t \in Traps /\ \E i \in 1..n : Errs(g, t, i)
    /\ \A t \in DOMAIN scan.triggered :
          /\ scan.triggered[t] \in 1..n /\ Errs(g, t, scan.triggered[t])
          /\ \A i \in 1..n : Errs(g, t, i) => scan.triggered[t] <= i

LEMMA ScanSees ==
    ASSUME NEW g, NEW scan, NEW n \in Nat, n # 0, Sees(scan, g, n - 1)
    PROVE  Sees(Scan(scan, g, n), g, n)
<1> DEFINE more == Scan(scan, g, n)
           now == Sprung(scan, g, n)
<1>1. /\ more.entered = scan.entered \cup Met(g, n)
      /\ more.triggered = [t \in DOMAIN scan.triggered \cup now |-> IF t \in now THEN n ELSE scan.triggered[t]]
    BY DEF Scan
<1>2. \A t : t \in now <=> t \in Traps /\ t \notin DOMAIN scan.triggered /\ Errs(g, t, n)
    BY DEF Sprung, Errs
<1>3. \A t : t \in Met(g, n) => t \in Traps
    BY DEF Met
<1> HIDE DEF more, now
<1>4. \A i : i \in 1..n <=> i \in 1..(n - 1) \/ i = n
    OBVIOUS
<1>5. /\ DOMAIN more.triggered = DOMAIN scan.triggered \cup now
      /\ \A t \in now : more.triggered[t] = n
      /\ \A t \in DOMAIN scan.triggered : more.triggered[t] = scan.triggered[t]
    BY <1>1, <1>2
<1>6. \A t : t \in more.entered <=> t \in Traps /\ \E i \in 1..n : t \in Met(g, i)
    BY <1>1, <1>3, <1>4 DEF Sees
<1>7. \A t : t \in DOMAIN more.triggered <=> t \in Traps /\ \E i \in 1..n : Errs(g, t, i)
    BY <1>2, <1>4, <1>5 DEF Sees
<1>8. ASSUME NEW t \in DOMAIN more.triggered
      PROVE  /\ more.triggered[t] \in 1..n /\ Errs(g, t, more.triggered[t])
             /\ \A i \in 1..n : Errs(g, t, i) => more.triggered[t] <= i
    <2>1. CASE t \in now
        <3>1. more.triggered[t] = n /\ Errs(g, t, n)
            BY <1>2, <1>5, <2>1
        <3>2. \A i \in 1..(n - 1) : ~Errs(g, t, i)
            BY <1>2, <2>1 DEF Sees
        <3>3. \A i \in 1..n : Errs(g, t, i) => i = n
            BY <1>4, <3>2
        <3> QED BY <3>1, <3>3
    <2>2. CASE t \in DOMAIN scan.triggered
        <3> DEFINE first == scan.triggered[t]
        <3>1. more.triggered[t] = first
            BY <1>5, <2>2
        <3>2. first \in 1..(n - 1) /\ Errs(g, t, first) /\ \A i \in 1..(n - 1) : Errs(g, t, i) => first <= i
            BY <2>2 DEF Sees
        <3> HIDE DEF first
        <3>3. first \in 1..n /\ first <= n
            BY <3>2
        <3> QED BY <1>4, <3>1, <3>2, <3>3
    <2> QED BY <1>5, <2>1, <2>2
<1> QED BY <1>6, <1>7, <1>8 DEF Sees, more

LEMMA ScannedAre ==
    ASSUME NEW o \in Games
    PROVE  LET last == Len(Moves[o])
               scan == Scanned(o)
           IN /\ last \in Nat /\ DOMAIN Moves[o] = 1..last
              /\ Len(Positions[o]) = last + 1 /\ DOMAIN Positions[o] = 1..(last + 1)
              /\ \A t : t \in scan.entered <=> t \in Traps /\ \E i \in 1..(last + 1) : t \in Met(o, i)
              /\ \A t : t \in DOMAIN scan.triggered <=> t \in Traps /\ \E i \in 1..last : Errs(o, t, i)
              /\ \A t \in DOMAIN scan.triggered :
                    /\ scan.triggered[t] \in 1..last /\ Errs(o, t, scan.triggered[t])
                    /\ \A i \in 1..last : Errs(o, t, i) => scan.triggered[t] <= i
<1> DEFINE last == Len(Moves[o])
<1>1. /\ last \in Nat /\ DOMAIN Moves[o] = 1..last
      /\ Len(Positions[o]) = last + 1 /\ DOMAIN Positions[o] = 1..(last + 1)
    BY OpeningsAssumption DEF OpeningsAssumption
<1>2. PICK f : /\ Scanned(o) = Finalize(f[last], o)
               /\ f[0] = [entered |-> {}, triggered |-> <<>>]
               /\ \A i \in 1..last : f[i] = Scan(f[i - 1], o, i)
    BY <1>1, GameIsScanned
<1> DEFINE Bad == {k \in 0..last : ~Sees(f[k], o, k)}
<1>3. Bad = {}
    <2> SUFFICES ASSUME Bad # {} PROVE FALSE
        OBVIOUS
    <2>1. Bad \in SUBSET Nat /\ \A k : k \in Bad <=> k \in 0..last /\ ~Sees(f[k], o, k)
        BY <1>1
    <2> HIDE DEF Bad, last
    <2>2. PICK k \in Bad : \A m \in Bad : k <= m
        BY <2>1, LowestIs
    <2>3. k # 0
        <3>1. f[0].entered = {} /\ DOMAIN f[0].triggered = {} /\ 1..0 = {}
            BY <1>2
        <3>2. Sees(f[0], o, 0)
            BY <3>1 DEF Sees
        <3> QED BY <2>1, <3>2
    <2>4. k \in Nat /\ k - 1 \in 0..last /\ k - 1 \notin Bad /\ k \in 1..last
        BY <1>1, <2>1, <2>2, <2>3 DEF last
    <2>5. Sees(f[k - 1], o, k - 1)
        BY <2>1, <2>4
    <2>6. Sees(f[k], o, k)
        BY <1>2, <2>3, <2>4, <2>5, ScanSees
    <2> QED BY <2>1, <2>2, <2>6
<1>4. Sees(f[last], o, last)
    <2>1. last \in 0..last
        BY <1>1
    <2> QED BY <1>3, <2>1
<1>5. /\ DOMAIN f[last] = {"entered", "triggered"}
    <2>1. CASE last = 0
        BY <1>2, <2>1
    <2>2. CASE last # 0
        <3>1. last \in 1..last
            BY <1>1, <2>2
        <3>2. f[last] = Scan(f[last - 1], o, last)
            BY <1>2, <3>1
        <3> QED BY <3>2 DEF Scan
    <2> QED BY <2>1, <2>2
<1> HIDE DEF last
<1>6. /\ Scanned(o).entered = f[last].entered \cup Met(o, last + 1)
      /\ Scanned(o).triggered = f[last].triggered
    <2>1. Scanned(o) = [f[last] EXCEPT !.entered = f[last].entered \cup Met(o, last + 1)]
        BY <1>1, <1>2 DEF Finalize
    <2> QED BY <1>5, <2>1
<1>7. \A i : i \in 1..(last + 1) <=> i \in 1..last \/ i = last + 1
    BY <1>1
<1>8. \A t : t \in Met(o, last + 1) => t \in Traps
    BY DEF Met
<1>9. \A t : t \in Scanned(o).entered <=> t \in Traps /\ \E i \in 1..(last + 1) : t \in Met(o, i)
    BY <1>4, <1>6, <1>7, <1>8 DEF Sees
<1> QED BY <1>1, <1>4, <1>6, <1>9 DEF Sees, last

-----------------------------------------------------------------------------
(* The matches of a game: one for each trap it reached.                     *)

LEMMA MatchesAre ==
    ASSUME NEW o \in Games, NEW side
    PROVE  \A m : m \in MatchGame(o, side) <=>
                     \E t \in Traps : /\ m = Match(o, t, Scanned(o), side)
                                      /\ \E i \in 1..(Len(Moves[o]) + 1) : t \in Met(o, i)
<1>1. /\ Len(Moves[o]) \in Nat
      /\ \A t : t \in Scanned(o).entered <=> t \in Traps /\ \E i \in 1..(Len(Moves[o]) + 1) : t \in Met(o, i)
      /\ \A t : t \in DOMAIN Scanned(o).triggered <=> t \in Traps /\ \E i \in 1..Len(Moves[o]) : Errs(o, t, i)
    BY ScannedAre
<1>2. \A i \in 1..Len(Moves[o]) : i \in 1..(Len(Moves[o]) + 1)
    BY <1>1
<1>3. \A t \in Traps : \A i : Errs(o, t, i) => t \in Met(o, i)
    BY DEF Errs, Met
<1>4. DOMAIN Scanned(o).triggered \subseteq Scanned(o).entered
    BY <1>1, <1>2, <1>3
<1>5. \A m : m \in MatchGame(o, side) <=> \E t \in Scanned(o).entered : m = Match(o, t, Scanned(o), side)
    BY <1>4 DEF MatchGame
<1> QED BY <1>1, <1>5

LEMMA MatchFields ==
    ASSUME NEW o, NEW t, NEW scan, NEW side
    PROVE  LET m == Match(o, t, scan, side)
               sprung == t \in DOMAIN scan.triggered
           IN /\ m.game = o /\ m.trap = t
              /\ m.type # "entered" <=> sprung
              /\ m.type = "sprung" => Victim[t] = side
              /\ m.ply = IF sprung THEN scan.triggered[t] ELSE 0
BY DEF Match

LEMMA OneEach ==
    ASSUME NEW o \in Games, NEW side, NEW m \in MatchGame(o, side)
    PROVE  m.game = o /\ (\A k \in MatchGame(o, side) : k.trap = m.trap => k = m)
<1>1. PICK t : m = Match(o, t, Scanned(o), side)
    BY MatchesAre
<1>2. ASSUME NEW k \in MatchGame(o, side), k.trap = m.trap
      PROVE  k = m
    <2>1. PICK u : k = Match(o, u, Scanned(o), side)
        BY MatchesAre
    <2> QED BY <1>1, <1>2, <2>1, MatchFields
<1> QED BY <1>1, <1>2, MatchFields

TrapTold(o, t, side, rows) ==
    LET mistakes == {n \in DOMAIN Moves[o] : \E s \in Spots[t] :
                       s.at = Positions[o][n] /\ s.mistake = Moves[o][n]}
    IN IF \A s \in Spots[t] : s.at \notin ToSet(Positions[o]) THEN rows = {}
       ELSE \E m \in rows :
              /\ rows = {m}
              /\ m.type # "entered" <=> mistakes # {}
              /\ m.type = "sprung" => Victim[t] = side
              /\ m.ply = IF mistakes = {} THEN 0 ELSE Min(mistakes)

LEMMA RowOfTrap ==
    ASSUME NEW o \in Games, NEW side, NEW t \in Traps
    PROVE  TrapTold(o, t, side, {m \in MatchGame(o, side) : m.trap = t})
<1> DEFINE last == Len(Moves[o])
           scan == Scanned(o)
           reached == ToSet(Positions[o])
           mistakes == {n \in DOMAIN Moves[o] : \E s \in Spots[t] :
                          s.at = Positions[o][n] /\ s.mistake = Moves[o][n]}
           rows == {m \in MatchGame(o, side) : m.trap = t}
           one == Match(o, t, scan, side)
<1>1. /\ last \in Nat /\ DOMAIN Moves[o] = 1..last /\ DOMAIN Positions[o] = 1..(last + 1)
      /\ t \in DOMAIN scan.triggered <=> \E i \in 1..last : Errs(o, t, i)
      /\ t \in DOMAIN scan.triggered =>
            /\ scan.triggered[t] \in 1..last /\ Errs(o, t, scan.triggered[t])
            /\ \A i \in 1..last : Errs(o, t, i) => scan.triggered[t] <= i
    BY ScannedAre
<1>2. \A n : n \in mistakes <=> n \in 1..last /\ Errs(o, t, n)
    BY <1>1 DEF Errs
<1>3. mistakes \subseteq Nat
    BY <1>1
<1>4. (\E s \in Spots[t] : s.at \in reached) <=> \E i \in 1..(last + 1) : t \in Met(o, i)
    <2>1. reached = {Positions[o][i] : i \in 1..(last + 1)}
        BY <1>1 DEF ToSet
    <2> QED BY <2>1 DEF Met
<1>5. \A m : m \in rows <=> m = one /\ \E i \in 1..(last + 1) : t \in Met(o, i)
    BY MatchesAre, MatchFields
<1>6. /\ one.type # "entered" <=> t \in DOMAIN scan.triggered
      /\ one.type = "sprung" => Victim[t] = side
      /\ one.ply = IF t \in DOMAIN scan.triggered THEN scan.triggered[t] ELSE 0
    BY MatchFields
<1> HIDE DEF last, scan, mistakes, rows, one, reached
<1>7. t \in DOMAIN scan.triggered <=> mistakes # {}
    BY <1>1, <1>2
<1>8. ASSUME mistakes # {} PROVE scan.triggered[t] = Min(mistakes)
    <2> DEFINE least == scan.triggered[t]
    <2>1. least \in mistakes /\ least \in Nat /\ \A n \in mistakes : least <= n
        BY <1>1, <1>2, <1>3, <1>7, <1>8
    <2> HIDE DEF least
    <2>2. \E n \in mistakes : \A k \in mistakes : n <= k
        BY <2>1
    <2>3. Min(mistakes) \in mistakes /\ \A k \in mistakes : Min(mistakes) <= k
        BY <2>2 DEF Min
    <2>4. Min(mistakes) \in Nat /\ Min(mistakes) <= least /\ least <= Min(mistakes)
        BY <1>3, <2>1, <2>3
    <2>5. least = Min(mistakes)
        BY <2>1, <2>4
    <2> QED BY <2>5 DEF least
<1>9. CASE \A s \in Spots[t] : s.at \notin reached
    BY <1>4, <1>5, <1>9 DEF TrapTold, rows, reached
<1>10. CASE \E s \in Spots[t] : s.at \in reached
    <2>1. one \in rows /\ rows = {one}
        BY <1>4, <1>5, <1>10
    <2>2. /\ one.type # "entered" <=> mistakes # {}
          /\ one.ply = IF mistakes = {} THEN 0 ELSE Min(mistakes)
        BY <1>6, <1>7, <1>8
    <2> QED BY <1>6, <1>10, <2>1, <2>2 DEF TrapTold, rows, reached, mistakes
<1> QED BY <1>9, <1>10 DEF reached

-----------------------------------------------------------------------------
(* From the invariant to what the tables say.                               *)

OpeningTold(o) ==
    LET Deepest(p) == \E n \in DOMAIN Positions[o] :
            Positions[o][n] = p /\ \A k \in n..Len(Positions[o]) :
                k > n => \A row \in ToSet(Book) : row.at # Positions[o][k]
    IN /\ Opening[o] = Nothing <=> \A row \in ToSet(Book) : row.at \notin ToSet(Positions[o])
       /\ Opening[o] # Nothing => \E row \in ToSet(Book) : row.code = Opening[o] /\ Deepest(row.at)

LEMMA OpeningFits == ASSUME NEW o \in Games PROVE OpeningTold(o)
<1> DEFINE last == Len(Positions[o])
           reached == ToSet(Positions[o])
           InBook(n) == Positions[o][n] \in DOMAIN EcoEntries
           Deepest(p) == \E n \in DOMAIN Positions[o] :
                   Positions[o][n] = p /\ \A k \in n..Len(Positions[o]) :
                       k > n => \A row \in ToSet(Book) : row.at # Positions[o][k]
<1>1. /\ last \in Nat /\ DOMAIN Positions[o] = 1..last
      /\ \A n \in 1..last : Positions[o][n] # Nothing
      /\ reached = {Positions[o][n] : n \in 1..last}
    <2>1. Positions[o] \in Seq(reached) /\ Nothing \notin reached
        BY OpeningsAssumption DEF OpeningsAssumption
    <2>2. last \in Nat /\ DOMAIN Positions[o] = 1..last
        BY <2>1
    <2>3. reached = {Positions[o][n] : n \in DOMAIN Positions[o]}
        BY DEF ToSet
    <2> QED BY <2>1, <2>2, <2>3
<1>2. /\ Len(Book) \in Nat /\ DOMAIN Book = 1..Len(Book)
      /\ ToSet(Book) = {Book[i] : i \in 1..Len(Book)}
    BY EcoEntriesAre, OpeningsAssumption DEF OpeningsAssumption, ToSet
<1>3. \A n \in 1..last : InBook(n) <=> \E row \in ToSet(Book) : row.at = Positions[o][n]
    BY <1>1, <1>2, EcoEntriesAre DEF Reads
<1>4. \A n \in 1..last : InBook(n) =>
          \E row \in ToSet(Book) : row = EcoEntries[Positions[o][n]] /\ row.at = Positions[o][n]
    BY <1>2, EcoEntriesAre DEF Reads
<1>5. /\ Opening[o] = Nothing <=> \A n \in 1..last : ~InBook(n)
      /\ Opening[o] # Nothing =>
            \E n \in 1..last : /\ InBook(n) /\ Opening[o] = EcoEntries[Positions[o][n]].code
                               /\ \A k \in (n + 1)..last : ~InBook(k)
    BY OpeningsAre
<1> HIDE DEF InBook
<1>6. Opening[o] = Nothing <=> \A row \in ToSet(Book) : row.at \notin reached
    BY <1>1, <1>3, <1>5
<1>7. ASSUME Opening[o] # Nothing
      PROVE  \E row \in ToSet(Book) : row.code = Opening[o] /\ Deepest(row.at)
    <2>1. PICK n \in 1..last : /\ InBook(n) /\ Opening[o] = EcoEntries[Positions[o][n]].code
                               /\ \A k \in (n + 1)..last : ~InBook(k)
        BY <1>5, <1>7
    <2>2. PICK row \in ToSet(Book) : row = EcoEntries[Positions[o][n]] /\ row.at = Positions[o][n]
        BY <1>4, <2>1
    <2>3. \A k \in n..last : k > n => k \in (n + 1)..last /\ k \in 1..last
        BY <1>1
    <2>4. \A k \in n..last : k > n => \A r \in ToSet(Book) : r.at # Positions[o][k]
        BY <1>3, <2>1, <2>3
    <2>5. Deepest(row.at)
        BY <1>1, <2>2, <2>4
    <2> QED BY <2>1, <2>2, <2>5
<1> QED BY <1>6, <1>7 DEF OpeningTold

LEMMA ToldMeansBookIsTold == ReportsInv /\ ToldInv => BookIsTold
<1> SUFFICES ASSUME ReportsInv, ToldInv, NEW g \in analysed \ untold,
                    g = backfill.game => backfill.todo = {}
             PROVE  /\ OpeningTold(g)
                    /\ Side[g] # Neither /\ "traps" \in mix =>
                          \A t \in Traps : TrapTold(g, t, Side[g], {m \in matches : m.game = g /\ m.trap = t})
    BY DEF BookIsTold, OpeningTold, TrapTold
<1>1. g \in Games /\ g \in analysed /\ g \notin untold
    BY DEF ReportsInv, TablesTyped
<1>2. \A m \in matches : m.game = g => m \in MatchGame(g, Side[g])
    BY DEF ToldInv, RowsAreMatches
<1>3. ASSUME NEW m \in backfill.todo PROVE m.game # g
    <2>1. backfill.game \in Games /\ m \in MatchGame(backfill.game, Side[backfill.game])
        BY DEF ToldInv, RowsAreMatches
    <2> QED BY <2>1, OneEach
<1>4. ASSUME Side[g] # Neither, "traps" \in mix
      PROVE  \A m \in MatchGame(g, Side[g]) : m \in matches /\ m.game = g
    <2>1. MatchGame(g, Side[g]) \subseteq matches \cup backfill.todo
        BY <1>1, <1>4 DEF ToldInv, NothingIsMissed, ShouldBeTold, IsTold, Due
    <2> QED BY <1>1, <1>3, <2>1, OneEach
<1>5. ASSUME NEW t, Side[g] # Neither, "traps" \in mix
      PROVE  {m \in matches : m.game = g /\ m.trap = t} = {m \in MatchGame(g, Side[g]) : m.trap = t}
    BY <1>2, <1>4, <1>5
<1>6. ASSUME NEW t \in Traps, Side[g] # Neither, "traps" \in mix
      PROVE  TrapTold(g, t, Side[g], {m \in matches : m.game = g /\ m.trap = t})
    BY <1>1, <1>5, <1>6, RowOfTrap
<1> QED BY <1>1, <1>6, OpeningFits

-----------------------------------------------------------------------------
(* Every step keeps what is told.                                           *)

(* To replace the row of a game and a trap is to add it: it says the same.  *)
LEMMA SavedAdds ==
    ASSUME RowsAreMatches, NEW g \in Games, NEW m \in MatchGame(g, Side[g])
    PROVE  Saved(m) = matches \cup {m}
<1>1. m.game = g
    BY OneEach
<1>2. ASSUME NEW o \in matches, o.game = m.game, o.trap = m.trap
      PROVE  o = m
    <2>1. o \in MatchGame(g, Side[g])
        BY <1>1, <1>2 DEF RowsAreMatches
    <2> QED BY <1>2, <2>1, OneEach
<1> QED BY <1>2 DEF Saved

LEMMA FoundAre ==
    ASSUME NEW g \in Games
    PROVE  /\ Found(g) \subseteq MatchGame(g, Side[g])
           /\ g \in index => Found(g) = Due(g)
BY DEF Found, Due

LEMMA SameDue == ASSUME mix' = mix PROVE \A g : Due(g)' = Due(g)
BY DEF Due

LEMMA DueAre == ASSUME NEW g \in Games PROVE \A m \in Due(g) : m.game = g
BY OneEach DEF Due

LEMMA RunIs ==
    ASSUME NEW a, NEW l, NEW x, NEW t
    PROVE  LET run == Run(a, l, x, t)
           IN /\ run = Run(run.at, run.left, run.ran, run.todo)
              /\ run.at = a /\ run.left = l /\ run.ran = x /\ run.todo = t
BY DEF Run

LEMMA IdleRuns == IsRunning(NotRun) /\ NotRun.at = "idle" /\ NotRun.ran = {} /\ NotRun.todo = {}
BY RunIs DEF NotRun, IsRunning

LEMMA ToldInit == ReportsInit => ToldInv
<1> SUFFICES ASSUME ReportsInit PROVE ToldInv
    OBVIOUS
<1>1. /\ DOMAIN running = Games /\ DOMAIN recorded = Games
      /\ \A g \in Games : /\ IsRunning(running[g]) /\ running[g].at = "idle" /\ running[g].todo = {}
                          /\ recorded[g] = {}
    BY IdleRuns DEF ReportsInit
<1>2. analysed = {} /\ matches = {} /\ backfill = [left |-> {}, game |-> Nothing, todo |-> {}]
    BY DEF ReportsInit, Resting
<1> QED BY <1>1, <1>2 DEF ToldInv, ToldTyped, RowsAreMatches, NothingIsMissed, ShouldBeTold, RunsAreNew

LEMMA SameTold ==
    ASSUME ToldInv, UNCHANGED <<mix, analysed, running, recorded, traps>>, index \subseteq index'
    PROVE  ToldInv'
<1>1. ToldTyped' /\ RowsAreMatches' /\ RunsAreNew'
    BY DEF ToldInv, ToldTyped, RowsAreMatches, RunsAreNew, IsRunning, traps
<1>2. NothingIsMissed'
    BY SameDue DEF ToldInv, NothingIsMissed, ShouldBeTold, IsTold, traps
<1> QED BY <1>1, <1>2 DEF ToldInv

(* A step of the analysis of one game leaves what is told of the others.    *)
LEMMA RunTells ==
    ASSUME ToldInv, UNCHANGED <<mix, backfill>>, NEW g \in Games, NEW r, IsRunning(r),
           running' = [running EXCEPT ![g] = r],
           matches \subseteq matches', \A m \in matches' : m \in matches \/ (m.game = g /\ m \in MatchGame(g, Side[g])),
           \A m \in r.todo : m \in MatchGame(g, Side[g]),
           index \subseteq index', DOMAIN recorded' = Games,
           \A o \in Games : o # g => /\ recorded'[o] = recorded[o]
                                     /\ (o \in analysed' <=> o \in analysed) /\ (o \in untold' <=> o \in untold),
           r.at # "idle" => g \notin analysed',
           g \notin untold' =>
              /\ r.at # "idle" => g \in index'
              /\ r.at = "save" => Due(g) \subseteq matches' \cup backfill.todo \cup r.todo
              /\ (r.at # "idle" /\ "traps" \notin r.left) \/ "traps" \in recorded'[g] \/ g \in analysed'
                   => Due(g) \subseteq matches' \cup backfill.todo
    PROVE  ToldInv'
<1>1. /\ DOMAIN running' = Games /\ running'[g] = r
      /\ \A o \in Games : o # g => running'[o] = running[o]
    BY DEF ToldInv, ToldTyped
<1>2. ToldTyped'
    <2>1. \A o \in Games : IsRunning(running'[o])
        BY <1>1 DEF ToldInv, ToldTyped
    <2>2. \A o \in Games : IsRunning(running[o])'
        BY <2>1 DEF IsRunning
    <2> QED BY <1>1, <2>2 DEF ToldInv, ToldTyped
<1>3. RowsAreMatches'
    BY <1>1 DEF ToldInv, RowsAreMatches
<1>4. RunsAreNew'
    BY <1>1 DEF ToldInv, RunsAreNew
<1>5. NothingIsMissed'
    <2> SUFFICES ASSUME NEW o \in Games, o \notin untold'
                 PROVE  /\ running'[o].at # "idle" => o \in index'
                        /\ running'[o].at = "save" => Due(o)' \subseteq matches' \cup backfill'.todo \cup running'[o].todo
                        /\ ShouldBeTold(o)' => IsTold(o)'
        BY DEF NothingIsMissed
    <2>1. CASE o = g
        BY <1>1, <2>1, SameDue DEF ShouldBeTold, IsTold
    <2>2. CASE o # g
        <3>1. /\ running[o].at # "idle" => o \in index
              /\ running[o].at = "save" => Due(o) \subseteq matches \cup backfill.todo \cup running[o].todo
              /\ ShouldBeTold(o) => IsTold(o)
            BY <2>2 DEF ToldInv, NothingIsMissed
        <3>2. ShouldBeTold(o)' <=> ShouldBeTold(o)
            BY <1>1, <2>2 DEF ShouldBeTold
        <3>3. IsTold(o) => IsTold(o)'
            BY SameDue DEF IsTold
        <3> QED BY <1>1, <2>2, <3>1, <3>2, <3>3, SameDue
    <2> QED BY <2>1, <2>2
<1> QED BY <1>2, <1>3, <1>4, <1>5 DEF ToldInv

(* What is known of the game an analysis is at.                             *)
LEMMA RunningIs ==
    ASSUME ToldInv, NEW g \in Games
    PROVE  /\ IsRunning(running[g]) /\ DOMAIN running = Games /\ DOMAIN recorded = Games
           /\ running[g].at # "idle" => g \notin analysed
           /\ \A m \in running[g].todo : m \in MatchGame(g, Side[g])
           /\ g \notin untold =>
                 /\ running[g].at # "idle" => g \in index
                 /\ running[g].at = "save" => Due(g) \subseteq matches \cup backfill.todo \cup running[g].todo
                 /\ (running[g].at # "idle" /\ "traps" \notin running[g].left) \/ "traps" \in recorded[g] \/ g \in analysed
                      => Due(g) \subseteq matches \cup backfill.todo
BY DEF ToldInv, ToldTyped, RunsAreNew, RowsAreMatches, NothingIsMissed, ShouldBeTold, IsTold

LEMMA BeginTells ==
    ASSUME ReportsInv, ToldInv, mix' = mix, NEW g \in Games, Analyse(g) \/ Upload(g)
    PROVE  ToldInv'
<1> DEFINE r == Run("step", Steps, {}, {})
<1>1. running' = [running EXCEPT ![g] = r]
    BY DEF Analyse, Upload, Begins
<1>2. IsRunning(r) /\ r.at = "step" /\ r.left = Steps /\ r.todo = {} /\ "traps" \in Steps
    BY RunIs DEF IsRunning, Steps
<1> HIDE DEF r
<1>3. UNCHANGED <<analysed, recorded, matches, backfill, untold>> /\ index \subseteq index' /\ g \in index'
    BY DEF Analyse, Upload, tables, kept, traps
<1>4. g \notin analysed
    BY DEF Analyse, Upload, ReportsInv, TablesTyped
<1> QED BY <1>1, <1>2, <1>3, <1>4, RunningIs, RunTells

(* A step that was run, or skipped because it had been recorded.            *)
LEMMA SkipTells ==
    ASSUME ToldInv, mix' = mix, NEW g \in Games, NEW s \in Steps, SkipStep(g, s)
    PROVE  ToldInv'
<1> DEFINE r == Run(running[g].at, running[g].left \ {s}, running[g].ran, running[g].todo)
<1>1. running' = [running EXCEPT ![g] = r]
    BY DEF SkipStep
<1>2. running[g].at = "step" /\ s \in recorded[g]
    BY DEF SkipStep, IsNext
<1>3. /\ IsRunning(r) /\ r.at = "step" /\ r.left = running[g].left \ {s} /\ r.todo = {}
    BY <1>2, RunningIs, RunIs DEF IsRunning
<1> HIDE DEF r
<1>4. UNCHANGED <<index, analysed, recorded, matches, backfill, untold>>
    BY DEF SkipStep, tables, kept, traps
<1> QED BY <1>1, <1>2, <1>3, <1>4, RunningIs, RunTells

LEMMA DoneIs ==
    ASSUME ToldInv, NEW g \in Games, NEW s, Done(g, s), running[g].at \in {"step", "save"}, running[g].todo = {}
    PROVE  \E r : /\ running' = [running EXCEPT ![g] = r]
                  /\ IsRunning(r) /\ r.at = "step" /\ r.left = running[g].left \ {s} /\ r.todo = {}
<1> DEFINE r == Run("step", running[g].left \ {s}, running[g].ran \cup {s}, running[g].todo)
<1>1. running' = [running EXCEPT ![g] = r]
    BY DEF Done
<1>2. IsRunning(r) /\ r.at = "step" /\ r.left = running[g].left \ {s} /\ r.todo = {}
    BY RunningIs, RunIs DEF IsRunning
<1> HIDE DEF r
<1> QED BY <1>1, <1>2

LEMMA DoneTells ==
    ASSUME ToldInv, mix' = mix, NEW g \in Games,
           (\E s \in Steps : ComputeStep(g, s)) \/ WriteMoves(g) \/ TrapsAreSaved(g)
    PROVE  ToldInv'
<1>1. PICK s : Done(g, s) /\ (s = "traps" => TrapsAreSaved(g)) /\ (s # "traps" => running[g].at = "step")
    BY DEF ComputeStep, WriteMoves, TrapsAreSaved, IsExecuted, IsNext
<1>2. running[g].at \in {"step", "save"} /\ running[g].todo = {}
    BY <1>1, RunningIs DEF TrapsAreSaved, IsRunning
<1>3. PICK r : /\ running' = [running EXCEPT ![g] = r]
               /\ IsRunning(r) /\ r.at = "step" /\ r.left = running[g].left \ {s} /\ r.todo = {}
    BY <1>1, <1>2, DoneIs
<1>4. UNCHANGED <<index, analysed, recorded, matches, backfill, untold>>
    BY DEF ComputeStep, WriteMoves, TrapsAreSaved, tables, kept, traps
<1>5. g \notin untold /\ "traps" \notin r.left => Due(g) \subseteq matches \cup backfill.todo
    <2>1. CASE s = "traps"
        BY <1>1, <1>2, <2>1, RunningIs DEF TrapsAreSaved
    <2>2. CASE s # "traps"
        BY <1>1, <1>3, <2>2, RunningIs
    <2> QED BY <2>1, <2>2
<1> QED BY <1>2, <1>3, <1>4, <1>5, RunningIs, RunTells

LEMMA LookTells == ASSUME ToldInv, mix' = mix, NEW g \in Games, LookForTraps(g) PROVE ToldInv'
<1> DEFINE r == Run("save", running[g].left, running[g].ran, Found(g))
<1>1. running' = [running EXCEPT ![g] = r]
    BY DEF LookForTraps
<1>2. running[g].at = "step" /\ "traps" \in running[g].left /\ "traps" \notin recorded[g]
    BY DEF LookForTraps, IsExecuted, IsNext
<1>3. IsRunning(r) /\ r.at = "save" /\ r.left = running[g].left /\ r.todo = Found(g)
    BY <1>2, RunningIs, RunIs DEF IsRunning
<1> HIDE DEF r
<1>4. UNCHANGED <<index, analysed, recorded, matches, backfill>> /\ untold' = untold \ ({g} \cap index)
    BY DEF LookForTraps, tables, kept
<1>5. g \notin untold' => g \in index /\ Found(g) = Due(g)
    BY <1>2, <1>4, RunningIs, FoundAre
<1>6. \A o \in Games : o # g => (o \in untold' <=> o \in untold)
    BY <1>4
<1> QED BY <1>1, <1>2, <1>3, <1>4, <1>5, <1>6, FoundAre, RunningIs, RunTells

LEMMA SaveTells ==
    ASSUME ToldInv, mix' = mix, NEW g \in Games, NEW m \in running[g].todo, SaveMatch(g, m)
    PROVE  ToldInv'
<1> DEFINE r == Run(running[g].at, running[g].left, running[g].ran, running[g].todo \ {m})
<1>1. running' = [running EXCEPT ![g] = r]
    BY DEF SaveMatch
<1>2. running[g].at = "save"
    BY RunningIs DEF IsRunning
<1>3. IsRunning(r) /\ r.at = "save" /\ r.left = running[g].left /\ r.todo = running[g].todo \ {m}
    BY <1>2, RunningIs, RunIs DEF IsRunning
<1> HIDE DEF r
<1>4. m \in MatchGame(g, Side[g]) /\ m.game = g
    BY RunningIs, OneEach
<1>5. /\ UNCHANGED <<index, analysed, recorded, backfill, untold>>
      /\ matches' = matches \cup {m}
    BY <1>4, SavedAdds DEF SaveMatch, tables, kept, ToldInv
<1>6. \A o \in matches' : o \in matches \/ (o.game = g /\ o \in MatchGame(g, Side[g]))
    BY <1>4, <1>5
<1>7. \A o \in r.todo : o \in MatchGame(g, Side[g])
    BY <1>3, RunningIs
<1>8. g \notin untold' =>
         /\ g \in index'
         /\ Due(g) \subseteq matches' \cup backfill.todo \cup r.todo
         /\ "traps" \notin r.left \/ "traps" \in recorded'[g] \/ g \in analysed'
              => Due(g) \subseteq matches' \cup backfill.todo
    BY <1>2, <1>3, <1>5, RunningIs
<1>9. g \notin analysed' /\ DOMAIN recorded' = Games
    BY <1>2, <1>5, RunningIs
<1> QED BY <1>1, <1>3, <1>5, <1>6, <1>7, <1>8, <1>9, RunTells

(* What a run that ends leaves is as whole as what it recorded.             *)
LEMMA FailTells == ASSUME ToldInv, mix' = mix, NEW g \in Games, StepFails(g) PROVE ToldInv'
<1> DEFINE r == Run("failed", running[g].left, running[g].ran, {})
<1>1. running' = [running EXCEPT ![g] = r]
    BY DEF StepFails
<1>2. running[g].at \in {"step", "save"}
    BY DEF StepFails
<1>3. IsRunning(r) /\ r.at = "failed" /\ r.left = running[g].left /\ r.todo = {}
    BY <1>2, RunningIs, RunIs DEF IsRunning
<1> HIDE DEF r
<1>4. UNCHANGED <<index, analysed, recorded, matches, backfill, untold>>
    BY DEF StepFails, tables, kept, traps
<1> QED BY <1>1, <1>2, <1>3, <1>4, RunningIs, RunTells

LEMMA CutTells == ASSUME ToldInv, mix' = mix, NEW g \in Games, CutShort(g) PROVE ToldInv'
<1>1. running' = [running EXCEPT ![g] = NotRun]
    BY DEF CutShort
<1>2. UNCHANGED <<index, analysed, recorded, matches, backfill, untold>>
    BY DEF CutShort, tables, kept, traps
<1> QED BY <1>1, <1>2, IdleRuns, RunningIs, RunTells

LEMMA RecordTells == ASSUME ToldInv, mix' = mix, NEW g \in Games, Record(g) PROVE ToldInv'
<1> DEFINE r == Run("mark", {}, running[g].ran, {})
<1>1. /\ UNCHANGED <<index, analysed, matches, backfill, untold>>
      /\ recorded' = [recorded EXCEPT ![g] = @ \cup running[g].ran]
    BY DEF Record, tables, traps
<1>2. DOMAIN recorded' = Games /\ recorded'[g] = recorded[g] \cup running[g].ran
      /\ \A o \in Games : o # g => recorded'[o] = recorded[o]
    BY <1>1, RunningIs
<1>3. running[g].at # "idle" /\ ("traps" \in running[g].ran => "traps" \notin running[g].left)
    BY RunningIs DEF Record, IsRunning
<1>4. g \notin untold /\ "traps" \in recorded'[g] => Due(g) \subseteq matches \cup backfill.todo
    BY <1>2, <1>3, RunningIs
<1>5. CASE running[g].at = "failed"
    <2>1. running' = [running EXCEPT ![g] = NotRun]
        BY <1>5 DEF Record
    <2> QED BY <1>1, <1>2, <1>3, <1>4, <2>1, IdleRuns, RunningIs, RunTells
<1>6. CASE running[g].at = "step" /\ running[g].left = {}
    <2>1. running' = [running EXCEPT ![g] = r]
        BY <1>6 DEF Record
    <2>2. IsRunning(r) /\ r.at = "mark" /\ r.left = {} /\ r.todo = {}
        BY <1>6, RunningIs, RunIs DEF IsRunning
    <2> HIDE DEF r
    <2> QED BY <1>1, <1>2, <1>3, <1>4, <1>6, <2>1, <2>2, RunningIs, RunTells
<1> QED BY <1>5, <1>6 DEF Record

LEMMA MarkTells == ASSUME ToldInv, mix' = mix, NEW g \in Games, MarkAnalysed(g) PROVE ToldInv'
<1>1. running' = [running EXCEPT ![g] = NotRun] /\ running[g].at = "mark"
    BY DEF MarkAnalysed
<1>2. /\ UNCHANGED <<index, recorded, matches, backfill, untold>>
      /\ analysed' = analysed \cup ({g} \cap index)
    BY DEF MarkAnalysed, kept, traps
<1>3. "traps" \notin running[g].left
    BY <1>1, RunningIs DEF IsRunning
<1> QED BY <1>1, <1>2, <1>3, IdleRuns, RunningIs, RunTells

(* The backfill looks over a game by itself.                                *)
LEMMA BackfillTells ==
    ASSUME ToldInv, mix' = mix, analysed \subseteq Games,
           BeginBackfill \/ (\E g \in Games : BackfillGame(g))
    PROVE  ToldInv'
<1>1. /\ UNCHANGED <<index, analysed, matches, running, recorded>>
      /\ untold' \subseteq untold
    BY DEF BeginBackfill, BackfillGame, tables, kept
<1>2. backfill.todo = {}
    BY DEF BeginBackfill, BackfillGame, Resting
<1>3. /\ backfill' = [left |-> backfill'.left, game |-> backfill'.game, todo |-> backfill'.todo]
      /\ backfill'.left \subseteq Games
      /\ backfill'.todo # {} => /\ backfill'.game \in Games
                                /\ backfill'.todo \subseteq MatchGame(backfill'.game, Side[backfill'.game])
    <2>1. CASE BeginBackfill
        <3>1. backfill' = [left |-> analysed \ {m.game : m \in matches}, game |-> Nothing, todo |-> {}]
            BY <2>1 DEF BeginBackfill, Resting
        <3> QED BY <3>1
    <2>2. ASSUME NEW g \in Games, BackfillGame(g)
          PROVE  /\ backfill' = [left |-> backfill'.left, game |-> backfill'.game, todo |-> backfill'.todo]
                 /\ backfill'.left \subseteq Games /\ backfill'.game = g
                 /\ backfill'.todo \subseteq MatchGame(g, Side[g])
        <3>1. backfill' = [left |-> backfill.left \ {g}, game |-> g, todo |-> Found(g)]
            BY <2>2 DEF BackfillGame
        <3> QED BY <3>1, FoundAre DEF ToldInv, ToldTyped
    <2> QED BY <2>1, <2>2
<1>4. ToldTyped'
    BY <1>1, <1>3 DEF ToldInv, ToldTyped, IsRunning
<1>5. RowsAreMatches'
    BY <1>1, <1>3 DEF ToldInv, RowsAreMatches
<1>6. ASSUME NEW g \in Games, g \in untold, g \notin untold'
      PROVE  g \in index /\ backfill'.todo = Due(g)
    <2>1. BackfillGame(g)
        BY <1>6 DEF BeginBackfill, BackfillGame
    <2>2. backfill' = [left |-> backfill.left \ {g}, game |-> g, todo |-> Found(g)] /\ g \in index
        BY <1>6, <2>1 DEF BackfillGame
    <2> QED BY <2>2, FoundAre
<1>7. NothingIsMissed'
    <2> SUFFICES ASSUME NEW g \in Games, g \notin untold'
                 PROVE  /\ running[g].at # "idle" => g \in index
                        /\ running[g].at = "save" => Due(g) \subseteq matches \cup backfill'.todo \cup running[g].todo
                        /\ ShouldBeTold(g) => Due(g) \subseteq matches \cup backfill'.todo
        BY <1>1, SameDue DEF NothingIsMissed, ShouldBeTold, IsTold
    <2>1. CASE g \in untold
        BY <1>6, <2>1
    <2>2. CASE g \notin untold
        BY <1>2, <2>2 DEF ToldInv, NothingIsMissed, IsTold
    <2> QED BY <2>1, <2>2
<1>8. RunsAreNew'
    BY <1>1 DEF ToldInv, RunsAreNew
<1> QED BY <1>4, <1>5, <1>7, <1>8 DEF ToldInv

LEMMA BackfillMatchTells ==
    ASSUME ToldInv, mix' = mix, NEW m \in backfill.todo, BackfillMatch(m)
    PROVE  ToldInv'
<1>1. UNCHANGED <<index, analysed, untold, running, recorded>>
    BY DEF BackfillMatch, tables, kept
<1>2. PICK l, g, x : backfill = [left |-> l, game |-> g, todo |-> x]
    BY DEF ToldInv, ToldTyped
<1>3. backfill.left = l /\ backfill.game = g /\ backfill.todo = x
    BY <1>2
<1>4. backfill' = [left |-> l, game |-> g, todo |-> x \ {m}]
    <2>1. backfill' = [[left |-> l, game |-> g, todo |-> x] EXCEPT !.todo = x \ {m}]
        BY <1>2, <1>3 DEF BackfillMatch
    <2> QED BY <2>1
<1>5. backfill'.left = l /\ backfill'.game = g /\ backfill'.todo = x \ {m}
    BY <1>4
<1>6. g \in Games /\ m \in MatchGame(g, Side[g]) /\ m.game = g
    BY <1>3, OneEach DEF ToldInv, RowsAreMatches
<1>7. matches' = matches \cup {m}
    BY <1>6, SavedAdds DEF BackfillMatch, ToldInv
<1>8. ToldTyped'
    BY <1>1, <1>3, <1>4, <1>5 DEF ToldInv, ToldTyped, IsRunning
<1>9. RowsAreMatches'
    BY <1>1, <1>3, <1>5, <1>6, <1>7 DEF ToldInv, RowsAreMatches
<1>10. RunsAreNew'
    BY <1>1 DEF ToldInv, RunsAreNew
<1>11. NothingIsMissed'
    BY <1>1, <1>3, <1>5, <1>7, SameDue DEF ToldInv, NothingIsMissed, ShouldBeTold, IsTold
<1> QED BY <1>8, <1>9, <1>10, <1>11 DEF ToldInv

LEMMA EndTells == ASSUME ToldInv, mix' = mix, EndBackfill PROVE ToldInv'
<1>1. UNCHANGED <<index, analysed, matches, running, recorded>> /\ backfill' = Resting
    BY DEF EndBackfill, tables, kept
<1>2. ToldTyped' /\ RowsAreMatches' /\ RunsAreNew'
    BY <1>1 DEF ToldInv, ToldTyped, RowsAreMatches, RunsAreNew, IsRunning, Resting
<1>3. \A g : g \notin untold' => g \notin untold /\ (backfill.todo # {} => g # backfill.game)
    BY DEF EndBackfill
<1>4. ASSUME NEW g \in Games, g \notin untold', NEW more, Due(g) \subseteq matches \cup backfill.todo \cup more
      PROVE  Due(g) \subseteq matches \cup more
    <2>1. \A m \in backfill.todo : m.game = backfill.game
        BY OneEach DEF ToldInv, RowsAreMatches
    <2> QED BY <1>3, <1>4, <2>1, DueAre
<1>5. NothingIsMissed'
    <2> SUFFICES ASSUME NEW g \in Games, g \notin untold'
                 PROVE  /\ running[g].at # "idle" => g \in index
                        /\ running[g].at = "save" => Due(g) \subseteq matches \cup running[g].todo
                        /\ ShouldBeTold(g) => Due(g) \subseteq matches
        BY <1>1, SameDue DEF NothingIsMissed, ShouldBeTold, IsTold, Resting
    <2>1. /\ running[g].at # "idle" => g \in index
          /\ running[g].at = "save" => Due(g) \subseteq matches \cup backfill.todo \cup running[g].todo
          /\ ShouldBeTold(g) => Due(g) \subseteq matches \cup backfill.todo \cup {}
        BY <1>3 DEF ToldInv, NothingIsMissed, IsTold
    <2>2. ShouldBeTold(g) => Due(g) \subseteq matches \cup {}
        BY <1>4, <2>1
    <2> QED BY <1>4, <2>1, <2>2
<1> QED BY <1>2, <1>5 DEF ToldInv

(* Games that go, by profile or by a wipe: those under analysis are untold. *)
LEMMA RemovalTells ==
    ASSUME ToldInv, mix' = mix, UNCHANGED <<backfill, running>>,
           NEW gone, gone = index \ index', Told(gone),
           index' \subseteq index, analysed' \subseteq analysed \cap index',
           DOMAIN recorded' = Games, \A g \in Games : recorded'[g] \subseteq recorded[g],
           matches' \subseteq matches,
           \A m \in matches \ matches' : m.game \in gone /\ recorded'[m.game] = {}
    PROVE  ToldInv'
<1>1. ToldTyped' /\ RowsAreMatches' /\ RunsAreNew'
    BY DEF ToldInv, ToldTyped, RowsAreMatches, RunsAreNew, IsRunning
<1>2. \A run : run.at # "idle" => run # NotRun
    BY IdleRuns
<1>3. \A g \in Games : g \notin untold' => /\ g \notin untold
                                           /\ running[g].at # "idle" => g \notin gone
    BY <1>2 DEF Told
<1>4. NothingIsMissed'
    <2> SUFFICES ASSUME NEW g \in Games, g \notin untold'
                 PROVE  /\ running[g].at # "idle" => g \in index'
                        /\ running[g].at = "save" => Due(g) \subseteq matches' \cup backfill.todo \cup running[g].todo
                        /\ ShouldBeTold(g)' => Due(g) \subseteq matches' \cup backfill.todo
        BY SameDue DEF NothingIsMissed, IsTold
    <2>1. /\ running[g].at # "idle" => g \in index
          /\ running[g].at = "save" => Due(g) \subseteq matches \cup backfill.todo \cup running[g].todo
          /\ ShouldBeTold(g) => Due(g) \subseteq matches \cup backfill.todo
        BY <1>3 DEF ToldInv, NothingIsMissed, IsTold
    <2>2. ShouldBeTold(g)' => ShouldBeTold(g)
        BY DEF ShouldBeTold
    <2>3. \A m \in Due(g) : m.game = g
        BY DueAre
    <2>4. CASE \E m \in matches \ matches' : m.game = g
        <3>1. g \in gone /\ recorded'[g] = {}
            BY <2>4
        <3>2. running[g].at = "idle" /\ g \notin analysed'
            BY <1>3, <3>1
        <3> QED BY <3>1, <3>2 DEF ShouldBeTold
    <2>5. CASE \A m \in matches \ matches' : m.game # g
        <3>1. \A m \in Due(g) : m \in matches => m \in matches'
            BY <2>3, <2>5
        <3> QED BY <1>3, <2>1, <2>2, <3>1
    <2> QED BY <2>4, <2>5
<1> QED BY <1>1, <1>4 DEF ToldInv

LEMMA DeleteTells == ASSUME ReportsInv, ToldInv, mix' = mix, NEW p, DeleteProfile(p) PROVE ToldInv'
<1> DEFINE gone == {g \in index : Row[g].profile = p}
<1>1. /\ index' = index \ gone /\ analysed' = analysed \ gone
      /\ recorded' = [g \in Games |-> IF g \in gone THEN {} ELSE recorded[g]]
      /\ matches' = {m \in matches : m.game \notin gone}
      /\ Told(gone) /\ UNCHANGED <<backfill, running>>
    BY DEF DeleteProfile
<1>2. analysed \subseteq index /\ index \subseteq Games
    BY DEF ReportsInv, TablesTyped
<1>3. gone = index \ index' /\ gone \subseteq Games
    BY <1>1, <1>2
<1> HIDE DEF gone
<1>4. /\ index' \subseteq index /\ analysed' \subseteq analysed \cap index' /\ matches' \subseteq matches
      /\ DOMAIN recorded' = Games /\ \A g \in Games : recorded'[g] \subseteq recorded[g]
      /\ \A m \in matches \ matches' : m.game \in gone /\ recorded'[m.game] = {}
    BY <1>1, <1>2, <1>3
<1> QED BY <1>1, <1>3, <1>4, RemovalTells

LEMMA WipeTells == ASSUME ReportsInv, ToldInv, mix' = mix, WipeTable PROVE ToldInv'
<1>1. /\ index' \subseteq index /\ analysed' \subseteq analysed \cap index'
      /\ Told(index \ index') /\ UNCHANGED <<matches, backfill, running>>
    BY DEF WipeTable, ReportsInv, TablesTyped
<1>2. DOMAIN recorded' = Games /\ \A g \in Games : recorded'[g] \subseteq recorded[g]
    BY DEF WipeTable
<1> QED BY <1>1, <1>2, RemovalTells

LEMMA ToldStep == ASSUME ReportsInv, ToldInv, [ReportsNext]_reportVars PROVE ToldInv'
<1> USE DEF traps, tables, kept
<1>1. mix' = mix
    BY DEF ReportsNext, reportVars
<1>2. CASE UNCHANGED reportVars
    BY <1>2, SameTold DEF reportVars
<1>3. CASE Tables
    <2>1. ASSUME NEW g \in Games, Import(g) PROVE ToldInv'
        BY <1>1, <2>1, SameTold DEF Import
    <2>2. ASSUME NEW n, BeginWipe \/ WipeFails \/ RestEnds(n) \/ (\E g \in Games : FillEco(g) \/ FillPhase(g))
          PROVE  ToldInv'
        BY <1>1, <2>2, SameTold DEF BeginWipe, WipeFails, RestEnds, FillEco, FillPhase
    <2>3. analysed \subseteq Games
        BY DEF ReportsInv, TablesTyped
    <2>4. ASSUME NEW g \in Games, BackfillGame(g) PROVE ToldInv'
        BY <1>1, <2>3, <2>4, BackfillTells
    <2>5. ASSUME NEW g \in Games, AnalysisStep(g) PROVE ToldInv'
        BY <1>1, <2>5, BeginTells, SkipTells, DoneTells, LookTells, SaveTells, FailTells, CutTells, RecordTells,
           MarkTells DEF AnalysisStep
    <2> QED BY <1>1, <1>3, <2>1, <2>2, <2>3, <2>4, <2>5, BackfillTells, BackfillMatchTells, EndTells, DeleteTells,
               WipeTells DEF Tables
<1>4. CASE (\E f \in Filters : AskCollapse(f) \/ AskPuzzle(f)) \/ AnswerCollapse \/ Sent
    <2>1. UNCHANGED <<traps, index, analysed, running, recorded>>
        BY <1>4 DEF AskCollapse, AskPuzzle, AnswerCollapse, Sent, Goes
    <2> QED BY <1>1, <2>1, SameTold
<1>5. CASE Puzzle
    <2>1. UNCHANGED <<traps, index, analysed, running, recorded>>
        BY <1>5 DEF Puzzle, FetchBlunders, FilterByDate, FilterRecentlySolved, NoBlundersFound, Serve,
                    GameNotFound, Choose, Goes, Fails
    <2> QED BY <1>1, <2>1, SameTold
<1>6. CASE \E g \in Games : \E m \in Known(g) :
              AskSpecific(g, m) \/ \E right \in BOOLEAN : SubmitAttempt(g, m.ply, right)
    <2>1. UNCHANGED <<traps, index, analysed, running, recorded>>
        BY <1>6 DEF AskSpecific, SubmitAttempt, Goes
    <2> QED BY <1>1, <2>1, SameTold
<1> QED BY <1>2, <1>3, <1>4, <1>5, <1>6 DEF ReportsNext

(* BookIsTold, in every state: what is told of an analysed game's opening   *)
(* and traps is what its positions say (steps/traps.py,                     *)
(* trap_backfill_service.py, eco.py), for any games, book and traps.        *)
THEOREM BookAlwaysTold == ReportsSpec => []BookIsTold
<1>1. ReportsInit => ReportsInv /\ ToldInv
    BY RequestInit, ToldInit
<1>2. ReportsInv /\ ToldInv /\ [ReportsNext]_reportVars => ReportsInv' /\ ToldInv'
    BY ReportsStep, ToldStep
<1>3. ReportsInv /\ ToldInv => BookIsTold
    BY ToldMeansBookIsTold
<1> QED BY <1>1, <1>2, <1>3, PTL DEF ReportsSpec
=============================================================================
