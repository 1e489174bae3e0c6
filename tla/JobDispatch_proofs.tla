------------------------- MODULE JobDispatch_proofs -------------------------
(***************************************************************************)
(* What is proved of JobDispatch, for any users, rows and tasks and any    *)
(* number of starts of the process.                                        *)
(*                                                                         *)
(* A row is served once because it is requested once: its request passes   *)
(* from its creator (or the tick) over the queue to a task, and is never   *)
(* in two of these places (Placed).  So the entry of a row's task in the   *)
(* table of running tasks is popped by that task and by no other, and a    *)
(* shutdown finds it there.                                                *)
(***************************************************************************)
EXTENDS JobDispatch, FiniteSetTheorems, SequenceTheorems, TLAPS

Active == {t \in Tasks : at[t] # "none"}

\* The event of a row: the row is, or was, there, and the user is its owner.
Right(e) == e.id \in Jobs => status[e.id] # "absent" /\ e.user = owner[e.id]
TickHas(j) == tick.at = "publishing" /\ tick.job = j

Rightful ==
    /\ \A j \in Jobs : IF status[j] = "absent" THEN owner[j] = NoUser ELSE owner[j] \in Users
    /\ \A t \in Active : event[t] \in Events /\ Right(event[t])
    /\ \A n \in DOMAIN queue : Right(queue[n])
    /\ \A j \in creating : status[j] # "absent"
    /\ tick.at = "publishing" =>
          /\ tick.job \in Jobs /\ owner[tick.job] = tick.user
          /\ status[tick.job] # "absent" /\ tick.job \notin creating

\* The request of a row is with its creator, in the queue, or a task.
Placed ==
    /\ \A t, u \in Active : event[t].id \in Jobs /\ event[t].id = event[u].id => t = u
    /\ \A m, n \in DOMAIN queue : queue[m].id \in Jobs /\ queue[m].id = queue[n].id => m = n
    /\ \A t \in Active, n \in DOMAIN queue : event[t].id \in Jobs => event[t].id # queue[n].id
    /\ \A j \in Publishing : /\ \A t \in Active : event[t].id # j
                             /\ \A n \in DOMAIN queue : queue[n].id # j

Listening == app = "up" => subscribed

\* Where a directory is gone, so is the account, and the rows with it.
Removed ==
    /\ \A u \in Users : ~dir[u] => account[u] = "removed"
    /\ \A j \in Jobs : status[j] = "pending" => account[owner[j]] # "removed"

\* While the executor stops, what it waits for is all that it had to cancel.
Waited ==
    /\ app \in {"stopping", "down", "unscheduled"} =>
          \A t \in LiveTasks : t \in late \/ event[t].id \in Users \/ t \in awaited
    /\ app \in {"down", "unscheduled"} => \A t \in awaited : at[t] = "ended"

\* Who is let at the data of a removed account was so before it was removed.
LetInBefore == \A u \in Users : account[u] = "removed" /\ (dir[u] \/ LetIn(u)) => u \in inside

IInv == /\ TypeOK /\ Rightful /\ Placed /\ RowTasksAreTracked
        /\ Listening /\ Removed /\ PendingIsServed /\ Waited /\ LetInBefore

-----------------------------------------------------------------------------
(* The types.                                                               *)

TickType == [at : {"idle", "next", "settings", "creating", "publishing", "stats", "sending"},
             todo : SUBSET Users, user : Users \cup {NoUser}, job : Jobs \cup {NoJob}]
TickOK == tick \in TickType /\ (tick.user = NoUser <=> tick.at \in {"idle", "next"})

LEMMA TickMoves ==
  ASSUME TickOK
  PROVE  /\ \A s \in {"creating", "stats", "sending"} :
                tick.at \notin {"idle", "next"} /\ MoveTick(s) => TickOK'
         /\ NextUser => TickOK'
         /\ tick' = TickIdle => TickOK'
<1>1. /\ tick = [at |-> tick.at, todo |-> tick.todo, user |-> tick.user, job |-> tick.job]
      /\ tick.todo \in SUBSET Users /\ tick.user \in Users \cup {NoUser}
      /\ tick.job \in Jobs \cup {NoJob}
  BY DEF TickOK, TickType
<1>2. ASSUME NEW s \in {"creating", "stats", "sending"}, tick.at \notin {"idle", "next"}, MoveTick(s)
      PROVE  TickOK'
  <2>1. tick' = [at |-> s, todo |-> tick.todo, user |-> tick.user, job |-> tick.job]
    BY <1>1, <1>2 DEF MoveTick
  <2> QED  BY <1>1, <1>2, <2>1 DEF TickOK, TickType
<1>3. ASSUME NextUser PROVE TickOK'
  <2>1. tick' = [at |-> "next", todo |-> tick.todo, user |-> NoUser, job |-> NoJob]
    BY <1>1, <1>3 DEF NextUser
  <2> QED  BY <1>1, <2>1 DEF TickOK, TickType
<1>4. ASSUME tick' = TickIdle PROVE TickOK'
  BY <1>4 DEF TickOK, TickType, TickIdle
<1> QED  BY <1>2, <1>3, <1>4

LEMMA SendTyped ==
  ASSUME TypeOK, NEW e \in Events, Send(e)
  PROVE  /\ queue' \in Seq(Events) /\ lost' \subseteq Jobs
         /\ subscribed' = subscribed /\ loop' = loop
<1>1. queue \in Seq(Events) /\ lost \subseteq Jobs
  BY DEF TypeOK
<1>2. Delivered(e) \in Seq(Events)
  BY <1>1, AppendProperties DEF Delivered
<1> QED  BY <1>1, <1>2 DEF Send

LEMMA TypeInit == Init => TypeOK
<1> SUFFICES ASSUME Init PROVE TypeOK
  OBVIOUS
<1>1. queue \in Seq(Events)
  BY EmptySeq DEF Init
<1>2. TickOK
  BY DEF Init, TickOK, TickType, TickIdle
<1> QED  BY <1>1, <1>2 DEF Init, TypeOK, TickOK, TickType

\* The rows, and who asks for them.
LEMMA RowsTyped ==
  ASSUME TypeOK, Rightful,
         \/ \E j \in Jobs : RequestJob(j) \/ (\E u \in Users : CreateJob(j, u)) \/ CreateSync(j)
         \/ RequestSync \/ RequestStats
  PROVE  TypeOK'
<1>0. TickOK
  BY DEF TypeOK, TickOK, TickType
<1>1. ASSUME NEW j \in Jobs, NEW u \in Users, CreateJob(j, u) PROVE TypeOK'
  BY <1>1 DEF CreateJob, Insert, TypeOK, accounts, clocks, bus, tasks, process
<1>2. ASSUME NEW j \in Jobs, RequestJob(j) PROVE TypeOK'
  <2>1. [id |-> j, user |-> owner[j]] \in Events
    BY <1>2 DEF RequestJob, Rightful, Events, Ids
  <2> QED  BY <1>2, <2>1, SendTyped DEF RequestJob, TypeOK, accounts, clocks, tasks, process
<1>3. ASSUME NEW j \in Jobs, CreateSync(j) PROVE TypeOK'
  <2>1. tick.user \in Users
    BY <1>0, <1>3 DEF TickOK, TickType, CreateSync
  <2>2. TickOK'
    BY <1>0, <1>3 DEF TickOK, TickType, CreateSync
  <2> QED  BY <1>3, <2>1, <2>2 DEF CreateSync, Insert, TypeOK, TickOK, TickType, accounts, clocks,
     bus, tasks, process
<1>4. CASE RequestSync
  <2>1. [id |-> tick.job, user |-> tick.user] \in Events
    BY <1>0, <1>4 DEF RequestSync, Rightful, Events, Ids, TickOK, TickType
  <2>2. TickOK'
    BY <1>0, <1>4 DEF TickOK, TickType, RequestSync
  <2> QED  BY <1>4, <2>1, <2>2, SendTyped DEF RequestSync, TypeOK, TickOK, TickType, accounts, clocks,
     tasks, process
<1>5. CASE RequestStats
  <2>1. [id |-> tick.user, user |-> tick.user] \in Events
    BY <1>0, <1>5 DEF RequestStats, Events, Ids, TickOK, TickType
  <2>2. TickOK'
    BY <1>0, <1>5, TickMoves DEF RequestStats
  <2> QED  BY <1>5, <2>1, <2>2, SendTyped DEF RequestStats, TypeOK, TickOK, TickType, accounts, clocks,
     tasks, process
<1> QED  BY <1>1, <1>2, <1>3, <1>4, <1>5

LEMMA FlagSet ==
  ASSUME NEW f \in [Users -> BOOLEAN], NEW u, NEW b \in BOOLEAN
  PROVE  [f EXCEPT ![u] = b] \in [Users -> BOOLEAN]
OBVIOUS

\* The tick, where it asks for nothing.
Wandering == \/ TickStarts \/ TickEnds \/ ReadSync \/ ReadStats \/ VisitFails
             \/ \E u \in Users : Visit(u)
LEMMA WanderingTyped ==
  ASSUME TypeOK, Wandering
  PROVE  TypeOK'
<1>0. TickOK
  BY DEF TypeOK, TickOK, TickType
<1>1. TickOK'
  <2>1. CASE TickStarts
    <3>1. tick' = [at |-> "next", todo |-> {u \in Users : account[u] = "live"}, user |-> NoUser,
                   job |-> NoJob]
      BY <2>1 DEF TickStarts, TickIdle
    <3> QED  BY <3>1 DEF TickOK, TickType
  <2>2. CASE TickEnds \/ ReadSync \/ ReadStats \/ VisitFails
    BY <1>0, <2>2, TickMoves DEF TickEnds, ReadSync, ReadStats, VisitFails
  <2>3. ASSUME NEW u \in Users, Visit(u) PROVE TickOK'
    BY <1>0, <2>3, DispatchAssumption DEF Visit, TickOK, TickType
  <2> QED  BY <2>1, <2>2, <2>3 DEF Wandering
<1>2. UNCHANGED <<accounts, clocks, rows, bus, tasks, process>>
  BY DEF Wandering, TickStarts, TickEnds, ReadSync, ReadStats, VisitFails, Visit
<1> QED  BY <1>1, <1>2 DEF TypeOK, TickOK, TickType, accounts, clocks, rows, bus, tasks, process

LEMMA ExecutorTyped ==
  ASSUME TypeOK, Rightful,
         \/ LoopStarts \/ LoopEnds
         \/ \E t \in Tasks : Take(t) \/ StartTask(t) \/ EndTask(t) \/ EndCancelled(t) \/ TaskDone(t)
  PROVE  TypeOK'
<1>1. CASE LoopStarts \/ LoopEnds
  BY <1>1 DEF LoopStarts, LoopEnds, TypeOK, accounts, clocks, rows, tasks, process
<1>2. ASSUME NEW t \in Tasks, Take(t) PROVE TypeOK'
  <2>1. Head(queue) \in Events /\ Tail(queue) \in Seq(Events)
    BY <1>2, HeadTailProperties, EmptySeq DEF Take, TypeOK
  <2>2. Head(queue).id \in Ids
    BY <2>1 DEF Events
  <2> QED  BY <1>2, <2>1, <2>2 DEF Take, Track, TypeOK, Live, accounts, clocks, rows, process
<1>3. ASSUME NEW t \in Tasks, StartTask(t) \/ EndCancelled(t) PROVE TypeOK'
  BY <1>3 DEF StartTask, EndCancelled, TypeOK, Live, accounts, clocks, rows, bus, process
<1>4. ASSUME NEW t \in Tasks, EndTask(t) PROVE TypeOK'
  <2>1. /\ at' = [at EXCEPT ![t] = "ended"] /\ status' \in [Jobs -> {"absent", "pending", "over", "removed"}]
        /\ fresh' \in [Users -> BOOLEAN] /\ statsFresh' \in [Users -> BOOLEAN]
    <3> DEFINE u == event[t].user
    <3>1. fresh \in [Users -> BOOLEAN] /\ statsFresh \in [Users -> BOOLEAN]
      BY DEF TypeOK
    <3>2. [fresh EXCEPT ![u] = u \in SyncOn] \in [Users -> BOOLEAN]
      <4>1. (u \in SyncOn) \in BOOLEAN
        OBVIOUS
      <4> QED  BY <3>1, <4>1, FlagSet, Zenon
    <3>3. [statsFresh EXCEPT ![u] = TRUE] \in [Users -> BOOLEAN]
      BY <3>1
    <3> DEFINE f == [fresh EXCEPT ![u] = u \in SyncOn]
    <3> HIDE DEF f
    <3>4. /\ fresh' \in {fresh, f}
          /\ statsFresh' \in {statsFresh, [statsFresh EXCEPT ![u] = TRUE]}
      BY <1>4 DEF EndTask, f
    <3>5. at' = [at EXCEPT ![t] = "ended"] /\ status' \in [Jobs -> {"absent", "pending", "over", "removed"}]
      BY <1>4 DEF EndTask, TypeOK
    <3> QED  BY <3>1, <3>2, <3>3, <3>4, <3>5 DEF f
  <2> QED  BY <1>4, <2>1 DEF EndTask, TypeOK, Live, accounts, bus, process
<1>5. ASSUME NEW t \in Tasks, TaskDone(t) PROVE TypeOK'
  <2>1. event[t].id \in Ids
    BY <1>5 DEF TaskDone, Rightful, Active, Events
  <2> QED  BY <1>5, <2>1 DEF TaskDone, TypeOK, accounts, clocks, rows, bus
<1> QED  BY <1>1, <1>2, <1>3, <1>4, <1>5

LEMMA ProcessTyped ==
  ASSUME TypeOK, Boot \/ Shutdown \/ ShutdownReturns \/ SchedulerStops \/ Die
  PROVE  TypeOK'
<1>0. TickOK
  BY DEF TypeOK, TickOK, TickType
<1>1. CASE Boot \/ ShutdownReturns
  <2>1. boots' \in Nat /\ subscribed' \in BOOLEAN /\ loop' \in {"starting", "waiting", "over"}
        /\ app' \in {"up", "stopping", "down", "unscheduled", "off"}
    <3>1. CASE Boot
      BY <3>1 DEF Boot, Subscribe, TypeOK
    <3>2. CASE ShutdownReturns
      BY <3>2 DEF ShutdownReturns, TypeOK, bus
    <3> QED  BY <1>1, <3>1, <3>2
  <2>2. UNCHANGED <<accounts, clocks, rows, tick, queue, tasks, awaited>>
    BY <1>1 DEF Boot, ShutdownReturns, bus
  <2> QED  BY <2>1, <2>2 DEF TypeOK, accounts, clocks, rows, tasks
<1>2. CASE Shutdown
  <2>1. at' \in [Tasks -> Live \cup {"none", "ended"}] /\ awaited' \subseteq Tasks
    BY <1>2 DEF Shutdown, Cancel, TypeOK, Live
  <2> QED  BY <1>2, <2>1 DEF Shutdown, TypeOK, accounts, clocks, rows
<1>3. CASE SchedulerStops
  <2>1. TickOK'
    BY <1>0, <1>3, TickMoves DEF SchedulerStops
  <2> QED  BY <1>3, <2>1 DEF SchedulerStops, TypeOK, TickOK, TickType, accounts, clocks, bus, tasks
<1>4. CASE Die
  <2>1. TickOK'
    BY <1>0, <1>4, TickMoves DEF Die
  <2> QED  BY <1>4, <2>1, EmptySeq DEF Die, TypeOK, TickOK, TickType, accounts, clocks
<1> QED  BY <1>1, <1>2, <1>3, <1>4

LEMMA AccountsTyped ==
  ASSUME TypeOK, NEW u \in Users, Account(u) \/ OpenDatabase(u) \/ IntervalPasses(u)
  PROVE  TypeOK'
<1>1. CASE RemoveDirectory(u)
  BY <1>1 DEF RemoveDirectory, TypeOK, clocks, bus, tasks, process
<1>2. CASE DeleteRow(u) \/ RemovalFails(u)
  BY <1>2 DEF DeleteRow, RemovalFails, TypeOK, clocks, rows, bus, tasks, process
<1>3. CASE OpenDatabase(u)
  BY <1>3 DEF OpenDatabase, TypeOK, clocks, rows, bus, tasks, process
<1>4. CASE IntervalPasses(u)
  <2>1. fresh' \in [Users -> BOOLEAN] /\ statsFresh' \in [Users -> BOOLEAN]
    BY <1>4 DEF IntervalPasses, TypeOK
  <2> QED  BY <1>4, <2>1 DEF IntervalPasses, TypeOK, accounts, rows, bus, tasks, process
<1> QED  BY <1>1, <1>2, <1>3, <1>4 DEF Account

\* The steps, as the lemmas take them.
LEMMA Steps ==
  ASSUME [Next]_vars
  PROVE  \/ \/ \E j \in Jobs : RequestJob(j) \/ (\E u \in Users : CreateJob(j, u)) \/ CreateSync(j)
            \/ RequestSync \/ RequestStats
         \/ Wandering
         \/ \/ LoopStarts \/ LoopEnds
            \/ \E t \in Tasks : Take(t) \/ StartTask(t) \/ EndTask(t) \/ EndCancelled(t) \/ TaskDone(t)
         \/ Boot \/ Shutdown \/ ShutdownReturns \/ SchedulerStops \/ Die
         \/ \E u \in Users : Account(u) \/ OpenDatabase(u) \/ IntervalPasses(u)
         \/ UNCHANGED vars
BY DEF Next, Tick, Executor, Task, Wandering

LEMMA TypeNext == TypeOK /\ Rightful /\ [Next]_vars => TypeOK'
<1> SUFFICES ASSUME TypeOK, Rightful, [Next]_vars PROVE TypeOK'
  OBVIOUS
<1>1. CASE UNCHANGED vars
  BY <1>1 DEF vars, TypeOK, accounts, clocks, rows, bus, tasks, process
<1> QED  BY <1>1, Steps, RowsTyped, WanderingTyped, ExecutorTyped, ProcessTyped, AccountsTyped

-----------------------------------------------------------------------------
(* Where the requests of the rows are.                                      *)

WInv == Rightful /\ Placed /\ RowTasksAreTracked

LEMMA QueueIndexes == TypeOK => DOMAIN queue = 1..Len(queue) /\ Len(queue) \in Nat
BY LenProperties DEF TypeOK

\* Nothing is requested and nothing taken.
LEMMA NothingMoves ==
  ASSUME TypeOK, WInv, UNCHANGED <<queue, event, tracked, creating, owner>>,
         \A j \in Jobs : status'[j] = "absent" <=> status[j] = "absent",
         \A t \in Tasks : /\ at'[t] = "none" <=> at[t] = "none"
                          /\ at'[t] \in Live => at[t] \in Live,
         tick'.at = "publishing" => tick' = tick
  PROVE  WInv'
<1>1. Active' = Active /\ LiveTasks' \subseteq LiveTasks
  BY DEF Active, LiveTasks
<1>2. Publishing' \subseteq Publishing
  BY DEF Publishing
<1>3. \A e : Right(e)' <=> Right(e)
  BY DEF Right
<1>4. Rightful'
  <2>1. \A j \in Jobs : IF status'[j] = "absent" THEN owner'[j] = NoUser ELSE owner'[j] \in Users
    BY DEF WInv, Rightful
  <2>2. \A t \in Active' : event'[t] \in Events' /\ Right(event[t])'
    BY <1>1, <1>3 DEF WInv, Rightful, Events, Ids
  <2>3. \A n \in DOMAIN queue' : Right(queue[n])'
    BY <1>3 DEF WInv, Rightful
  <2>4. creating \subseteq Jobs
    BY DEF TypeOK
  <2>5. \A j \in creating' : status'[j] # "absent"
    BY <2>4 DEF WInv, Rightful
  <2>6. tick'.at = "publishing" =>
          /\ tick'.job \in Jobs /\ owner'[tick'.job] = tick'.user
          /\ status'[tick'.job] # "absent" /\ tick'.job \notin creating'
    BY DEF WInv, Rightful
  <2> QED  BY <2>1, <2>2, <2>3, <2>5, <2>6 DEF Rightful, Right
<1>5. Placed'
  BY <1>1, <1>2 DEF WInv, Placed
<1>6. RowTasksAreTracked'
  BY <1>1 DEF WInv, RowTasksAreTracked
<1> QED  BY <1>4, <1>5, <1>6 DEF WInv

\* A request goes from its creator into the queue, or nowhere.
LEMMA SendMoves ==
  ASSUME TypeOK, WInv, NEW e \in Events, Send(e), Right(e),
         UNCHANGED <<status, owner, at, event, tracked>>,
         e.id \in Jobs => e.id \in Publishing,
         Publishing' = Publishing \ {e.id}, creating' \subseteq creating,
         tick'.at = "publishing" => tick' = tick
  PROVE  WInv'
<1> DEFINE n == Len(queue)
<1>0. /\ n \in Nat /\ DOMAIN queue = 1..n
      /\ \A i \in 1..n : Right(queue[i])
  BY QueueIndexes DEF WInv, Rightful
<1>1. Active' = Active /\ LiveTasks' = LiveTasks /\ \A x : Right(x)' <=> Right(x)
  BY DEF Active, LiveTasks, Right
<1>2. creating \subseteq Jobs /\ (tick'.at = "publishing" => tick.at = "publishing" /\ tick.job \in Jobs)
  BY DEF TypeOK, WInv, Rightful
<1>3. \/ queue' = queue
      \/ /\ Len(queue') = n + 1 /\ queue'[n + 1] = e /\ DOMAIN queue' = 1..n + 1
         /\ \A i \in 1..n : queue'[i] = queue[i]
  BY AppendProperties, LenProperties DEF Send, Delivered, TypeOK
<1>4. \A i \in DOMAIN queue' : Right(queue'[i])
  BY <1>0, <1>3
<1>5. e.id \in Jobs => /\ \A t \in Active : event[t].id # e.id
                       /\ \A i \in 1..n : queue[i].id # e.id
  BY <1>0 DEF WInv, Placed
<1>6. Rightful'
  BY <1>1, <1>2, <1>4 DEF WInv, Rightful, Right, Events, Ids
<1>7. \A i, k \in DOMAIN queue' : queue'[i].id \in Jobs /\ queue'[i].id = queue'[k].id => i = k
  BY <1>0, <1>3, <1>5 DEF WInv, Placed
<1>8. \A t \in Active, i \in DOMAIN queue' : event[t].id \in Jobs => event[t].id # queue'[i].id
  BY <1>0, <1>3, <1>5 DEF WInv, Placed
<1>9. \A j \in Publishing' : /\ \A t \in Active : event[t].id # j
                             /\ \A i \in DOMAIN queue' : queue'[i].id # j
  BY <1>0, <1>3 DEF WInv, Placed
<1>10. Placed'
  BY <1>1, <1>7, <1>8, <1>9 DEF WInv, Placed
<1>11. RowTasksAreTracked'
  BY <1>1 DEF WInv, RowTasksAreTracked
<1> QED  BY <1>6, <1>10, <1>11 DEF WInv

\* A row that was not there is inserted, and about to be requested.
LEMMA InsertMoves ==
  ASSUME TypeOK, WInv, NEW j \in Jobs, NEW u \in Users, Insert(j, u),
         UNCHANGED <<queue, at, event, tracked>>,
         \/ creating' = creating \cup {j} /\ tick' = tick
         \/ /\ creating' = creating
            /\ tick'.at = "publishing" /\ tick'.job = j /\ tick'.user = u
            /\ tick.at # "publishing"
  PROVE  WInv'
<1>1. Active' = Active /\ LiveTasks' = LiveTasks
  BY DEF Active, LiveTasks
<1>2. /\ status[j] = "absent" /\ status'[j] # "absent" /\ owner'[j] = u
      /\ \A i \in Jobs \ {j} : status'[i] = status[i] /\ owner'[i] = owner[i]
  BY DEF Insert, TypeOK
<1>3. \A x : Right(x) => Right(x)' /\ x.id # j
  BY <1>2 DEF Right
<1>4. \A t \in Active : event[t].id # j
  BY <1>3 DEF WInv, Rightful
<1>5. \A n \in DOMAIN queue : queue[n].id # j
  BY <1>3 DEF WInv, Rightful
<1>6. creating \subseteq Jobs \ {j}
  BY <1>2 DEF TypeOK, WInv, Rightful
<1>7. tick.at = "publishing" => tick.job # j
  BY <1>2 DEF WInv, Rightful
<1>8. Rightful'
  <2>1. \A i \in Jobs : IF status'[i] = "absent" THEN owner'[i] = NoUser ELSE owner'[i] \in Users
    BY <1>2 DEF WInv, Rightful
  <2>2. \A t \in Active' : event'[t] \in Events' /\ Right(event[t])'
    BY <1>1, <1>3 DEF WInv, Rightful, Events, Ids
  <2>3. \A n \in DOMAIN queue' : Right(queue[n])'
    BY <1>3 DEF WInv, Rightful
  <2>4. \A i \in creating' : status'[i] # "absent"
    BY <1>2, <1>6 DEF WInv, Rightful
  <2>5. tick'.at = "publishing" =>
          /\ tick'.job \in Jobs /\ owner'[tick'.job] = tick'.user
          /\ status'[tick'.job] # "absent" /\ tick'.job \notin creating'
    BY <1>2, <1>6, <1>7 DEF WInv, Rightful
  <2> QED  BY <2>1, <2>2, <2>3, <2>4, <2>5 DEF Rightful, Right
<1>9. Publishing' = Publishing \cup {j}
  BY <1>6 DEF Publishing
<1>10. Placed'
  BY <1>1, <1>4, <1>5, <1>9 DEF WInv, Placed
<1>11. RowTasksAreTracked'
  BY <1>1 DEF WInv, RowTasksAreTracked
<1> QED  BY <1>8, <1>10, <1>11 DEF WInv

\* The loop makes a task of the first event.
LEMMA TakeMoves ==
  ASSUME TypeOK, WInv, NEW t \in Tasks, Take(t)
  PROVE  WInv'
<1> DEFINE n == Len(queue)
           e == Head(queue)
<1>0. /\ n \in Nat /\ n > 0 /\ DOMAIN queue = 1..n
      /\ e = queue[1] /\ e \in Events
      /\ DOMAIN queue' = 1..n - 1
      /\ \A i \in 1..n - 1 : queue'[i] = queue[i + 1] /\ i + 1 \in 1..n /\ i + 1 # 1
  BY QueueIndexes, HeadTailProperties, LenProperties, EmptySeq DEF Take, TypeOK
<1>1. /\ at[t] = "none" /\ at' = [at EXCEPT ![t] = "new"]
      /\ event' = [event EXCEPT ![t] = e] /\ tracked' = [tracked EXCEPT ![e.id] = t]
      /\ UNCHANGED <<status, owner, creating, tick>>
  BY DEF Take, Track, rows
<1>2. e.id \in Ids
  BY <1>0 DEF Events
<1> HIDE DEF e
<1>3. /\ at'[t] = "new" /\ event'[t] = e /\ tracked'[e.id] = t
      /\ \A u \in Tasks \ {t} : at'[u] = at[u] /\ event'[u] = event[u]
      /\ \A i \in Ids \ {e.id} : tracked'[i] = tracked[i]
  BY <1>1, <1>2 DEF TypeOK
<1>4. Active' = Active \cup {t} /\ t \notin Active /\ LiveTasks' = LiveTasks \cup {t}
  BY <1>1, <1>3 DEF Active, LiveTasks, Live
<1>5. Active \subseteq Tasks /\ LiveTasks \subseteq Active
  BY DEF Active, LiveTasks, Live
<1>6. e.id \in Jobs => \A u \in Active : event[u].id # e.id
  BY <1>0 DEF WInv, Placed
<1>7. Publishing' = Publishing
  BY <1>1 DEF Publishing
<1>8. \A x : Right(x)' <=> Right(x)
  BY <1>1 DEF Right
<1>9. Right(e)
  BY <1>0 DEF WInv, Rightful
<1>10. Rightful'
  <2>1. \A u \in Active' : event'[u] \in Events' /\ Right(event'[u])
    BY <1>0, <1>3, <1>4, <1>5, <1>9 DEF WInv, Rightful, Events, Ids
  <2>2. \A i \in DOMAIN queue' : Right(queue'[i])
    BY <1>0 DEF WInv, Rightful
  <2> QED  BY <1>1, <1>8, <2>1, <2>2 DEF WInv, Rightful, Right
<1>11. \A u, v \in Active' : event'[u].id \in Jobs /\ event'[u].id = event'[v].id => u = v
  BY <1>3, <1>4, <1>5, <1>6 DEF WInv, Placed
<1>12. \A i, k \in DOMAIN queue' : queue'[i].id \in Jobs /\ queue'[i].id = queue'[k].id => i = k
  <2> SUFFICES ASSUME NEW i \in 1..n - 1, NEW k \in 1..n - 1,
                      queue[i + 1].id \in Jobs, queue[i + 1].id = queue[k + 1].id
               PROVE  i = k
    BY <1>0
  <2>1. i + 1 = k + 1
    BY <1>0 DEF WInv, Placed
  <2> QED  BY <1>0, <2>1
<1>13. \A u \in Active', i \in DOMAIN queue' : event'[u].id \in Jobs => event'[u].id # queue'[i].id
  BY <1>0, <1>3, <1>4, <1>5 DEF WInv, Placed
<1>14. \A j \in Publishing' : /\ \A u \in Active' : event'[u].id # j
                              /\ \A i \in DOMAIN queue' : queue'[i].id # j
  <2>1. \A j \in Publishing : e.id # j
    BY <1>0 DEF WInv, Placed
  <2>2. \A j \in Publishing : \A u \in Active' : event'[u].id # j
    BY <1>3, <1>4, <1>5, <2>1 DEF WInv, Placed
  <2>3. \A j \in Publishing : \A i \in DOMAIN queue' : queue'[i].id # j
    BY <1>0 DEF WInv, Placed
  <2> QED  BY <1>7, <2>2, <2>3
<1>15. Placed'
  BY <1>11, <1>12, <1>13, <1>14 DEF Placed
<1>16. RowTasksAreTracked'
  <2> SUFFICES ASSUME NEW u \in LiveTasks', event'[u].id \in Jobs
               PROVE  tracked'[event'[u].id] = u
    BY DEF RowTasksAreTracked
  <2>1. CASE u = t
    BY <1>3, <2>1
  <2>2. CASE u # t
    <3>1. u \in LiveTasks /\ event'[u] = event[u] /\ event[u].id # e.id
      BY <1>3, <1>4, <1>5, <1>6, <2>2
    <3> QED  BY <1>3, <3>1 DEF WInv, RowTasksAreTracked, Ids
  <2> QED  BY <2>1, <2>2
<1> QED  BY <1>10, <1>15, <1>16 DEF WInv

\* An ended task goes, and pops its own entry.
LEMMA DoneMoves ==
  ASSUME TypeOK, WInv, NEW t \in Tasks, TaskDone(t)
  PROVE  WInv'
<1>1. /\ at[t] = "ended" /\ at' = [at EXCEPT ![t] = "none"]
      /\ event' = [event EXCEPT ![t] = NoEvent]
      /\ tracked' = [tracked EXCEPT ![event[t].id] = NoTask]
      /\ UNCHANGED <<queue, status, owner, creating, tick>>
  BY DEF TaskDone, rows, bus
<1>2. \A u \in Tasks \ {t} : at'[u] = at[u] /\ event'[u] = event[u]
  BY <1>1 DEF TypeOK
<1>3. Active' = Active \ {t} /\ LiveTasks' = LiveTasks /\ t \notin LiveTasks /\ t \in Active
  BY <1>1, <1>2 DEF Active, LiveTasks, Live, TypeOK
<1>4. Active \subseteq Tasks /\ LiveTasks \subseteq Active
  BY DEF Active, LiveTasks, Live
<1>5. Publishing' = Publishing /\ \A x : Right(x)' <=> Right(x)
  BY <1>1 DEF Publishing, Right
<1>6. Rightful'
  BY <1>1, <1>2, <1>3, <1>4, <1>5 DEF WInv, Rightful, Right, Events, Ids
<1>7. Placed'
  BY <1>1, <1>2, <1>3, <1>4, <1>5 DEF WInv, Placed
<1>8. RowTasksAreTracked'
  <2> SUFFICES ASSUME NEW u \in LiveTasks', event'[u].id \in Jobs
               PROVE  tracked'[event'[u].id] = u
    BY DEF RowTasksAreTracked
  <2>1. u \in LiveTasks /\ u # t /\ event'[u] = event[u]
    BY <1>2, <1>3, <1>4
  <2>2. event[t].id # event[u].id
    BY <1>3, <1>4, <2>1 DEF WInv, Placed
  <2> QED  BY <1>1, <2>1, <2>2 DEF WInv, RowTasksAreTracked, TypeOK, Ids
<1> QED  BY <1>6, <1>7, <1>8 DEF WInv

LEMMA WInit == Init => WInv
<1> SUFFICES ASSUME Init PROVE WInv
  OBVIOUS
<1>1. Active = {} /\ LiveTasks = {} /\ Publishing = {} /\ DOMAIN queue = {}
  BY DEF Init, Active, LiveTasks, Live, Publishing, TickIdle
<1> QED  BY <1>1 DEF Init, WInv, Rightful, Placed, RowTasksAreTracked, TickIdle

LEMMA DieMoves ==
  ASSUME TypeOK, WInv, Die
  PROVE  WInv'
<1>1. Active' = {} /\ LiveTasks' = {} /\ Publishing' = {} /\ DOMAIN queue' = {}
  BY DEF Die, Active, LiveTasks, Live, Publishing, TickIdle
<1> QED  BY <1>1 DEF Die, WInv, Rightful, Placed, RowTasksAreTracked, TickIdle

\* The requests: of a handler, of the tick, and of statistics.
LEMMA RequestMoves ==
  ASSUME TypeOK, WInv, RequestSync \/ RequestStats \/ \E j \in Jobs : RequestJob(j)
  PROVE  WInv'
<1>1. ASSUME NEW j \in Jobs, RequestJob(j) PROVE WInv'
  <2> DEFINE e == [id |-> j, user |-> owner[j]]
  <2>1. e \in Events /\ e.id = j /\ Right(e)
    BY <1>1 DEF RequestJob, WInv, Rightful, Right, Events, Ids
  <2>2. Send(e) /\ creating' = creating \ {j} /\ UNCHANGED <<status, owner, at, event, tracked, tick>>
    BY <1>1 DEF RequestJob, tasks
  <2>3. j \in Publishing /\ Publishing' = Publishing \ {j}
    BY <1>1, <2>2 DEF RequestJob, Publishing, WInv, Rightful
  <2> HIDE DEF e
  <2> QED  BY <2>1, <2>2, <2>3, SendMoves
<1>2. CASE RequestSync
  <2> DEFINE e == [id |-> tick.job, user |-> tick.user]
  <2>1. e \in Events /\ e.id = tick.job /\ Right(e) /\ tick.job \in Jobs
    BY <1>2 DEF RequestSync, WInv, Rightful, Right, Events, Ids
  <2>2. /\ Send(e) /\ UNCHANGED <<status, owner, creating, at, event, tracked>>
        /\ tick.at = "publishing" /\ tick'.at = "stats"
    BY <1>2 DEF RequestSync, tasks, TypeOK
  <2>3. tick.job \in Publishing /\ Publishing' = Publishing \ {tick.job}
    BY <2>1, <2>2 DEF Publishing, WInv, Rightful
  <2> HIDE DEF e
  <2> QED  BY <2>1, <2>2, <2>3, SendMoves
<1>3. CASE RequestStats
  <2> DEFINE e == [id |-> tick.user, user |-> tick.user]
  <2>1. tick.user \in Users /\ tick.user \notin Jobs
    BY <1>3, DispatchAssumption DEF RequestStats, TypeOK
  <2>2. e \in Events /\ e.id = tick.user /\ Right(e)
    BY <2>1 DEF Right, Events, Ids
  <2>3. /\ Send(e) /\ UNCHANGED <<status, owner, creating, at, event, tracked>>
        /\ tick.at = "sending" /\ tick'.at = "next"
    BY <1>3 DEF RequestStats, NextUser, tasks, TypeOK
  <2>4. Publishing' = Publishing \ {tick.user}
    BY <2>1, <2>3 DEF Publishing
  <2> HIDE DEF e
  <2> QED  BY <2>1, <2>2, <2>3, <2>4, SendMoves
<1> QED  BY <1>1, <1>2, <1>3

\* The steps that leave the requests where they are.
LEMMA QuietMoves ==
  ASSUME TypeOK, WInv,
         \/ Wandering \/ LoopStarts \/ LoopEnds \/ Boot \/ Shutdown \/ ShutdownReturns
         \/ SchedulerStops
         \/ \E t \in Tasks : StartTask(t) \/ EndTask(t) \/ EndCancelled(t)
         \/ \E u \in Users : Account(u) \/ OpenDatabase(u) \/ IntervalPasses(u)
  PROVE  WInv'
<1>1. CASE Wandering
  <2>1. UNCHANGED <<rows, bus, tasks>>
    BY <1>1 DEF Wandering, TickStarts, TickEnds, ReadSync, ReadStats, VisitFails, Visit
  <2>2. tick'.at # "publishing"
    <3>1. CASE TickStarts \/ TickEnds
      <4>1. CASE TickStarts
        <5>1. tick' = [at |-> "next", todo |-> {u \in Users : account[u] = "live"}, user |-> NoUser,
                       job |-> NoJob]
          BY <4>1 DEF TickStarts, TickIdle
        <5> QED  BY <5>1
      <4> QED  BY <3>1, <4>1 DEF TickEnds, TickIdle
    <3>2. CASE ReadSync \/ ReadStats \/ VisitFails
      BY <3>2 DEF ReadSync, ReadStats, VisitFails, MoveTick, NextUser, TypeOK
    <3>3. CASE \E u \in Users : Visit(u)
      BY <3>3 DEF Visit, TypeOK
    <3> QED  BY <1>1, <3>1, <3>2, <3>3 DEF Wandering
  <2> QED  BY <2>1, <2>2, NothingMoves DEF rows, bus, tasks
<1>2. CASE LoopStarts \/ LoopEnds \/ Boot \/ ShutdownReturns
  BY <1>2, NothingMoves DEF LoopStarts, LoopEnds, Boot, ShutdownReturns, rows, bus, tasks
<1>3. CASE Shutdown
  <2>1. \A t \in Tasks : at'[t] = at[t] \/ (at[t] \in {"new", "inside"} /\ at'[t] = "cancelled")
    <3> DEFINE S == {tracked[i] : i \in Ids} \ {NoTask}
    <3>1. Cancel(S)
      BY <1>3 DEF Shutdown
    <3> HIDE DEF S
    <3> QED  BY <3>1 DEF Cancel
  <2> QED  BY <1>3, <2>1, NothingMoves DEF Shutdown, rows, Live
<1>4. CASE SchedulerStops
  BY <1>4, NothingMoves DEF SchedulerStops, TickIdle, bus, tasks
<1>5. ASSUME NEW t \in Tasks, StartTask(t) \/ EndCancelled(t) PROVE WInv'
  <2>1. /\ at[t] \in Live /\ at'[t] # "none"
        /\ \A u \in Tasks \ {t} : at'[u] = at[u]
    BY <1>5 DEF StartTask, EndCancelled, TypeOK, Live
  <2> QED  BY <1>5, <2>1, NothingMoves DEF StartTask, EndCancelled, rows, bus, Live
<1>6. ASSUME NEW t \in Tasks, EndTask(t) PROVE WInv'
  <2>1. /\ at[t] \in Live /\ at'[t] = "ended"
        /\ \A u \in Tasks \ {t} : at'[u] = at[u]
    BY <1>6 DEF EndTask, TypeOK, Live
  <2>2. \A j \in Jobs : status'[j] = "absent" <=> status[j] = "absent"
    BY <1>6 DEF EndTask, TypeOK
  <2>3. UNCHANGED <<queue, event, tracked, creating, owner, tick>>
    BY <1>6 DEF EndTask, bus
  <2> QED  BY <2>1, <2>2, <2>3, NothingMoves DEF Live
<1>7. ASSUME NEW u \in Users, RemoveDirectory(u) PROVE WInv'
  <2>1. \A j \in Jobs : status'[j] = "absent" <=> status[j] = "absent"
    BY <1>7, DispatchAssumption DEF RemoveDirectory, WInv, Rightful, TypeOK
  <2> QED  BY <1>7, <2>1, NothingMoves DEF RemoveDirectory, bus, tasks
<1>8. ASSUME NEW u \in Users, DeleteRow(u) \/ RemovalFails(u) \/ OpenDatabase(u) \/ IntervalPasses(u)
      PROVE  WInv'
  BY <1>8, NothingMoves DEF DeleteRow, RemovalFails, OpenDatabase, IntervalPasses, rows, bus, tasks
<1> QED  BY <1>1, <1>2, <1>3, <1>4, <1>5, <1>6, <1>7, <1>8 DEF Account

LEMMA WNext == TypeOK /\ WInv /\ [Next]_vars => WInv'
<1> SUFFICES ASSUME TypeOK, WInv, [Next]_vars PROVE WInv'
  OBVIOUS
<1>1. CASE UNCHANGED vars
  BY <1>1, NothingMoves DEF vars, rows, bus, tasks
<1>2. ASSUME NEW j \in Jobs, NEW u \in Users, CreateJob(j, u) PROVE WInv'
  BY <1>2, InsertMoves DEF CreateJob, bus, tasks
<1>3. ASSUME NEW j \in Jobs, CreateSync(j) PROVE WInv'
  <2>1. tick.user \in Users
    BY <1>3 DEF CreateSync, TypeOK
  <2>2. tick'.at = "publishing" /\ tick'.job = j /\ tick'.user = tick.user /\ tick.at # "publishing"
    BY <1>3 DEF CreateSync, TypeOK
  <2> QED  BY <1>3, <2>1, <2>2, InsertMoves DEF CreateSync, bus, tasks
<1>4. ASSUME NEW t \in Tasks, Take(t) \/ TaskDone(t) PROVE WInv'
  BY <1>4, TakeMoves, DoneMoves
<1> QED  BY <1>1, <1>2, <1>3, <1>4, Steps, RequestMoves, QuietMoves, DieMoves

-----------------------------------------------------------------------------
(* The queue that listens, and the directories that are gone.               *)

LEMMA ListeningNext == TypeOK /\ Listening /\ [Next]_vars => Listening'
<1> SUFFICES ASSUME TypeOK, Listening, [Next]_vars PROVE Listening'
  OBVIOUS
<1>1. CASE UNCHANGED <<app, subscribed>>
  BY <1>1 DEF Listening
<1>2. CASE Boot \/ Shutdown \/ ShutdownReturns \/ SchedulerStops \/ Die \/ LoopStarts
  BY <1>2 DEF Boot, Shutdown, ShutdownReturns, SchedulerStops, Die, LoopStarts, Subscribe, Listening
<1> QED
  <2>1. ASSUME NEW e, Send(e) PROVE subscribed' = subscribed
    BY <2>1 DEF Send
  <2>2. CASE \/ \E j \in Jobs : RequestJob(j) \/ (\E u \in Users : CreateJob(j, u)) \/ CreateSync(j)
             \/ RequestSync \/ RequestStats
    BY <1>1, <2>1, <2>2 DEF RequestJob, CreateJob, CreateSync, RequestSync, RequestStats, bus, process
  <2>3. CASE Wandering \/ LoopEnds \/ UNCHANGED vars
    BY <1>1, <2>3 DEF Wandering, TickStarts, TickEnds, ReadSync, ReadStats, VisitFails, Visit,
       LoopEnds, vars, bus, process
  <2>4. CASE \E t \in Tasks : Take(t) \/ StartTask(t) \/ EndTask(t) \/ EndCancelled(t) \/ TaskDone(t)
    BY <1>1, <2>4 DEF Take, StartTask, EndTask, EndCancelled, TaskDone, bus, process
  <2>5. CASE \E u \in Users : Account(u) \/ OpenDatabase(u) \/ IntervalPasses(u)
    BY <1>1, <2>5 DEF Account, DeleteRow, RemoveDirectory, RemovalFails, OpenDatabase,
       IntervalPasses, bus, process
  <2> QED  BY <1>2, <2>2, <2>3, <2>4, <2>5, Steps

\* A directory goes with its rows, and a row of somebody removed is not pending.
LEMMA RemovedNext == TypeOK /\ WInv /\ Removed /\ [Next]_vars => Removed'
<1> SUFFICES ASSUME TypeOK, WInv, Removed, [Next]_vars PROVE Removed'
  OBVIOUS
<1>0. \A j \in Jobs : status[j] # "absent" => owner[j] \in Users
  BY DEF WInv, Rightful
<1>1. CASE /\ UNCHANGED <<account, dir, owner>>
           /\ \A j \in Jobs : status'[j] = "pending" => status[j] = "pending"
  BY <1>1 DEF Removed
<1>2. ASSUME NEW j \in Jobs, NEW u \in Users, Insert(j, u), UNCHANGED <<account, dir>>
      PROVE  Removed'
  <2>1. \A i \in Jobs \ {j} : status'[i] = status[i] /\ owner'[i] = owner[i]
    BY <1>2 DEF Insert, TypeOK
  <2>2. owner'[j] = u /\ (status'[j] = "pending" => account[u] # "removed")
    BY <1>2 DEF Insert, TypeOK
  <2> QED  BY <1>2, <2>1, <2>2 DEF Removed
<1>3. ASSUME NEW j \in Jobs, NEW u \in Users, CreateJob(j, u) PROVE Removed'
  BY <1>2, <1>3 DEF CreateJob, accounts
<1>4. ASSUME NEW j \in Jobs, CreateSync(j) PROVE Removed'
  <2>1. tick.user \in Users
    BY <1>4 DEF CreateSync, TypeOK
  <2> QED  BY <1>2, <1>4, <2>1 DEF CreateSync, accounts
<1>5. ASSUME NEW u \in Users, RemoveDirectory(u) PROVE Removed'
  BY <1>5 DEF RemoveDirectory, Removed, TypeOK
<1>6. ASSUME NEW u \in Users, DeleteRow(u) \/ RemovalFails(u) PROVE Removed'
  <2>1. /\ UNCHANGED <<dir, status, owner>>
        /\ \A v \in Users : account'[v] = "removed" <=> account[v] = "removed"
    BY <1>6 DEF DeleteRow, RemovalFails, TypeOK, rows
  <2> QED  BY <1>0, <2>1 DEF Removed
<1>7. ASSUME NEW u \in Users, OpenDatabase(u) PROVE Removed'
  BY <1>7 DEF OpenDatabase, Removed, TypeOK, rows
<1>8. CASE \E u \in Users : IntervalPasses(u)
  BY <1>1, <1>8 DEF IntervalPasses, accounts, rows
<1>9. CASE \/ \E j \in Jobs : RequestJob(j)
           \/ RequestSync \/ RequestStats \/ Wandering \/ LoopStarts \/ LoopEnds
           \/ Boot \/ Shutdown \/ ShutdownReturns \/ SchedulerStops \/ Die \/ UNCHANGED vars
  BY <1>1, <1>9 DEF RequestJob, RequestSync, RequestStats, Wandering, TickStarts, TickEnds, ReadSync,
     ReadStats, VisitFails, Visit, LoopStarts, LoopEnds, Boot, Shutdown, ShutdownReturns,
     SchedulerStops, Die, vars, accounts, rows
<1>10. ASSUME NEW t \in Tasks, Take(t) \/ StartTask(t) \/ EndCancelled(t) \/ TaskDone(t) PROVE Removed'
  BY <1>1, <1>10 DEF Take, StartTask, EndCancelled, TaskDone, accounts, rows
<1>11. ASSUME NEW t \in Tasks, EndTask(t) PROVE Removed'
  BY <1>1, <1>11 DEF EndTask, TypeOK, accounts
<1> QED  BY <1>3, <1>4, <1>5, <1>6, <1>7, <1>8, <1>9, <1>10, <1>11, Steps DEF Account

\* To be let in after the removal takes a directory, and the directory somebody
\* who was let in before.
LEMMA LetInNext == TypeOK /\ WInv /\ Removed /\ LetInBefore /\ [Next]_vars => LetInBefore'
<1> SUFFICES ASSUME TypeOK, WInv, Removed, LetInBefore, [Next]_vars,
                    NEW u \in Users, account'[u] = "removed", dir'[u] \/ LetIn(u)'
             PROVE  u \in inside'
  BY DEF LetInBefore
<1>0. account[u] = "removed" /\ (dir[u] \/ LetIn(u)) => u \in inside
  BY DEF LetInBefore
<1>1. CASE /\ UNCHANGED accounts
           /\ tick'.user = u => tick.user = u \/ dir[u]
           /\ \A t \in Tasks : at'[t] = "inside" /\ event'[t].user = u =>
                 (at[t] = "inside" /\ event[t].user = u) \/ dir[u]
  BY <1>0, <1>1 DEF LetIn, accounts
<1>2. ASSUME NEW v \in Users, RemoveDirectory(v) PROVE u \in inside'
  <2>1. LetIn(u)' = LetIn(u)
    BY <1>2 DEF RemoveDirectory, LetIn, tasks
  <2>2. CASE u = v
    BY <1>2, <2>1, <2>2 DEF RemoveDirectory, TypeOK
  <2>3. CASE u # v
    BY <1>0, <1>2, <2>1, <2>3 DEF RemoveDirectory, TypeOK
  <2> QED  BY <2>2, <2>3
<1>3. ASSUME NEW v \in Users, DeleteRow(v) \/ RemovalFails(v) PROVE u \in inside'
  <2>1. LetIn(u)' = LetIn(u)
    BY <1>3 DEF DeleteRow, RemovalFails, LetIn, tasks
  <2>2. account[u] = "removed"
    BY <1>3 DEF DeleteRow, RemovalFails, TypeOK
  <2> QED  BY <1>0, <1>3, <2>1, <2>2 DEF DeleteRow, RemovalFails
<1>4. ASSUME NEW v \in Users, OpenDatabase(v) PROVE u \in inside'
  <2>1. LetIn(u)' = LetIn(u)
    BY <1>4 DEF OpenDatabase, LetIn, tasks
  <2>2. dir'[u] => dir[u] \/ LetIn(u)
    BY <1>4 DEF OpenDatabase, TypeOK
  <2> QED  BY <1>0, <1>4, <2>1, <2>2 DEF OpenDatabase
<1>5. CASE \/ LoopStarts \/ LoopEnds \/ Boot \/ ShutdownReturns \/ UNCHANGED vars
           \/ \E j \in Jobs : RequestJob(j) \/ (\E v \in Users : CreateJob(j, v))
           \/ \E v \in Users : IntervalPasses(v)
  BY <1>1, <1>5 DEF LoopStarts, LoopEnds, Boot, ShutdownReturns, vars, RequestJob, CreateJob,
     IntervalPasses, tasks
<1>6. ASSUME NEW j \in Jobs, CreateSync(j) PROVE u \in inside'
  <2>1. tick'.user = tick.user
    BY <1>6 DEF CreateSync, TypeOK
  <2> QED  BY <1>1, <1>6, <2>1 DEF CreateSync, tasks
<1>7. CASE RequestSync \/ RequestStats
  <2>1. tick'.user = tick.user \/ tick'.user = NoUser
    BY <1>7 DEF RequestSync, RequestStats, NextUser, TypeOK
  <2> QED  BY <1>1, <1>7, <2>1, DispatchAssumption DEF RequestSync, RequestStats, tasks
<1>8. CASE Wandering
  <2>1. tick'.user = tick.user \/ tick'.user = NoUser \/ (tick'.user \in Users /\ dir[tick'.user])
    <3>1. CASE TickStarts
      <4>1. tick' = [at |-> "next", todo |-> {v \in Users : account[v] = "live"}, user |-> NoUser,
                     job |-> NoJob]
        BY <3>1 DEF TickStarts, TickIdle
      <4> QED  BY <4>1
    <3>2. CASE TickEnds \/ ReadSync \/ ReadStats \/ VisitFails
      <4>1. \/ tick' = TickIdle \/ NextUser \/ \E s : MoveTick(s)
        BY <3>2 DEF TickEnds, ReadSync, ReadStats, VisitFails
      <4>2. tick' = TickIdle => tick'.user = NoUser
        BY DEF TickIdle
      <4>3. NextUser => tick'.user = NoUser
        BY DEF NextUser, TypeOK
      <4>4. \A s : MoveTick(s) => tick'.user = tick.user
        BY DEF MoveTick, TypeOK
      <4> QED  BY <4>1, <4>2, <4>3, <4>4
    <3>3. CASE \E v \in Users : Visit(v)
      BY <3>3 DEF Visit, TypeOK
    <3> QED  BY <1>8, <3>1, <3>2, <3>3 DEF Wandering
  <2>2. UNCHANGED <<accounts, tasks>>
    BY <1>8 DEF Wandering, TickStarts, TickEnds, ReadSync, ReadStats, VisitFails, Visit
  <2> QED  BY <1>1, <2>1, <2>2, DispatchAssumption DEF tasks
<1>9. ASSUME NEW t \in Tasks, Take(t) \/ EndTask(t) \/ EndCancelled(t) \/ TaskDone(t)
      PROVE  u \in inside'
  <2>1. /\ UNCHANGED <<accounts, tick>>
        /\ at'[t] # "inside"
        /\ \A v \in Tasks \ {t} : at'[v] = at[v] /\ event'[v] = event[v]
    BY <1>9 DEF Take, EndTask, EndCancelled, TaskDone, TypeOK
  <2> QED  BY <1>1, <2>1
<1>10. ASSUME NEW t \in Tasks, StartTask(t) PROVE u \in inside'
  <2>1. /\ UNCHANGED <<accounts, tick, event>>
        /\ at'[t] = "inside" => dir[event[t].user]
        /\ \A v \in Tasks \ {t} : at'[v] = at[v]
    BY <1>10 DEF StartTask, UserExists, TypeOK
  <2> QED  BY <1>1, <2>1
<1>11. CASE Shutdown
  <2> DEFINE S == {tracked[i] : i \in Ids} \ {NoTask}
  <2>1. Cancel(S) /\ UNCHANGED <<accounts, tick, event>>
    BY <1>11 DEF Shutdown
  <2> HIDE DEF S
  <2>2. \A t \in Tasks : at'[t] = "inside" => at[t] = "inside"
    BY <2>1 DEF Cancel
  <2> QED  BY <1>1, <2>1, <2>2
<1>12. CASE SchedulerStops \/ Die
  <2>1. /\ UNCHANGED accounts /\ tick'.user = NoUser
        /\ \A t \in Tasks : at'[t] = "inside" => at[t] = "inside" /\ event'[t] = event[t]
    BY <1>12 DEF SchedulerStops, Die, TickIdle, tasks
  <2> QED  BY <1>1, <2>1, DispatchAssumption
<1> QED  BY <1>2, <1>3, <1>4, <1>5, <1>6, <1>7, <1>8, <1>9, <1>10, <1>11, <1>12, Steps DEF Account

-----------------------------------------------------------------------------
(* No request is dropped.                                                   *)

Carried(j) == j \in Publishing \/ InQueue(j) \/ \E t \in LiveTasks : event[t].id = j
Heard(j) == j \in lost \/ Carried(j)

LEMMA StillServed ==
  ASSUME PendingIsServed,
         \A j \in Jobs : status'[j] = "pending" => (status[j] = "pending" /\ Heard(j) => Heard(j)'),
         \A j \in Jobs : status'[j] = "pending" => status[j] = "pending" \/ Heard(j)'
  PROVE  PendingIsServed'
BY DEF PendingIsServed, Heard, Carried

\* A request that is sent is in the queue, or the process is on its way down.
LEMMA SendServes ==
  ASSUME TypeOK, Listening, NEW e \in Events, Send(e),
         UNCHANGED <<status, at, event>>,
         \A j \in Publishing : j = e.id \/ j \in Publishing'
  PROVE  \A j \in Jobs : Heard(j) => Heard(j)'
<1> DEFINE n == Len(queue)
<1>1. n \in Nat /\ DOMAIN queue = 1..n
  BY QueueIndexes
<1>2. \/ queue' = queue /\ app # "up"
      \/ /\ queue'[n + 1] = e /\ DOMAIN queue' = 1..n + 1
         /\ \A i \in 1..n : queue'[i] = queue[i]
  BY AppendProperties, LenProperties DEF Send, Delivered, TypeOK, Listening
<1>3. lost \subseteq lost' /\ (app # "up" /\ e.id \in Jobs => e.id \in lost')
  BY DEF Send
<1>4. LiveTasks' = LiveTasks
  BY DEF LiveTasks
<1>5. \A j : InQueue(j) => InQueue(j)'
  BY <1>1, <1>2 DEF InQueue
<1>6. e.id \in Jobs => e.id \in lost' \/ InQueue(e.id)'
  BY <1>1, <1>2, <1>3 DEF InQueue
<1> QED  BY <1>3, <1>4, <1>5, <1>6 DEF Heard, Carried

LEMMA RequestsServe ==
  ASSUME TypeOK, WInv, Listening, PendingIsServed,
         RequestSync \/ RequestStats \/ \E j \in Jobs : RequestJob(j)
  PROVE  PendingIsServed'
<1>1. ASSUME NEW j \in Jobs, RequestJob(j) PROVE PendingIsServed'
  <2> DEFINE e == [id |-> j, user |-> owner[j]]
  <2>1. e \in Events /\ e.id = j
    BY <1>1 DEF RequestJob, WInv, Rightful, Events, Ids
  <2>2. Send(e) /\ creating' = creating \ {j} /\ UNCHANGED <<status, at, event, tick>>
    BY <1>1 DEF RequestJob, tasks
  <2>3. \A i \in Publishing : i = j \/ i \in Publishing'
    BY <2>2 DEF Publishing
  <2> HIDE DEF e
  <2> QED  BY <2>1, <2>2, <2>3, SendServes, StillServed
<1>2. CASE RequestSync
  <2> DEFINE e == [id |-> tick.job, user |-> tick.user]
  <2>1. e \in Events /\ e.id = tick.job
    BY <1>2 DEF RequestSync, WInv, Rightful, Events, Ids
  <2>2. Send(e) /\ UNCHANGED <<status, creating, at, event>>
    BY <1>2 DEF RequestSync, tasks
  <2>3. \A i \in Publishing : i = tick.job \/ i \in Publishing'
    BY <2>2 DEF Publishing
  <2> HIDE DEF e
  <2> QED  BY <2>1, <2>2, <2>3, SendServes, StillServed
<1>3. CASE RequestStats
  <2> DEFINE e == [id |-> tick.user, user |-> tick.user]
  <2>1. tick.user \in Users
    BY <1>3 DEF RequestStats, TypeOK
  <2>2. e \in Events
    BY <2>1 DEF Events, Ids
  <2>3. Send(e) /\ UNCHANGED <<status, creating, at, event>> /\ tick.at = "sending"
    BY <1>3 DEF RequestStats, tasks
  <2>4. \A i \in Publishing : i \in Publishing'
    BY <2>3 DEF Publishing
  <2> HIDE DEF e
  <2> QED  BY <2>2, <2>3, <2>4, SendServes, StillServed
<1> QED  BY <1>1, <1>2, <1>3

\* What leaves the requests alone, or hands one from the queue to a task.
LEMMA OthersServe ==
  ASSUME TypeOK, PendingIsServed,
         \A j \in Jobs : status'[j] = "pending" => status[j] = "pending",
         lost \subseteq lost',
         Publishing \subseteq Publishing',
         \A j \in Jobs : InQueue(j) => Heard(j)',
         \A t \in LiveTasks, j \in Jobs : event[t].id = j /\ status'[j] = "pending" => Heard(j)'
  PROVE  PendingIsServed'
<1> SUFFICES ASSUME NEW j \in Jobs, status'[j] = "pending" PROVE Heard(j)'
  BY DEF PendingIsServed, Heard, Carried
<1>1. j \in lost \/ j \in Publishing \/ InQueue(j) \/ \E t \in LiveTasks : event[t].id = j
  BY DEF PendingIsServed
<1>2. CASE j \in lost \/ j \in Publishing
  BY <1>2 DEF Heard, Carried
<1>3. CASE InQueue(j)
  BY <1>3
<1>4. ASSUME NEW t \in LiveTasks, event[t].id = j PROVE Heard(j)'
  BY <1>4
<1> QED  BY <1>1, <1>2, <1>3, <1>4

LEMMA TakeServes ==
  ASSUME TypeOK, PendingIsServed, NEW t \in Tasks, Take(t)
  PROVE  PendingIsServed'
<1> DEFINE n == Len(queue)
           e == Head(queue)
<1>0. /\ n \in Nat /\ n > 0 /\ DOMAIN queue = 1..n
      /\ e = queue[1] /\ DOMAIN queue' = 1..n - 1
      /\ \A i \in 1..n : i = 1 \/ (i - 1 \in 1..n - 1 /\ queue'[i - 1] = queue[i])
  BY QueueIndexes, HeadTailProperties, LenProperties, EmptySeq DEF Take, TypeOK
<1>1. at[t] = "none" /\ UNCHANGED <<rows, tick>>
  BY DEF Take
<1> HIDE DEF e
<1>2. /\ at'[t] = "new" /\ event'[t] = e
      /\ \A u \in Tasks \ {t} : at'[u] = at[u] /\ event'[u] = event[u]
  BY DEF Take, TypeOK, e
<1>3. t \in LiveTasks' /\ \A u \in LiveTasks : u \in LiveTasks' /\ event'[u] = event[u]
  BY <1>1, <1>2 DEF LiveTasks, Live
<1>4. Publishing' = Publishing
  BY <1>1 DEF Publishing, rows
<1>5. ASSUME NEW j, InQueue(j) PROVE Heard(j)'
  <2>1. PICK i \in 1..n : queue[i].id = j
    BY <1>0, <1>5 DEF InQueue
  <2>2. CASE i = 1
    BY <1>0, <1>2, <1>3, <2>1, <2>2 DEF Heard, Carried
  <2>3. CASE i # 1
    BY <1>0, <2>1, <2>3 DEF Heard, Carried, InQueue
  <2> QED  BY <2>2, <2>3
<1>6. \A u \in LiveTasks, j \in Jobs : event[u].id = j => Heard(j)'
  BY <1>3 DEF Heard, Carried
<1> QED  BY <1>1, <1>4, <1>5, <1>6, OthersServe DEF rows

LEMMA TasksServe ==
  ASSUME TypeOK, WInv, Removed, PendingIsServed, NEW t \in Tasks,
         StartTask(t) \/ EndTask(t) \/ EndCancelled(t) \/ TaskDone(t)
  PROVE  PendingIsServed'
<1>1. UNCHANGED <<queue, creating, tick>>
  BY DEF StartTask, EndTask, EndCancelled, TaskDone, rows, bus
<1>2. lost \subseteq lost' /\ \A j \in Jobs : status'[j] = "pending" => status[j] = "pending"
  BY DEF StartTask, EndTask, EndCancelled, TaskDone, rows, TypeOK
<1>3. Publishing' = Publishing /\ \A j : InQueue(j)' <=> InQueue(j)
  BY <1>1 DEF Publishing, InQueue
<1>4. \A u \in LiveTasks \ {t} : u \in LiveTasks' /\ event'[u] = event[u]
  BY DEF StartTask, EndTask, EndCancelled, TaskDone, LiveTasks, TypeOK
<1>5. \A u \in LiveTasks \ {t}, j \in Jobs : event[u].id = j => Heard(j)'
  BY <1>4 DEF Heard, Carried
<1>6. ASSUME t \in LiveTasks, NEW j \in Jobs, event[t].id = j, status'[j] = "pending"
      PROVE  Heard(j)'
  <2>1. CASE StartTask(t)
    <3>1. t \in Active /\ event[t].user = owner[j] /\ event[t].user \in Users
      BY <1>6 DEF LiveTasks, Live, Active, WInv, Rightful, Right, Events
    <3>2. dir[event[t].user]
      BY <1>2, <1>6, <3>1 DEF Removed
    <3>3. t \in LiveTasks' /\ event' = event
      BY <2>1, <3>2 DEF StartTask, UserExists, LiveTasks, Live, TypeOK
    <3> QED  BY <1>6, <3>3 DEF Heard, Carried
  <2>2. CASE EndTask(t)
    BY <1>6, <2>2 DEF EndTask, TypeOK
  <2>3. CASE EndCancelled(t)
    BY <1>6, <2>3 DEF EndCancelled, Heard
  <2>4. CASE TaskDone(t)
    BY <1>6, <2>4 DEF TaskDone, LiveTasks, Live
  <2> QED  BY <2>1, <2>2, <2>3, <2>4
<1>7. \A u \in LiveTasks, j \in Jobs : event[u].id = j /\ status'[j] = "pending" => Heard(j)'
  BY <1>5, <1>6
<1> QED  BY <1>2, <1>3, <1>7, OthersServe DEF Heard, Carried

\* What touches neither the queue nor the tasks.
LEMMA FrameServes ==
  ASSUME TypeOK, PendingIsServed,
         \A j \in Jobs : status'[j] = "pending" => status[j] = "pending",
         lost \subseteq lost', Publishing \subseteq Publishing', queue' = queue, event' = event,
         \A t \in Tasks : at[t] \in Live => at'[t] \in Live
  PROVE  PendingIsServed'
<1>1. \A j : InQueue(j) => InQueue(j)'
  BY DEF InQueue
<1>2. \A t \in LiveTasks : t \in LiveTasks' /\ event'[t] = event[t]
  BY DEF LiveTasks
<1> QED  BY <1>1, <1>2, OthersServe DEF Heard, Carried

LEMMA InsertServes ==
  ASSUME TypeOK, PendingIsServed, NEW j \in Jobs, NEW u \in Users, Insert(j, u),
         UNCHANGED <<queue, at, event, lost>>, j \in Publishing',
         Publishing \subseteq Publishing'
  PROVE  PendingIsServed'
<1>1. \A i \in Jobs \ {j} : status'[i] = status[i]
  BY DEF Insert, TypeOK
<1>2. LiveTasks' = LiveTasks /\ \A i : InQueue(i)' <=> InQueue(i)
  BY DEF LiveTasks, InQueue
<1> QED  BY <1>1, <1>2 DEF PendingIsServed

LEMMA ServedNext == TypeOK /\ WInv /\ Listening /\ Removed /\ PendingIsServed /\ [Next]_vars => PendingIsServed'
<1> SUFFICES ASSUME TypeOK, WInv, Listening, Removed, PendingIsServed, [Next]_vars
             PROVE  PendingIsServed'
  OBVIOUS
<1>1. ASSUME NEW j \in Jobs, NEW u \in Users, CreateJob(j, u) PROVE PendingIsServed'
  <2>1. j \in Publishing' /\ Publishing \subseteq Publishing'
    BY <1>1 DEF CreateJob, Publishing
  <2> QED  BY <1>1, <2>1, InsertServes DEF CreateJob, bus, tasks
<1>2. ASSUME NEW j \in Jobs, CreateSync(j) PROVE PendingIsServed'
  <2>1. tick.user \in Users /\ tick'.at = "publishing" /\ tick'.job = j /\ tick.at = "creating"
    BY <1>2 DEF CreateSync, TypeOK
  <2>2. j \in Publishing' /\ Publishing \subseteq Publishing'
    BY <1>2, <2>1 DEF CreateSync, Publishing
  <2> QED  BY <1>2, <2>1, <2>2, InsertServes DEF CreateSync, bus, tasks
<1>3. CASE Wandering
  <2>1. UNCHANGED <<rows, bus, tasks>> /\ tick.at # "publishing"
    BY <1>3 DEF Wandering, TickStarts, TickEnds, ReadSync, ReadStats, VisitFails, Visit
  <2>2. Publishing \subseteq Publishing'
    BY <2>1 DEF Publishing, rows
  <2> QED  BY <2>1, <2>2, FrameServes DEF rows, bus, tasks
<1>4. CASE LoopStarts \/ Boot \/ ShutdownReturns \/ UNCHANGED vars
  <2>1. UNCHANGED <<rows, tick, queue, tasks>>
    BY <1>4 DEF LoopStarts, Boot, ShutdownReturns, vars, bus
  <2>2. Publishing' = Publishing
    BY <2>1 DEF Publishing, rows
  <2> QED  BY <2>1, <2>2, FrameServes DEF rows, tasks
<1>5. CASE LoopEnds
  <2>1. UNCHANGED <<status, creating, tick, queue, tasks>> /\ lost \subseteq lost'
    BY <1>5 DEF LoopEnds
  <2>2. Publishing' = Publishing
    BY <2>1 DEF Publishing
  <2> QED  BY <2>1, <2>2, FrameServes DEF tasks
<1>6. CASE Shutdown
  <2> DEFINE S == {tracked[i] : i \in Ids} \ {NoTask}
  <2>1. Cancel(S) /\ UNCHANGED <<rows, tick, queue, event>>
    BY <1>6 DEF Shutdown
  <2> HIDE DEF S
  <2>2. \A t \in Tasks : at[t] \in Live => at'[t] \in Live
    BY <2>1 DEF Cancel, Live
  <2>3. Publishing' = Publishing
    BY <2>1 DEF Publishing, rows
  <2> QED  BY <2>1, <2>2, <2>3, FrameServes DEF rows
<1>7. CASE SchedulerStops
  <2>1. /\ UNCHANGED <<status, creating, bus, tasks>> /\ lost \subseteq lost'
        /\ \A j \in Publishing : j \in lost' \/ j \in Publishing'
    BY <1>7 DEF SchedulerStops, Publishing
  <2>2. LiveTasks' = LiveTasks /\ \A j : InQueue(j)' <=> InQueue(j)
    BY <2>1 DEF LiveTasks, InQueue, tasks, bus
  <2> QED  BY <2>1, <2>2 DEF PendingIsServed, tasks
<1>8. CASE Die
  BY <1>8 DEF Die, PendingIsServed
<1>9. ASSUME NEW u \in Users, Account(u) \/ OpenDatabase(u) \/ IntervalPasses(u)
      PROVE  PendingIsServed'
  <2>1. /\ UNCHANGED <<creating, lost, tick, bus, tasks>>
        /\ \A j \in Jobs : status'[j] = "pending" => status[j] = "pending"
    BY <1>9 DEF Account, DeleteRow, RemoveDirectory, RemovalFails, OpenDatabase, IntervalPasses, rows
  <2>2. Publishing' = Publishing
    BY <2>1 DEF Publishing
  <2> QED  BY <2>1, <2>2, FrameServes DEF bus, tasks
<1> QED  BY <1>1, <1>2, <1>3, <1>4, <1>5, <1>6, <1>7, <1>8, <1>9, Steps, RequestsServe, TakeServes,
            TasksServe

-----------------------------------------------------------------------------
(* What a shutdown waits for.                                               *)

Stopping == app \in {"stopping", "down", "unscheduled"}

\* Nothing new is at work but what the loop made late, and nothing ended revives.
LEMMA StillWaited ==
  ASSUME TypeOK, Waited,
         \A t \in LiveTasks' : t \in LiveTasks /\ event'[t] = event[t],
         awaited' = awaited, late \subseteq late',
         app' \in {"down", "unscheduled"} => app \in {"down", "unscheduled"} \/ Gathered,
         Stopping' => Stopping,
         \A t \in Tasks : at[t] = "ended" => at'[t] = "ended"
  PROVE  Waited'
<1>1. Stopping' => \A t \in LiveTasks' : t \in late' \/ event'[t].id \in Users \/ t \in awaited'
  BY DEF Waited, Stopping
<1>2. app' \in {"down", "unscheduled"} => \A t \in awaited' : at'[t] = "ended"
  BY DEF Waited, Gathered, TypeOK
<1> QED  BY <1>1, <1>2 DEF Waited, Stopping

LEMMA WaitedNext == TypeOK /\ WInv /\ Waited /\ [Next]_vars => Waited'
<1> SUFFICES ASSUME TypeOK, WInv, Waited, [Next]_vars PROVE Waited'
  OBVIOUS
<1>1. CASE Shutdown
  <2> DEFINE S == {tracked[i] : i \in Ids} \ {NoTask}
  <2>1. Cancel(S) /\ awaited' = S /\ event' = event /\ app' = "stopping"
    BY <1>1 DEF Shutdown
  <2>2. \A t \in LiveTasks : event[t].id \in Jobs => t \in S
    BY DispatchAssumption DEF WInv, RowTasksAreTracked, LiveTasks, Ids
  <2>3. \A t \in LiveTasks : event[t].id \in Jobs \cup Users
    BY DEF WInv, Rightful, Active, LiveTasks, Live, Events, Ids
  <2> HIDE DEF S
  <2>4. LiveTasks' \subseteq LiveTasks
    BY <2>1 DEF Cancel, LiveTasks, Live
  <2> QED  BY <2>1, <2>2, <2>3, <2>4 DEF Waited
<1>2. CASE Boot \/ Die
  BY <1>2 DEF Boot, Die, Waited
<1>3. CASE ShutdownReturns \/ SchedulerStops \/ UNCHANGED vars
  <2>1. UNCHANGED <<tasks, awaited>> /\ (ShutdownReturns \/ SchedulerStops \/ app' = app)
    BY <1>3 DEF ShutdownReturns, SchedulerStops, vars, process
  <2>2. LiveTasks' = LiveTasks
    BY <2>1 DEF LiveTasks, tasks
  <2> QED  BY <2>1, <2>2, StillWaited DEF tasks, ShutdownReturns, SchedulerStops, Stopping
<1>4. CASE Wandering \/ LoopStarts \/ LoopEnds
  <2>1. UNCHANGED <<tasks, process>>
    BY <1>4 DEF Wandering, TickStarts, TickEnds, ReadSync, ReadStats, VisitFails, Visit, LoopStarts,
       LoopEnds
  <2>2. LiveTasks' = LiveTasks
    BY <2>1 DEF LiveTasks, tasks
  <2> QED  BY <2>1, <2>2, StillWaited DEF tasks, process, Stopping
<1>5. CASE \/ \E j \in Jobs : RequestJob(j) \/ (\E u \in Users : CreateJob(j, u)) \/ CreateSync(j)
           \/ RequestSync \/ RequestStats
           \/ \E u \in Users : Account(u) \/ OpenDatabase(u) \/ IntervalPasses(u)
  <2>1. UNCHANGED <<tasks, process>>
    BY <1>5 DEF RequestJob, CreateJob, CreateSync, RequestSync, RequestStats, Account, DeleteRow,
       RemoveDirectory, RemovalFails, OpenDatabase, IntervalPasses
  <2>2. LiveTasks' = LiveTasks
    BY <2>1 DEF LiveTasks, tasks
  <2> QED  BY <2>1, <2>2, StillWaited DEF tasks, process, Stopping
<1>6. ASSUME NEW t \in Tasks, StartTask(t) \/ EndTask(t) \/ EndCancelled(t) PROVE Waited'
  <2>1. UNCHANGED <<event, late, process>>
    BY <1>6 DEF StartTask, EndTask, EndCancelled
  <2>2. /\ LiveTasks' \subseteq LiveTasks
        /\ \A u \in Tasks : at[u] = "ended" => at'[u] = "ended"
    BY <1>6 DEF StartTask, EndTask, EndCancelled, LiveTasks, Live, TypeOK
  <2> QED  BY <2>1, <2>2, StillWaited DEF process, Stopping
<1>7. ASSUME NEW t \in Tasks, Take(t) PROVE Waited'
  <2>1. /\ at[t] = "none" /\ at'[t] = "new" /\ UNCHANGED <<app, awaited>>
        /\ \A u \in Tasks \ {t} : at'[u] = at[u] /\ event'[u] = event[u]
        /\ late' = IF app = "up" THEN late ELSE late \cup {t}
    BY <1>7 DEF Take, TypeOK, process
  <2>2. LiveTasks' \subseteq LiveTasks \cup {t}
    BY <2>1 DEF LiveTasks
  <2>3. Stopping => \A u \in LiveTasks' : u \in late' \/ event'[u].id \in Users \/ u \in awaited'
    BY <2>1, <2>2 DEF Waited, Stopping, LiveTasks
  <2>4. app' \in {"down", "unscheduled"} => \A u \in awaited' : at'[u] = "ended"
    BY <2>1 DEF Waited, TypeOK
  <2> QED  BY <2>1, <2>3, <2>4 DEF Waited, Stopping
<1>8. ASSUME NEW t \in Tasks, TaskDone(t) PROVE Waited'
  <2>1. /\ at'[t] = "none" /\ app' = app /\ awaited' = awaited \ {t} /\ late' = late \ {t}
        /\ \A u \in Tasks \ {t} : at'[u] = at[u] /\ event'[u] = event[u]
    BY <1>8 DEF TaskDone, TypeOK
  <2>2. LiveTasks' \subseteq LiveTasks \ {t}
    BY <2>1 DEF LiveTasks, Live
  <2>3. Stopping => \A u \in LiveTasks' : u \in late' \/ event'[u].id \in Users \/ u \in awaited'
    BY <2>1, <2>2 DEF Waited, Stopping, LiveTasks
  <2>4. app' \in {"down", "unscheduled"} => \A u \in awaited' : at'[u] = "ended"
    BY <2>1 DEF Waited, TypeOK
  <2> QED  BY <2>1, <2>3, <2>4 DEF Waited, Stopping
<1> QED  BY <1>1, <1>2, <1>3, <1>4, <1>5, <1>6, <1>7, <1>8, Steps

-----------------------------------------------------------------------------
(* One request, counted.                                                    *)

LEMMA AtMostOne ==
  ASSUME NEW S, \A x, y \in S : x = y
  PROVE  (S = {} /\ Cardinality(S) = 0) \/ (S # {} /\ Cardinality(S) = 1)
<1>1. CASE S = {}
  BY <1>1, FS_EmptySet
<1>2. CASE S # {}
  <2>1. PICK x \in S : S = {x}
    BY <1>2
  <2> QED  BY <1>2, <2>1, FS_Singleton
<1> QED  BY <1>1, <1>2

LEMMA OneByPlace == TypeOK /\ Placed => OneRequest
<1> SUFFICES ASSUME TypeOK, Placed, NEW j \in Jobs
             PROVE  Cardinality({t \in LiveTasks : event[t].id = j})
                      + Cardinality({n \in DOMAIN queue : queue[n].id = j})
                      + Cardinality({j} \cap Publishing) <= 1
  BY DEF OneRequest
<1> DEFINE T == {t \in LiveTasks : event[t].id = j}
           Q == {n \in DOMAIN queue : queue[n].id = j}
           P == {j} \cap Publishing
<1>0. LiveTasks \subseteq Active
  BY DEF LiveTasks, Live, Active
<1>1. (\A x, y \in T : x = y) /\ (\A x, y \in Q : x = y) /\ (\A x, y \in P : x = y)
  BY <1>0 DEF Placed
<1>2. ~(T # {} /\ Q # {}) /\ ~(T # {} /\ P # {}) /\ ~(Q # {} /\ P # {})
  BY <1>0 DEF Placed
<1>3. /\ (T = {} /\ Cardinality(T) = 0) \/ (T # {} /\ Cardinality(T) = 1)
      /\ (Q = {} /\ Cardinality(Q) = 0) \/ (Q # {} /\ Cardinality(Q) = 1)
      /\ (P = {} /\ Cardinality(P) = 0) \/ (P # {} /\ Cardinality(P) = 1)
  BY <1>1, AtMostOne
<1> HIDE DEF T, Q, P
<1>4. Cardinality(T) + Cardinality(Q) + Cardinality(P) <= 1
  BY <1>2, <1>3
<1> QED  BY <1>4 DEF T, Q, P

-----------------------------------------------------------------------------
LEMMA IInvInit == Init => IInv
<1> SUFFICES ASSUME Init PROVE IInv
  OBVIOUS
<1>1. Listening /\ Removed /\ PendingIsServed /\ Waited /\ LetInBefore
  BY DEF Init, Listening, Removed, PendingIsServed, Waited, LetInBefore
<1> QED  BY <1>1, TypeInit, WInit DEF IInv, WInv

LEMMA IInvNext == IInv /\ [Next]_vars => IInv'
BY TypeNext, WNext, ListeningNext, RemovedNext, ServedNext, WaitedNext, LetInNext DEF IInv, WInv

LEMMA Invariance == Spec => []IInv
BY IInvInit, IInvNext, PTL DEF Spec

\* The variables have their types; a pending row is with its creator, in the
\* queue or with a task, unless it went down with the process, and in one of
\* these places only; and its task can be found by its id
\* (_handle_execution_request, _on_task_done).
THEOREM RowsAreServed == Spec => [](TypeOK /\ RowsAreServedOnce)
<1>1. IInv => TypeOK /\ RowsAreServedOnce
  BY OneByPlace DEF IInv, RowsAreServedOnce
<1> QED  BY <1>1, Invariance, PTL

\* When the executor has shut down, nothing is at work but what was made after it
\* cancelled the tasks it knew, and statistics syncs whose entry was taken (shutdown).
THEOREM NothingIsLeft == Spec => []ShutdownLeavesNothing
<1>1. IInv => ShutdownLeavesNothing
  BY DEF IInv, Waited, ShutdownLeavesNothing, LiveTasks, Live
<1> QED  BY <1>1, Invariance, PTL

\* No event and no visit of the tick that comes after an account was removed makes
\* its directory again: only who had been let at the data before (_execute_job,
\* _fanout_tick, _connect_async).
THEOREM GhostsHadBeenInside == Spec => []GhostsWereInside
<1>1. IInv => GhostsWereInside
  BY DEF IInv, LetInBefore, GhostsWereInside
<1> QED  BY <1>1, Invariance, PTL
=============================================================================
