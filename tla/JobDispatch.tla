---------------------------- MODULE JobDispatch -----------------------------
(***************************************************************************)
(* How a job gets to run.  Requests come from whoever creates a row (an    *)
(* HTTP handler, a job that starts another) and from the scheduler's tick  *)
(* (background/scheduler.py); the event bus (events/event_bus.py) carries  *)
(* them to the queue of the executor (background/executor.py), whose loop  *)
(* makes a task of each.  Accounts are deleted meanwhile, and the process  *)
(* is shut down (web/app_lifecycle.py), killed and started again.          *)
(*                                                                         *)
(* A user has one synced profile here.  What a task does to its row is the *)
(* module JobLifecycle.  A statistics sync has no row; its id is made of   *)
(* the user's, and so the same every time: here it is the user.            *)
(***************************************************************************)
EXTENDS Naturals, Sequences, FiniteSets

CONSTANTS
    Users,     \* users with an account when the model starts
    SyncOn,    \* those whose settings let the scheduler sync their games
    Leavers,   \* bound: those who may delete their account
    Jobs,      \* ids of rows; also a bound on how many are created
    Tasks,     \* asyncio tasks; bound: how many exist at once
    MaxQueue,  \* bound: a statistics sync is not requested while as many events wait
    MaxBoots,  \* bound: how often the process is started
    NoTask, NoJob, NoUser

ASSUME DispatchAssumption ==
    /\ SyncOn \subseteq Users /\ Leavers \subseteq Users
    /\ Users \cap Jobs = {}
    /\ NoTask \notin Tasks /\ NoJob \notin Jobs /\ NoUser \notin Users
    /\ MaxQueue \in Nat /\ MaxBoots \in Nat

VARIABLES
    account,    \* "live", "deleting" between the row and the directory, "removed",
                \* "leftover" when the directory could not be removed
    dir,        \* the user's data directory exists
    fresh,      \* the last completed game sync is younger than the interval
    statsFresh, \* so is the last statistics snapshot
    status,     \* of each row: "absent", "pending", "over", "removed"
    owner,      \* the user whose row it is
    creating,   \* rows inserted by an HTTP handler or a job, not yet requested
    tick,       \* the tick of the scheduler: where it stands
    queue,      \* the executor's queue
    subscribed, \* the queue is subscribed to the bus
    loop,       \* JobExecutor.run: "starting", "waiting", "over"
    tracked,    \* _running_tasks, by id
    at,         \* where each task stands
    event,      \* what each task was made of
    awaited,    \* the tasks shutdown gathers
    app,        \* "up", "stopping", "down", "unscheduled", "off"
    boots,      \* how often the process was started
    late,       \* history: tasks made after shutdown cancelled the others
    lost,       \* history: rows whose request went down with the process
    inside      \* history: removed users whose data somebody had been let at

accounts == <<account, dir, inside>>
clocks   == <<fresh, statsFresh>>
rows     == <<status, owner, creating, lost>>
bus      == <<queue, subscribed, loop>>
tasks    == <<tracked, at, event, late>>
process  == <<app, boots, awaited>>
vars     == <<accounts, clocks, rows, tick, bus, tasks, process>>

Ids    == Jobs \cup Users
Events == [id : Ids, user : Users]
NoEvent == [id |-> NoJob, user |-> NoUser]
Live   == {"new", "inside", "cancelled"}

LiveTasks  == {t \in Tasks : at[t] \in Live}
InQueue(i) == \E n \in DOMAIN queue : queue[n].id = i
Publishing == {j \in Jobs : j \in creating \/ (tick.at = "publishing" /\ tick.job = j)}

TickIdle == [at |-> "idle", todo |-> {}, user |-> NoUser, job |-> NoJob]

Init ==
    /\ account = [u \in Users |-> "live"] /\ dir = [u \in Users |-> TRUE]
    /\ fresh = [u \in Users |-> FALSE] /\ statsFresh = [u \in Users |-> FALSE]
    /\ status = [j \in Jobs |-> "absent"] /\ owner = [j \in Jobs |-> NoUser]
    /\ creating = {}
    /\ tick = TickIdle
    /\ queue = <<>> /\ subscribed = FALSE /\ loop = "over"
    /\ tracked = [i \in Ids |-> NoTask]
    /\ at = [t \in Tasks |-> "none"] /\ event = [t \in Tasks |-> NoEvent]
    /\ awaited = {} /\ app = "off" /\ boots = 0
    /\ late = {} /\ lost = {} /\ inside = {}
-----------------------------------------------------------------------------
(* The event bus.                                                           *)

\* publish copies the subscribers and appends to their queues without
\* suspending; nobody keeps an event no queue is subscribed to.  The faulty
\* variant finds a queue among those of the type and among those of all types.
DeliveredTwice(e) == queue \o <<e, e>>
Delivered(e) == Append(queue, e)
Send(e) ==
    /\ queue' = IF subscribed THEN Delivered(e) ELSE queue
    /\ lost' = IF app # "up" /\ e.id \in Jobs THEN lost \cup {e.id} ELSE lost
    /\ UNCHANGED <<subscribed, loop>>
-----------------------------------------------------------------------------
(* Those who create a row and ask for its execution.                        *)

\* Where the account has been removed under an open connection, the row goes to
\* a file that is no longer there.
Insert(j, u) ==
    /\ status[j] = "absent"
    /\ status' = [status EXCEPT ![j] = IF account[u] = "removed" THEN "removed" ELSE "pending"]
    /\ owner' = [owner EXCEPT ![j] = u]

CreateJob(j, u) ==
    /\ app = "up" /\ account[u] = "live"
    /\ Insert(j, u)
    /\ creating' = creating \cup {j}
    /\ UNCHANGED <<accounts, clocks, lost, tick, bus, tasks, process>>

RequestJob(j) ==
    /\ j \in creating
    /\ Send([id |-> j, user |-> owner[j]])
    /\ creating' = creating \ {j}
    /\ UNCHANGED <<accounts, clocks, status, owner, tick, tasks, process>>
-----------------------------------------------------------------------------
(* _fanout_tick: one at a time (max_instances), user after user.            *)

MoveTick(s) == tick' = [tick EXCEPT !.at = s]

\* The context of the user is cleared.
NextUser == tick' = [tick EXCEPT !.at = "next", !.user = NoUser, !.job = NoJob]

TickStarts ==
    /\ app \in {"up", "stopping", "down"}
    /\ tick.at = "idle"
    /\ tick' = [TickIdle EXCEPT !.at = "next", !.todo = {u \in Users : account[u] = "live"}]
    /\ UNCHANGED <<accounts, clocks, rows, bus, tasks, process>>

TickEnds ==
    /\ tick.at = "next" /\ tick.todo = {}
    /\ tick' = TickIdle
    /\ UNCHANGED <<accounts, clocks, rows, bus, tasks, process>>

\* The directory is looked at because opening a database makes it again.
Visit(u) ==
    /\ tick.at = "next" /\ u \in tick.todo
    /\ tick' = [tick EXCEPT !.todo = @ \ {u},
                            !.at = IF dir[u] THEN "settings" ELSE "next",
                            !.user = IF dir[u] THEN u ELSE NoUser]
    /\ UNCHANGED <<accounts, clocks, rows, bus, tasks, process>>

ReadSync ==
    /\ tick.at = "settings"
    /\ MoveTick(IF tick.user \in SyncOn /\ ~fresh[tick.user] THEN "creating" ELSE "stats")
    /\ UNCHANGED <<accounts, clocks, rows, bus, tasks, process>>

CreateSync(j) ==
    /\ tick.at = "creating"
    /\ Insert(j, tick.user)
    /\ tick' = [tick EXCEPT !.at = "publishing", !.job = j]
    /\ UNCHANGED <<accounts, clocks, creating, lost, bus, tasks, process>>

RequestSync ==
    /\ tick.at = "publishing"
    /\ Send([id |-> tick.job, user |-> tick.user])
    /\ tick' = [tick EXCEPT !.at = "stats", !.job = NoJob]
    /\ UNCHANGED <<accounts, clocks, status, owner, creating, tasks, process>>

ReadStats ==
    /\ tick.at = "stats"
    /\ IF statsFresh[tick.user] THEN NextUser ELSE MoveTick("sending")
    /\ UNCHANGED <<accounts, clocks, rows, bus, tasks, process>>

RequestStats ==
    /\ tick.at = "sending" /\ Len(queue) < MaxQueue
    /\ Send([id |-> tick.user, user |-> tick.user])
    /\ NextUser
    /\ UNCHANGED <<accounts, clocks, status, owner, creating, tasks, process>>

\* The database of one user cannot be read or written (or there is no row left
\* in the model): the tick goes on with the next user.
VisitFails ==
    /\ tick.at \in {"settings", "creating", "stats"}
    /\ NextUser
    /\ UNCHANGED <<accounts, clocks, rows, bus, tasks, process>>

IntervalPasses(u) ==
    /\ \/ fresh' = [fresh EXCEPT ![u] = FALSE] /\ UNCHANGED statsFresh
       \/ statsFresh' = [statsFresh EXCEPT ![u] = FALSE] /\ UNCHANGED fresh
    /\ UNCHANGED <<accounts, rows, tick, bus, tasks, process>>
-----------------------------------------------------------------------------
(* JobExecutor.                                                             *)

\* run() subscribes unless the startup already has.
LoopStarts ==
    /\ loop = "starting" /\ app # "off"
    /\ subscribed' = TRUE
    /\ loop' = "waiting"
    /\ UNCHANGED <<accounts, clocks, rows, tick, queue, tasks, process>>

\* An event and the task made of it, without a suspension between them.  The
\* faulty variant keeps the tasks by user.
TrackByUser(e, t) == tracked' = [tracked EXCEPT ![e.user] = t]
Track(e, t) == tracked' = [tracked EXCEPT ![e.id] = t]

Take(t) ==
    /\ loop = "waiting" /\ queue # <<>>
    /\ at[t] = "none"
    /\ queue' = Tail(queue)
    /\ Track(Head(queue), t)
    /\ at' = [at EXCEPT ![t] = "new"]
    /\ event' = [event EXCEPT ![t] = Head(queue)]
    /\ late' = IF app = "up" THEN late ELSE late \cup {t}
    /\ UNCHANGED <<accounts, clocks, rows, tick, subscribed, loop, process>>

\* The loop looks at _shutdown when it has handled an event, or after a second.
LoopEnds ==
    /\ loop = "waiting" /\ app \notin {"up", "off"}
    /\ loop' = "over"
    /\ lost' = lost \cup {j \in Jobs : InQueue(j)}
    /\ UNCHANGED <<accounts, clocks, status, owner, creating, tick, queue, subscribed,
                   tasks, process>>

\* _execute_job returns at once when the user's directory is gone; the faulty
\* variant goes on.
GoOn(u) == TRUE
UserExists(u) == dir[u]
StartTask(t) ==
    /\ at[t] = "new"
    /\ at' = [at EXCEPT ![t] = IF UserExists(event[t].user) THEN "inside" ELSE "ended"]
    /\ UNCHANGED <<accounts, clocks, rows, tick, bus, tracked, event, late, process>>

\* The runner returns or raises; a sync that completed makes its profile fresh,
\* which nobody asks of a user whose games are not synced.
EndTask(t) ==
    /\ at[t] = "inside"
    /\ at' = [at EXCEPT ![t] = "ended"]
    /\ LET i == event[t].id
           u == event[t].user
       IN IF i \in Jobs
            THEN /\ status' = [status EXCEPT ![i] = IF @ = "pending" THEN "over" ELSE @]
                 /\ fresh' \in {fresh, [fresh EXCEPT ![u] = u \in SyncOn]}
                 /\ UNCHANGED statsFresh
            ELSE /\ statsFresh' \in {statsFresh, [statsFresh EXCEPT ![u] = TRUE]}
                 /\ UNCHANGED <<status, fresh>>
    /\ UNCHANGED <<accounts, owner, creating, lost, tick, bus, tracked, event, late, process>>

EndCancelled(t) ==
    /\ at[t] = "cancelled"
    /\ at' = [at EXCEPT ![t] = "ended"]
    /\ lost' = lost \cup ({event[t].id} \cap Jobs)
    /\ UNCHANGED <<accounts, clocks, status, owner, creating, tick, bus, tracked, event,
                   late, process>>

\* _on_task_done pops the id, whosever entry it is.
TaskDone(t) ==
    /\ at[t] = "ended"
    /\ at' = [at EXCEPT ![t] = "none"]
    /\ tracked' = [tracked EXCEPT ![event[t].id] = NoTask]
    /\ awaited' = awaited \ {t}
    /\ late' = late \ {t}
    /\ event' = [event EXCEPT ![t] = NoEvent]
    /\ UNCHANGED <<accounts, clocks, rows, tick, bus, app, boots>>
-----------------------------------------------------------------------------
(* The process: it starts, is shut down, dies.                              *)

\* Startup subscribes the queue before anything can be published; the faulty
\* variant leaves that to run().
SubscribeLater == subscribed' = FALSE
Subscribe == subscribed' = TRUE

Boot ==
    /\ app = "off" /\ boots < MaxBoots
    /\ app' = "up" /\ boots' = boots + 1
    /\ Subscribe
    /\ loop' = "starting"
    /\ UNCHANGED <<accounts, clocks, rows, tick, queue, tasks, awaited>>

\* Cancel what is tracked and wait for it; the faulty variant only waits.
JustWait(S) == UNCHANGED at
Cancel(S) ==
    at' = [t \in Tasks |-> IF t \in S /\ at[t] \in {"new", "inside"} THEN "cancelled" ELSE at[t]]

Shutdown ==
    /\ app = "up"
    /\ app' = "stopping"
    /\ subscribed' = FALSE
    /\ LET running == {tracked[i] : i \in Ids} \ {NoTask}
       IN Cancel(running) /\ awaited' = running
    /\ UNCHANGED <<accounts, clocks, rows, tick, queue, loop, tracked, event, late, boots>>

NotWaitedFor == TRUE  \* faulty variant
Gathered == \A t \in awaited : at[t] = "ended"
ShutdownReturns ==
    /\ app = "stopping" /\ Gathered
    /\ app' = "down"
    /\ UNCHANGED <<accounts, clocks, rows, tick, bus, tasks, awaited, boots>>

\* The scheduler is shut down after the executor: its tick is cancelled.
SchedulerStops ==
    /\ app = "down"
    /\ app' = "unscheduled"
    /\ tick' = TickIdle
    /\ lost' = lost \cup {j \in Jobs : tick.at = "publishing" /\ tick.job = j}
    /\ UNCHANGED <<accounts, clocks, status, owner, creating, bus, tasks, boots, awaited>>

\* The process ends, killed or after a shutdown, and keeps nothing in memory.
\* Nothing looks for pending rows at the next start.
Die ==
    /\ app # "off"
    /\ app' = "off"
    /\ lost' = lost \cup {j \in Jobs : status[j] = "pending"}
    /\ creating' = {} /\ tick' = TickIdle
    /\ queue' = <<>> /\ subscribed' = FALSE /\ loop' = "over"
    /\ tracked' = [i \in Ids |-> NoTask] /\ at' = [t \in Tasks |-> "none"]
    /\ event' = [t \in Tasks |-> NoEvent] /\ late' = {} /\ awaited' = {}
    /\ UNCHANGED <<accounts, clocks, status, owner, boots>>
-----------------------------------------------------------------------------
(* delete_account: the row in users, then the directory.                    *)

DeleteRow(u) ==
    /\ u \in Leavers
    /\ app = "up" /\ account[u] = "live"
    /\ account' = [account EXCEPT ![u] = "deleting"]
    /\ UNCHANGED <<dir, inside, clocks, rows, tick, bus, tasks, process>>

\* The tick, or a task, is past its look at the directory.
LetIn(u) ==
    \/ tick.user = u
    \/ \E t \in Tasks : at[t] = "inside" /\ event[t].user = u

RemoveDirectory(u) ==
    /\ app = "up" /\ account[u] = "deleting"
    /\ account' = [account EXCEPT ![u] = "removed"]
    /\ dir' = [dir EXCEPT ![u] = FALSE]
    /\ inside' = IF LetIn(u) THEN inside \cup {u} ELSE inside
    /\ status' = [j \in Jobs |-> IF owner[j] = u THEN "removed" ELSE status[j]]
    /\ UNCHANGED <<clocks, owner, creating, lost, tick, bus, tasks, process>>

RemovalFails(u) ==
    /\ app = "up" /\ account[u] = "deleting"
    /\ account' = [account EXCEPT ![u] = "leftover"]
    /\ UNCHANGED <<dir, inside, clocks, rows, tick, bus, tasks, process>>
\* A repository connects when it is first used: _connect_async makes the
\* directory if it is not there.
OpenDatabase(u) ==
    /\ LetIn(u) /\ ~dir[u]
    /\ dir' = [dir EXCEPT ![u] = TRUE]
    /\ UNCHANGED <<account, inside, clocks, rows, tick, bus, tasks, process>>
-----------------------------------------------------------------------------
Tick ==
    \/ TickEnds \/ ReadSync \/ RequestSync \/ ReadStats \/ RequestStats
    \/ \E u \in Users : Visit(u)
    \/ \E j \in Jobs : CreateSync(j)
    \/ VisitFails

Executor == LoopStarts \/ LoopEnds \/ \E t \in Tasks : Take(t)

\* What a task does without waiting for a platform or for an engine.
Task(t) == StartTask(t) \/ EndCancelled(t) \/ TaskDone(t)

Account(u) == DeleteRow(u) \/ RemoveDirectory(u) \/ RemovalFails(u)

Next ==
    \/ \E j \in Jobs : RequestJob(j) \/ \E u \in Users : CreateJob(j, u)
    \/ TickStarts \/ Tick \/ Executor
    \/ \E t \in Tasks : Task(t) \/ EndTask(t)
    \/ \E u \in Users : Account(u) \/ OpenDatabase(u) \/ IntervalPasses(u)
    \/ Boot \/ Shutdown \/ ShutdownReturns \/ SchedulerStops \/ Die

Spec == Init /\ [][Next]_vars

\* The event loop runs what can run.  Platforms answer within the time limit
\* of the HTTP client, so a statistics sync ends; a job may take for ever, and
\* nobody has to create, delete or shut down anything.
FairSpec ==
    /\ Spec
    /\ WF_vars(Tick) /\ WF_vars(Executor) /\ WF_vars(ShutdownReturns)
    /\ \A j \in Jobs : WF_vars(RequestJob(j))
    /\ \A t \in Tasks :
        WF_vars(Task(t)) /\ WF_vars(EndTask(t) /\ event[t].id \in Users)
-----------------------------------------------------------------------------
(* Properties.                                                              *)

TypeOK ==
    /\ account \in [Users -> {"live", "deleting", "removed", "leftover"}]
    /\ dir \in [Users -> BOOLEAN]
    /\ fresh \in [Users -> BOOLEAN] /\ statsFresh \in [Users -> BOOLEAN]
    /\ status \in [Jobs -> {"absent", "pending", "over", "removed"}]
    /\ owner \in [Jobs -> Users \cup {NoUser}]
    /\ creating \subseteq Jobs
    /\ tick \in [at : {"idle", "next", "settings", "creating", "publishing", "stats", "sending"},
                 todo : SUBSET Users, user : Users \cup {NoUser}, job : Jobs \cup {NoJob}]
    /\ tick.user = NoUser <=> tick.at \in {"idle", "next"}
    /\ queue \in Seq(Events)
    /\ subscribed \in BOOLEAN /\ loop \in {"starting", "waiting", "over"}
    /\ tracked \in [Ids -> Tasks \cup {NoTask}]
    /\ at \in [Tasks -> Live \cup {"none", "ended"}] /\ event \in [Tasks -> Events \cup {NoEvent}]
    /\ awaited \subseteq Tasks /\ late \subseteq Tasks
    /\ app \in {"up", "stopping", "down", "unscheduled", "off"} /\ boots \in Nat
    /\ lost \subseteq Jobs /\ inside \subseteq Users

\* A pending row is on its way to a task, or its request went down with the
\* process: no event is published before the executor's queue listens, and
\* none is dropped between the queue and the task.
PendingIsServed ==
    \A j \in Jobs : status[j] = "pending" =>
        \/ j \in lost \/ j \in Publishing \/ InQueue(j)
        \/ \E t \in LiveTasks : event[t].id = j

\* A row's request is in one place: no two tasks ever work on one row.
OneRequest ==
    \A j \in Jobs :
        Cardinality({t \in LiveTasks : event[t].id = j})
          + Cardinality({n \in DOMAIN queue : queue[n].id = j})
          + Cardinality({j} \cap Publishing) <= 1

\* The task of a row can be found by its id as long as it lives, so that a
\* shutdown can cancel it.  This is not so of statistics syncs, whose ids recur.
RowTasksAreTracked ==
    \A t \in LiveTasks : event[t].id \in Jobs => tracked[event[t].id] = t

\* A row's request is served, by one task at a time, that a shutdown can find
\* (_handle_execution_request, _on_task_done).
RowsAreServedOnce == PendingIsServed /\ OneRequest /\ RowTasksAreTracked

\* What is still at work when the executor has shut down was either made
\* after the others were cancelled, or is a statistics sync whose entry another
\* one of the same id took.
ShutdownLeavesNothing ==
    app \in {"down", "unscheduled"} =>
        \A t \in LiveTasks : t \in late \/ event[t].id \in Users

\* The directory of a removed account comes back only through somebody who had
\* been let at the data before it was removed: no event, and no visit of the
\* tick, that comes later makes it again.
GhostsWereInside ==
    \A u \in Users : account[u] = "removed" /\ dir[u] => u \in inside

\* A request that was made leads to a task at work, unless the process stops.
RequestsLeadToTasks ==
    \A j \in Jobs :
        (status[j] = "pending" /\ j \notin lost)
            ~> (status[j] # "pending" \/ app # "up" \/ \E t \in Tasks : at[t] = "inside" /\ event[t].id = j)

\* Shutting down the executor comes to its end, however long the jobs take.
ShutdownEnds == app = "stopping" ~> app # "stopping"

\* Neither a request nor a shutdown waits for ever (JobExecutor.run, shutdown).
ExecutorGoesOn == RequestsLeadToTasks /\ ShutdownEnds
=============================================================================
