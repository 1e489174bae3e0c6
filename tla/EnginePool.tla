----------------------------- MODULE EnginePool -----------------------------
(***************************************************************************)
(* The shared pool of chess engines, analysis/engine_pool.py: an unbounded *)
(* asyncio queue of (function, future) pairs, and one worker task per      *)
(* engine process that takes pairs from it.  Between two awaits a          *)
(* coroutine runs without interruption, so an action is the code from one  *)
(* await to the next.                                                      *)
(*                                                                         *)
(* A worker that holds NoEngine has a dead engine that is no longer listed *)
(* in self._engines.  The number of process identities is bounded by       *)
(* Engines: an identity is used again once nothing refers to it.           *)
(***************************************************************************)
EXTENDS Naturals, Sequences, FiniteSets

CONSTANTS
    Workers,       \* one worker task per engine: self._size of them
    Tasks,         \* the submissions; each is submitted at most once
    Engines,       \* identities of engine processes
    Clients,       \* coroutines that call drain()
    Sentinel,      \* _SENTINEL
    NoTask, NoEngine,
    SpawnMayFail,  \* popen_uci or configure may raise
    MayCancel,     \* a worker task may be cancelled (event loop teardown)
    MaxLeaks       \* bound on the processes whose configure() raised

ASSUME PoolAssumption ==
    /\ IsFiniteSet(Workers) /\ Workers # {}
    /\ Sentinel \notin Tasks
    /\ NoTask \notin Tasks
    /\ NoEngine \notin Engines
    /\ SpawnMayFail \in BOOLEAN
    /\ MayCancel \in BOOLEAN
    /\ MaxLeaks \in Nat

VARIABLES
    phase,       \* "starting" -> "open" -> "closing" -> "closed", or "failed"
    queue,       \* self._queue
    unfinished,  \* the queue's count of items put and not yet task_done()
    fut,         \* the future of each task
    ws,          \* where each worker task is
    eng,         \* the worker's local variable "engine"
    job,         \* the task whose (fn, future) the worker holds
    live,        \* engine processes that are running
    pool,        \* self._engines
    leaked,      \* processes whose configure() raised: nobody refers to them
    drain,       \* where each client stands in drain()
    before,      \* history: the tasks submitted when the client called drain()
    accepted     \* history: the tasks submitted before shutdown()

processes == <<live, pool, leaked>>
history   == <<before, accepted>>
vars == <<phase, queue, unfinished, fut, ws, eng, job, processes, drain, history>>

Settled    == {"result", "error", "cancelled"}
Submitted  == {t \in Tasks : fut[t] # "unsubmitted"}
Busy       == {"ensuring", "running", "recovering"}
Ended      == {"stopped", "cancelled", "crashed"}
WorkerStates == {"unborn", "spawned", "idle"} \cup Busy \cup Ended
NumWorkers == Cardinality(Workers)
Queued     == {queue[i] : i \in 1..Len(queue)} \ {Sentinel}
BusyWorkers == {w \in Workers : ws[w] \in Busy}
Held       == {job[w] : w \in BusyWorkers}

\* What the queue has let go of: task_done() was called for it.
Accounted  == Submitted \ (Queued \cup Held)

\* A future nobody will ever write: its worker died while it held the task.
Lost       == {t \in Accounted : fut[t] = "pending"}

ShuttingDown == phase \in {"closing", "closed"}
Fresh        == Engines \ (live \cup pool \cup {eng[w] : w \in Workers})

Init ==
    /\ phase = "starting"
    /\ queue = <<>> /\ unfinished = 0
    /\ fut = [t \in Tasks |-> "unsubmitted"]
    /\ ws = [w \in Workers |-> "unborn"]
    /\ eng = [w \in Workers |-> NoEngine]
    /\ job = [w \in Workers |-> NoTask]
    /\ live = {} /\ pool = {} /\ leaked = {}
    /\ drain = [c \in Clients |-> "out"]
    /\ before = [c \in Clients |-> {}]
    /\ accepted = {}
-----------------------------------------------------------------------------
(* _spawn_engine: popen_uci, configure, append to self._engines.            *)

ListedUnappended(e) == pool   \* faulty variant: the append is forgotten
Listed(e) == pool \cup {e}

SpawnEngine(w, e) ==
    /\ e \in Fresh
    /\ live' = live \cup {e}
    /\ pool' = Listed(e)
    /\ eng' = [eng EXCEPT ![w] = e]
    /\ UNCHANGED leaked

\* popen_uci raises and leaves no process, or configure raises and leaves a
\* process that was never appended to self._engines.
SpawnRaises ==
    /\ UNCHANGED <<pool, eng>>
    /\ \/ UNCHANGED <<live, leaked>>
       \/ \E e \in Fresh :
            /\ Cardinality(leaked) < MaxLeaks
            /\ live' = live \cup {e}
            /\ leaked' = leaked \cup {e}

\* start(): the engines are spawned one after the other; the worker tasks are
\* created, all of them, when the last one is there.
StartSpawn(w, e) ==
    /\ phase = "starting"
    /\ ws[w] = "unborn"
    /\ SpawnEngine(w, e)
    /\ IF \A x \in Workers \ {w} : ws[x] = "spawned"
         THEN ws' = [x \in Workers |-> "idle"] /\ phase' = "open"
         ELSE ws' = [ws EXCEPT ![w] = "spawned"] /\ UNCHANGED phase
    /\ UNCHANGED <<queue, unfinished, fut, job, drain, history>>

\* An exception of start() ends the application's startup.
StartFails ==
    /\ SpawnMayFail
    /\ phase = "starting"
    /\ phase' = "failed"
    /\ SpawnRaises
    /\ UNCHANGED <<queue, unfinished, fut, ws, job, drain, history>>
-----------------------------------------------------------------------------
(* The callers: submit(), an awaiting coroutine that goes away, drain().    *)

Submit(t) ==
    /\ phase \in {"open", "closing", "closed"}
    /\ fut[t] = "unsubmitted"
    /\ fut' = [fut EXCEPT ![t] = "pending"]
    /\ queue' = Append(queue, t)
    /\ unfinished' = unfinished + 1
    /\ UNCHANGED <<phase, ws, eng, job, processes, drain, history>>

GiveUp(t) ==
    /\ fut[t] = "pending"
    /\ fut' = [fut EXCEPT ![t] = "cancelled"]
    /\ UNCHANGED <<phase, queue, unfinished, ws, eng, job, processes, drain, history>>

\* Queue.join(): it looks at the count once, then waits for it to reach zero.
NothingQueued == queue = <<>>   \* faulty variant: emptiness taken for completion
NothingToDo == unfinished = 0

Drain(c) ==
    /\ phase \in {"open", "closing", "closed"}
    /\ drain[c] # "waiting"
    /\ before' = [before EXCEPT ![c] = Submitted]
    /\ drain' = [drain EXCEPT ![c] = IF NothingToDo THEN "returned" ELSE "waiting"]
    /\ UNCHANGED <<phase, queue, unfinished, fut, ws, eng, job, processes, accepted>>

\* Queue.task_done(): at zero, every coroutine waiting in join() is woken, and
\* it returns even if something is put in the queue before it runs.
Woken == [c \in Clients |-> IF drain[c] = "waiting" THEN "returned" ELSE drain[c]]

TaskDoneUnsignalled == unfinished' = unfinished - 1 /\ drain' = drain   \* faulty variant
TaskDone ==
    /\ unfinished' = unfinished - 1
    /\ drain' = IF unfinished = 1 THEN Woken ELSE drain
-----------------------------------------------------------------------------
(* The worker task.                                                         *)

\* set_result / set_exception / cancel, under the test the code makes first.
Settle(t, s) ==
    fut' = IF fut[t] = "pending" THEN [fut EXCEPT ![t] = s] ELSE fut

\* The end of _dispatch_engine_task that lets the worker loop.
TaskEnds(w, s) ==
    /\ Settle(job[w], s)
    /\ TaskDone
    /\ ws' = [ws EXCEPT ![w] = "idle"]
    /\ job' = [job EXCEPT ![w] = NoTask]

\* A worker takes an item.  The sentinel ends it.  With a live engine the
\* function starts at once; with a dead one the worker spawns a replacement,
\* or, when the pool is shutting down, the task fails.
TakeSentinel(w) ==
    /\ ws[w] = "idle"
    /\ queue # <<>> /\ Head(queue) = Sentinel
    /\ queue' = Tail(queue)
    /\ TaskDone
    /\ ws' = [ws EXCEPT ![w] = "stopped"]
    /\ eng' = [eng EXCEPT ![w] = NoEngine]
    /\ UNCHANGED <<phase, fut, job, processes, history>>

TakeTask(w) ==
    /\ ws[w] = "idle"
    /\ queue # <<>> /\ Head(queue) # Sentinel
    /\ queue' = Tail(queue)

StartTask(w, next) ==
    /\ TakeTask(w)
    /\ job' = [job EXCEPT ![w] = Head(queue)]
    /\ ws' = [ws EXCEPT ![w] = next]
    /\ UNCHANGED <<phase, unfinished, fut, live, leaked, drain, history>>

TakeWithLiveEngine(w) ==
    /\ eng[w] \in live
    /\ StartTask(w, "running")
    /\ UNCHANGED <<eng, pool>>

TakeWithDeadEngine(w) ==
    /\ eng[w] \notin live
    /\ ~ShuttingDown
    /\ StartTask(w, "ensuring")
    /\ pool' = pool \ {eng[w]}
    /\ eng' = [eng EXCEPT ![w] = NoEngine]

RefuseInShutdown(w) ==
    /\ eng[w] \notin live
    /\ ShuttingDown
    /\ TakeTask(w)
    /\ Settle(Head(queue), "error")
    /\ TaskDone
    /\ UNCHANGED <<phase, ws, eng, job, processes, history>>

\* _ensure_alive has its replacement and the function starts; or it raised.
Replaced(w, e) ==
    /\ ws[w] = "ensuring"
    /\ SpawnEngine(w, e)
    /\ ws' = [ws EXCEPT ![w] = "running"]
    /\ UNCHANGED <<phase, queue, unfinished, fut, job, drain, history>>

\* Faulty variant: the exception of _ensure_alive does not reach the future.
ReplaceRaisesSilently(w) ==
    /\ SpawnMayFail /\ ws[w] = "ensuring" /\ SpawnRaises /\ TaskDone
    /\ ws' = [ws EXCEPT ![w] = "idle"] /\ job' = [job EXCEPT ![w] = NoTask]
    /\ UNCHANGED <<phase, queue, fut, history>>

ReplaceRaises(w) ==
    /\ SpawnMayFail
    /\ ws[w] = "ensuring"
    /\ SpawnRaises
    /\ TaskEnds(w, "error")
    /\ UNCHANGED <<phase, queue, history>>

\* The function returns or raises within the time limit.
FunctionEnds(w) ==
    /\ ws[w] = "running"
    /\ \E s \in {"result", "error"} : TaskEnds(w, s)
    /\ UNCHANGED <<phase, queue, eng, processes, history>>

\* Faulty variant: the timed-out task is put back for another try while its
\* worker still answers for it.
TimesOutAndRequeues(w) ==
    /\ ws[w] = "running" /\ ws' = [ws EXCEPT ![w] = "recovering"]
    /\ queue' = Append(queue, job[w]) /\ unfinished' = unfinished + 1
    /\ pool' = pool \ {eng[w]} /\ live' = live \ {eng[w]}
    /\ eng' = [eng EXCEPT ![w] = NoEngine]
    /\ UNCHANGED <<phase, fut, job, leaked, drain, history>>

\* It does not: the engine is dropped and killed, a new one is awaited.
TimesOut(w) ==
    /\ ws[w] = "running"
    /\ ws' = [ws EXCEPT ![w] = "recovering"]
    /\ pool' = pool \ {eng[w]}
    /\ live' = live \ {eng[w]}
    /\ eng' = [eng EXCEPT ![w] = NoEngine]
    /\ UNCHANGED <<phase, queue, unfinished, fut, job, leaked, drain, history>>

Recovered(w, e) ==
    /\ ws[w] = "recovering"
    /\ SpawnEngine(w, e)
    /\ TaskEnds(w, "error")
    /\ UNCHANGED <<phase, queue, history>>

\* _kill_and_respawn is called in the except clause: what it raises leaves
\* _dispatch_engine_task through the finally clause and ends the worker task
\* with the future unset.  The faulty variant has no finally clause.
WorkerDiesUncounted(w) ==
    /\ ws[w] = "recovering" /\ ws' = [ws EXCEPT ![w] = "crashed"]
    /\ UNCHANGED <<phase, queue, unfinished, fut, job, drain, history>>

WorkerDies(w) ==
    /\ ws[w] = "recovering"
    /\ ws' = [ws EXCEPT ![w] = "crashed"]
    /\ TaskDone
    /\ UNCHANGED <<phase, queue, fut, job, history>>

RecoveryRaises(w) == SpawnMayFail /\ SpawnRaises /\ WorkerDies(w)

\* CancelledError at get(), in the function or in _ensure_alive, and in the
\* except clause of a timeout, where nothing catches it.
CancelIdle(w) ==
    /\ MayCancel
    /\ ws[w] = "idle"
    /\ ws' = [ws EXCEPT ![w] = "cancelled"]
    /\ eng' = [eng EXCEPT ![w] = NoEngine]
    /\ UNCHANGED <<phase, queue, unfinished, fut, job, processes, drain, history>>

CancelTask(w) ==
    /\ MayCancel
    /\ ws[w] \in {"ensuring", "running"}
    /\ Settle(job[w], "cancelled")
    /\ TaskDone
    /\ ws' = [ws EXCEPT ![w] = "cancelled"]
    /\ job' = [job EXCEPT ![w] = NoTask]
    /\ eng' = [eng EXCEPT ![w] = NoEngine]
    /\ UNCHANGED <<phase, queue, processes, history>>

CancelRecovery(w) == MayCancel /\ WorkerDies(w) /\ UNCHANGED <<eng, processes>>

\* An engine process exits by itself.
EngineDies(e) ==
    /\ e \in live
    /\ live' = live \ {e}
    /\ leaked' = leaked \ {e}
    /\ UNCHANGED <<phase, queue, unfinished, fut, ws, eng, job, pool, drain, history>>
-----------------------------------------------------------------------------
(* shutdown(): the flag and one sentinel per worker, in one go; gather()    *)
(* waits for every worker; then every listed engine is told to quit.        *)

Sentinels(n) == [i \in 1..n |-> Sentinel]

\* Faulty variants: the sentinels overtake the queue; one sentinel too few.
StopQueueFirst == Sentinels(NumWorkers) \o queue
StopQueueShort == queue \o Sentinels(NumWorkers - 1)
StopQueue == queue \o Sentinels(NumWorkers)

Shutdown ==
    /\ phase = "open"
    /\ phase' = "closing"
    /\ queue' = StopQueue
    /\ unfinished' = unfinished + NumWorkers
    /\ accepted' = Submitted
    /\ UNCHANGED <<fut, ws, eng, job, processes, drain, before>>

WorkersGathered ==
    /\ phase = "closing"
    /\ \A w \in Workers : ws[w] \in Ended
    /\ phase' = "closed"
    /\ live' = live \ pool
    /\ pool' = {}
    /\ UNCHANGED <<queue, unfinished, fut, ws, eng, job, leaked, drain, history>>
-----------------------------------------------------------------------------
Take(w) == TakeSentinel(w) \/ TakeWithLiveEngine(w) \/ TakeWithDeadEngine(w)
           \/ RefuseInShutdown(w)

SpawnReturns(w) ==
    \/ \E e \in Engines : Replaced(w, e) \/ Recovered(w, e)
    \/ ReplaceRaises(w)
    \/ RecoveryRaises(w)

FunctionStops(w) == FunctionEnds(w) \/ TimesOut(w)

CancelWorker(w) == CancelIdle(w) \/ CancelTask(w) \/ CancelRecovery(w)

WorkerStep(w) == Take(w) \/ SpawnReturns(w) \/ FunctionStops(w) \/ CancelWorker(w)

Next ==
    \/ \E w \in Workers, e \in Engines : StartSpawn(w, e)
    \/ StartFails
    \/ \E t \in Tasks : Submit(t) \/ GiveUp(t)
    \/ \E c \in Clients : Drain(c)
    \/ \E w \in Workers : WorkerStep(w)
    \/ \E e \in Engines : EngineDies(e)
    \/ Shutdown
    \/ WorkersGathered

Spec == Init /\ [][Next]_vars

\* The event loop runs what is ready, popen_uci returns or raises, and
\* wait_for bounds every function by task_timeout.
Fairness ==
    /\ \A w \in Workers :
        WF_vars(Take(w)) /\ WF_vars(SpawnReturns(w)) /\ WF_vars(FunctionStops(w))
    /\ WF_vars(\E w \in Workers, e \in Engines : StartSpawn(w, e))
    /\ WF_vars(WorkersGathered)

FairSpec == Spec /\ Fairness
-----------------------------------------------------------------------------
(* Properties.                                                              *)

TypeOK ==
    /\ phase \in {"starting", "open", "closing", "closed", "failed"}
    /\ queue \in Seq(Tasks \cup {Sentinel})
    /\ unfinished \in Nat
    /\ fut \in [Tasks -> {"unsubmitted", "pending"} \cup Settled]
    /\ ws \in [Workers -> WorkerStates]
    /\ eng \in [Workers -> Engines \cup {NoEngine}]
    /\ job \in [Workers -> Tasks \cup {NoTask}]
    /\ live \subseteq Engines /\ pool \subseteq Engines /\ leaked \subseteq Engines
    /\ drain \in [Clients -> {"out", "waiting", "returned"}]
    /\ before \in [Clients -> SUBSET Tasks]
    /\ accepted \subseteq Tasks

\* The count that join() waits on is the number of items still in the queue
\* plus the number of items a worker holds: task_done() is called exactly once
\* for each item on every path of _worker and _dispatch_engine_task, the
\* sentinel and the exceptions included.
QueueCount ==
    unfinished = Len(queue) + Cardinality(BusyWorkers)

\* A (fn, future) pair is in one place: it is queued once or held by one
\* worker, never both, so no task runs twice.
OnePlace ==
    /\ \A i, j \in 1..Len(queue) : queue[i] = queue[j] /\ queue[i] \in Tasks => i = j
    /\ \A v, w \in Workers :
         ws[v] \in Busy /\ ws[w] \in Busy /\ job[v] = job[w] => v = w
    /\ Queued \cap Held = {}

\* Two workers never drive the same engine process, a worker runs a function
\* only on an engine self._engines lists, and every running process is listed
\* there, so that shutdown() finds it, except those whose configure() raised.
EngineOwnership ==
    /\ \A v, w \in Workers : eng[v] = eng[w] /\ eng[v] # NoEngine => v = w
    /\ \A w \in Workers : ws[w] = "running" => eng[w] \in pool
    /\ live \subseteq pool \cup leaked

\* A future that stays unset although its task is done with belongs to a worker
\* that died while it held that task: each dead worker loses one task at most.
LostWithItsWorker ==
    \A t \in Lost : \E w \in Workers : ws[w] = "crashed" /\ job[w] = t

\* Workers stop on a sentinel only when nothing submitted before shutdown() is
\* still queued: the tasks shutdown() found in the queue are all served as long
\* as one worker lives to see its sentinel.
ServedBeforeStop ==
    (\E w \in Workers : ws[w] = "stopped") => accepted \cap Queued = {}

\* What becomes of a task: it is in one place, nobody stops before it is served,
\* and it is lost only with a worker that died holding it (_worker,
\* _dispatch_engine_task, shutdown).
TasksAreKept == OnePlace /\ LostWithItsWorker /\ ServedBeforeStop

\* The pool keeps the promise of TaskPool: a future is written once, so that
\* neither a late result, nor an error, nor the cancellation of the worker
\* replaces what its awaiter has seen; when drain() returns, every task
\* submitted before the call has left the pool's hands, whatever failed, was
\* cancelled or was submitted meanwhile; and a task is lost only when engines
\* can fail to spawn or workers can be cancelled.
Promise == INSTANCE TaskPool
             WITH done <- Accounted, MayLose <- SpawnMayFail \/ MayCancel
KeepsPromise == Promise!Spec

\* No worker is left to look at the queue, and not because it was told to stop.
Deserted == \A w \in Workers : ws[w] \in {"crashed", "cancelled"}

\* Every task submitted while the pool is open gets its future written, unless
\* a worker dies with it in hand or all of them are gone: shutdown() does not
\* strand what was queued before it.
EveryTaskSettles ==
    \A t \in Tasks :
        (fut[t] = "pending" /\ phase = "open")
            ~> (fut[t] # "pending" \/ t \in Lost \/ Deserted)

\* drain() returns as long as one worker is there, even if other workers died
\* with a task in hand.  During shutdown() it may hang: the sentinel of a worker
\* that is gone, or a task submitted after the sentinels, is never taken.
DrainReturns ==
    \A c \in Clients :
        drain[c] = "waiting"
            ~> \/ drain[c] = "returned" \/ Deserted
               \/ /\ ShuttingDown
                  /\ \/ Submitted # accepted
                     \/ \E w \in Workers : ws[w] \in {"crashed", "cancelled"}

\* shutdown() ends, whatever the workers are doing when it is called.
ShutdownEnds == phase = "closing" ~> phase = "closed"

\* Whoever waits for the pool, for a task, for all of them or for its end, is
\* answered (_worker, drain, shutdown).
NobodyWaitsForEver == EveryTaskSettles /\ DrainReturns /\ ShutdownEnds
=============================================================================
