# Verification of Blunder Tutor

Blunder Tutor imports a player's chess games, analyses them with Stockfish and
turns the mistakes into puzzles. It is one asyncio process (FastAPI, SQLite,
one database file per user and one for the accounts) with a browser front end
and a command line that opens the same files from a process of its own. This
directory holds TLA+ models of what that process does, the TLC runs that check
them on small instances, and the theorems that TLAPS proves of them for every
instance. Paths below are relative to the repository, `B/` stands for
`blunder_tutor/`. PROJECT.json maps every definition to the lines it models.

In all models a step is what a coroutine does between two awaits that really
suspend it: within such a step asyncio runs nobody else. Awaiting a lock that
nobody holds across an await (the event bus) does not suspend; awaiting the
database, an engine or the network does.

## 1. Inventory

| Component | State it keeps | Operations | Talks to |
|---|---|---|---|
| Engine pool (`B/analysis/engine_pool.py`) | queue of (function, future), count of unfinished items, list of engine processes, one worker task per engine | start, submit, drain, worker loop with time limit and respawn, shutdown | analyses submit to it; one pool for all users |
| Job lifecycle (`B/services/job_service.py`, `B/background/jobs/*`, `B/web/api/jobs.py`) | rows of `background_jobs`, progress kept in memory between throttled writes | create, run, report progress, complete, fail, stop, delete, delete all data | executor starts it; events to browsers and to the cache |
| Job executor, scheduler, event bus (`B/background/executor.py`, `scheduler.py`, `B/events/event_bus.py`) | queue of execution requests, dictionary of running tasks, subscribers | publish, subscribe, consume, dispatch a tick, shutdown | creators of jobs; runners |
| Analysis of a game (`B/analysis/pipeline/*`, `logic.py`, `B/repositories/analysis.py`) | step status rows, moves, the `analyzed` flag of a game | select and run steps, write moves, record steps, mark the game | engine pool, job lifecycle, backfills |
| Move classification (`B/analysis/pipeline/steps/*quality*`, `phase.py`, `thresholds.py`) | none | class, loss, difficulty, phase and game type of a move | analysis; reports |
| Openings and traps (`B/analysis/eco.py`, `traps.py`, `B/repositories/trap_repository.py`) | rows of `trap_matches` | classify a game, scan it, save matches one by one, backfill | analysis; reports |
| Response cache (`B/cache/*`) | entries with time to live, tag index | get, compute and set, invalidate by event, clear | requests; event bus |
| Event broadcast (`B/events/coalescing.py`, `websocket_manager.py`) | parked events by key, flush timer, connections | submit, flush, re-arm, close | event bus; browsers |
| Database access (`B/repositories/base.py`, `B/auth/storage_sqlite/db.py`) | write lock per file, open transaction per connection | begin, commit, roll back | all repositories |
| Accounts (`B/auth/*`, `B/web/auth_hooks.py`, `B/cli/auth.py`) | users, credentials, sessions, invite; one directory per user | sign up, log in and out, change password, delete; the operator's commands | per-user directories and databases |
| Setup gate (`B/web/middleware.py`, `settings_snapshot.py`) | cache of the setup flag by user | fill, forget, redirect | accounts; pages |
| Profiles and import (`B/repositories/profile.py`, `game_repository.py`, `B/web/api/profiles.py`, `B/fetchers/*`) | profiles, ratings, games | create, rename, delete (detach or cascade); fetch pages under a quota, incremental sync | jobs of kind import, sync and ratings |
| Reports and puzzles (`B/repositories/stats_repository.py`, `B/web/api/stats.py`, `B/trainer.py`) | attempts at puzzles | the numbers of the dashboard; choose a puzzle, record an attempt | the tables of games and moves |
| Tactics and explanations (`B/analysis/tactics.py`, `B/utils/explanation.py`, `B/services/lesson_facts.py`) | none | name the tactic of a blunder; say what was wrong and what was better | analysis; puzzles; the coach |
| The coach's notes (`B/services/llm_explanation.py`, `B/background/jobs/backfill_llm.py`) | cache of texts, notes stored with moves | ask a language model, judge, ask again, fall back on the facts, store | puzzles; backfill |
| Browser engine and sequence player (`frontend/src/shared`) | current animation or search and its token | start, cancel, step | the user's clicks |

What is hard in this code:

* **Interleaving and stale reads.** A request handler reads a row, awaits, and
  writes it; a runner does the same with the same row. No UPDATE of a status
  looks at the status it replaces. A report is put together from several queries.
* **Failure in the middle.** An engine dies or hangs while a task uses it, its
  replacement cannot be spawned, a step of an analysis fails after others have
  been recorded, a transaction is cancelled between statement and commit.
* **Restart.** Execution requests and progress live in memory only.
* **Order of events.** Events are published after the write they tell of, and
  travel through queues, coalescing and sockets.
* **Two processes.** The operator's commands write the file of accounts, and
  list and remove directories, beside the server.
* **Identity.** Ids of profiles are given again; foreign keys are off; statistics
  syncs of one user all have one id.
* **Ends.** drain() waits for a count that every path must lower exactly once;
  shutdown relies on sentinels behind the last task; an analysis that is
  stopped must stop.
* **Claims.** What is told of a position must be so on the board, whatever a
  language model answers and whatever a pattern of lines and values suggests.

## 2. Modules

| Module | Models | Proofs |
|---|---|---|
| `TaskPool` | abstract: what the users of the engine pool may rely on | |
| `EnginePool` | `EnginePool` and `WorkCoordinator`, implements `TaskPool` | `EnginePool_proofs` |
| `JobLifecycle` | `JobService`, `JobRepository`, the job classes, the stop and delete requests | `JobLifecycle_proofs` |
| `JobDispatch` | `EventBus`, `JobExecutor`, the scheduler's tick, account deletion, start and stop of the process | `JobDispatch_proofs` |
| `LatestWins` | abstract: what a browser may rely on of coalesced events | |
| `Coalescer` | `CoalescingBroadcaster` and `ConnectionManager`, implements `LatestWins` | `Web_proofs` |
| `ResponseCache` | the cache backend, the decorator, the invalidator, the operations that change the data | `Web_proofs` |
| `AnalysisPipeline` | the pipeline of steps on one game, the runs that ask for it, what they write, record and flag | `AnalysisPipeline_proofs` |
| `Accounts` | requests from cookie to answer, the hooks for directories, the setup gate, the operator's commands | `Accounts_proofs` |
| `GameFetch`, `Library` | the loops of the two fetchers; profiles, ratings and games under jobs and requests | `Library_proofs` |
| `MoveQuality`, `Openings`, `Reports` | the judgement of a move; the book and the traps; the dashboard and the choice of puzzles while games come and go | `Web_proofs` |
| `Board`, `Tactics`, `LessonFacts`, `Explanation`, `Prompt`, `CoachNotes` | the rules of the game as python-chess gives them; what is computed from a position; the coach on top of it | `CoachNotes_proofs` |
| `MC*` | instances for TLC | |

`Web_proofs` extends three models at once, those of what a browser is told;
therefore `ResponseCache` and `Reports` name their initial predicates, next-state
relations and types after themselves (`CacheSpec`, `ReportsSpec`), and none of
the three declares a name of another.

`EnginePool`, `JobLifecycle`, `JobDispatch`, `AnalysisPipeline` and the others
are models of their own, not one product: what joins them is stated in each.
`JobDispatch` keeps of a row only whether somebody has still to serve it, which is
what `JobLifecycle` starts from; `AnalysisPipeline` takes the death and the time
limit of a task as `EnginePool` produces them; `ResponseCache` and `Coalescer`
take events in the order in which the bus delivers them.

### EnginePool

State and code: `queue` and `unfinished` are the `asyncio.Queue` and its count
of items not yet `task_done()`; `fut` is the future of each task; `ws`, `eng`
and `job` are the local state of each worker coroutine; `pool` is
`self._engines`, `live` the processes that run. One action per path between two
awaits of `_worker`, `_dispatch_engine_task`, `_ensure_alive` and
`_kill_and_respawn`, including the exits by exception and by cancellation,
and of `start`, `submit`, `drain` and `shutdown`. `before` and `accepted` are
history variables for the properties.

| Property | Says |
|---|---|
| `QueueCount` | `unfinished` is the number of queued items and of busy workers, on every path out of a task |
| `TasksAreKept` | no task is queued twice, or queued and held, or held twice; a future that nobody will ever write belongs to a worker that died; no task accepted before shutdown() is behind a sentinel |
| `EngineOwnership` | no two workers drive one engine, and every live process is listed, so shutdown will close it, but for those whose configuration failed |
| `KeepsPromise` | refinement of `TaskPool`: a settled future never changes; when drain() returns, every task submitted before the call is accounted for |
| `NobodyWaitsForEver` | liveness of tasks, drain() and shutdown(), with the situations in which the code cannot keep it named in the formula |

### JobLifecycle

State and code: `row`, `shown` are the columns status and progress_current;
`pc` is where the coroutine of the creator, then of the runner stands; `left`,
`busy`, `done` are the units (games, batches, tables) of the run; `flushed` is
`_ProgressState.last_flushed_value`; `told` and `cancelled` are the watcher of
an analysis; `client` is a request that has read and not yet written. The
seven kinds of jobs differ in what they do before `run_with_lifecycle`
(`Preflight`), in whether and how they notice a stop (`IsCancelled`), and in
`delete_all_data` deleting the other rows. `Crash` stands for the death of
the process and for its shutdown, which cancels the runners: a cancelled
runner writes nothing.

| Property | Says |
|---|---|
| `PendingIsAwaited` | a pending row has somebody on the way to change it, with three named exceptions |
| `StopIsObeyed` | a stopped backfill begins no other game, unless the row was deleted before it looked; a stop of a working analysis is about to be published, in the watcher's queue or seen by its games |
| `CompletedShowsAll` | a completed row shows all the progress reported, although most reports are not written |
| `AgreedWhenQuiet` | when nobody is about to publish, the browsers were last told the status the row has, unless two writers overlapped |
| `RunsEnd` | every requested run ends |

### JobDispatch

State and code: `queue` is the executor's `asyncio.Queue`, `loop` its `run()`,
`tracked` the dictionary `_running_tasks`, `at` and `event` the asyncio tasks it
made; `tick` is the position of `_fanout_tick` in the directories it listed;
`account` and `dir` are the row of a user and its directory, which the deletion
removes one after the other; `app` follows the lifespan of the application.
`late`, `lost` and `inside` are history.

| Property | Says |
|---|---|
| `RowsAreServedOnce` | a pending row's request is being made, queued or a task, or went down with the process; it is in one of these places only; the task of a row is found under its id while it lives (not so those of statistics syncs, whose ids recur) |
| `ShutdownLeavesNothing` | what works on after a shutdown was made after the others were cancelled, or is a statistics sync whose entry was overwritten |
| `GhostsWereInside` | a removed user's directory comes back only through somebody who was let at it before |
| `ExecutorGoesOn` | liveness: a request becomes a task at work, a shutdown ends |

### Coalescer

State and code: `queue` is the broadcaster's queue on the bus, `pending` is
`_pending`, `timer` the state of `_flush_task`, `batch` what `_flush_after` took;
`sending`, `todo` and `failed` are the local state of the two coroutines that
may be inside `broadcast_event` at the same time; `conn` is what
`ConnectionManager` holds of a connection. An event is its number in the order of
publication.

| Property | Says |
|---|---|
| `NeverStranded` | parked events have a flush task that comes for them |
| `NothingForgotten` | what was published while a connection was subscribed is sent, on its way, or superseded by a later one of its key |
| `KeepsPromise` | refinement of `LatestWins`: no browser is shown an older event of a key after a later one, although flushes and the consumer overlap |
| `LastIsShown` | liveness: the last event of each key reaches every connection that stays |

### ResponseCache

State and code: `store` and `tag_index` are `_store` and `_tag_index` of the
backend, `reader` the local state of a request inside `_get_or_compute`,
`news` the invalidator's queue. `Changes` and `Announces` say of each
operation what it writes and which events it publishes when it is through; a
failed job publishes none, and neither does one whose row was deleted meanwhile. Of
an answer the model keeps whether the data of its
tag have changed since, and its age.

| Property | Says |
|---|---|
| `StaleIsExplained` | a stale answer is about to be dropped, or was computed before an invalidation and stored after it, or its data were changed by an operation that does not announce it or failed |
| `BecomesFresh` | liveness: when the changes are over, the time to live ends every stale answer, however often it is asked for |

### AnalysisPipeline

One game. State and code: `tables` is what is committed of it: its row and flag
in `game_index_cache`, which products of an analysis are stored (`rows`), and
the steps recorded in `analysis_step_status` (`done`). `run` is a run of
`execute_pipeline` and its caller: the steps still to come (`todo`), those whose
result has data (`ran`), and the await it stands at. A step that is skipped as
recorded leaves a result without data, and that is what the write step then
writes. `cut` is the transaction a cancelled writer leaves open, because
`write_transaction` rolls back on an `Exception` only; until it is committed or
dropped nobody else can write, and writers raise. `torn` and `overlapped` are
history.

| Property | Says |
|---|---|
| `FlagIsBacked` | a game that counts as analysed has an analysis, unless it was removed while a run was at work on it |
| `HoleIsRecorded` | an analysis lacks its opening, moves, phases or patterns only if a step that makes them is on record, or half a write or wipe was committed, or the game was removed under a run |
| `IsSettled` | liveness: as long as analyses are asked for, a game gets an analysis: no mixture of recorded steps makes every later run fail |

### Accounts

State and code: `db` is what is committed in the accounts' file, `conn` what the one
connection of the server shows, `lock` who holds its write lock and has a
transaction open; `req` is a request with what it has read; `cli` the operator's
command; `dir` the directory of a user, without or with its schema and setup; `gate`
the cache of `SetupGate`. A command may die before each of its steps; `cli.cut` has
the users whose reset did, until one comes through. Passwords are versions. `told`,
`swept`, `late` and `overtaken` are history.

| Property | Says |
|---|---|
| `AccountsAreWhole` | never more accounts than the cap; a credential for each account and for nobody else; no session without its account; nothing left open on the shared connection |
| `FirstByInvite` | the commit that makes the first account makes only that one and takes the invite along |
| `RotationEndsSessions` | a session of an older password is about to be deleted, or was made by a log-in already past its check, or the reset was cut short between its two commits |
| `DirectoryStands` | who was told that the account exists has a directory with a schema, unless a prune had listed the users before |
| `SetupIsSeen` | who finished the setup is not sent back to it, unless a page that read the old flag was overtaken |

### Library and GameFetch

`GameFetch` has what one page and one archive of the two fetchers bring: lichess
backwards from the oldest game seen, chess.com archive by archive. `Library` puts
jobs and requests around them, page by page and month by month, so that games are
played and the other job works between two pages: `profile`, `ratings` and `game`
are the tables, `job` and `req` what a coroutine has read and goes on with; a
transaction is one step.

| Property | Says |
|---|---|
| `TagsAreTrue` | a game or a rating with a profile's id was fetched for a name this profile has had, unless the profile was deleted under a job that goes on with its id |
| `NoHole` | a missing game that no sync will reach was left out by a quota, or deleted, or (lichess) was still going on when one begun later was fetched, or was begun in a second that a page of the fetch cut in two |

### Reports, Openings and MoveQuality

The judgement of each move from the engine's scores, the classification of a game by
the last position of the book it passed, the scan for traps, and on top of them
every filter and breakdown of the dashboard and the choice of a puzzle, query by
query, while games are imported, analysed and removed. A report is an operator over
the tables, a request made of several queries keeps in `request` what the earlier
ones found; `running` and `backfill` are where the analyses and the backfill of
traps are, step by step and match by match: a step may fail, or be skipped because
`recorded` has it, and a run may be cut short. `InOrder` is what ORDER BY makes of a
set of games, `Top` what LIMIT leaves of groups. Assumed of the constants: the games
are finitely many, no two ended at the same place of the order, which goes with the
days, filters are drawn from what the web pages send, a game has one position more
than moves, no row of the book goes by the name for no opening.

| Property | Says |
|---|---|
| `ReportsAgree` | every breakdown is one of the same blunders as its first number counts, that by days from the oldest day it shows; trainer, ratings, attempts and traps agree with each other |
| `BookIsTold` | what is told of an analysed game is what its positions say, whichever of the analysis and the backfill told it, after failed, repeated and skipped steps, unless it was removed under a run |
| `CollapseIsExact` | the collapse report, two queries, is exact when nothing was written between them |
| `WindowsStand` | a full window of the growth report is not rewritten by games that ended later |
| `SolvedRests` | a puzzle is not chosen soon after a right answer to it, unless the answer came while the request was choosing |

### The coach

`Board` is the part of python-chess that the code calls (external: the library is
not in the repository); `Tactics`, `LessonFacts` and `Explanation` are the
detectors, the facts and the explanations by rules over it; `Prompt` what the
model is told; `CoachNotes` the life of a note: asked, judged, asked again,
replaced by a text made of the facts, cached, stored, shown, and dropped by a
new analysis. A text is reduced to what the judgement looks at. Of a lesson it is
assumed that its board is a position which `Board.is_valid` of python-chess
accepts (one king of each colour, the side that has moved not in check, en
passant only behind a pawn), its move and lines are legal, and the better move is the
first of its line, which may end with the player's own mate; of answers
only that they are texts. A promotion changes the material as a capture does, and
a piece that is won is counted among those promoted to its type.

| Property | Says |
|---|---|
| `NotesAreGrounded` | whatever the model answers, a note claims a check, capture, mate or a king on the run only where the lines have one, and names only squares they touch |
| `SilenceIsExplained` | an enabled coach always has something to say, but after a capture where the lines show none |
| `NotesFitTheirLines` | a note belongs to the analysis it is stored with or shown for, unless the game was analysed anew during a backfill |
| `ExplanationsAreTrue`, `TacticsAreReal` | what is said by rules, and what a tactic is named for, holds on the board by the rules of the game |

## 3. Runs and bounds

Ten runs pass and two show a disagreement. Every counter of a bound appears in a
guard and is named there.

| Run | Instance | Why that is enough |
|---|---|---|
| `pool` | two workers, two tasks, three identities of processes, one caller of drain; spawns fail, one leaks a process, workers are cancelled | two workers race for a sentinel, an engine, a task; a third process is needed to replace one while both others live |
| `job_rows` | every kind of job alone or with the one it starts (import, sync: an analysis), a PGN import beside a wipe; two requests, two units of work, width 2, one crash | two requests overlap on one row; two units let a report be throttled and a stop fall between games |
| `dispatch` | one user, one row, two tasks, a queue of one, two starts of the process | the second task overwrites the entry of the first; the second start finds the rows of the first |
| `coalescer` | two keys and events that pass through, four events, one browser | a flush and the consumer overlap twice on a key while the other key waits |
| `cache` | two requests, two keys, three kinds of operation, two operations, time to live 1 | a computation that spans an invalidation, and a second one after it |
| `analysis` | two slots of runs: analyses of jobs; command line and backfills; one fault, one removal; the order in which the traps come last | two runs on one game at different steps, one of which fails or loses the game |
| `phase_backfill` | one run at a time, one fault | violation, see section 7 |
| `accounts` | two users, a cap of one, two requests, two tokens, one change of password, in four mixtures: sessions and passwords, directories and the setup gate, log-outs and the invite, deletion and pruning; requests and tokens are symmetric | each race is one of two requests, or of a request and a command |
| `library` | two names, three games, two of a name begun in the same second (a second is two ticks), pages of one game, two ids, quotas 1 and 3, two jobs, two requests, six mixtures on both platforms; deadlock is checked | two ids suffice for one to be given again; three games leave a hole between two |
| `reports` | four games, of which each mixture of puzzles, collapse, traps, faults and removals draws its own; three filters, two openings, a growth window of two, one day and two rows of days and colours shown (30 and 60 in the code); two faults, one attempt, one analysis at a time, one removal while a request reads | a window is full with one game over; a query before and one after a write; two days, of which one is cut off; one removal lets a game be recorded while it is gone and come again |
| `reports_eval` | as `reports` | violation, see section 7 |
| `coach` | seven positions and nine lessons of them in three courses, one with the player's own mate in the better line, four kinds of answers, two of them for a note; one restart | the positions are chosen so that every detector and every explanation answers yes and no |

`CHECK_DEADLOCK FALSE` stands where the system may really stop: everything
submitted is done and nothing more is asked for.

The instances are small and their values few; what a run shows for more of
them is argued in section 5 where there is a theorem, and is an expectation where
there is none.

## 4. Fairness

* `EnginePool`: weak fairness of each worker's own steps, of starting a process,
  and of the end of `gather` at shutdown: the event loop runs what is
  ready. A function on an engine that hangs is ended by the time limit, which
  every caller in the application sets.
* `JobLifecycle`: weak fairness of each runner and of the watcher of an
  analysis. Requests and the crash are not fair.
* `JobDispatch`: weak fairness of the tick, the executor, the creator of each
  row, each task, and the end of a statistics sync. The end of a row's own task is
  not assumed: an analysis may go on for as long as it likes.
* `Coalescer`: weak fairness of the consumer, of the flush task and of each round
  of sends. That a socket answers or raises is the server's timeout.
* `ResponseCache`: weak fairness of time, of the invalidator and of each request
  in progress.
* `AnalysisPipeline`: weak fairness of the steps of a run and of the end of a
  transaction left open (the next commit on that connection, or its closing).
  Strong fairness that an analysis by a job is asked for: every sync starts one,
  and syncs are scheduled. It is the only strong fairness, and the only
  assumption about users' side of the system.

## 5. Proofs

Each `*_proofs` module has an inductive invariant, a lemma for each action or
group of actions, and the theorems PROJECT.json lists. The proofs rest on the
named assumptions of the modules about their constants, which TLC evaluates in
every run, and on nothing else. Each inductive invariant was checked by TLC on
the instances of section 3 before it was proved.

**EnginePool.** `Counted` ties `unfinished` to the cardinality of the busy workers
and to the length of the queue; the arithmetic of adding and removing one worker
comes from `FiniteSetTheorems`. Tasks need more: `KInv` adds that a task is in one
place (`Placed`), that only a dead worker's task is lost (`LostWithItsWorker`),
that tasks go into the queue in the order of submission and sentinels
last (`InOrder`), and that a task which is nowhere was not submitted or is
settled (`Asked`). `Owned` is the invariant of engines: what a worker
holds is in its slot of the list, and slots differ. `PoolKeepsPromise` maps each
step to a step of `TaskPool`: steps are first grouped by their effect on futures
and on what drain() waits for, then each group is refined.

**JobLifecycle.** Manning (`TypeOK`, `RunningIsManned`, `PendingIsAwaited`) is
inductive as it stands. `CompletedShowsAll` needs `Written`: at each point of a
run, what the database has seen of the progress. `StopIsObeyed` needs `Heeded`:
who has looked after the stop knows of it. `AgreedWhenQuiet` needs to know who may
still publish (`RequestsAreFounded`) and that there is one such at a time
unless two overlapped (`OneAnnouncer`).

**JobDispatch.** `IInv` has nine parts. `Placed` (a row's request is in one place)
is counted with cardinalities; `RowTasksAreTracked` and `Listening` say
who finds a task; `PendingIsServed` is the property itself for pending rows;
`Waited` is what shutdown has cancelled; `Removed` and `LetInBefore` relate a
directory to everybody who holds its name.

**Coalescer.** `Ordered`: who may send what (`Roles`), at most one parked event
and one in the batch of each key (`OneOfEachKey`), the queue holds the latest
(`QueueIsLast`), the parked is later than the batch (`ParkedIsLater`), and what a
connection has seen of a key is earlier than all of these (`SeenIsFirst`). So a
send never goes back, and the step that shows an event is one of `LatestWins`.

**ResponseCache.** `StaleIsExplained` speaks of live entries and is not
inductive: `Explained` says the same of entries that have expired and are still
there, and of what a request has computed and not stored yet, which an
invalidation marks as overtaken.

**AnalysisPipeline.** `TablesAreSound` relates products to recorded steps;
`RunsAreSound` says the same of what a run carries and will write at each of its
awaits; `WipeIsAlone` and `LeftIsSound` are about the transaction left open, which
may be committed by somebody else, later.

**Accounts.** Committed data are whole (`Whole`), the connection shows them but for
an open transaction (`NothingLeftOpen`, `Pending`), and each request knows something
that was true when it read it (`RequestsAreSound`). The step that counts users and
the one that inserts are in one transaction, hence the cap. A rotation needs that a
session of an old password has somebody behind the change who will delete it, a
log-in past its check, or a command that was cut short. The directory needs an
invariant across two processes: the command holds a list of users older than what it
removes (`CommandIsSound`). `SetupIsSeen` has one of its own.

**Library.** `TagsAreTrue` is inductive with three facts: two profiles have two
ids (`OwnNames`), the job that goes on with an id knows a name it had
(`JobsKnow`), and the types. A new id is greater than all that exist, so it may be one
of the past. `NoHole` is about games to come as well: `Whole` says that every game that
is, or will be, in the tables reaches every missing game that has no excuse, and
`FetchFits` that a fetch under way either may still bring such a game or leaves
it within reach of all it has brought (`HInv`). For chess.com this needs that the
platform shows games in the order in which they end (`InOrder`). The greatest of a
finite set of naturals, and of the times of a page, is found by the least
counterexample, for want of an induction theorem that could be used.

**Reports.** `ReportsInv` says that what one chooses from was solved only since it
was looked up (`LeftIsFresh`), and that a collapse report nothing was written
under holds the first blunders there are (`FirstsFit`). The rest of `ReportsAgree`
and `CollapseIsExact` holds in any state: `SumOfParts` proves that the sum over a
GROUP BY is the cardinality of what is grouped, `TopExists` that LIMIT can be
met, `PlacesAre` that `InOrder` lists each game once and in order. The days that are
shown are closed under newer ones (`NewestDays`, `NewestColors`), so that the sums over
them are those of the blunders from the oldest of them on. `BookIsTold` needs
`ToldInv`: rows, saved or still to save, are matches of their games
(`RowsAreMatches`), so that INSERT OR REPLACE only ever replaces a row by itself; and of
a game that `ShouldBeTold` each match is saved or still to save by its run or by the
backfill (`IsTold`). A game should be told when it is analysed, when its step of
traps is recorded, or when the run under way has been through that step, and was not
removed under a run: that the step is recorded only after its rows are there is why
one may skip it. What the
scan of a game and the book come to (`ScannedAre`, `OpeningsAre`) is proved of the
recursive functions by the least position where it would fail.

**CoachNotes.** `CoachInv` says that a text that is kept passed the judgement of a
lesson (`CoachTyped` has it of notes, `RowsFit` of which lesson), that the
backfill goes on with the lessons it read unless an analysis crossed it
(`BackfillFits`), and that who was shown nothing has a lesson whose own text is refused
(`MuteWhenSilent`). What the judgement lets pass is then compared with the
board: the positions of a legal line are positions, a line in which nothing is
taken or promoted leaves the balance of material, a check that is counted is a
step of the line, and of all lessons only a capture in whose lines nothing is taken
makes the coach's own text fail.

`NamedTacticsAreReal` needs that legal moves keep a position valid
(`PushIsValid`): no king is ever taken, castling and a step of two leave nothing
behind them, and en passant opens no line but those `Safe` looks at. The rest is
geometry: of two pieces that look at a square across a third one, one stands in
the way of the other (`OneBlocksTheOther`), a check is met by the king, by taking
who gives it or by going between (`ChecksAreMet`), hence not two at once
(`OnlyTheKingMoves`); the king does not screen the square it goes to
(`NowhereToGo`); and a fork has a target left when one moves (`ForksHold`).

`ExplanationsStayTrue` follows a whole line. The sides move in turn and a line goes no
further than a mate, so a mate in it stands at its end, and if the player is not the one
mated, it comes in half of its moves and one (`LineMates`). The pieces of a type
become more by promotion only and fewer by a capture only
(`MoveKeepsPieces`), so that after a line with a capture of the type that is told
there are fewer than before, counting promotions (`LineKeepsPieces`). A missed mate
is the first thing looked for, hence said when there is one (`MissedMateIs`). That
fewer pieces of the type are left would be false where a pawn takes a queen and
becomes one, which the instance of the run does not show: hence the promotions that
`TrueOf` counts.

## 6. Only model-checked

* Liveness: `NobodyWaitsForEver`, `RunsEnd`, `ExecutorGoesOn`, `LastIsShown`,
  `BecomesFresh`, `IsSettled`. Fairness and ENABLED are out of the prover's reach.
* The two violations, which are counterexamples.

Every safety property of section 2, invariant or action property, is a theorem.

## 7. Findings

Two runs refute what the repository says.

* `phase_backfill` (`BackfillFills`). The steps of a failed run are recorded
  although their results are lost (`B/analysis/pipeline/executor.py:69`), so
  after one failure of the engine the retry writes moves without phases. The job
  that backfills phases runs the phase step alone, which writes nothing or is
  skipped as recorded (`B/background/jobs/backfill_phases.py:67`): the phases
  stay missing until the command line's own backfill is run.
* `reports_eval` (`AdvantageIsTheUsers`). A move is stored with its evaluation as
  the side that moved sees it, but the conversion report
  (`B/repositories/stats_repository.py:824`) negates it for Black, so it takes a
  lost position for a won one. `format_eval`, which takes
  White's side (`B/utils/chess_utils.py:21`), is given the same values by
  `B/web/api/analysis.py:185`; that display is not modelled.

Further observations, each visible in a module and named as an exception in a
property where it touches one:

*Jobs.* Pending rows survive a crash between row and request
(`B/web/api/import_games.py:98`, `backfill_tactics.py:36`), and the import of a
vanished profile leaves its row pending. A stop can be overwritten
(`B/repositories/job_repository.py:116`). A task of a deleted account brings the
directory back (`B/background/executor.py:186`). A cached report survives the
wipe that emptied its tables (`B/web/api/settings.py:345`). The wipe commits one
table at a time and leaves trap_matches and starred_puzzles, which the unused
`DataManagementRepository.delete_all_data` would clear. `get_analysis_progress`
counts a status nobody writes. A language-model backfill records its step even
when nothing was generated, so missing notes are never made again, and a new
analysis drops the notes while the step stays recorded.

*Accounts.* A password reset replaces the credential in one commit and deletes the
sessions in another (`B/auth/core/service.py:314`). Where the second fails (a locked
file) or the command is interrupted, the sessions of the old password stay live, until
they expire or the reset is repeated; and a log-in that checked the old password
before the reset inserts its session after it. Both contradict the docstring
(`service.py:304`): "a credential rotation that leaves live tokens behind is the bug
the standard exists to prevent".

*Games.* Ids of profiles are given again, and a sync starts from the game created
last, so quotas leave gaps. lichess gives the time of a game in milliseconds
and its PGN in seconds; the next page ends one millisecond before the oldest second
of the last (`B/fetchers/lichess.py`), so a game begun in the same second but left
off the page is never fetched. On chess.com what is stored as the end of a game is
its start, and the fetch filters by the platform's end, so that games still going
on are not lost there, as they are on lichess.

*Reports.* The end-date filter leaves out games of the last day that have a clock
time. Growth windows are counted from the oldest game, so the newest are not shown
until their window is full; a trend from 0 is always "stable". The total by opening
counts only the top rows. The collapse report's two queries may differ by a write,
down to a negative number of clean games. A filter of unknown names only is no
filter. The day breakdown shows the newest 30 days and that by colour its newest 60
rows, so with more the days add up to less than the total, as they do when games
have no time. The rating history refuses the type "unknown" with a ValueError,
although games have it. Games by date or hour raise a TypeError when one analysed
game has no end time and another has. The rating history leaves out a day whose last
game has no rating. Attempts are recorded for games that are gone; trap statistics
count rows of such games, the history does not. A game removed while its analysis
runs may be recorded as looked at for traps
(`B/analysis/pipeline/steps/traps.py:31`, `executor.py:69`); imported again and
analysed, the step is skipped and the game has no traps until a backfill. By the
same record a new analysis stores no opening and no phases where a failed one has
computed them. A game with any match is never backfilled again, one without is read
again each time. In 18 of the 64 traps of the fixtures the registered mistake is a
move of the side that is not the victim. `get_puzzle_stats`,
`get_last_correct_attempt`, `list_games_filtered` and `count_games` have no caller.

*Coach.* The back-rank detector misses the classic mate, because it takes squares
behind the king on the line of the check for free; pins and skewers look along the
whole line. After a pawn was taken and the lines show no capture, the fallback is
refused and no note is shown. A capture in reply is always "wins material", a queen
trade that wins a pawn may be said to win the queen, any move of the king counts as
forced. Mates are counted without asking whose (`B/utils/explanation.py:595`,
`654`): where the better line, which a puzzle may have longer than the analysis had
it (`B/services/puzzle_service.py:31`), ends with the mate of the player, the
comparison tells it as a mate the better move leads to. The note stored is for the
lines of the row, while the puzzle may show longer ones of the engine. Two threads
may ask the model for the same note.

## 8. Not modelled

Database access has no module of its own: each module has the transactions it needs,
and the lock and the open transaction are in `AnalysisPipeline` and `Accounts`; the
pool of connections, pragmas and retries are left out. The browser's engine and
sequence player, the pages, localisation, observability, the wiring of the command
line and the migrations are left out: they are another system, or have no state of
their own, or run before anything else does. Within modelled components the
following is left out: engine options and telemetry; a pool without a time limit,
which no caller creates; a sync without a profile id, which no dispatcher sends; the
contents of a PGN, retries of one fetch, `primary`, `last_validated_at` and
`auto_sync_enabled` of a profile; average losses, accuracies and the heatmap; the
engine's fresh lines for a puzzle; hashing, rate limits and the shape of names;
wording, translations and prompts. `classify_blunder_tactics` is modelled as it is
called, without a reply.

## 9. Plan

1. The sequence player of the browser, and a page that refetches on the events
   of `Coalescer` through `ResponseCache`.
2. The refinement of one product by the models that stand side by side now:
   `JobLifecycle` under `JobDispatch`, `AnalysisPipeline` on `EnginePool`.
