---------------------------- MODULE JobLifecycle ----------------------------
(***************************************************************************)
(* The life of a row of background_jobs.  Four kinds of actors write it,   *)
(* each on a database connection of its own: the HTTP handler that creates *)
(* the job, the runner task of the job (services/job_service.py, the job   *)
(* classes of background/jobs), the handlers that stop or delete a job     *)
(* (web/api/jobs.py), and the job that deletes all data.  A step is one    *)
(* database access, or what a coroutine does between two of them; a        *)
(* publication never suspends, since the lock of the event bus is never    *)
(* held across an await.                                                   *)
(*                                                                         *)
(* The executor's queue and its bookkeeping are the module JobDispatch.    *)
(***************************************************************************)
EXTENDS Naturals, FiniteSets

CONSTANTS
    Jobs,      \* job ids
    Kinds,     \* the kinds of jobs a run of the model creates
    Company,   \* bound: the jobs it creates beside another one, as <<job, kind>>
    Followers, \* bound: who may start which analysis, as <<kind, job>>
    Clients,   \* requests that stop or delete a job
    Targets,   \* bound: the jobs they are about
    Units,     \* bound: games, batches or tables a run has to go through
    Width,     \* bound: games the engine pool works on at once
    MayCrash   \* the process may be killed, and started again

AllKinds == {"analyze",   \* watches its FAILED event
             "backfill",  \* phases, eco, traps: polls the row before each game
             "import", "sync", "pgn",
             "tactics",   \* backfill_tactics: never touches its row
             "wipe"}      \* delete_all_data

ASSUME LifecycleAssumption ==
    /\ IsFiniteSet(Jobs)
    /\ Kinds \subseteq AllKinds /\ Company \subseteq Jobs \X Kinds /\ Followers \subseteq Kinds \X Jobs
    /\ Units \in Nat \ {0}
    /\ Width \in Nat \ {0}
    /\ MayCrash \in BOOLEAN

VARIABLES
    kind,       \* the job_type of each row
    row,        \* its status, "absent" before the INSERT, "deleted" after
    shown,      \* its progress_current
    announced,  \* the last status published for it
    pc,         \* where the job's creator, then its runner, stands
    left,       \* units of the run not begun
    busy,       \* units of the run under way
    done,       \* _ProgressState.current, or processed
    flushed,    \* _ProgressState.last_flushed_value
    told,       \* the watcher's queue holds the job's FAILED event
    cancelled,  \* the asyncio.Event of an analysis
    client,     \* where each request stands
    cut,        \* history: jobs whose runner or creator died with the process
    stopped,    \* history: jobs whose stop was written while the body ran
    begunLate,  \* history: such jobs that began a unit afterwards
    crossed     \* history: jobs whose announcement was lost, or overlapped a write

progress == <<shown, left, busy, done, flushed>>
watcher  == <<told, cancelled>>
history  == <<cut, stopped, begunLate, crossed>>
vars == <<kind, row, announced, pc, progress, watcher, client, history>>

Statuses == {"pending", "running", "completed", "failed"}
Stored   == Statuses \cup {"absent", "deleted"}
Steps    == {"none", "created", "requested", "ready", "marked", "zeroing", "body",
             "flushing", "finishing", "finished", "raising", "failed", "untracked", "gone"}
\* The runner or creator has written a status and not yet published it.
Announcing == {"created", "marked", "finished", "failed"}

Idle == [op |-> "idle"]
Requests == {Idle} \cup [op : {"stop", "publish", "delete"}, job : Jobs]

Exists(j)  == row[j] \in Statuses
Running(j) == pc[j] \notin {"none", "gone"}

\* What an UPDATE ... WHERE job_id = ? leaves: nothing happens without a row.
Updated(j, s) == [row EXCEPT ![j] = IF Exists(j) THEN s ELSE row[j]]

\* Another actor has written the row of j and has yet to publish its status.
SomeoneAnnounces(j) ==
    \/ pc[j] \in Announcing
    \/ \E c \in Clients : client[c] = [op |-> "publish", job |-> j]
Crossed(j) == IF SomeoneAnnounces(j) THEN crossed \cup {j} ELSE crossed

\* publish of job.status_changed: sent only if get_job still finds the row.
Published(j, s) == IF Exists(j) THEN [announced EXCEPT ![j] = s] ELSE announced

Init ==
    /\ kind = [j \in Jobs |-> "analyze"]
    /\ row = [j \in Jobs |-> "absent"]
    /\ announced = [j \in Jobs |-> "none"]
    /\ pc = [j \in Jobs |-> "none"]
    /\ shown = [j \in Jobs |-> 0] /\ left = [j \in Jobs |-> Units]
    /\ busy = [j \in Jobs |-> 0] /\ done = [j \in Jobs |-> 0]
    /\ flushed = [j \in Jobs |-> 0]
    /\ told = [j \in Jobs |-> FALSE] /\ cancelled = [j \in Jobs |-> FALSE]
    /\ client = [c \in Clients |-> Idle]
    /\ cut = {} /\ stopped = {} /\ begunLate = {} /\ crossed = {}
-----------------------------------------------------------------------------
(* The creator: INSERT, then PENDING and the execution request together.    *)

GoTo(j, s) == pc' = [pc EXCEPT ![j] = s]

Create(j, k) ==
    /\ pc[j] = "none"
    /\ \A i \in Jobs \ {j} : pc[i] = "none" \/ {<<j, k>>, <<i, kind[i]>>} \subseteq Company
    /\ kind' = [kind EXCEPT ![j] = k]
    /\ row' = [row EXCEPT ![j] = "pending"]
    /\ GoTo(j, "created")
    /\ UNCHANGED <<announced, progress, watcher, client, history>>

Request(j) ==
    /\ pc[j] = "created"
    /\ announced' = [announced EXCEPT ![j] = "pending"]
    /\ GoTo(j, "requested")
    /\ UNCHANGED <<kind, row, progress, watcher, client, history>>
-----------------------------------------------------------------------------
(* The runner: what each job class does before run_with_lifecycle.          *)

\* Nothing to analyse or to backfill, or the profile of a sync is gone: the
\* row is completed without having run.  The profile of an import is gone: the
\* row is left alone; the faulty variants confuse the two.
SkipOutcome(k) ==
    CASE k \in {"analyze", "backfill", "sync"} -> {"ready", "finishing"}
      [] k = "import"  -> {"ready", "gone"}
      [] k = "tactics" -> {"untracked"}
      [] OTHER         -> {"ready"}
SkipLeavesTheSync(k) == IF k = "sync" THEN {"ready", "gone"} ELSE SkipOutcome(k)
Preflight(k) == SkipOutcome(k)

Begin(j) ==
    /\ pc[j] = "requested"
    /\ \E s \in Preflight(kind[j]) : GoTo(j, s)
    /\ UNCHANGED <<kind, row, announced, progress, watcher, client, history>>

\* backfill_tactics works through its games and returns.
RunUntracked(j) ==
    /\ pc[j] = "untracked"
    /\ GoTo(j, "gone")
    /\ UNCHANGED <<kind, row, announced, progress, watcher, client, history>>
-----------------------------------------------------------------------------
(* run_with_lifecycle.                                                      *)

\* A status is written, then published: two database accesses.
Write(j, from, s, to) ==
    /\ pc[j] = from
    /\ row' = Updated(j, s)
    /\ crossed' = Crossed(j)
    /\ GoTo(j, to)
    /\ UNCHANGED <<kind, announced, progress, watcher, client, cut, stopped, begunLate>>

Announce(j, from, s, to) ==
    /\ pc[j] = from
    /\ announced' = Published(j, s)
    /\ GoTo(j, to)
    /\ UNCHANGED <<kind, row, progress, watcher, client, history>>

MarkRunning(j)     == Write(j, "ready", "running", "marked")
AnnounceRunning(j) == Announce(j, "marked", "running", "zeroing")

\* update_job_progress(job_id, 0, total)
ReportZero(j) ==
    /\ pc[j] = "zeroing"
    /\ shown' = [shown EXCEPT ![j] = IF Exists(j) THEN 0 ELSE shown[j]]
    /\ flushed' = [flushed EXCEPT ![j] = 0]
    /\ GoTo(j, "body")
    /\ UNCHANGED <<kind, row, announced, left, busy, done, watcher, client, history>>

\* The test before a unit: an analysed game looks at the analysis's event, a
\* backfill reads its row, the others test nothing.  The faulty variant looks
\* for a status that is never written, as backfill_llm does.
CancelledStatus(j) == row[j] = "cancelled"
FailedStatus(j) == row[j] = "failed"
IsCancelled(j) ==
    CASE kind[j] = "analyze"  -> cancelled[j]
      [] kind[j] = "backfill" -> FailedStatus(j)
      [] OTHER                -> FALSE

AtOnce(k) == IF k = "analyze" THEN Width ELSE 1

BeginUnit(j) ==
    /\ pc[j] = "body"
    /\ left[j] > 0 /\ busy[j] < AtOnce(kind[j])
    /\ ~IsCancelled(j)
    /\ left' = [left EXCEPT ![j] = @ - 1]
    /\ busy' = [busy EXCEPT ![j] = @ + 1]
    /\ begunLate' = IF j \in stopped THEN begunLate \cup {j} ELSE begunLate
    /\ UNCHANGED <<kind, row, announced, pc, shown, done, flushed, watcher, client,
                   cut, stopped, crossed>>

\* A game of a cancelled analysis returns at once; a backfill breaks its loop.
SkipUnits(j) ==
    /\ pc[j] = "body"
    /\ left[j] > 0 /\ busy[j] < AtOnce(kind[j])
    /\ IsCancelled(j)
    /\ left' = [left EXCEPT ![j] = IF kind[j] = "analyze" THEN @ - 1 ELSE 0]
    /\ UNCHANGED <<kind, row, announced, pc, shown, busy, done, flushed, watcher, client,
                   history>>

\* The tables of delete_all_data: the one before the last is background_jobs.
RowsAfter(j) ==
    IF kind[j] = "wipe" /\ left[j] = 1
      THEN [i \in Jobs |-> IF i # j /\ Exists(i) THEN "deleted" ELSE row[i]]
      ELSE row

\* update_job_progress: the database is written when two seconds have passed
\* since it last was, or when the run has reached its total.
MustFlush(j) == done'[j] = Units
Tick(j) == done' = [done EXCEPT ![j] = @ + 1]
Report(j) ==
    /\ Tick(j)
    /\ \/ /\ flushed' = [flushed EXCEPT ![j] = done'[j]]
          /\ shown' = [shown EXCEPT ![j] = IF row'[j] \in Statuses THEN done'[j] ELSE @]
       \/ ~MustFlush(j) /\ UNCHANGED <<flushed, shown>>

EndUnit(j) ==
    /\ pc[j] = "body" /\ busy[j] > 0
    /\ row' = RowsAfter(j)
    /\ busy' = [busy EXCEPT ![j] = @ - 1]
    /\ Report(j)
    /\ UNCHANGED <<kind, announced, pc, left, watcher, client, history>>

\* A game whose function the pool cancels, at its time limit, reports nothing.
LoseUnit(j) ==
    /\ pc[j] = "body" /\ busy[j] > 0
    /\ kind[j] = "analyze"
    /\ busy' = [busy EXCEPT ![j] = @ - 1]
    /\ UNCHANGED <<kind, row, announced, pc, shown, left, done, flushed, watcher, client,
                   history>>

\* The platform is unreachable, or a game cannot be loaded.  The games of an
\* analysis and of a PGN import raise in the pool, and not here.
BodyRaises(j) ==
    /\ pc[j] = "body" /\ busy[j] > 0
    /\ kind[j] \in {"import", "sync", "backfill", "wipe"}
    /\ busy' = [busy EXCEPT ![j] = @ - 1]
    /\ GoTo(j, "raising")
    /\ UNCHANGED <<kind, row, announced, shown, left, done, flushed, watcher, client, history>>

\* An import may find fewer games than it asked for.  The faulty variant waits
\* for as many reports as there are games.
AllReported(j) == busy[j] = 0 /\ (done[j] = Units \/ kind[j] \in {"import", "sync"})
BodyIsOver(j) == busy[j] = 0 /\ (left[j] = 0 \/ kind[j] \in {"import", "sync"})

BodyEnds(j) ==
    /\ pc[j] = "body"
    /\ BodyIsOver(j)
    /\ GoTo(j, "flushing")
    /\ UNCHANGED <<kind, row, announced, progress, watcher, client, history>>

\* flush_progress; the faulty variant trusts the last throttled write.
FlushNothing(j) == UNCHANGED shown
FlushLast(j) ==
    shown' = [shown EXCEPT ![j] = IF Exists(j) /\ flushed[j] # done[j] THEN done[j] ELSE @]

Flush(j) ==
    /\ pc[j] = "flushing"
    /\ FlushLast(j)
    /\ GoTo(j, "finishing")
    /\ UNCHANGED <<kind, row, announced, left, busy, done, flushed, watcher, client, history>>

Complete(j)          == Write(j, "finishing", "completed", "finished")
AnnounceSilently(j)  == Announce(j, "finished", announced[j], "gone")  \* faulty variant
AnnounceCompleted(j) == Announce(j, "finished", "completed", "gone")

\* except Exception: the row fails, and the exception is raised again.
MarkFailed(j)     == Write(j, "raising", "failed", "failed")
AnnounceFailed(j) == Announce(j, "failed", "failed", "gone")

\* The end of an import or a sync that stored games creates an analysis.
TriggerAnalysis(j, i) ==
    /\ kind[j] \in {"import", "sync"} /\ pc[j] = "finished"
    /\ pc[i] = "none" /\ <<kind[j], i>> \in Followers
    /\ announced' = Published(j, "completed")
    /\ kind' = [kind EXCEPT ![i] = "analyze"]
    /\ row' = [row EXCEPT ![i] = "pending"]
    /\ pc' = [pc EXCEPT ![j] = "gone", ![i] = "created"]
    /\ UNCHANGED <<progress, watcher, client, history>>

\* _watch_cancellation subscribes before the row is first written, and ends
\* with the body.  The faulty variant takes the event and does nothing.
Watching(j) == kind[j] = "analyze" /\ pc[j] \in {"ready", "marked", "zeroing", "body"}
HearNothing(j) == UNCHANGED cancelled
SetCancelled(j) == cancelled' = [cancelled EXCEPT ![j] = TRUE]
Hear(j) ==
    /\ told[j] /\ Watching(j)
    /\ SetCancelled(j)
    /\ told' = [told EXCEPT ![j] = FALSE]
    /\ UNCHANGED <<kind, row, announced, pc, progress, client, history>>
-----------------------------------------------------------------------------
(* The requests: each reads the row, and acts on what it has read.          *)

StopReads(c, j) ==
    /\ client[c] = Idle /\ j \in Targets
    /\ row[j] \in {"pending", "running"}
    /\ client' = [client EXCEPT ![c] = [op |-> "stop", job |-> j]]
    /\ UNCHANGED <<kind, row, announced, pc, progress, watcher, history>>

StopWrites(c) ==
    /\ client[c].op = "stop"
    /\ LET j == client[c].job
       IN /\ row' = Updated(j, "failed")
          /\ crossed' = Crossed(j)
          /\ stopped' = IF Exists(j) /\ pc[j] = "body" THEN stopped \cup {j} ELSE stopped
    /\ client' = [client EXCEPT ![c] = [@ EXCEPT !.op = "publish"]]
    /\ UNCHANGED <<kind, announced, pc, progress, watcher, cut, begunLate>>

StopPublishes(c) ==
    /\ client[c].op = "publish"
    /\ LET j == client[c].job
       IN /\ announced' = Published(j, "failed")
          /\ told' = [told EXCEPT ![j] = @ \/ (Exists(j) /\ Watching(j))]
    /\ client' = [client EXCEPT ![c] = Idle]
    /\ UNCHANGED <<kind, row, pc, progress, cancelled, history>>

DeleteReads(c, j) ==
    /\ client[c] = Idle /\ j \in Targets
    /\ Exists(j) /\ row[j] # "running"
    /\ client' = [client EXCEPT ![c] = [op |-> "delete", job |-> j]]
    /\ UNCHANGED <<kind, row, announced, pc, progress, watcher, history>>

DeleteWrites(c) ==
    /\ client[c].op = "delete"
    /\ row' = Updated(client[c].job, "deleted")
    /\ client' = [client EXCEPT ![c] = Idle]
    /\ UNCHANGED <<kind, announced, pc, progress, watcher, history>>

\* The process is killed, or shut down: a CancelledError is no Exception, so
\* the row stays as it is, and nothing repairs it at the next start.
Crash ==
    /\ MayCrash
    /\ LET dead == {j \in Jobs : Running(j)}
       IN /\ dead # {}
          /\ cut' = cut \cup dead
          /\ pc' = [j \in Jobs |-> IF j \in dead THEN "gone" ELSE pc[j]]
    /\ client' = [c \in Clients |-> Idle]
    /\ told' = [j \in Jobs |-> FALSE]
    /\ crossed' = crossed \cup {j \in Jobs : SomeoneAnnounces(j)}
    /\ UNCHANGED <<kind, row, announced, progress, cancelled, stopped, begunLate>>
-----------------------------------------------------------------------------
Runner(j) ==
    \/ Request(j) \/ Begin(j) \/ RunUntracked(j)
    \/ MarkRunning(j) \/ AnnounceRunning(j) \/ ReportZero(j)
    \/ BeginUnit(j) \/ SkipUnits(j) \/ EndUnit(j) \/ LoseUnit(j) \/ BodyRaises(j)
    \/ BodyEnds(j) \/ Flush(j) \/ Complete(j) \/ AnnounceCompleted(j)
    \/ MarkFailed(j) \/ AnnounceFailed(j)
    \/ \E i \in Jobs : TriggerAnalysis(j, i)

Client(c) ==
    \/ \E j \in Jobs : StopReads(c, j) \/ DeleteReads(c, j)
    \/ StopWrites(c) \/ StopPublishes(c) \/ DeleteWrites(c)

Next ==
    \/ \E j \in Jobs, k \in Kinds : Create(j, k)
    \/ \E j \in Jobs : Runner(j) \/ Hear(j)
    \/ \E c \in Clients : Client(c)
    \/ Crash

Spec == Init /\ [][Next]_vars

\* The event loop runs every coroutine that can go on.  Nothing obliges a user
\* to create, stop or delete a job, nor the process to die.
FairSpec == Spec /\ \A j \in Jobs : WF_vars(Runner(j)) /\ WF_vars(Hear(j))
-----------------------------------------------------------------------------
(* Properties.                                                              *)

TypeOK ==
    /\ kind \in [Jobs -> AllKinds]
    /\ row \in [Jobs -> Stored]
    /\ announced \in [Jobs -> Statuses \cup {"none"}]
    /\ pc \in [Jobs -> Steps]
    /\ shown \in [Jobs -> 0..Units] /\ flushed \in [Jobs -> 0..Units]
    /\ left \in [Jobs -> 0..Units] /\ busy \in [Jobs -> 0..Units] /\ done \in [Jobs -> 0..Units]
    /\ \A j \in Jobs : left[j] + busy[j] + done[j] <= Units
    /\ told \in [Jobs -> BOOLEAN] /\ cancelled \in [Jobs -> BOOLEAN]
    /\ client \in [Clients -> Requests]
    /\ cut \subseteq Jobs /\ stopped \subseteq Jobs
    /\ begunLate \subseteq Jobs /\ crossed \subseteq Jobs

\* A row says "running" only while a runner is at work on it, whatever order
\* the runner, the stops and the deletions take; the one exception is a row
\* whose runner died with the process, which says so for ever after.
RunningIsManned ==
    \A j \in Jobs : row[j] = "running" =>
        j \in cut \/ pc[j] \in {"marked", "zeroing", "body", "flushing", "finishing", "raising"}

\* A row says "pending" only while somebody is on the way to change that.  The
\* exceptions: the process died; an import whose profile is gone returns
\* without a word; a tactics backfill never writes its row.
PendingIsAwaited ==
    \A j \in Jobs : row[j] = "pending" =>
        \/ j \in cut
        \/ pc[j] \in {"created", "requested", "ready", "finishing"}
        \/ kind[j] = "import" /\ pc[j] = "gone"
        \/ kind[j] = "tactics"

\* A backfill that is stopped while it works begins no other game: it reads
\* its row before each.  Unless the row, now failed, was deleted before the
\* backfill looked at it: a row that is not there does not stop anything.
StopHolds ==
    \A j \in begunLate : kind[j] = "backfill" => row[j] = "deleted"

\* A stop of a working analysis never evaporates on its way from the row over
\* the event bus to the games: unless its request has still to publish it, it
\* is in the watcher's queue or the games see it.  The exception: the row was
\* deleted before the request published, and then nothing is published.
StopArrives ==
    \A j \in stopped :
        kind[j] = "analyze" /\ pc[j] = "body" /\ row[j] # "deleted"
            => \/ told[j] \/ cancelled[j]
               \/ \E c \in Clients : client[c] = [op |-> "publish", job |-> j]

\* A stop is obeyed, by the backfill that reads its row and by the analysis that
\* hears of it (stop_analysis_job, _is_cancelled, _watch_cancellation).
StopIsObeyed == StopHolds /\ StopArrives

\* A completed row shows all the progress its run reported, although most of
\* the reports were never written to the database.
CompletedShowsAll ==
    \A j \in Jobs : row[j] = "completed" => shown[j] = done[j]

\* When nobody is about to publish, the last status the browsers were told is
\* the one in the database, as long as no two writers of the row overlapped and
\* none died before it could publish.
AgreedWhenQuiet ==
    \A j \in Jobs :
        Exists(j) /\ ~SomeoneAnnounces(j) /\ j \notin cut \cup crossed
            => announced[j] = row[j]

\* Every requested job is run to its end, with or without lost games, stops
\* and deletions: the runner never waits for something that was taken away.
RunsEnd == \A j \in Jobs : pc[j] = "requested" ~> pc[j] = "gone"
=============================================================================
