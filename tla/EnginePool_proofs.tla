------------------------- MODULE EnginePool_proofs --------------------------
(***************************************************************************)
(* Theorems about EnginePool, for any set of tasks, clients and engines    *)
(* and any finite set of workers, with every fault allowed: the count that *)
(* drain() waits on is exact; each task is in one place and is not lost;   *)
(* engines have one owner; and the pool implements TaskPool.               *)
(***************************************************************************)
EXTENDS EnginePool, FiniteSetTheorems, SequenceTheorems, TLAPS

(* What one worker's change of state does to the number of busy workers.    *)
LEMMA BusyCount ==
    ASSUME TypeOK, NEW w \in Workers, NEW s \in WorkerStates,
           ws' = [ws EXCEPT ![w] = s]
    PROVE  /\ Cardinality(BusyWorkers) \in Nat
           /\ Cardinality(BusyWorkers') \in Nat
           /\ ws[w] \notin Busy /\ s \in Busy
                => Cardinality(BusyWorkers') = Cardinality(BusyWorkers) + 1
           /\ ws[w] \in Busy /\ s \notin Busy
                => Cardinality(BusyWorkers') = Cardinality(BusyWorkers) - 1
           /\ (ws[w] \in Busy <=> s \in Busy)
                => Cardinality(BusyWorkers') = Cardinality(BusyWorkers)
<1>1. /\ IsFiniteSet(BusyWorkers)
      /\ Cardinality(BusyWorkers) \in Nat
    BY PoolAssumption, FS_Subset, FS_CardinalityType DEF BusyWorkers
<1>2. CASE ws[w] \notin Busy /\ s \in Busy
    <2>1. BusyWorkers' = BusyWorkers \cup {w} /\ w \notin BusyWorkers
        BY <1>2 DEF TypeOK, BusyWorkers
    <2>2. Cardinality(BusyWorkers \cup {w}) = Cardinality(BusyWorkers) + 1
        BY <1>1, <2>1, FS_AddElement
    <2> QED BY <1>1, <1>2, <2>1, <2>2
<1>3. CASE ws[w] \in Busy /\ s \notin Busy
    <2>1. BusyWorkers' = BusyWorkers \ {w} /\ w \in BusyWorkers
        BY <1>3 DEF TypeOK, BusyWorkers
    <2>2. /\ IsFiniteSet(BusyWorkers \ {w})
          /\ Cardinality(BusyWorkers \ {w}) = Cardinality(BusyWorkers) - 1
        BY <1>1, <2>1, FS_RemoveElement
    <2>3. Cardinality(BusyWorkers \ {w}) \in Nat
        BY <2>2, FS_CardinalityType
    <2> QED BY <1>1, <1>3, <2>1, <2>2, <2>3
<1>4. CASE ws[w] \in Busy <=> s \in Busy
    <2>1. BusyWorkers' = BusyWorkers
        BY <1>4 DEF TypeOK, BusyWorkers
    <2> QED BY <1>1, <1>4, <2>1
<1> QED BY <1>2, <1>3, <1>4

(* A busy worker answers for a task.                                        *)
BusyHolds == \A w \in BusyWorkers : job[w] \in Tasks

Counted == TypeOK /\ QueueCount /\ BusyHolds

LEMMA CountedInit == Init => Counted
<1> SUFFICES ASSUME Init PROVE Counted
    OBVIOUS
<1>1. TypeOK
    BY DEF Init, TypeOK, WorkerStates, Settled
<1>2. BusyWorkers = {}
    BY DEF Init, BusyWorkers, Busy
<1> QED BY <1>1, <1>2, FS_EmptySet, EmptySeq DEF Counted, QueueCount, BusyHolds, Init

(* The queue, whose elements are tasks and sentinels, after its first element
   is taken.                                                                 *)
LEMMA QueueTail ==
    ASSUME TypeOK, queue # <<>>
    PROVE  /\ Head(queue) \in Tasks \cup {Sentinel}
           /\ Tail(queue) \in Seq(Tasks \cup {Sentinel})
           /\ Len(queue) \in Nat /\ Len(queue) > 0
           /\ Len(Tail(queue)) = Len(queue) - 1
           /\ \A i \in 1..Len(queue) - 1 : Tail(queue)[i] = queue[i + 1]
BY HeadTailProperties, EmptySeq, LenProperties DEF TypeOK

LEMMA SentinelsAdded ==
    ASSUME TypeOK
    PROVE  /\ NumWorkers \in Nat
           /\ StopQueue \in Seq(Tasks \cup {Sentinel})
           /\ Len(StopQueue) = Len(queue) + NumWorkers
           /\ \A i \in 1..Len(queue) : StopQueue[i] = queue[i]
           /\ \A i \in Len(queue) + 1..Len(queue) + NumWorkers : StopQueue[i] = Sentinel
<1>1. NumWorkers \in Nat
    BY PoolAssumption, FS_CardinalityType DEF NumWorkers
<1>2. /\ Sentinels(NumWorkers) \in Seq(Tasks \cup {Sentinel})
      /\ Len(Sentinels(NumWorkers)) = NumWorkers
    BY <1>1 DEF Sentinels
<1> QED BY <1>1, <1>2, ConcatProperties, LenProperties DEF StopQueue, Sentinels, TypeOK

(* The finally clause: what task_done() does to a pool whose count is right. *)
LEMMA DoneCounts ==
    ASSUME Counted, TaskDone, NEW w \in Workers, ws[w] \in Busy,
           NEW s \in WorkerStates \ Busy, ws' = [ws EXCEPT ![w] = s], queue' = queue
    PROVE  /\ QueueCount' /\ unfinished' \in Nat
           /\ drain' \in [Clients -> {"out", "waiting", "returned"}]
<1>1. /\ Cardinality(BusyWorkers') = Cardinality(BusyWorkers) - 1
      /\ Cardinality(BusyWorkers') \in Nat /\ Cardinality(BusyWorkers) \in Nat
    BY BusyCount DEF Counted
<1>2. Len(queue) \in Nat
    BY LenProperties DEF Counted, TypeOK
<1>3. unfinished' = Len(queue) + Cardinality(BusyWorkers')
    BY <1>1, <1>2 DEF Counted, QueueCount, TaskDone, TypeOK
<1>4. drain' \in [Clients -> {"out", "waiting", "returned"}]
    BY DEF Counted, TypeOK, TaskDone, Woken
<1> QED BY <1>1, <1>2, <1>3, <1>4 DEF QueueCount

(* Taking an item: the queue is one shorter and the item is a task.          *)
LEMMA TakeTaskFacts ==
    ASSUME TypeOK, NEW w \in Workers, TakeTask(w)
    PROVE  /\ queue' \in Seq(Tasks \cup {Sentinel})
           /\ Len(queue) \in Nat /\ Len(queue') = Len(queue) - 1
           /\ Head(queue) \in Tasks
           /\ ws[w] = "idle"
BY QueueTail DEF TakeTask

LEMMA StartTaskCounts ==
    ASSUME Counted, NEW w \in Workers, NEW s \in Busy, StartTask(w, s)
    PROVE  /\ QueueCount' /\ BusyHolds'
           /\ job' \in [Workers -> Tasks \cup {NoTask}]
           /\ ws' \in [Workers -> WorkerStates]
           /\ queue' \in Seq(Tasks \cup {Sentinel})
<1>1. /\ queue' \in Seq(Tasks \cup {Sentinel})
      /\ Len(queue) \in Nat /\ Len(queue') = Len(queue) - 1
      /\ Head(queue) \in Tasks
      /\ ws[w] = "idle" /\ ws' = [ws EXCEPT ![w] = s] /\ s \in WorkerStates
      /\ job' = [job EXCEPT ![w] = Head(queue)]
      /\ unfinished' = unfinished
    <2>1. TakeTask(w) /\ TypeOK
        BY DEF StartTask, Counted
    <2> QED BY <2>1, TakeTaskFacts DEF StartTask, WorkerStates
<1>2. /\ Cardinality(BusyWorkers') = Cardinality(BusyWorkers) + 1
      /\ Cardinality(BusyWorkers) \in Nat
    <2>1. ws[w] \notin Busy
        BY <1>1 DEF Busy
    <2> QED BY <1>1, <2>1, BusyCount DEF Counted
<1>3. QueueCount'
    BY <1>1, <1>2 DEF Counted, QueueCount
<1>4. /\ job' \in [Workers -> Tasks \cup {NoTask}]
      /\ ws' \in [Workers -> WorkerStates]
    BY <1>1 DEF Counted, TypeOK
<1>5. BusyHolds'
    BY <1>1 DEF Counted, TypeOK, BusyHolds, BusyWorkers
<1> QED BY <1>1, <1>3, <1>4, <1>5

(* A worker that leaves the busy states takes no task along.                *)
LEMMA LeavingHolds ==
    ASSUME TypeOK, BusyHolds, NEW w \in Workers, NEW s \in WorkerStates \ Busy,
           ws' = [ws EXCEPT ![w] = s],
           job' \in {job, [job EXCEPT ![w] = NoTask]}
    PROVE  /\ BusyHolds'
           /\ job' \in [Workers -> Tasks \cup {NoTask}]
           /\ ws' \in [Workers -> WorkerStates]
<1>1. ASSUME NEW x \in BusyWorkers' PROVE x \in BusyWorkers /\ job'[x] = job[x]
    BY <1>1 DEF TypeOK, BusyWorkers
<1> QED BY <1>1 DEF BusyHolds, TypeOK

LEMMA SettleTyped ==
    ASSUME TypeOK, NEW t, NEW s \in Settled, Settle(t, s)
    PROVE  fut' \in [Tasks -> {"unsubmitted", "pending"} \cup Settled]
BY DEF TypeOK, Settle

ProcessTypes ==
    /\ eng \in [Workers -> Engines \cup {NoEngine}]
    /\ live \subseteq Engines /\ pool \subseteq Engines /\ leaked \subseteq Engines

LEMMA SpawnTyped ==
    ASSUME TypeOK
    PROVE  /\ SpawnRaises => ProcessTypes'
           /\ \A w \in Workers, e \in Engines : SpawnEngine(w, e) => ProcessTypes'
BY DEF TypeOK, ProcessTypes, SpawnRaises, SpawnEngine, Listed, Fresh

(* The end of a task that lets its worker go on.                            *)
LEMMA TaskEndsCounts ==
    ASSUME Counted, NEW w \in Workers, ws[w] \in Busy, NEW s \in Settled,
           TaskEnds(w, s), ProcessTypes',
           UNCHANGED <<phase, queue, history>>
    PROVE  Counted'
<1>1. /\ ws' = [ws EXCEPT ![w] = "idle"]
      /\ job' = [job EXCEPT ![w] = NoTask]
      /\ TaskDone /\ Settle(job[w], s)
      /\ UNCHANGED <<phase, queue, before, accepted>>
      /\ "idle" \in WorkerStates \ Busy
    BY DEF TaskEnds, history, WorkerStates, Busy
<1>2. /\ QueueCount' /\ unfinished' \in Nat
      /\ drain' \in [Clients -> {"out", "waiting", "returned"}]
    BY <1>1, DoneCounts
<1>3. /\ BusyHolds'
      /\ job' \in [Workers -> Tasks \cup {NoTask}]
      /\ ws' \in [Workers -> WorkerStates]
    BY <1>1, LeavingHolds DEF Counted
<1>4. fut' \in [Tasks -> {"unsubmitted", "pending"} \cup Settled]
    BY <1>1, SettleTyped DEF Counted
<1> QED BY <1>1, <1>2, <1>3, <1>4 DEF Counted, TypeOK, ProcessTypes

(* The end of a worker in the except clause of a timeout.                    *)
LEMMA WorkerDiesCounts ==
    ASSUME Counted, NEW w \in Workers, WorkerDies(w), ProcessTypes'
    PROVE  Counted'
<1>1. /\ ws' = [ws EXCEPT ![w] = "crashed"] /\ ws[w] \in Busy
      /\ TaskDone
      /\ UNCHANGED <<phase, queue, fut, job, before, accepted>>
      /\ "crashed" \in WorkerStates \ Busy
    BY DEF WorkerDies, history, WorkerStates, Ended, Busy
<1>2. /\ QueueCount' /\ unfinished' \in Nat
      /\ drain' \in [Clients -> {"out", "waiting", "returned"}]
    BY <1>1, DoneCounts
<1>3. BusyHolds' /\ ws' \in [Workers -> WorkerStates]
    BY <1>1, LeavingHolds DEF Counted
<1> QED BY <1>1, <1>2, <1>3 DEF Counted, TypeOK, ProcessTypes

LEMMA CountedNext == Counted /\ [Next]_vars => Counted'
<1> SUFFICES ASSUME Counted, [Next]_vars PROVE Counted'
    OBVIOUS
<1>0. TypeOK /\ QueueCount /\ BusyHolds
    BY DEF Counted
<1>1. ASSUME NEW w \in Workers, NEW e \in Engines, StartSpawn(w, e) PROVE Counted'
    <2>1. /\ ws' \in [Workers -> WorkerStates]
          /\ phase' \in {"starting", "open", "closing", "closed", "failed"}
        BY <1>0, <1>1 DEF StartSpawn, TypeOK, WorkerStates
    <2>2. BusyWorkers' = BusyWorkers
        BY <1>0, <1>1 DEF StartSpawn, TypeOK, BusyWorkers, Busy
    <2>3. ProcessTypes'
        BY <1>0, <1>1, SpawnTyped DEF StartSpawn
    <2> QED BY <1>0, <1>1, <2>1, <2>2, <2>3
        DEF StartSpawn, Counted, TypeOK, ProcessTypes, QueueCount, BusyHolds, history
<1>2. CASE StartFails
    <2>1. ProcessTypes'
        BY <1>0, <1>2, SpawnTyped DEF StartFails
    <2> QED BY <1>0, <1>2, <2>1
        DEF StartFails, Counted, TypeOK, ProcessTypes, QueueCount, BusyHolds, BusyWorkers, history
<1>3. ASSUME NEW t \in Tasks, Submit(t) PROVE Counted'
    <2>1. /\ queue' \in Seq(Tasks \cup {Sentinel})
          /\ Len(queue') = Len(queue) + 1 /\ Len(queue) \in Nat
          /\ unfinished' = unfinished + 1
        BY <1>0, <1>3, AppendProperties, LenProperties DEF Submit, TypeOK
    <2>2. BusyWorkers' = BusyWorkers /\ Cardinality(BusyWorkers) \in Nat
        BY <1>3, PoolAssumption, FS_Subset, FS_CardinalityType
           DEF Submit, BusyWorkers
    <2>3. QueueCount'
        BY <1>0, <2>1, <2>2 DEF QueueCount
    <2> QED BY <1>0, <1>3, <2>1, <2>2, <2>3
        DEF Submit, Counted, TypeOK, BusyHolds, processes, history
<1>4. ASSUME NEW t \in Tasks, GiveUp(t) PROVE Counted'
    BY <1>0, <1>4
       DEF GiveUp, Counted, TypeOK, Settled, QueueCount, BusyHolds, BusyWorkers, processes, history
<1>5. ASSUME NEW c \in Clients, Drain(c) PROVE Counted'
    BY <1>0, <1>5
       DEF Drain, Submitted, Counted, TypeOK, QueueCount, BusyHolds, BusyWorkers, processes
<1>6. ASSUME NEW w \in Workers, TakeSentinel(w) PROVE Counted'
    <2>1. /\ ws' = [ws EXCEPT ![w] = "stopped"]
          /\ ws[w] \notin Busy /\ "stopped" \in WorkerStates \ Busy
          /\ job' = job
        BY <1>6 DEF TakeSentinel, WorkerStates, Ended, Busy
    <2>2. /\ Cardinality(BusyWorkers') = Cardinality(BusyWorkers)
          /\ Cardinality(BusyWorkers) \in Nat
        BY <1>0, <2>1, BusyCount
    <2>3. /\ queue' \in Seq(Tasks \cup {Sentinel})
          /\ Len(queue) \in Nat /\ Len(queue) > 0 /\ Len(queue') = Len(queue) - 1
        BY <1>0, <1>6, QueueTail DEF TakeSentinel
    <2>4. unfinished' = unfinished - 1
        BY <1>6 DEF TakeSentinel, TaskDone
    <2>5. QueueCount' /\ unfinished' \in Nat
        BY <1>0, <2>2, <2>3, <2>4 DEF QueueCount
    <2>6. drain' \in [Clients -> {"out", "waiting", "returned"}]
        BY <1>0, <1>6 DEF TakeSentinel, TaskDone, Woken, TypeOK
    <2>7. BusyHolds' /\ ws' \in [Workers -> WorkerStates]
        BY <1>0, <2>1, LeavingHolds
    <2> QED BY <1>0, <1>6, <2>3, <2>5, <2>6, <2>7
        DEF TakeSentinel, Counted, TypeOK, processes, history
<1>7. ASSUME NEW w \in Workers, TakeWithLiveEngine(w) PROVE Counted'
    <2>1. StartTask(w, "running") /\ "running" \in Busy
        BY <1>7 DEF TakeWithLiveEngine, Busy
    <2>2. /\ QueueCount' /\ BusyHolds'
          /\ job' \in [Workers -> Tasks \cup {NoTask}]
          /\ ws' \in [Workers -> WorkerStates]
          /\ queue' \in Seq(Tasks \cup {Sentinel})
        BY <2>1, StartTaskCounts
    <2> QED BY <1>0, <1>7, <2>2
        DEF TakeWithLiveEngine, StartTask, Counted, TypeOK, history
<1>8. ASSUME NEW w \in Workers, TakeWithDeadEngine(w) PROVE Counted'
    <2>1. StartTask(w, "ensuring") /\ "ensuring" \in Busy
        BY <1>8 DEF TakeWithDeadEngine, Busy
    <2>2. /\ QueueCount' /\ BusyHolds'
          /\ job' \in [Workers -> Tasks \cup {NoTask}]
          /\ ws' \in [Workers -> WorkerStates]
          /\ queue' \in Seq(Tasks \cup {Sentinel})
        BY <2>1, StartTaskCounts
    <2> QED BY <1>0, <1>8, <2>2
        DEF TakeWithDeadEngine, StartTask, Counted, TypeOK, history
<1>9. ASSUME NEW w \in Workers, RefuseInShutdown(w) PROVE Counted'
    <2>1. BusyWorkers' = BusyWorkers /\ Cardinality(BusyWorkers) \in Nat
        BY <1>9, PoolAssumption, FS_Subset, FS_CardinalityType
           DEF RefuseInShutdown, BusyWorkers
    <2>2. /\ queue' \in Seq(Tasks \cup {Sentinel})
          /\ Len(queue) \in Nat /\ Len(queue) > 0 /\ Len(queue') = Len(queue) - 1
        BY <1>0, <1>9, QueueTail DEF RefuseInShutdown, TakeTask
    <2>3. unfinished' = unfinished - 1
        BY <1>9 DEF RefuseInShutdown, TaskDone
    <2>4. QueueCount' /\ unfinished' \in Nat
        BY <1>0, <2>1, <2>2, <2>3 DEF QueueCount
    <2>5. drain' \in [Clients -> {"out", "waiting", "returned"}]
        BY <1>0, <1>9 DEF RefuseInShutdown, TaskDone, Woken, TypeOK
    <2>6. fut' \in [Tasks -> {"unsubmitted", "pending"} \cup Settled]
        BY <1>0, <1>9, SettleTyped DEF RefuseInShutdown, Settled
    <2> QED BY <1>0, <1>9, <2>1, <2>2, <2>4, <2>5, <2>6
        DEF RefuseInShutdown, Counted, TypeOK, BusyHolds, processes, history
<1>10. ASSUME NEW w \in Workers, NEW e \in Engines, Replaced(w, e) PROVE Counted'
    <2>1. /\ ws' = [ws EXCEPT ![w] = "running"] /\ "running" \in WorkerStates
          /\ ws[w] \in Busy /\ "running" \in Busy
        BY <1>10 DEF Replaced, WorkerStates, Busy
    <2>2. Cardinality(BusyWorkers') = Cardinality(BusyWorkers)
        BY <1>0, <2>1, BusyCount
    <2>3. BusyHolds' /\ ws' \in [Workers -> WorkerStates]
        BY <1>0, <1>10, <2>1 DEF Replaced, TypeOK, BusyHolds, BusyWorkers
    <2>4. ProcessTypes'
        BY <1>0, <1>10, SpawnTyped DEF Replaced
    <2> QED BY <1>0, <1>10, <2>2, <2>3, <2>4
        DEF Replaced, Counted, TypeOK, ProcessTypes, QueueCount, history
<1>11. ASSUME NEW w \in Workers, NEW e \in Engines, Recovered(w, e) PROVE Counted'
    <2>1. ProcessTypes'
        BY <1>0, <1>11, SpawnTyped DEF Recovered
    <2> QED BY <1>11, <2>1, TaskEndsCounts DEF Recovered, Busy, Settled
<1>12. ASSUME NEW w \in Workers, ReplaceRaises(w) PROVE Counted'
    <2>1. ProcessTypes'
        BY <1>0, <1>12, SpawnTyped DEF ReplaceRaises
    <2> QED BY <1>12, <2>1, TaskEndsCounts DEF ReplaceRaises, Busy, Settled
<1>13. ASSUME NEW w \in Workers, RecoveryRaises(w) PROVE Counted'
    <2>1. ProcessTypes'
        BY <1>0, <1>13, SpawnTyped DEF RecoveryRaises
    <2> QED BY <1>13, <2>1, WorkerDiesCounts DEF RecoveryRaises
<1>14. ASSUME NEW w \in Workers, FunctionEnds(w) PROVE Counted'
    <2>1. ProcessTypes'
        BY <1>0, <1>14 DEF FunctionEnds, processes, TypeOK, ProcessTypes
    <2> QED BY <1>14, <2>1, TaskEndsCounts DEF FunctionEnds, Busy, Settled
<1>15. ASSUME NEW w \in Workers, TimesOut(w) PROVE Counted'
    <2>1. /\ ws' = [ws EXCEPT ![w] = "recovering"] /\ "recovering" \in WorkerStates
          /\ ws[w] \in Busy /\ "recovering" \in Busy
        BY <1>15 DEF TimesOut, WorkerStates, Busy
    <2>2. Cardinality(BusyWorkers') = Cardinality(BusyWorkers)
        BY <1>0, <2>1, BusyCount
    <2>3. BusyHolds' /\ ws' \in [Workers -> WorkerStates]
        BY <1>0, <1>15, <2>1 DEF TimesOut, TypeOK, BusyHolds, BusyWorkers
    <2> QED BY <1>0, <1>15, <2>2, <2>3 DEF TimesOut, Counted, TypeOK, QueueCount, history
<1>16. ASSUME NEW w \in Workers, CancelIdle(w) PROVE Counted'
    <2>1. /\ ws' = [ws EXCEPT ![w] = "cancelled"]
          /\ ws[w] \notin Busy /\ "cancelled" \in WorkerStates \ Busy
          /\ job' = job
        BY <1>16 DEF CancelIdle, WorkerStates, Ended, Busy
    <2>2. Cardinality(BusyWorkers') = Cardinality(BusyWorkers)
        BY <1>0, <2>1, BusyCount
    <2>3. BusyHolds' /\ ws' \in [Workers -> WorkerStates]
        BY <1>0, <2>1, LeavingHolds
    <2> QED BY <1>0, <1>16, <2>2, <2>3
        DEF CancelIdle, Counted, TypeOK, QueueCount, processes, history
<1>17. ASSUME NEW w \in Workers, CancelTask(w) PROVE Counted'
    <2>1. /\ ws' = [ws EXCEPT ![w] = "cancelled"]
          /\ ws[w] \in Busy /\ "cancelled" \in WorkerStates \ Busy
          /\ job' = [job EXCEPT ![w] = NoTask]
          /\ TaskDone /\ queue' = queue
        BY <1>17 DEF CancelTask, WorkerStates, Ended, Busy
    <2>2. /\ QueueCount' /\ unfinished' \in Nat
          /\ drain' \in [Clients -> {"out", "waiting", "returned"}]
        BY <2>1, DoneCounts
    <2>3. /\ BusyHolds' /\ ws' \in [Workers -> WorkerStates]
          /\ job' \in [Workers -> Tasks \cup {NoTask}]
        BY <1>0, <2>1, LeavingHolds
    <2>4. fut' \in [Tasks -> {"unsubmitted", "pending"} \cup Settled]
        BY <1>0, <1>17, SettleTyped DEF CancelTask, Settled
    <2> QED BY <1>0, <1>17, <2>1, <2>2, <2>3, <2>4
        DEF CancelTask, Counted, TypeOK, processes, history
<1>18. ASSUME NEW w \in Workers, CancelRecovery(w) PROVE Counted'
    <2>1. ProcessTypes'
        BY <1>0, <1>18 DEF CancelRecovery, processes, TypeOK, ProcessTypes
    <2> QED BY <1>18, <2>1, WorkerDiesCounts DEF CancelRecovery
<1>19. ASSUME NEW e \in Engines, EngineDies(e) PROVE Counted'
    BY <1>0, <1>19
       DEF EngineDies, Counted, TypeOK, QueueCount, BusyHolds, BusyWorkers, history
<1>20. CASE Shutdown
    <2>1. BusyWorkers' = BusyWorkers /\ Cardinality(BusyWorkers) \in Nat
        BY <1>20, PoolAssumption, FS_Subset, FS_CardinalityType DEF Shutdown, BusyWorkers
    <2>2. /\ queue' \in Seq(Tasks \cup {Sentinel})
          /\ Len(queue') = Len(queue) + NumWorkers
          /\ NumWorkers \in Nat /\ Len(queue) \in Nat
          /\ unfinished' = unfinished + NumWorkers
        BY <1>0, <1>20, SentinelsAdded, LenProperties DEF Shutdown, TypeOK
    <2>3. QueueCount' /\ unfinished' \in Nat
        BY <1>0, <2>1, <2>2 DEF QueueCount, TypeOK
    <2> QED BY <1>0, <1>20, <2>1, <2>2, <2>3
        DEF Shutdown, Submitted, Counted, TypeOK, BusyHolds, processes
<1>21. CASE WorkersGathered
    BY <1>0, <1>21
       DEF WorkersGathered, Counted, TypeOK, QueueCount, BusyHolds, BusyWorkers, history
<1>22. CASE UNCHANGED vars
    BY <1>0, <1>22
       DEF vars, Counted, TypeOK, QueueCount, BusyHolds, BusyWorkers, processes, history
<1> QED
    BY <1>1, <1>2, <1>3, <1>4, <1>5, <1>6, <1>7, <1>8, <1>9, <1>10, <1>11, <1>12, <1>13,
       <1>14, <1>15, <1>16, <1>17, <1>18, <1>19, <1>20, <1>21, <1>22
       DEF Next, WorkerStep, Take, SpawnReturns, FunctionStops, CancelWorker

(* The state keeps its types and the count join() waits on is exact: it is  *)
(* the number of items queued plus the number of items workers hold.        *)
THEOREM CountIsExact == Spec => [](TypeOK /\ QueueCount)
<1>1. Counted => TypeOK /\ QueueCount
    BY DEF Counted
<1> QED BY <1>1, CountedInit, CountedNext, PTL DEF Spec

-----------------------------------------------------------------------------
(* What becomes of the tasks.  Hands is what the pool still has to answer   *)
(* for; a future in its hands is unset, or its awaiter has gone away.       *)

Hands  == Queued \cup Held
Placed == OnePlace /\ \A t \in Hands : fut[t] \in {"pending", "cancelled"}

\* The sentinels come after every task that was there when shutdown() put them
\* in the queue, and before that there is none.
InOrder ==
    /\ phase = "starting" => \A w \in Workers : ws[w] \in {"unborn", "spawned"}
    /\ phase \in {"starting", "open", "failed"} =>
          /\ \A i \in 1..Len(queue) : queue[i] # Sentinel
          /\ \A w \in Workers : ws[w] # "stopped"
    /\ accepted \subseteq Submitted
    /\ \A i, j \in 1..Len(queue) : i < j /\ queue[i] = Sentinel => queue[j] \notin accepted
    /\ ServedBeforeStop

Asked == \A c \in Clients : before[c] \subseteq Submitted

KInv == Counted /\ Placed /\ LostWithItsWorker /\ InOrder /\ Asked

\* Of the processes: a leaked one runs, and nobody has it.
Owned == /\ EngineOwnership
         /\ leaked \subseteq live
         /\ \A e \in leaked : e \notin pool /\ \A w \in Workers : eng[w] # e

LEMMA HeldTyped ==
    ASSUME Counted
    PROVE  /\ Held = {job[w] : w \in BusyWorkers} /\ Held \subseteq Tasks
           /\ Queued \subseteq Tasks
           /\ \A i \in 1..Len(queue) : queue[i] \in Tasks \cup {Sentinel}
<1>1. \A i \in 1..Len(queue) : queue[i] \in Tasks \cup {Sentinel}
    BY ElementOfSeq DEF Counted, TypeOK
<1> QED BY <1>1 DEF Counted, BusyHolds, Held, Queued

(* A worker that lets go of its task was the only one to hold it.           *)
LEMMA HeldLeaves ==
    ASSUME Counted, OnePlace, NEW w \in Workers, ws[w] \in Busy,
           NEW s \in WorkerStates \ Busy, ws' = [ws EXCEPT ![w] = s],
           job' \in {job, [job EXCEPT ![w] = NoTask]}
    PROVE  /\ job[w] \in Held /\ Held' = Held \ {job[w]}
           /\ \A u, v \in Workers : ws'[u] \in Busy /\ ws'[v] \in Busy /\ job'[u] = job'[v]
                  => u = v
<1>1. \A v \in Workers : ws'[v] = IF v = w THEN s ELSE ws[v]
    BY DEF Counted, TypeOK
<1>2. \A v \in Workers \ {w} : job'[v] = job[v]
    BY DEF Counted, TypeOK
<1>3. BusyWorkers' = BusyWorkers \ {w}
    BY <1>1 DEF BusyWorkers
<1>4. w \in BusyWorkers
    BY DEF BusyWorkers
<1>5. \A v \in BusyWorkers \ {w} : job[v] # job[w]
    BY DEF OnePlace, BusyWorkers
<1>6. BusyWorkers \subseteq Workers
    BY DEF BusyWorkers
<1>7. job[w] \in Held
    BY <1>4 DEF Held
<1>8. Held' = Held \ {job[w]}
    <2>1. ASSUME NEW t \in Held' PROVE t \in Held \ {job[w]}
        <3>1. PICK v \in BusyWorkers' : t = job'[v]
            BY DEF Held
        <3>2. v \in BusyWorkers \ {w} /\ t = job[v]
            BY <1>2, <1>3, <1>6, <3>1
        <3> QED BY <1>5, <3>2 DEF Held
    <2>2. ASSUME NEW t \in Held \ {job[w]} PROVE t \in Held'
        <3>1. PICK v \in BusyWorkers : t = job[v] /\ v # w
            BY DEF Held
        <3>2. v \in BusyWorkers' /\ t = job'[v]
            BY <1>2, <1>3, <1>6, <3>1
        <3> QED BY <3>2 DEF Held
    <2> QED BY <2>1, <2>2
<1>9. ASSUME NEW u \in Workers, NEW v \in Workers,
             ws'[u] \in Busy, ws'[v] \in Busy, job'[u] = job'[v]
      PROVE  u = v
    <2>1. u # w /\ v # w
        BY <1>1, <1>9
    <2> QED BY <1>1, <1>2, <1>9, <2>1 DEF OnePlace
<1> QED BY <1>7, <1>8, <1>9

LEMMA HeldStays ==
    ASSUME Counted, OnePlace, job' = job,
           \A w \in Workers : ws[w] \in Busy <=> ws'[w] \in Busy
    PROVE  /\ Held' = Held
           /\ \A u, v \in Workers : ws'[u] \in Busy /\ ws'[v] \in Busy /\ job'[u] = job'[v]
                  => u = v
<1>1. BusyWorkers' = BusyWorkers
    BY DEF BusyWorkers
<1> QED BY <1>1 DEF OnePlace, Held

(* The item that is taken from the queue was there once.                    *)
LEMMA QueuedShrinks ==
    ASSUME Counted, OnePlace, queue # <<>>, queue' = Tail(queue)
    PROVE  /\ Queued' = Queued \ {Head(queue)}
           /\ Head(queue) # Sentinel => Head(queue) \in Queued
           /\ \A i, j \in 1..Len(queue') :
                  queue'[i] = queue'[j] /\ queue'[i] \in Tasks => i = j
<1> DEFINE n == Len(queue)
<1>1. /\ n \in Nat /\ n > 0 /\ Len(queue') = n - 1
      /\ \A i \in 1..n - 1 : queue'[i] = queue[i + 1]
    BY QueueTail DEF Counted
<1>2. Head(queue) = queue[1] /\ 1 \in 1..n
    BY <1>1, HeadTailProperties DEF Counted, TypeOK
<1>3. \A i \in 1..n : queue[i] \in Tasks \cup {Sentinel}
    BY HeldTyped
<1>4. \A i, j \in 1..n : queue[i] = queue[j] /\ queue[i] \in Tasks => i = j
    BY DEF OnePlace
<1>5. ASSUME NEW x \in Queued' PROVE x \in Queued \ {Head(queue)}
    <2>1. PICK i \in 1..n - 1 : x = queue[i + 1] /\ x # Sentinel
        BY <1>1 DEF Queued
    <2>2. i + 1 \in 1..n /\ i + 1 # 1
        BY <1>1
    <2>3. x \in Queued
        BY <2>1, <2>2 DEF Queued
    <2>4. x # queue[1]
        BY <1>2, <1>3, <1>4, <2>1, <2>2
    <2> QED BY <1>2, <2>3, <2>4
<1>6. ASSUME NEW x \in Queued \ {Head(queue)} PROVE x \in Queued'
    <2>1. PICK i \in 1..n : x = queue[i] /\ x # Sentinel
        BY DEF Queued
    <2>2. i # 1
        BY <1>2, <2>1
    <2>3. i - 1 \in 1..n - 1 /\ (i - 1) + 1 = i
        BY <1>1, <2>2
    <2>4. queue'[i - 1] = x
        BY <1>1, <2>1, <2>3
    <2> QED BY <1>1, <2>1, <2>3, <2>4 DEF Queued
<1>7. Head(queue) # Sentinel => Head(queue) \in Queued
    BY <1>2 DEF Queued
<1>8. ASSUME NEW i \in 1..n - 1, NEW j \in 1..n - 1,
             queue'[i] = queue'[j], queue'[i] \in Tasks
      PROVE  i = j
    <2>1. i + 1 \in 1..n /\ j + 1 \in 1..n
        BY <1>1
    <2>2. i + 1 = j + 1
        BY <1>1, <1>4, <1>8, <2>1
    <2> QED BY <2>2
<1> QED BY <1>1, <1>5, <1>6, <1>7, <1>8

(* What a step can do to what the pool has in its hands: nothing; take in a *)
(* new task; let go of one, its future written unless a worker died with it *)
(* or its awaiter has gone away; let go of a sentinel.                      *)
Quiet == Hands' = Hands /\ UNCHANGED <<fut, drain, before>>
SentinelGone == Hands' = Hands /\ TaskDone /\ UNCHANGED <<fut, before>>
Written(t) ==
    \/ fut[t] = "pending" /\ \E s \in Settled : fut' = [fut EXCEPT ![t] = s]
    \/ fut[t] = "cancelled" /\ fut' = fut
LostNow(t) ==
    /\ SpawnMayFail \/ MayCancel
    /\ fut' = fut
    /\ \E w \in Workers : ws'[w] = "crashed" /\ job'[w] = t
LetGo(t) ==
    /\ t \in Hands /\ Hands' = Hands \ {t}
    /\ TaskDone /\ before' = before
    /\ Written(t) \/ LostNow(t)

LEMMA WrittenElsewhere ==
    ASSUME Counted, NEW t \in Tasks, Written(t) \/ LostNow(t)
    PROVE  \A x \in Tasks \ {t} : fut'[x] = fut[x]
BY DEF Written, LostNow, Counted, TypeOK

LEMMA Settles ==
    ASSUME Counted, Placed, NEW t \in Hands, NEW s \in Settled, Settle(t, s)
    PROVE  Written(t)
BY DEF Placed, Settle, Written

LEMMA TaskEndsLetsGo ==
    ASSUME Counted, Placed, NEW w \in Workers, ws[w] \in Busy,
           NEW s \in WorkerStates \ Busy, ws' = [ws EXCEPT ![w] = s],
           job' \in {job, [job EXCEPT ![w] = NoTask]},
           queue' = queue, TaskDone, before' = before,
           Written(job[w]) \/ LostNow(job[w])
    PROVE  Placed' /\ LetGo(job[w])
<1>1. /\ job[w] \in Held /\ Held' = Held \ {job[w]}
      /\ \A u, v \in Workers : ws'[u] \in Busy /\ ws'[v] \in Busy /\ job'[u] = job'[v]
             => u = v
    BY HeldLeaves DEF Placed
<1>2. Queued' = Queued /\ job[w] \notin Queued
    BY <1>1 DEF Queued, Placed, OnePlace
<1>3. job[w] \in Hands /\ Hands' = Hands \ {job[w]} /\ Hands \subseteq Tasks
    BY <1>1, <1>2, HeldTyped DEF Hands
<1>4. OnePlace'
    BY <1>1, <1>2 DEF Placed, OnePlace
<1>5. \A t \in Hands' : fut'[t] \in {"pending", "cancelled"}
    BY <1>3, WrittenElsewhere DEF Placed
<1> QED BY <1>3, <1>4, <1>5 DEF Placed, LetGo

LEMMA StartKeepsHands ==
    ASSUME Counted, Placed, NEW w \in Workers, NEW s \in Busy, StartTask(w, s)
    PROVE  Placed' /\ Quiet
<1> DEFINE t == Head(queue)
<1>1. /\ ws[w] = "idle" /\ queue # <<>> /\ t # Sentinel /\ queue' = Tail(queue)
      /\ ws' = [ws EXCEPT ![w] = s] /\ job' = [job EXCEPT ![w] = t]
      /\ UNCHANGED <<fut, drain, before>>
    BY DEF StartTask, TakeTask, history
<1>2. /\ Queued' = Queued \ {t} /\ t \in Queued
      /\ \A i, j \in 1..Len(queue') : queue'[i] = queue'[j] /\ queue'[i] \in Tasks => i = j
    BY <1>1, QueuedShrinks DEF Placed
<1> HIDE DEF t
<1>3. /\ \A v \in Workers : ws'[v] = IF v = w THEN s ELSE ws[v]
      /\ \A v \in Workers : job'[v] = IF v = w THEN t ELSE job[v]
    BY <1>1 DEF Counted, TypeOK
<1>4. BusyWorkers' = BusyWorkers \cup {w} /\ w \notin BusyWorkers /\ BusyWorkers \subseteq Workers
    BY <1>1, <1>3 DEF BusyWorkers, Busy
<1>5. Held' = Held \cup {t}
    <2>1. Held' = {job'[v] : v \in BusyWorkers'}
        BY DEF Held
    <2>2. \A v \in BusyWorkers : v # w /\ job'[v] = job[v]
        BY <1>3, <1>4
    <2>3. ASSUME NEW x \in Held' PROVE x \in Held \cup {t}
        <3>1. PICK v \in BusyWorkers' : x = job'[v]
            BY <2>1
        <3> QED BY <1>3, <1>4, <2>2, <3>1 DEF Held
    <2>4. ASSUME NEW x \in Held PROVE x \in Held'
        <3>1. PICK v \in BusyWorkers : x = job[v]
            BY DEF Held
        <3> QED BY <1>4, <2>1, <2>2, <3>1
    <2>5. t \in Held'
        BY <1>3, <1>4, <2>1
    <2> QED BY <2>3, <2>4, <2>5
<1>6. t \notin Held
    BY <1>2 DEF Placed, OnePlace
<1>7. \A u, v \in Workers : ws'[u] \in Busy /\ ws'[v] \in Busy /\ job'[u] = job'[v] => u = v
    <2>1. \A v \in Workers \ {w} : ws'[v] \in Busy => job'[v] # t
        BY <1>3, <1>6 DEF Held, BusyWorkers
    <2>2. ASSUME NEW u \in Workers, NEW v \in Workers,
                 ws'[u] \in Busy, ws'[v] \in Busy, job'[u] = job'[v]
          PROVE  u = v
        <3>1. CASE u # w /\ v # w
            BY <1>3, <2>2, <3>1 DEF Placed, OnePlace
        <3>2. CASE u = w \/ v = w
            BY <1>3, <2>1, <2>2, <3>2
        <3> QED BY <3>1, <3>2
    <2> QED BY <2>2
<1>8. Queued' \cap Held' = {}
    BY <1>2, <1>5 DEF Placed, OnePlace
<1>9. OnePlace'
    BY <1>2, <1>7, <1>8 DEF OnePlace
<1>10. Hands' = Hands
    BY <1>2, <1>5 DEF Hands
<1> QED BY <1>1, <1>9, <1>10 DEF Placed, Quiet

LEMMA RefusalLetsGo ==
    ASSUME Counted, Placed, NEW w \in Workers, RefuseInShutdown(w)
    PROVE  Placed' /\ LetGo(Head(queue))
<1>1. /\ queue # <<>> /\ Head(queue) # Sentinel /\ queue' = Tail(queue)
      /\ Settle(Head(queue), "error") /\ "error" \in Settled
      /\ UNCHANGED <<ws, job, before>> /\ TaskDone
    BY DEF RefuseInShutdown, TakeTask, history, Settled
<1>2. /\ Queued' = Queued \ {Head(queue)} /\ Head(queue) \in Queued
      /\ \A i, j \in 1..Len(queue') : queue'[i] = queue'[j] /\ queue'[i] \in Tasks => i = j
    BY <1>1, QueuedShrinks DEF Placed
<1>3. /\ Held' = Held
      /\ \A u, v \in Workers : ws'[u] \in Busy /\ ws'[v] \in Busy /\ job'[u] = job'[v] => u = v
    BY <1>1, HeldStays DEF Placed
<1>4. /\ Head(queue) \in Hands /\ Hands' = Hands \ {Head(queue)} /\ Hands \subseteq Tasks
      /\ Head(queue) \in Tasks
    <2>1. Head(queue) \notin Held
        BY <1>2 DEF Placed, OnePlace
    <2> QED BY <1>2, <1>3, <2>1, HeldTyped DEF Hands
<1>5. OnePlace'
    BY <1>2, <1>3 DEF Placed, OnePlace
<1>6. Written(Head(queue))
    BY <1>1, <1>4, Settles
<1>7. \A t \in Hands' : fut'[t] \in {"pending", "cancelled"}
    BY <1>4, <1>6, WrittenElsewhere DEF Placed
<1> QED BY <1>1, <1>4, <1>5, <1>6, <1>7 DEF Placed, LetGo

LEMMA SentinelKeepsHands ==
    ASSUME Counted, Placed, NEW w \in Workers, TakeSentinel(w)
    PROVE  Placed' /\ SentinelGone
<1>1. /\ queue # <<>> /\ Head(queue) = Sentinel /\ queue' = Tail(queue)
      /\ ws[w] = "idle" /\ ws' = [ws EXCEPT ![w] = "stopped"]
      /\ UNCHANGED <<fut, job, before>> /\ TaskDone
    BY DEF TakeSentinel, history
<1>2. /\ Queued' = Queued \ {Sentinel}
      /\ \A i, j \in 1..Len(queue') : queue'[i] = queue'[j] /\ queue'[i] \in Tasks => i = j
    BY <1>1, QueuedShrinks DEF Placed
<1>3. \A v \in Workers : ws[v] \in Busy <=> ws'[v] \in Busy
    BY <1>1 DEF Busy, Counted, TypeOK
<1>4. /\ Held' = Held
      /\ \A u, v \in Workers : ws'[u] \in Busy /\ ws'[v] \in Busy /\ job'[u] = job'[v] => u = v
    BY <1>1, <1>3, HeldStays DEF Placed
<1>5. Queued' = Queued
    BY <1>2 DEF Queued
<1>6. OnePlace' /\ Hands' = Hands
    BY <1>2, <1>4, <1>5 DEF Placed, OnePlace, Hands
<1> QED BY <1>1, <1>6 DEF Placed, SentinelGone

(* Steps that leave the queue and the workers' tasks alone.                 *)
LEMMA NothingMoves ==
    ASSUME Counted, Placed, UNCHANGED <<queue, job>>,
           \A w \in Workers : ws[w] \in Busy <=> ws'[w] \in Busy
    PROVE  Hands' = Hands /\ OnePlace'
<1>1. /\ Held' = Held
      /\ \A u, v \in Workers : ws'[u] \in Busy /\ ws'[v] \in Busy /\ job'[u] = job'[v] => u = v
    BY HeldStays DEF Placed
<1>2. Queued' = Queued
    BY DEF Queued
<1> QED BY <1>1, <1>2 DEF Placed, OnePlace, Hands

LEMMA SubmitAdds ==
    ASSUME Counted, Placed, NEW t \in Tasks, Submit(t)
    PROVE  Placed' /\ Hands' = Hands \cup {t}
<1> DEFINE n == Len(queue)
<1>1. /\ n \in Nat /\ Len(queue') = n + 1 /\ queue'[n + 1] = t
      /\ \A i \in 1..n : queue'[i] = queue[i]
    BY AppendProperties, LenProperties DEF Submit, Counted, TypeOK
<1>2. /\ fut[t] = "unsubmitted" /\ fut' = [fut EXCEPT ![t] = "pending"]
      /\ UNCHANGED <<ws, job>>
    BY DEF Submit
<1>3. /\ Held' = Held
      /\ \A u, v \in Workers : ws'[u] \in Busy /\ ws'[v] \in Busy /\ job'[u] = job'[v] => u = v
    BY <1>2, HeldStays DEF Placed
<1>4. t \notin Hands /\ t # Sentinel
    BY <1>2, PoolAssumption DEF Placed
<1>5. Queued' = Queued \cup {t}
    <2>1. ASSUME NEW x \in Queued' PROVE x \in Queued \cup {t}
        BY <1>1, <2>1 DEF Queued
    <2>2. ASSUME NEW x \in Queued PROVE x \in Queued'
        BY <1>1, <2>2 DEF Queued
    <2>3. t \in Queued'
        BY <1>1, <1>4 DEF Queued
    <2> QED BY <2>1, <2>2, <2>3
<1>6. \A i \in 1..n : queue[i] # t
    BY <1>4 DEF Hands, Queued
<1>7. \A i, j \in 1..n + 1 : queue'[i] = queue'[j] /\ queue'[i] \in Tasks => i = j
    <2>1. ASSUME NEW i \in 1..n + 1, NEW j \in 1..n + 1,
                 queue'[i] = queue'[j], queue'[i] \in Tasks
          PROVE  i = j
        <3>1. CASE i \in 1..n /\ j \in 1..n
            BY <1>1, <2>1, <3>1 DEF Placed, OnePlace
        <3>2. CASE i = n + 1 \/ j = n + 1
            BY <1>1, <1>6, <2>1, <3>2
        <3> QED BY <1>1, <3>1, <3>2
    <2> QED BY <2>1
<1>8. OnePlace'
    BY <1>1, <1>3, <1>4, <1>5, <1>7 DEF Placed, OnePlace, Hands
<1>9. Hands' = Hands \cup {t}
    BY <1>3, <1>5 DEF Hands
<1>10. \A x \in Hands' : fut'[x] \in {"pending", "cancelled"}
    BY <1>2, <1>9, HeldTyped DEF Placed, Hands, Counted, TypeOK
<1> QED BY <1>8, <1>9, <1>10 DEF Placed

LEMMA ShutdownKeepsHands ==
    ASSUME Counted, Placed, Shutdown
    PROVE  Placed' /\ Quiet
<1> DEFINE n == Len(queue)
           m == NumWorkers
<1>1. /\ n \in Nat /\ m \in Nat /\ Len(queue') = n + m
      /\ \A i \in 1..n : queue'[i] = queue[i]
      /\ \A i \in n + 1..n + m : queue'[i] = Sentinel
    BY SentinelsAdded, LenProperties DEF Shutdown, Counted, TypeOK
<1>2. UNCHANGED <<fut, ws, job, drain, before>>
    BY DEF Shutdown
<1>3. /\ Held' = Held
      /\ \A u, v \in Workers : ws'[u] \in Busy /\ ws'[v] \in Busy /\ job'[u] = job'[v] => u = v
    BY <1>2, HeldStays DEF Placed
<1>4. \A i \in 1..n + m : i \in 1..n \/ queue'[i] = Sentinel
    BY <1>1
<1>5. Queued' = Queued
    <2>1. ASSUME NEW x \in Queued' PROVE x \in Queued
        BY <1>1, <1>4, <2>1 DEF Queued
    <2>2. ASSUME NEW x \in Queued PROVE x \in Queued'
        BY <1>1, <2>2 DEF Queued
    <2> QED BY <2>1, <2>2
<1>6. \A i, j \in 1..n + m : queue'[i] = queue'[j] /\ queue'[i] \in Tasks => i = j
    <2>1. ASSUME NEW i \in 1..n + m, NEW j \in 1..n + m,
                 queue'[i] = queue'[j], queue'[i] \in Tasks
          PROVE  i = j
        <3>1. i \in 1..n /\ j \in 1..n
            BY <1>4, <2>1, PoolAssumption
        <3> QED BY <1>1, <2>1, <3>1 DEF Placed, OnePlace
    <2> QED BY <2>1
<1>7. OnePlace' /\ Hands' = Hands
    BY <1>1, <1>3, <1>5, <1>6 DEF Placed, OnePlace, Hands
<1> QED BY <1>2, <1>7 DEF Placed, Quiet

(* The worker task's steps.                                                 *)
LEMMA WorkerEffect ==
    ASSUME Counted, Placed, NEW w \in Workers, WorkerStep(w)
    PROVE  /\ Placed'
           /\ Quiet \/ SentinelGone \/ \E t \in Tasks : LetGo(t)
<1>0. (job[w] \in Tasks /\ job[w] \in Hands) \/ ws[w] \notin Busy
    BY DEF Counted, BusyHolds, BusyWorkers, Hands, Held
<1>1. ASSUME NEW s \in Settled, ws[w] \in Busy, TaskEnds(w, s), UNCHANGED <<queue, before>>
      PROVE  Placed' /\ \E t \in Tasks : LetGo(t)
    <2>1. Written(job[w])
        BY <1>0, <1>1, Settles DEF TaskEnds
    <2>2. "idle" \in WorkerStates \ Busy
        BY DEF WorkerStates, Busy
    <2> QED BY <1>0, <1>1, <2>1, <2>2, TaskEndsLetsGo DEF TaskEnds
<1>2. ASSUME WorkerDies(w), SpawnMayFail \/ MayCancel
      PROVE  Placed' /\ \E t \in Tasks : LetGo(t)
    <2>1. /\ ws[w] \in Busy /\ "crashed" \in WorkerStates \ Busy
          /\ ws' = [ws EXCEPT ![w] = "crashed"] /\ job' = job
          /\ UNCHANGED <<queue, fut, before>> /\ TaskDone
        BY <1>2 DEF WorkerDies, WorkerStates, Busy, Ended, history
    <2>2. LostNow(job[w])
        BY <1>2, <2>1 DEF LostNow, Counted, TypeOK
    <2> QED BY <1>0, <2>1, <2>2, TaskEndsLetsGo
<1>3. CASE Take(w)
    <2>1. CASE TakeSentinel(w)
        BY <2>1, SentinelKeepsHands
    <2>2. CASE TakeWithLiveEngine(w) \/ TakeWithDeadEngine(w)
        BY <2>2, StartKeepsHands DEF TakeWithLiveEngine, TakeWithDeadEngine, Busy
    <2>3. CASE RefuseInShutdown(w)
        <3>1. Head(queue) \in Tasks
            BY <2>3, TakeTaskFacts DEF RefuseInShutdown, Counted
        <3> QED BY <2>3, <3>1, RefusalLetsGo
    <2> QED BY <1>3, <2>1, <2>2, <2>3 DEF Take
<1>4. CASE SpawnReturns(w)
    <2>1. ASSUME NEW e \in Engines, Replaced(w, e) PROVE Placed' /\ Quiet
        <3>1. /\ UNCHANGED <<queue, job, fut, drain, before>>
              /\ \A v \in Workers : ws[v] \in Busy <=> ws'[v] \in Busy
            BY <2>1 DEF Replaced, Busy, history, Counted, TypeOK
        <3> QED BY <3>1, NothingMoves DEF Quiet, Placed
    <2>2. ASSUME NEW e \in Engines, Recovered(w, e) PROVE Placed' /\ \E t \in Tasks : LetGo(t)
        BY <1>1, <2>2 DEF Recovered, Settled, Busy, history
    <2>3. CASE ReplaceRaises(w)
        BY <1>1, <2>3 DEF ReplaceRaises, Settled, Busy, history
    <2>4. CASE RecoveryRaises(w)
        BY <1>2, <2>4 DEF RecoveryRaises
    <2> QED BY <1>4, <2>1, <2>2, <2>3, <2>4 DEF SpawnReturns
<1>5. CASE FunctionStops(w)
    <2>1. CASE FunctionEnds(w)
        BY <1>1, <2>1 DEF FunctionEnds, Settled, Busy, history
    <2>2. CASE TimesOut(w)
        <3>1. /\ UNCHANGED <<queue, job, fut, drain, before>>
              /\ \A v \in Workers : ws[v] \in Busy <=> ws'[v] \in Busy
            BY <2>2 DEF TimesOut, Busy, history, Counted, TypeOK
        <3> QED BY <3>1, NothingMoves DEF Quiet, Placed
    <2> QED BY <1>5, <2>1, <2>2 DEF FunctionStops
<1>6. CASE CancelWorker(w)
    <2>1. CASE CancelIdle(w)
        <3>1. /\ UNCHANGED <<queue, job, fut, drain, before>>
              /\ \A v \in Workers : ws[v] \in Busy <=> ws'[v] \in Busy
            BY <2>1 DEF CancelIdle, Busy, history, Counted, TypeOK
        <3> QED BY <3>1, NothingMoves DEF Quiet, Placed
    <2>2. CASE CancelTask(w)
        <3>1. /\ ws[w] \in Busy /\ "cancelled" \in WorkerStates \ Busy
              /\ ws' = [ws EXCEPT ![w] = "cancelled"] /\ job' = [job EXCEPT ![w] = NoTask]
              /\ UNCHANGED <<queue, before>> /\ TaskDone
              /\ Settle(job[w], "cancelled") /\ "cancelled" \in Settled
            BY <2>2 DEF CancelTask, WorkerStates, Busy, Ended, history, Settled
        <3>2. Written(job[w])
            BY <1>0, <3>1, Settles
        <3> QED BY <1>0, <3>1, <3>2, TaskEndsLetsGo
    <2>3. CASE CancelRecovery(w)
        BY <1>2, <2>3 DEF CancelRecovery
    <2> QED BY <1>6, <2>1, <2>2, <2>3 DEF CancelWorker
<1> QED BY <1>3, <1>4, <1>5, <1>6 DEF WorkerStep

(* Every step keeps each task in one place, and does one of these.          *)
Effect ==
    \/ Quiet \/ SentinelGone
    \/ \E t \in Tasks : LetGo(t)
    \/ \E t \in Tasks : Submit(t) /\ Hands' = Hands \cup {t}
    \/ \E t \in Tasks : GiveUp(t) /\ Hands' = Hands
    \/ \E c \in Clients : Drain(c) /\ Hands' = Hands

LEMMA Effects == Counted /\ Placed /\ [Next]_vars => Placed' /\ Effect
<1> SUFFICES ASSUME Counted, Placed, [Next]_vars PROVE Placed' /\ Effect
    OBVIOUS
<1>1. ASSUME UNCHANGED <<queue, job, fut, drain, before>>,
             \A w \in Workers : ws[w] \in Busy <=> ws'[w] \in Busy
      PROVE  Placed' /\ Effect
    BY <1>1, NothingMoves DEF Quiet, Placed, Effect
<1>2. ASSUME NEW w \in Workers, NEW e \in Engines, StartSpawn(w, e) PROVE Placed' /\ Effect
    BY <1>1, <1>2 DEF StartSpawn, Counted, TypeOK, Busy, history
<1>3. CASE StartFails \/ WorkersGathered \/ (\E e \in Engines : EngineDies(e)) \/ UNCHANGED vars
    BY <1>1, <1>3 DEF StartFails, WorkersGathered, EngineDies, vars, history
<1>4. ASSUME NEW t \in Tasks, Submit(t) PROVE Placed' /\ Effect
    BY <1>4, SubmitAdds DEF Effect
<1>5. ASSUME NEW t \in Tasks, GiveUp(t) PROVE Placed' /\ Effect
    <2>1. Hands' = Hands /\ OnePlace'
        BY <1>5, NothingMoves DEF GiveUp
    <2>2. Placed'
        BY <1>5, <2>1, HeldTyped DEF GiveUp, Placed, Hands, Counted, TypeOK
    <2> QED BY <1>5, <2>1, <2>2 DEF Effect
<1>6. ASSUME NEW c \in Clients, Drain(c) PROVE Placed' /\ Effect
    <2>1. Hands' = Hands /\ OnePlace' /\ fut' = fut
        BY <1>6, NothingMoves DEF Drain
    <2> QED BY <1>6, <2>1 DEF Effect, Placed
<1>7. ASSUME NEW w \in Workers, WorkerStep(w) PROVE Placed' /\ Effect
    BY <1>7, WorkerEffect DEF Effect
<1>8. CASE Shutdown
    BY <1>8, ShutdownKeepsHands DEF Effect
<1> QED BY <1>2, <1>3, <1>4, <1>5, <1>6, <1>7, <1>8 DEF Next

(* A worker that died stays dead, with the task it held.                    *)
LEMMA TheDeadStay ==
    ASSUME Counted, InOrder, [Next]_vars, NEW w \in Workers, ws[w] = "crashed"
    PROVE  ws'[w] = "crashed" /\ job'[w] = job[w]
<1>1. ASSUME NEW v \in Workers, NEW e \in Engines, StartSpawn(v, e) PROVE FALSE
    BY <1>1 DEF StartSpawn, InOrder
<1>2. ASSUME NEW v \in Workers, NEW s, NEW t, ws[v] # "crashed",
             ws' = [ws EXCEPT ![v] = s], job' \in {job, [job EXCEPT ![v] = t]}
      PROVE  ws'[w] = "crashed" /\ job'[w] = job[w]
    BY <1>2 DEF Counted, TypeOK
<1>3. ASSUME NEW v \in Workers, WorkerStep(v)
      PROVE  ws'[w] = "crashed" /\ job'[w] = job[w]
    <2>1. CASE Take(v)
        BY <1>2, <2>1 DEF Take, TakeSentinel, TakeWithLiveEngine, TakeWithDeadEngine,
           StartTask, TakeTask, RefuseInShutdown
    <2>2. CASE SpawnReturns(v)
        BY <1>2, <2>2 DEF SpawnReturns, Replaced, Recovered, ReplaceRaises, RecoveryRaises,
           TaskEnds, WorkerDies
    <2>3. CASE FunctionStops(v)
        BY <1>2, <2>3 DEF FunctionStops, FunctionEnds, TimesOut, TaskEnds
    <2>4. CASE CancelWorker(v)
        BY <1>2, <2>4 DEF CancelWorker, CancelIdle, CancelTask, CancelRecovery, WorkerDies
    <2> QED BY <1>3, <2>1, <2>2, <2>3, <2>4 DEF WorkerStep
<1>4. CASE UNCHANGED <<ws, job>>
    BY <1>4
<1> QED BY <1>1, <1>3, <1>4
    DEF Next, StartFails, Submit, GiveUp, Drain, EngineDies, Shutdown, WorkersGathered, vars

LEMMA LostStaysKnown ==
    ASSUME Counted, Placed, LostWithItsWorker, InOrder, [Next]_vars, Effect
    PROVE  LostWithItsWorker'
<1> SUFFICES ASSUME NEW t \in Lost' PROVE \E w \in Workers : ws'[w] = "crashed" /\ job'[w] = t
    BY DEF LostWithItsWorker
<1>1. t \in Tasks /\ fut'[t] = "pending" /\ t \notin Hands'
    BY DEF Lost, Accounted, Submitted, Hands
<1>2. ASSUME t \notin Hands, fut[t] = "pending"
      PROVE  \E w \in Workers : ws'[w] = "crashed" /\ job'[w] = t
    <2>1. t \in Lost
        BY <1>1, <1>2 DEF Lost, Accounted, Submitted, Hands
    <2>2. PICK w \in Workers : ws[w] = "crashed" /\ job[w] = t
        BY <2>1 DEF LostWithItsWorker
    <2> QED BY <2>2, TheDeadStay
<1>3. CASE Quiet \/ SentinelGone
    BY <1>1, <1>2, <1>3 DEF Quiet, SentinelGone
<1>4. ASSUME NEW x \in Tasks, LetGo(x)
      PROVE  \E w \in Workers : ws'[w] = "crashed" /\ job'[w] = t
    <2>1. CASE x = t
        <3>1. ~Written(t)
            BY <1>1 DEF Written, Settled, Counted, TypeOK
        <3> QED BY <1>4, <2>1, <3>1 DEF LetGo, LostNow
    <2>2. CASE x # t
        BY <1>1, <1>2, <1>4, <2>2, WrittenElsewhere DEF LetGo
    <2> QED BY <2>1, <2>2
<1>5. ASSUME NEW x \in Tasks, Submit(x), Hands' = Hands \cup {x}
      PROVE  \E w \in Workers : ws'[w] = "crashed" /\ job'[w] = t
    <2>1. t # x /\ fut[t] = "pending" /\ t \notin Hands
        <3>1. t # x /\ t \notin Hands
            BY <1>1, <1>5
        <3>2. fut' = [fut EXCEPT ![x] = "pending"]
            BY <1>5 DEF Submit
        <3> QED BY <1>1, <3>1, <3>2 DEF Counted, TypeOK
    <2> QED BY <1>2, <2>1
<1>6. ASSUME NEW x \in Tasks, GiveUp(x), Hands' = Hands
      PROVE  \E w \in Workers : ws'[w] = "crashed" /\ job'[w] = t
    <2>1. fut[t] = "pending"
        BY <1>1, <1>6 DEF GiveUp, Counted, TypeOK
    <2> QED BY <1>1, <1>2, <1>6, <2>1
<1>7. ASSUME NEW c \in Clients, Drain(c), Hands' = Hands
      PROVE  \E w \in Workers : ws'[w] = "crashed" /\ job'[w] = t
    BY <1>1, <1>2, <1>7 DEF Drain
<1> QED BY <1>3, <1>4, <1>5, <1>6, <1>7 DEF Effect

(* What is submitted stays so.                                              *)
LEMMA SubmittedGrows ==
    ASSUME Counted, Placed, Effect
    PROVE  Submitted \subseteq Submitted'
<1>1. Hands \subseteq Tasks
    BY HeldTyped DEF Hands
<1>2. ASSUME NEW t \in Tasks, LetGo(t) PROVE Submitted \subseteq Submitted'
    BY <1>2 DEF LetGo, Written, LostNow, Settled, Submitted, Counted, TypeOK
<1> QED BY <1>2 DEF Effect, Quiet, SentinelGone, Submit, GiveUp, Drain, Submitted, Counted, TypeOK

LEMMA AskedStays ==
    ASSUME Counted, Placed, Asked, Effect
    PROVE  Asked'
<1>1. Submitted \subseteq Submitted'
    BY SubmittedGrows
<1>2. CASE before' = before
    BY <1>1, <1>2 DEF Asked
<1>3. ASSUME NEW c \in Clients, Drain(c) PROVE Asked'
    BY <1>1, <1>3 DEF Asked, Drain, Counted, TypeOK
<1> QED BY <1>2, <1>3 DEF Effect, Quiet, SentinelGone, LetGo, Submit, GiveUp, history

(* The order of the queue.                                                  *)
LEMMA TailInOrder ==
    ASSUME Counted, InOrder, queue # <<>>, queue' = Tail(queue), accepted' = accepted
    PROVE  /\ phase \in {"starting", "open", "failed"} =>
                 \A i \in 1..Len(queue') : queue'[i] # Sentinel
           /\ \A i, j \in 1..Len(queue') : i < j /\ queue'[i] = Sentinel => queue'[j] \notin accepted'
           /\ Queued' \subseteq Queued
           /\ Head(queue) = Sentinel =>
                 /\ accepted \cap Queued' = {}
                 /\ phase \notin {"starting", "open", "failed"}
<1> DEFINE n == Len(queue)
<1>1. /\ n \in Nat /\ n > 0 /\ Len(queue') = n - 1
      /\ \A i \in 1..n - 1 : queue'[i] = queue[i + 1]
      /\ Head(queue) = queue[1] /\ 1 \in 1..n
    BY QueueTail, HeadTailProperties DEF Counted, TypeOK
<1>2. \A i \in 1..n - 1 : i + 1 \in 1..n /\ 1 < i + 1
    BY <1>1
<1>3. phase \in {"starting", "open", "failed"} => \A i \in 1..n - 1 : queue'[i] # Sentinel
    BY <1>1, <1>2 DEF InOrder
<1>4. ASSUME NEW i \in 1..n - 1, NEW j \in 1..n - 1, i < j, queue'[i] = Sentinel
      PROVE  queue'[j] \notin accepted'
    <2>1. i + 1 < j + 1 /\ i + 1 \in 1..n /\ j + 1 \in 1..n
        BY <1>1, <1>4
    <2> QED BY <1>1, <1>4, <2>1 DEF InOrder
<1>5. Queued' \subseteq Queued
    BY <1>1, <1>2 DEF Queued
<1>6. ASSUME Head(queue) = Sentinel PROVE accepted \cap Queued' = {}
    <2>1. \A i \in 1..n - 1 : queue'[i] \notin accepted
        BY <1>1, <1>2, <1>6 DEF InOrder
    <2> QED BY <1>1, <2>1 DEF Queued
<1>7. Head(queue) = Sentinel => phase \notin {"starting", "open", "failed"}
    BY <1>1 DEF InOrder
<1> QED BY <1>1, <1>3, <1>4, <1>5, <1>6, <1>7

LEMMA ShutdownInOrder ==
    ASSUME Counted, Placed, InOrder, Shutdown
    PROVE  InOrder'
<1> DEFINE n == Len(queue)
           m == NumWorkers
<1>1. /\ n \in Nat /\ m \in Nat /\ Len(queue') = n + m
      /\ \A i \in 1..n : queue'[i] = queue[i]
      /\ \A i \in n + 1..n + m : queue'[i] = Sentinel
    BY SentinelsAdded, LenProperties DEF Shutdown, Counted, TypeOK
<1>2. /\ phase = "open" /\ phase' = "closing" /\ accepted' = Submitted
      /\ UNCHANGED <<fut, ws>>
    BY DEF Shutdown
<1>3. Submitted' = Submitted /\ Sentinel \notin Submitted
    BY <1>2, PoolAssumption DEF Submitted
<1>4. ASSUME NEW i \in 1..n + m, NEW j \in 1..n + m, i < j, queue'[i] = Sentinel
      PROVE  queue'[j] \notin accepted'
    <2>1. i \notin 1..n
        BY <1>1, <1>2, <1>4 DEF InOrder
    <2>2. j \in n + 1..n + m
        BY <1>1, <1>4, <2>1
    <2> QED BY <1>1, <1>2, <1>3, <2>2
<1>5. \A w \in Workers : ws'[w] # "stopped"
    BY <1>2 DEF InOrder
<1> QED BY <1>1, <1>2, <1>3, <1>4, <1>5 DEF InOrder, ServedBeforeStop

LEMMA SubmitInOrder ==
    ASSUME Counted, Placed, InOrder, NEW t \in Tasks, Submit(t)
    PROVE  InOrder'
<1> DEFINE n == Len(queue)
<1>1. /\ n \in Nat /\ Len(queue') = n + 1 /\ queue'[n + 1] = t
      /\ \A i \in 1..n : queue'[i] = queue[i]
    BY AppendProperties, LenProperties DEF Submit, Counted, TypeOK
<1>2. /\ phase # "starting" /\ UNCHANGED <<phase, ws, accepted>>
      /\ fut[t] = "unsubmitted"
    BY DEF Submit, history
<1>3. t \notin accepted /\ t # Sentinel
    BY <1>2, PoolAssumption DEF InOrder, Submitted
<1>4. Submitted \subseteq Submitted'
    BY DEF Submit, Submitted, Counted, TypeOK
<1>5. ASSUME NEW i \in 1..n + 1, NEW j \in 1..n + 1, i < j, queue'[i] = Sentinel
      PROVE  queue'[j] \notin accepted'
    <2>1. i \in 1..n
        BY <1>1, <1>5
    <2>2. CASE j = n + 1
        BY <1>1, <1>2, <1>3, <2>2
    <2>3. CASE j \in 1..n
        BY <1>1, <1>2, <1>5, <2>1, <2>3 DEF InOrder
    <2> QED BY <1>1, <2>2, <2>3
<1>6. ASSUME phase \in {"open", "failed"}, NEW i \in 1..n + 1 PROVE queue'[i] # Sentinel
    <2>1. CASE i = n + 1
        BY <1>1, <1>3, <2>1
    <2>2. CASE i \in 1..n
        BY <1>1, <1>6, <2>2 DEF InOrder
    <2> QED BY <1>1, <2>1, <2>2
<1>7. ASSUME NEW w \in Workers, ws'[w] = "stopped" PROVE accepted' \cap Queued' = {}
    <2>1. accepted \cap Queued = {}
        BY <1>2, <1>7 DEF InOrder, ServedBeforeStop
    <2>2. Queued' \subseteq Queued \cup {t}
        BY <1>1 DEF Queued
    <2> QED BY <1>2, <1>3, <2>1, <2>2
<1> QED BY <1>1, <1>2, <1>4, <1>5, <1>6, <1>7 DEF InOrder, ServedBeforeStop

(* Steps that leave the queue alone, and let nobody stop.                   *)
LEMMA QueueStands ==
    ASSUME Counted, InOrder, UNCHANGED <<queue, accepted>>,
           Submitted \subseteq Submitted',
           \A w \in Workers : ws'[w] = "stopped" => ws[w] = "stopped",
           \/ phase' = "starting" /\ phase = "starting" /\ \A w \in Workers : ws'[w] \in {"unborn", "spawned"}
           \/ phase' \in {"open", "failed"} /\ phase \in {"starting", "open", "failed"}
           \/ phase' \in {"closing", "closed"}
    PROVE  InOrder'
<1>1. Queued' = Queued
    BY DEF Queued
<1> QED BY <1>1 DEF InOrder, ServedBeforeStop

(* The queue loses its head, and nobody stops but on a sentinel.            *)
LEMMA QueueAdvances ==
    ASSUME Counted, InOrder, Submitted \subseteq Submitted',
           queue # <<>>, queue' = Tail(queue), UNCHANGED <<phase, accepted>>,
           NEW w \in Workers, ws[w] = "idle",
           \A v \in Workers \ {w} : ws'[v] = ws[v],
           ws'[w] = "stopped" => Head(queue) = Sentinel
    PROVE  InOrder'
<1>1. /\ phase \in {"starting", "open", "failed"} =>
            \A i \in 1..Len(queue') : queue'[i] # Sentinel
      /\ \A i, j \in 1..Len(queue') : i < j /\ queue'[i] = Sentinel => queue'[j] \notin accepted'
      /\ Queued' \subseteq Queued
      /\ Head(queue) = Sentinel =>
            accepted \cap Queued' = {} /\ phase \notin {"starting", "open", "failed"}
    BY TailInOrder
<1>2. phase # "starting"
    BY DEF InOrder
<1>3. accepted' \subseteq Submitted'
    BY DEF InOrder
<1>4. ASSUME phase' \in {"starting", "open", "failed"}, NEW v \in Workers
      PROVE  ws'[v] # "stopped"
    BY <1>1, <1>4 DEF InOrder
<1>5. ServedBeforeStop'
    BY <1>1 DEF InOrder, ServedBeforeStop
<1> QED BY <1>1, <1>2, <1>3, <1>4, <1>5 DEF InOrder

LEMMA OrderStays ==
    ASSUME Counted, Placed, InOrder, [Next]_vars, Effect
    PROVE  InOrder'
<1>0. Submitted \subseteq Submitted'
    BY SubmittedGrows
<1>1. phase \in {"starting", "open", "closing", "closed", "failed"}
    BY DEF Counted, TypeOK
<1>2. ASSUME NEW w \in Workers, ws[w] \in {"idle"} \cup Busy, NEW s, s # "stopped",
             ws' = [ws EXCEPT ![w] = s], UNCHANGED <<phase, queue, accepted>>
      PROVE  InOrder'
    <2>1. phase # "starting"
        BY <1>2 DEF InOrder, Busy
    <2>2. \A v \in Workers : ws'[v] = "stopped" => ws[v] = "stopped"
        BY <1>2 DEF Counted, TypeOK
    <2> QED BY <1>0, <1>1, <1>2, <2>1, <2>2, QueueStands
<1>3. ASSUME UNCHANGED <<phase, queue, accepted, ws>> PROVE InOrder'
    BY <1>0, <1>1, <1>3, QueueStands DEF InOrder
<1>4. ASSUME NEW w \in Workers, NEW e \in Engines, StartSpawn(w, e) PROVE InOrder'
    <2>1. /\ phase = "starting" /\ UNCHANGED <<queue, accepted>>
          /\ ws[w] = "unborn" /\ \A x \in Workers : ws[x] \in {"unborn", "spawned"}
        BY <1>4 DEF StartSpawn, InOrder, history
    <2>2. CASE ws' = [x \in Workers |-> "idle"] /\ phase' = "open"
        BY <1>0, <2>1, <2>2, QueueStands
    <2>3. CASE ws' = [ws EXCEPT ![w] = "spawned"] /\ phase' = phase
        <3>1. \A x \in Workers : ws'[x] \in {"unborn", "spawned"}
            BY <2>1, <2>3 DEF Counted, TypeOK
        <3> QED BY <1>0, <2>1, <2>3, <3>1, QueueStands
    <2> QED BY <1>4, <2>2, <2>3 DEF StartSpawn
<1>5. CASE StartFails
    BY <1>0, <1>5, QueueStands DEF StartFails, history
<1>6. ASSUME NEW w \in Workers, WorkerStep(w) PROVE InOrder'
    <2>1. CASE TakeSentinel(w)
        BY <1>0, <2>1, QueueAdvances DEF TakeSentinel, history, Counted, TypeOK
    <2>2. CASE TakeWithLiveEngine(w) \/ TakeWithDeadEngine(w)
        <3>1. PICK s \in Busy : StartTask(w, s)
            BY <2>2 DEF TakeWithLiveEngine, TakeWithDeadEngine, Busy
        <3>2. /\ queue # <<>> /\ queue' = Tail(queue) /\ UNCHANGED <<phase, accepted>>
              /\ ws[w] = "idle" /\ ws'[w] = s /\ \A v \in Workers \ {w} : ws'[v] = ws[v]
            <4>1. accepted' = accepted
                BY <2>2 DEF TakeWithLiveEngine, TakeWithDeadEngine, StartTask, history
            <4> QED BY <3>1, <4>1 DEF StartTask, TakeTask, Counted, TypeOK
        <3>3. s # "stopped"
            BY DEF Busy
        <3> QED BY <1>0, <3>2, <3>3, QueueAdvances
    <2>3. CASE RefuseInShutdown(w)
        BY <1>0, <2>3, QueueAdvances DEF RefuseInShutdown, TakeTask, history
    <2>4. CASE SpawnReturns(w)
        BY <1>2, <2>4 DEF SpawnReturns, Replaced, Recovered, ReplaceRaises, RecoveryRaises,
           TaskEnds, WorkerDies, history, Busy
    <2>5. CASE FunctionStops(w)
        BY <1>2, <2>5 DEF FunctionStops, FunctionEnds, TimesOut, TaskEnds, history, Busy
    <2>6. CASE CancelWorker(w)
        BY <1>2, <2>6 DEF CancelWorker, CancelIdle, CancelTask, CancelRecovery, WorkerDies,
           history, Busy
    <2> QED BY <1>6, <2>1, <2>2, <2>3, <2>4, <2>5, <2>6 DEF WorkerStep, Take
<1>7. CASE WorkersGathered
    BY <1>0, <1>7, QueueStands DEF WorkersGathered, history
<1> QED BY <1>3, <1>4, <1>5, <1>6, <1>7, SubmitInOrder, ShutdownInOrder
    DEF Next, GiveUp, Drain, EngineDies, vars, history

LEMMA KeptInit == Init => KInv
<1> SUFFICES ASSUME Init PROVE KInv
    OBVIOUS
<1>1. Counted
    BY CountedInit
<1>2. Queued = {} /\ Held = {} /\ Submitted = {} /\ Len(queue) = 0
    BY EmptySeq DEF Init, Queued, Held, BusyWorkers, Busy, Submitted
<1>3. Placed
    BY <1>2 DEF Init, Placed, OnePlace, Hands, Busy
<1>4. LostWithItsWorker
    BY <1>2 DEF LostWithItsWorker, Lost, Accounted
<1>5. InOrder
    BY <1>2 DEF Init, InOrder, ServedBeforeStop
<1>6. Asked
    BY DEF Init, Asked
<1> QED BY <1>1, <1>3, <1>4, <1>5, <1>6 DEF KInv

LEMMA KeptNext == KInv /\ [Next]_vars => KInv' /\ Effect
<1> SUFFICES ASSUME KInv, [Next]_vars PROVE KInv' /\ Effect
    OBVIOUS
<1>1. Counted /\ Placed /\ LostWithItsWorker /\ InOrder /\ Asked
    BY DEF KInv
<1>2. Counted'
    BY <1>1, CountedNext
<1>3. Placed' /\ Effect
    BY <1>1, Effects
<1> QED BY <1>1, <1>2, <1>3, LostStaysKnown, OrderStays, AskedStays DEF KInv

(* What becomes of the tasks: each is in one place, none is lost but with   *)
(* the worker that died holding it, and no worker stops on its sentinel     *)
(* before what shutdown() found in the queue has been taken.                *)
THEOREM TasksStay == Spec => []TasksAreKept
<1>1. KInv => TasksAreKept
    BY DEF KInv, Placed, InOrder, TasksAreKept
<1> QED BY <1>1, KeptInit, KeptNext, PTL DEF Spec

-----------------------------------------------------------------------------
(* The pool implements TaskPool.  When the count reaches zero, nothing is   *)
(* left in its hands.                                                       *)

LEMMA ZeroMeansDone == Counted /\ unfinished = 0 => Hands = {}
<1> SUFFICES ASSUME Counted, unfinished = 0 PROVE Hands = {}
    OBVIOUS
<1>1. IsFiniteSet(BusyWorkers) /\ Cardinality(BusyWorkers) \in Nat
    BY PoolAssumption, FS_Subset, FS_CardinalityType DEF BusyWorkers
<1>2. Len(queue) \in Nat
    BY LenProperties DEF Counted, TypeOK
<1>3. Len(queue) = 0 /\ Cardinality(BusyWorkers) = 0
    BY <1>1, <1>2 DEF Counted, QueueCount
<1>4. BusyWorkers = {}
    BY <1>1, <1>3, FS_EmptySet
<1>5. Queued = {}
    BY <1>3 DEF Queued
<1> QED BY <1>4, <1>5 DEF Hands, Held

LEMMA ThenZeroMeansDone == Counted' /\ unfinished' = 0 => Hands' = {}
<1>1. (Counted /\ unfinished = 0 => Hands = {})'
    BY ZeroMeansDone, PTL
<1> QED BY <1>1

LEMMA DoneIsAllElse ==
    /\ Accounted = Submitted \ Hands
    /\ Accounted' = Submitted' \ Hands'
BY DEF Accounted, Hands

(* task_done() gives those who wait for the queue control back, and only    *)
(* when what they asked for is done.                                        *)
LEMMA DoneReleases ==
    ASSUME KInv, KInv', TaskDone, before' = before
    PROVE  /\ drain' \in [Clients -> {"out", "waiting", "returned"}]
           /\ Promise!MayRelease
<1>1. /\ drain \in [Clients -> {"out", "waiting", "returned"}]
      /\ drain' \in [Clients -> {"out", "waiting", "returned"}]
    BY DEF KInv, Counted, TypeOK
<1>2. CASE unfinished = 1
    <2>1. unfinished' = 0 /\ drain' = Woken
        BY <1>2 DEF TaskDone
    <2>2. Accounted' = Submitted'
        BY <2>1, ThenZeroMeansDone, DoneIsAllElse DEF KInv
    <2>3. \A c \in Clients : before[c] \subseteq Accounted'
        BY <2>2 DEF KInv, Asked
    <2> QED BY <1>1, <2>1, <2>3 DEF Promise!MayRelease, Woken
<1>3. CASE unfinished # 1
    BY <1>1, <1>3 DEF TaskDone, Promise!MayRelease
<1> QED BY <1>1, <1>2, <1>3

LEMMA PromiseStep == KInv /\ KInv' /\ [Next]_vars /\ Effect => [Promise!Next]_(Promise!vars)
<1> SUFFICES ASSUME KInv, KInv', Effect PROVE [Promise!Next]_(Promise!vars)
    OBVIOUS
<1>0. /\ Counted /\ Placed /\ Hands \subseteq Tasks
      /\ fut \in [Tasks -> {"unsubmitted", "pending"} \cup Settled]
    BY HeldTyped DEF KInv, Hands, Counted, TypeOK
<1>1. CASE Quiet
    <2>1. Accounted' = Accounted
        BY <1>1, DoneIsAllElse DEF Quiet, Submitted
    <2> QED BY <1>1, <2>1 DEF Quiet, Promise!vars
<1>2. CASE SentinelGone
    <2>1. Accounted' = Accounted
        BY <1>2, DoneIsAllElse DEF SentinelGone, Submitted
    <2>2. Promise!Release
        BY <1>2, <2>1, DoneReleases DEF SentinelGone, Promise!Release
    <2> QED BY <2>2 DEF Promise!Next
<1>3. ASSUME NEW t \in Tasks, LetGo(t) PROVE Promise!Next
    <2>1. t \in Hands /\ Hands' = Hands \ {t} /\ fut[t] \in {"pending", "cancelled"}
        BY <1>0, <1>3 DEF LetGo, Placed
    <2>2. Submitted' = Submitted /\ t \in Submitted
        BY <1>0, <1>3, <2>1 DEF LetGo, Written, LostNow, Settled, Submitted
    <2>3. Accounted' = Accounted \cup {t} /\ t \notin Accounted
        BY <2>1, <2>2, DoneIsAllElse
    <2>4. Promise!Submitted = Submitted /\ Promise!Settled = Settled
        BY DEF Promise!Submitted, Submitted, Promise!Settled, Settled
    <2>5. \/ fut[t] = "pending" /\ \E s \in Settled : fut' = [fut EXCEPT ![t] = s]
          \/ fut[t] = "cancelled" /\ fut' = fut
          \/ (SpawnMayFail \/ MayCancel) /\ fut' = fut
        BY <1>3 DEF LetGo, Written, LostNow
    <2>6. TaskDone /\ before' = before
        BY <1>3 DEF LetGo
    <2>7. /\ drain' \in [Clients -> {"out", "waiting", "returned"}]
          /\ Promise!MayRelease
        BY <2>6, DoneReleases
    <2>8. Promise!Account(t)
        BY <2>2, <2>3, <2>4, <2>5, <2>6, <2>7 DEF Promise!Account
    <2> QED BY <2>8 DEF Promise!Next
<1>4. ASSUME NEW t \in Tasks, Submit(t), Hands' = Hands \cup {t} PROVE Promise!Next
    <2>1. /\ fut[t] = "unsubmitted" /\ fut' = [fut EXCEPT ![t] = "pending"]
          /\ UNCHANGED <<drain, before>>
        BY <1>4 DEF Submit, history
    <2>2. Submitted' = Submitted \cup {t} /\ t \notin Submitted
        BY <1>0, <2>1 DEF Submitted
    <2>3. Accounted' = Accounted
        BY <1>4, <2>2, DoneIsAllElse
    <2> QED BY <2>1, <2>3 DEF Promise!Submit, Promise!Next
<1>5. ASSUME NEW t \in Tasks, GiveUp(t), Hands' = Hands PROVE Promise!Next
    <2>1. /\ fut[t] = "pending" /\ fut' = [fut EXCEPT ![t] = "cancelled"]
          /\ UNCHANGED <<drain, before>>
        BY <1>5 DEF GiveUp, history
    <2>2. Submitted' = Submitted
        BY <1>0, <2>1 DEF Submitted
    <2>3. Accounted' = Accounted
        BY <1>5, <2>2, DoneIsAllElse
    <2> QED BY <2>1, <2>3 DEF Promise!GiveUp, Promise!Next
<1>6. ASSUME NEW c \in Clients, Drain(c), Hands' = Hands PROVE Promise!Next
    <2>1. /\ drain[c] # "waiting" /\ fut' = fut
          /\ before' = [before EXCEPT ![c] = Submitted]
          /\ drain' = [drain EXCEPT ![c] = IF unfinished = 0 THEN "returned" ELSE "waiting"]
        BY <1>6 DEF Drain, NothingToDo
    <2>2. Accounted' = Accounted
        BY <1>6, <2>1, DoneIsAllElse DEF Submitted
    <2>3. unfinished = 0 => Submitted \subseteq Accounted
        BY <1>0, ZeroMeansDone, DoneIsAllElse
    <2>4. Promise!Submitted = Submitted
        BY DEF Promise!Submitted, Submitted
    <2>5. Promise!Drain(c)
        BY <2>1, <2>2, <2>3, <2>4 DEF Promise!Drain
    <2> QED BY <2>5 DEF Promise!Next
<1> QED BY <1>1, <1>2, <1>3, <1>4, <1>5, <1>6 DEF Effect

LEMMA PromiseInit == Init => Promise!Init
<1> SUFFICES ASSUME Init PROVE Promise!Init
    OBVIOUS
<1>1. Accounted = {}
    BY DEF Init, Accounted, Submitted
<1> QED BY <1>1 DEF Init, Promise!Init

(* The pool keeps the promise of TaskPool.                                  *)
THEOREM PoolKeepsPromise == Spec => KeepsPromise
<1>1. Init => KInv /\ Promise!Init
    BY KeptInit, PromiseInit
<1>2. KInv /\ [Next]_vars => KInv' /\ [Promise!Next]_(Promise!vars)
    BY KeptNext, PromiseStep
<1> QED BY <1>1, <1>2, PTL DEF Spec, KeepsPromise, Promise!Spec

-----------------------------------------------------------------------------
(* The engines.  Of each worker's step it matters only what it does to its  *)
(* own engine, and whether it runs a function afterwards.                   *)

LEMMA SpawnedIsOwned ==
    ASSUME TypeOK, Owned, NEW w \in Workers, NEW e \in Engines, SpawnEngine(w, e),
           \A v \in Workers \ {w} : ws'[v] = "running" => ws[v] = "running"
    PROVE  Owned'
<1>1. /\ e \notin live /\ e \notin pool /\ \A v \in Workers : eng[v] # e
      /\ e # NoEngine
    BY PoolAssumption DEF SpawnEngine, Fresh
<1>2. /\ live' = live \cup {e} /\ pool' = pool \cup {e} /\ leaked' = leaked
      /\ \A v \in Workers : eng'[v] = IF v = w THEN e ELSE eng[v]
    BY DEF SpawnEngine, Listed, TypeOK
<1>3. EngineOwnership'
    BY <1>1, <1>2 DEF Owned, EngineOwnership
<1>4. leaked' \subseteq live' /\ e \notin leaked
    BY <1>1, <1>2 DEF Owned
<1> QED BY <1>1, <1>2, <1>3, <1>4 DEF Owned

LEMMA FailedSpawnIsOwned ==
    ASSUME TypeOK, Owned, SpawnRaises,
           \A v \in Workers : ws'[v] = "running" => ws[v] = "running"
    PROVE  Owned'
<1>1. EngineOwnership'
    BY DEF SpawnRaises, Owned, EngineOwnership
<1> QED BY <1>1 DEF SpawnRaises, Fresh, Owned

(* The processes stay; a worker may give up its engine or run on it.        *)
LEMMA KeptIsOwned ==
    ASSUME TypeOK, Owned, UNCHANGED <<live, pool, leaked>>,
           NEW w \in Workers,
           \A v \in Workers \ {w} : eng'[v] = eng[v] /\ (ws'[v] = "running" => ws[v] = "running"),
           \/ eng'[w] = NoEngine /\ ws'[w] # "running"
           \/ eng'[w] = eng[w] /\ (ws'[w] = "running" => ws[w] = "running" \/ eng[w] \in live)
    PROVE  Owned'
<1>1. eng[w] \in live => eng[w] \in pool
    BY DEF Owned, EngineOwnership
<1>2. \A v \in Workers : ws'[v] = "running" => eng'[v] \in pool'
    BY <1>1 DEF Owned, EngineOwnership
<1>3. \A u, v \in Workers : eng'[u] = eng'[v] /\ eng'[u] # NoEngine => u = v
    BY DEF Owned, EngineOwnership
<1>4. \A e \in leaked : \A v \in Workers : eng'[v] # e
    BY PoolAssumption DEF Owned, TypeOK
<1> QED BY <1>2, <1>3, <1>4 DEF Owned, EngineOwnership

(* The engine a worker drops was nobody else's.                             *)
LEMMA DroppedIsOwned ==
    ASSUME TypeOK, Owned, NEW w \in Workers, leaked' = leaked,
           pool' = pool \ {eng[w]}, live' = live \ {eng[w]} \/ (live' = live /\ eng[w] \notin live),
           eng' = [eng EXCEPT ![w] = NoEngine],
           ws'[w] # "running", \A v \in Workers \ {w} : ws'[v] = ws[v]
    PROVE  Owned'
<1>1. \A v \in Workers : eng'[v] = IF v = w THEN NoEngine ELSE eng[v]
    BY DEF TypeOK
<1>2. \A v \in Workers \ {w} : ws[v] = "running" => eng[v] \in pool /\ eng[v] # eng[w]
    BY PoolAssumption DEF Owned, EngineOwnership, TypeOK
<1>3. \A v \in Workers : ws'[v] = "running" => eng'[v] \in pool'
    BY <1>1, <1>2
<1>4. \A u, v \in Workers : eng'[u] = eng'[v] /\ eng'[u] # NoEngine => u = v
    BY <1>1 DEF Owned, EngineOwnership
<1>5. live' \subseteq pool' \cup leaked'
    BY DEF Owned, EngineOwnership
<1>6. leaked' \subseteq live'
    BY DEF Owned
<1>7. \A e \in leaked : e \notin pool' /\ \A v \in Workers : eng'[v] # e
    BY <1>1, PoolAssumption DEF Owned, TypeOK
<1> QED BY <1>3, <1>4, <1>5, <1>6, <1>7 DEF Owned, EngineOwnership

LEMMA WorkerKeepsOwned ==
    ASSUME TypeOK, Owned, NEW w \in Workers, WorkerStep(w)
    PROVE  Owned'
<1>1. ASSUME NEW s \in {"idle", "stopped", "cancelled", "crashed"},
             ws' = [ws EXCEPT ![w] = s],
             UNCHANGED processes, eng' \in {eng, [eng EXCEPT ![w] = NoEngine]}
      PROVE  Owned'
    <2>1. \A v \in Workers : ws'[v] = IF v = w THEN s ELSE ws[v]
        BY <1>1 DEF TypeOK
    <2>2. eng'[w] \in {eng[w], NoEngine} /\ \A v \in Workers \ {w} : eng'[v] = eng[v]
        BY <1>1 DEF TypeOK
    <2> QED BY <1>1, <2>1, <2>2, KeptIsOwned DEF processes
<1>2. CASE TakeSentinel(w) \/ FunctionEnds(w) \/ CancelIdle(w) \/ CancelTask(w) \/ CancelRecovery(w)
    BY <1>1, <1>2 DEF TakeSentinel, FunctionEnds, CancelIdle, CancelTask, CancelRecovery,
       TaskEnds, WorkerDies
<1>3. CASE RefuseInShutdown(w)
    BY <1>3, KeptIsOwned DEF RefuseInShutdown, processes
<1>4. CASE TakeWithLiveEngine(w)
    <2>1. /\ eng[w] \in live /\ UNCHANGED <<eng, live, pool, leaked>>
          /\ \A v \in Workers \ {w} : ws'[v] = ws[v]
        BY <1>4 DEF TakeWithLiveEngine, StartTask, TypeOK
    <2> QED BY <2>1, KeptIsOwned
<1>5. CASE TakeWithDeadEngine(w) \/ TimesOut(w)
    <2>1. /\ leaked' = leaked /\ pool' = pool \ {eng[w]}
          /\ eng' = [eng EXCEPT ![w] = NoEngine]
          /\ live' = live \ {eng[w]} \/ (live' = live /\ eng[w] \notin live)
        BY <1>5 DEF TakeWithDeadEngine, StartTask, TimesOut
    <2>2. ws'[w] # "running" /\ \A v \in Workers \ {w} : ws'[v] = ws[v]
        BY <1>5 DEF TakeWithDeadEngine, StartTask, TimesOut, TypeOK
    <2> QED BY <2>1, <2>2, DroppedIsOwned
<1>6. ASSUME NEW e \in Engines, Replaced(w, e) \/ Recovered(w, e) PROVE Owned'
    <2>1. SpawnEngine(w, e) /\ \A v \in Workers \ {w} : ws'[v] = ws[v]
        BY <1>6 DEF Replaced, Recovered, TaskEnds, TypeOK
    <2> QED BY <2>1, SpawnedIsOwned
<1>7. CASE ReplaceRaises(w) \/ RecoveryRaises(w)
    <2>1. SpawnRaises /\ \A v \in Workers : ws'[v] = "running" => ws[v] = "running"
        BY <1>7 DEF ReplaceRaises, RecoveryRaises, TaskEnds, WorkerDies, TypeOK
    <2> QED BY <2>1, FailedSpawnIsOwned
<1> QED BY <1>2, <1>3, <1>4, <1>5, <1>6, <1>7
    DEF WorkerStep, Take, SpawnReturns, FunctionStops, CancelWorker

LEMMA OwnedNext == Counted /\ Owned /\ [Next]_vars => Owned'
<1> SUFFICES ASSUME Counted, Owned, [Next]_vars PROVE Owned'
    OBVIOUS
<1>0. TypeOK
    BY DEF Counted
<1>1. ASSUME NEW w \in Workers, NEW e \in Engines, StartSpawn(w, e) PROVE Owned'
    <2>1. SpawnEngine(w, e) /\ \A v \in Workers \ {w} : ws'[v] = "running" => ws[v] = "running"
        BY <1>0, <1>1 DEF StartSpawn, TypeOK
    <2> QED BY <1>0, <2>1, SpawnedIsOwned
<1>2. CASE StartFails
    BY <1>0, <1>2, FailedSpawnIsOwned DEF StartFails
<1>3. ASSUME NEW e \in Engines, EngineDies(e) PROVE Owned'
    <2>1. EngineOwnership'
        BY <1>3 DEF EngineDies, Owned, EngineOwnership
    <2> QED BY <1>3, <2>1 DEF EngineDies, Owned
<1>4. CASE WorkersGathered
    <2>1. \A w \in Workers : ws'[w] # "running"
        BY <1>4 DEF WorkersGathered, Ended
    <2> QED BY <1>4, <2>1 DEF WorkersGathered, Owned, EngineOwnership
<1>5. ASSUME NEW w \in Workers, WorkerStep(w) PROVE Owned'
    BY <1>0, <1>5, WorkerKeepsOwned
<1>6. CASE UNCHANGED <<ws, eng, live, pool, leaked>>
    BY <1>6 DEF Owned, EngineOwnership
<1> QED BY <1>1, <1>2, <1>3, <1>4, <1>5, <1>6
    DEF Next, Submit, GiveUp, Drain, Shutdown, processes, vars

(* Two workers never drive one engine, a function runs on an engine that is *)
(* listed, and shutdown() finds every process but those that leaked.        *)
THEOREM EnginesAreOwned == Spec => []EngineOwnership
<1>1. Init => Owned
    BY DEF Init, Owned, EngineOwnership
<1>2. Owned => EngineOwnership
    BY DEF Owned
<1> QED BY <1>1, <1>2, OwnedNext, CountedInit, CountedNext, PTL DEF Spec
=============================================================================
