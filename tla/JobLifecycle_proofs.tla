------------------------ MODULE JobLifecycle_proofs ------------------------
(***************************************************************************)
(* What is proved of JobLifecycle, for any set of jobs and requests and    *)
(* any number of units.                                                    *)
(*                                                                         *)
(* RowsAreManned: the two statements on rows that say running or pending   *)
(* are inductive together with the type invariant: each step that moves a  *)
(* runner out of the places they list writes the row in the same step.     *)
(*                                                                         *)
(* ProgressIsWritten: that a completed row shows all reported progress     *)
(* needs to know, at every point of the run, what the database has already *)
(* seen (Written below): nothing before the body, the value remembered in  *)
(* last_flushed_value during the body, everything after the flush.         *)
(*                                                                         *)
(* StopsAreObeyed: a stop is written while the body runs, and from then on *)
(* the row is failed or deleted (Heeded).  AnnouncementsAgree: of a row    *)
(* no two writers met at, at most one actor has a status to publish, and   *)
(* that is the one in the row (OneAnnouncer).                              *)
(***************************************************************************)
EXTENDS JobLifecycle, TLAPS

BeforeBody == {"none", "created", "requested", "ready", "marked", "zeroing"}

Written ==
    \A j \in Jobs :
        /\ row[j] = "absent" <=> pc[j] = "none"
        /\ pc[j] \in BeforeBody => done[j] = 0 /\ shown[j] = 0 /\ flushed[j] = 0
        /\ flushed[j] <= done[j]
        /\ Exists(j) /\ flushed[j] = done[j] => shown[j] = done[j]
        /\ Exists(j) /\ pc[j] \in {"finishing", "finished"} => shown[j] = done[j]
        /\ row[j] = "completed" => pc[j] \in {"finished", "gone"} /\ shown[j] = done[j]

IInv == TypeOK /\ RunningIsManned /\ PendingIsAwaited /\ Written

-----------------------------------------------------------------------------
\* The initial state.
LEMMA InitIInv == Init => IInv
  BY LifecycleAssumption, SMT DEF Init, IInv, TypeOK, RunningIsManned, PendingIsAwaited, Written,
     BeforeBody, Exists, AllKinds, Stored, Statuses, Steps, Requests, Idle

\* The creation of a row, and the request to run it.
LEMMA CreatorKeepsIInv ==
  ASSUME IInv, NEW j \in Jobs,
         Request(j) \/ \E k \in Kinds : Create(j, k)
  PROVE  IInv'
<1>1. CASE Request(j)
  BY <1>1, LifecycleAssumption, SMT DEF IInv, TypeOK, RunningIsManned, PendingIsAwaited, Written,
     BeforeBody, Exists, AllKinds, Stored, Statuses, Steps, Requests, Idle,
     Request, GoTo, progress, watcher, history
<1>2. ASSUME NEW k \in Kinds, Create(j, k)
      PROVE  IInv'
  BY <1>2, LifecycleAssumption, SMT DEF IInv, TypeOK, RunningIsManned, PendingIsAwaited, Written,
     BeforeBody, Exists, AllKinds, Stored, Statuses, Steps, Requests, Idle,
     Create, GoTo, progress, watcher, history
<1> QED  BY <1>1, <1>2

\* What comes before run_with_lifecycle, and its first writes.
LEMMA StartKeepsIInv ==
  ASSUME IInv, NEW j \in Jobs,
         Begin(j) \/ RunUntracked(j) \/ MarkRunning(j) \/ AnnounceRunning(j) \/ ReportZero(j)
  PROVE  IInv'
<1>1. CASE Begin(j)
  BY <1>1, LifecycleAssumption, SMT DEF IInv, TypeOK, RunningIsManned, PendingIsAwaited, Written,
     BeforeBody, Exists, AllKinds, Stored, Statuses, Steps, Requests, Idle, GoTo,
     progress, watcher, history,
     Begin, Preflight, SkipOutcome
<1>2. CASE RunUntracked(j)
  BY <1>2, LifecycleAssumption, SMT DEF IInv, TypeOK, RunningIsManned, PendingIsAwaited, Written,
     BeforeBody, Exists, AllKinds, Stored, Statuses, Steps, Requests, Idle, GoTo,
     progress, watcher, history,
     RunUntracked
<1>3. CASE MarkRunning(j)
  BY <1>3, LifecycleAssumption, SMT DEF IInv, TypeOK, RunningIsManned, PendingIsAwaited, Written,
     BeforeBody, Exists, AllKinds, Stored, Statuses, Steps, Requests, Idle, GoTo,
     progress, watcher, history,
     MarkRunning, Write, Updated, Crossed
<1>4. CASE AnnounceRunning(j)
  BY <1>4, LifecycleAssumption, SMT DEF IInv, TypeOK, RunningIsManned, PendingIsAwaited, Written,
     BeforeBody, Exists, AllKinds, Stored, Statuses, Steps, Requests, Idle, GoTo,
     progress, watcher, history,
     AnnounceRunning, Announce, Published
<1>5. CASE ReportZero(j)
  BY <1>5, LifecycleAssumption, SMT DEF IInv, TypeOK, RunningIsManned, PendingIsAwaited, Written,
     BeforeBody, Exists, AllKinds, Stored, Statuses, Steps, Requests, Idle, GoTo,
     progress, watcher, history,
     ReportZero
<1> QED  BY <1>1, <1>2, <1>3, <1>4, <1>5

\* The units of the body.
LEMMA BodyKeepsIInv ==
  ASSUME IInv, NEW j \in Jobs,
         BeginUnit(j) \/ SkipUnits(j) \/ EndUnit(j) \/ LoseUnit(j) \/ BodyRaises(j) \/ BodyEnds(j)
  PROVE  IInv'
<1>1. CASE BeginUnit(j)
  BY <1>1, LifecycleAssumption, SMT DEF IInv, TypeOK, RunningIsManned, PendingIsAwaited, Written,
     BeforeBody, Exists, AllKinds, Stored, Statuses, Steps, Requests, Idle, GoTo,
     progress, watcher, history,
     BeginUnit, AtOnce
<1>2. CASE SkipUnits(j)
  BY <1>2, LifecycleAssumption, SMT DEF IInv, TypeOK, RunningIsManned, PendingIsAwaited, Written,
     BeforeBody, Exists, AllKinds, Stored, Statuses, Steps, Requests, Idle, GoTo,
     progress, watcher, history,
     SkipUnits, AtOnce
<1>3. CASE EndUnit(j)
  <2>0. /\ TypeOK /\ RunningIsManned /\ PendingIsAwaited /\ Written
    BY DEF IInv
  <2>1. /\ pc[j] = "body" /\ busy[j] > 0 /\ pc' = pc /\ kind' = kind /\ cut' = cut
        /\ \A i \in Jobs : row'[i] = row[i] \/ (row'[i] = "deleted" /\ Exists(i))
        /\ row' \in [Jobs -> Stored]
    BY <1>3, <2>0, SMT DEF EndUnit, RowsAfter, TypeOK, Exists, Stored, history
  <2>2. \/ /\ done' = [done EXCEPT ![j] = done[j] + 1]
           /\ flushed' = flushed /\ shown' = shown
        \/ /\ done' = [done EXCEPT ![j] = done[j] + 1]
           /\ flushed' = [flushed EXCEPT ![j] = done[j] + 1]
           /\ shown' = [shown EXCEPT ![j] = IF Exists(j)' THEN done[j] + 1 ELSE shown[j]]
    BY <1>3, <2>0, SMT DEF EndUnit, Report, Tick, TypeOK, Exists
  <2>3. TypeOK'
    BY <1>3, <2>0, <2>1, <2>2, LifecycleAssumption, SMT DEF EndUnit, TypeOK, watcher, history
  <2>4. RunningIsManned' /\ PendingIsAwaited'
    BY <2>0, <2>1, SMT DEF RunningIsManned, PendingIsAwaited
  <2>5. Written'
    BY <2>0, <2>1, <2>2, SMT DEF Written, TypeOK, Exists, BeforeBody, Statuses
  <2> QED  BY <2>3, <2>4, <2>5 DEF IInv
<1>4. CASE LoseUnit(j)
  BY <1>4, LifecycleAssumption, SMT DEF IInv, TypeOK, RunningIsManned, PendingIsAwaited, Written,
     BeforeBody, Exists, AllKinds, Stored, Statuses, Steps, Requests, Idle, GoTo,
     progress, watcher, history,
     LoseUnit
<1>5. CASE BodyRaises(j)
  BY <1>5, LifecycleAssumption, SMT DEF IInv, TypeOK, RunningIsManned, PendingIsAwaited, Written,
     BeforeBody, Exists, AllKinds, Stored, Statuses, Steps, Requests, Idle, GoTo,
     progress, watcher, history,
     BodyRaises
<1>6. CASE BodyEnds(j)
  BY <1>6, LifecycleAssumption, SMT DEF IInv, TypeOK, RunningIsManned, PendingIsAwaited, Written,
     BeforeBody, Exists, AllKinds, Stored, Statuses, Steps, Requests, Idle, GoTo,
     progress, watcher, history,
     BodyEnds, BodyIsOver
<1> QED  BY <1>1, <1>2, <1>3, <1>4, <1>5, <1>6

\* The end of the run, completed or failed.
LEMMA EndKeepsIInv ==
  ASSUME IInv, NEW j \in Jobs,
         \/ Flush(j) \/ Complete(j) \/ AnnounceCompleted(j)
         \/ MarkFailed(j) \/ AnnounceFailed(j)
         \/ \E i \in Jobs : TriggerAnalysis(j, i)
         \/ Hear(j)
  PROVE  IInv'
<1>1. CASE Flush(j)
  BY <1>1, LifecycleAssumption, SMT DEF IInv, TypeOK, RunningIsManned, PendingIsAwaited, Written,
     BeforeBody, Exists, AllKinds, Stored, Statuses, Steps, Requests, Idle, GoTo,
     progress, watcher, history,
     Flush, FlushLast
<1>2. CASE Complete(j)
  BY <1>2, LifecycleAssumption, SMT DEF IInv, TypeOK, RunningIsManned, PendingIsAwaited, Written,
     BeforeBody, Exists, AllKinds, Stored, Statuses, Steps, Requests, Idle, GoTo,
     progress, watcher, history,
     Complete, Write, Updated, Crossed
<1>3. CASE AnnounceCompleted(j)
  BY <1>3, LifecycleAssumption, SMT DEF IInv, TypeOK, RunningIsManned, PendingIsAwaited, Written,
     BeforeBody, Exists, AllKinds, Stored, Statuses, Steps, Requests, Idle, GoTo,
     progress, watcher, history,
     AnnounceCompleted, Announce, Published
<1>4. CASE MarkFailed(j)
  BY <1>4, LifecycleAssumption, SMT DEF IInv, TypeOK, RunningIsManned, PendingIsAwaited, Written,
     BeforeBody, Exists, AllKinds, Stored, Statuses, Steps, Requests, Idle, GoTo,
     progress, watcher, history,
     MarkFailed, Write, Updated, Crossed
<1>5. CASE AnnounceFailed(j)
  BY <1>5, LifecycleAssumption, SMT DEF IInv, TypeOK, RunningIsManned, PendingIsAwaited, Written,
     BeforeBody, Exists, AllKinds, Stored, Statuses, Steps, Requests, Idle, GoTo,
     progress, watcher, history,
     AnnounceFailed, Announce, Published
<1>6. CASE \E i \in Jobs : TriggerAnalysis(j, i)
  BY <1>6, LifecycleAssumption, SMTT(20) DEF IInv, TypeOK, RunningIsManned, PendingIsAwaited, Written,
     BeforeBody, Exists, AllKinds, Stored, Statuses, Steps, Requests, Idle, GoTo,
     progress, watcher, history, TriggerAnalysis, Published
<1>7. CASE Hear(j)
  BY <1>7, LifecycleAssumption, SMT DEF IInv, TypeOK, RunningIsManned, PendingIsAwaited, Written,
     BeforeBody, Exists, AllKinds, Stored, Statuses, Steps, Requests, Idle, GoTo,
     progress, watcher, history,
     Hear, Watching, SetCancelled
<1> QED  BY <1>1, <1>2, <1>3, <1>4, <1>5, <1>6, <1>7

\* The requests to stop or to delete a job, interleaved with anything.
LEMMA ClientKeepsIInv ==
  ASSUME IInv, NEW c \in Clients, Client(c)
  PROVE  IInv'
<1>0. client[c] \in Requests
  BY DEF IInv, TypeOK
<1>1. ASSUME NEW j \in Jobs, StopReads(c, j) \/ DeleteReads(c, j)
      PROVE  IInv'
  BY <1>1, SMT DEF StopReads, DeleteReads, IInv, TypeOK, RunningIsManned, PendingIsAwaited, Written,
     BeforeBody, Exists, AllKinds, Stored, Statuses, Steps, Requests, Idle,
     progress, watcher, history
<1>2. CASE StopWrites(c)
  BY <1>0, <1>2, SMT DEF StopWrites, Updated, Crossed, IInv, TypeOK, RunningIsManned, PendingIsAwaited, Written,
     BeforeBody, Exists, AllKinds, Stored, Statuses, Steps, Requests, Idle,
     progress, watcher, history
<1>3. CASE StopPublishes(c)
  BY <1>0, <1>3, SMT DEF StopPublishes, Published, Watching, IInv, TypeOK, RunningIsManned, PendingIsAwaited, Written,
     BeforeBody, Exists, AllKinds, Stored, Statuses, Steps, Requests, Idle,
     progress, watcher, history
<1>4. CASE DeleteWrites(c)
  BY <1>0, <1>4, SMT DEF DeleteWrites, Updated, IInv, TypeOK, RunningIsManned, PendingIsAwaited, Written,
     BeforeBody, Exists, AllKinds, Stored, Statuses, Steps, Requests, Idle,
     progress, watcher, history
<1> QED  BY <1>1, <1>2, <1>3, <1>4 DEF Client

\* The death of the process: the rows it leaves behind are the exceptions.
LEMMA CrashKeepsIInv ==
  ASSUME IInv, Crash
  PROVE  IInv'
  BY SMT DEF Crash, Running, IInv, TypeOK, RunningIsManned, PendingIsAwaited, Written,
     BeforeBody, Exists, AllKinds, Stored, Statuses, Steps, Requests, Idle,
     progress, watcher, history

LEMMA StutterKeepsIInv ==
  ASSUME IInv, UNCHANGED vars
  PROVE  IInv'
  BY SMT DEF vars, IInv, TypeOK, RunningIsManned, PendingIsAwaited, Written,
     BeforeBody, Exists, AllKinds, Stored, Statuses, Steps, Requests, Idle,
     progress, watcher, history

-----------------------------------------------------------------------------
LEMMA IInvNext == IInv /\ [Next]_vars => IInv'
<1> SUFFICES ASSUME IInv, [Next]_vars
             PROVE  IInv'
  OBVIOUS
<1>1. ASSUME NEW j \in Jobs, NEW k \in Kinds, Create(j, k)
      PROVE  IInv'
  BY <1>1, CreatorKeepsIInv
<1>2. ASSUME NEW j \in Jobs, Runner(j)
      PROVE  IInv'
  BY <1>2, CreatorKeepsIInv, StartKeepsIInv, BodyKeepsIInv, EndKeepsIInv DEF Runner
<1>3. ASSUME NEW j \in Jobs, Hear(j)
      PROVE  IInv'
  BY <1>3, EndKeepsIInv
<1>4. ASSUME NEW c \in Clients, Client(c)
      PROVE  IInv'
  BY <1>4, ClientKeepsIInv
<1> QED  BY <1>1, <1>2, <1>3, <1>4, CrashKeepsIInv, StutterKeepsIInv DEF Next

LEMMA InductiveIInv == Spec => []IInv
  BY InitIInv, IInvNext, PTL DEF Spec

\* For any number of jobs and requests: a row says running only while a runner
\* is at work on it, and pending only while somebody is on the way to change
\* that, but for the exceptions the two statements name.
THEOREM RowsAreManned == Spec => [](TypeOK /\ RunningIsManned /\ PendingIsAwaited)
<1>1. IInv => TypeOK /\ RunningIsManned /\ PendingIsAwaited
  BY DEF IInv
<1> QED  BY <1>1, InductiveIInv, PTL

\* For any number of units, and whichever reports the throttle lets through: a
\* completed row shows all the progress its run has reported.
THEOREM ProgressIsWritten == Spec => []CompletedShowsAll
<1>1. IInv => CompletedShowsAll
  BY DEF IInv, Written, CompletedShowsAll
<1> QED  BY <1>1, InductiveIInv, PTL

-----------------------------------------------------------------------------
(* The stops.  A stop that counts was written while the body ran, so what   *)
(* it left in the row can only be deleted.                                  *)

Heeded ==
    /\ begunLate \subseteq stopped
    /\ \A j \in stopped :
          /\ pc[j] \notin BeforeBody
          /\ pc[j] = "body" => row[j] \in {"failed", "deleted"}

SInv == Heeded /\ StopIsObeyed

(* The announcements.  Of a row that no two writers met at, one actor at    *)
(* most has a status to publish, and it is the one in the database.         *)
Publishes(c, j) == client[c] = [op |-> "publish", job |-> j]
AboutTo(j) == CASE pc[j] = "created"  -> "pending"
                [] pc[j] = "marked"   -> "running"
                [] pc[j] = "finished" -> "completed"
                [] pc[j] = "failed"   -> "failed"
OneAnnouncer ==
    \A j \in Jobs : Exists(j) /\ j \notin cut \cup crossed =>
        /\ pc[j] \in Announcing => row[j] = AboutTo(j)
        /\ \A c \in Clients : Publishes(c, j) => row[j] = "failed" /\ pc[j] \notin Announcing
        /\ \A c, d \in Clients : Publishes(c, j) /\ Publishes(d, j) => c = d

\* A request is about a row there is, or was.
RequestsAreFounded == \A c \in Clients : client[c] # Idle => row[client[c].job] # "absent"

AInv == RequestsAreFounded /\ OneAnnouncer /\ AgreedWhenQuiet

LEMMA StopsInit == Init => SInv
BY DEF Init, SInv, Heeded, StopIsObeyed, StopHolds, StopArrives

\* A runner that stands elsewhere than in its body, and a creator, forget no
\* stop: whoever is in the body stays there, with its row and what it was told.
LEMMA OutsideTheBody ==
  ASSUME IInv, SInv, NEW j \in Jobs,
         pc'[j] \in BeforeBody \cup {"body"} => pc[j] \in BeforeBody,
         \A i \in Jobs \ {j} : pc'[i] = pc[i] \/ pc[i] = "none",
         \A i \in Jobs : pc[i] # "none" => kind'[i] = kind[i],
         \A i \in Jobs \ {j} : pc[i] # "none" => row'[i] = row[i],
         row[j] = "deleted" => row'[j] = "deleted",
         UNCHANGED <<told, cancelled, client, stopped, begunLate>>
  PROVE  SInv'
<1>0. /\ Heeded /\ StopHolds /\ StopArrives
      /\ stopped \subseteq Jobs /\ begunLate \subseteq stopped
      /\ \A i \in stopped : pc[i] \notin BeforeBody /\ pc[i] # "none"
  BY DEF IInv, TypeOK, SInv, StopIsObeyed, Heeded, BeforeBody
<1>1. \A i \in stopped : i # j => pc'[i] = pc[i] /\ row'[i] = row[i]
  BY <1>0
<1>2. j \in stopped => pc'[j] \notin BeforeBody \cup {"body"}
  BY <1>0
<1>3. \A i \in stopped : kind'[i] = kind[i] /\ (row[i] = "deleted" => row'[i] = "deleted")
  BY <1>0
<1>4. Heeded'
  BY <1>0, <1>1, <1>2 DEF Heeded
<1>5. StopHolds'
  BY <1>0, <1>3 DEF StopHolds
<1>6. StopArrives'
  BY <1>0, <1>1, <1>2, <1>3 DEF StopArrives
<1> QED  BY <1>4, <1>5, <1>6 DEF SInv, StopIsObeyed

LEMMA RunnerHeedsStops ==
  ASSUME IInv, SInv, NEW j \in Jobs, Runner(j)
  PROVE  SInv'
<1>0. /\ TypeOK /\ Heeded /\ StopHolds /\ StopArrives
      /\ stopped \subseteq Jobs /\ begunLate \subseteq stopped
      /\ \A i \in stopped : pc[i] \notin BeforeBody /\ pc[i] # "none"
  BY DEF IInv, TypeOK, SInv, StopIsObeyed, Heeded, BeforeBody
<1>1. CASE \/ Request(j) \/ Begin(j) \/ RunUntracked(j) \/ AnnounceRunning(j) \/ ReportZero(j)
           \/ BodyEnds(j) \/ Flush(j) \/ AnnounceCompleted(j) \/ AnnounceFailed(j)
  <2>1. /\ UNCHANGED <<kind, row, told, cancelled, client, stopped, begunLate>>
        /\ \A i \in Jobs \ {j} : pc'[i] = pc[i]
    BY <1>0, <1>1 DEF TypeOK, Request, Begin, RunUntracked, AnnounceRunning, ReportZero, BodyEnds,
       Flush, AnnounceCompleted, AnnounceFailed, Announce, GoTo, watcher, history
  <2>2. pc'[j] \in BeforeBody \cup {"body"} => pc[j] \in BeforeBody
    BY <1>0, <1>1 DEF TypeOK, Request, Begin, Preflight, SkipOutcome, AllKinds, RunUntracked,
       AnnounceRunning, ReportZero, BodyEnds, Flush, AnnounceCompleted, AnnounceFailed, Announce,
       GoTo, BeforeBody
  <2> QED  BY <2>1, <2>2, OutsideTheBody
<1>2. CASE MarkRunning(j) \/ Complete(j) \/ MarkFailed(j)
  <2>1. /\ UNCHANGED <<kind, told, cancelled, client, stopped, begunLate>>
        /\ \A i \in Jobs \ {j} : pc'[i] = pc[i] /\ row'[i] = row[i]
        /\ row[j] = "deleted" => row'[j] = "deleted"
    BY <1>0, <1>2 DEF TypeOK, MarkRunning, Complete, MarkFailed, Write, Updated, Exists, Statuses,
       GoTo, watcher
  <2>2. pc'[j] \in BeforeBody \cup {"body"} => pc[j] \in BeforeBody
    BY <1>0, <1>2 DEF TypeOK, MarkRunning, Complete, MarkFailed, Write, GoTo, BeforeBody
  <2> QED  BY <2>1, <2>2, OutsideTheBody
<1>3. CASE BeginUnit(j)
  <2>1. /\ pc[j] = "body" /\ ~IsCancelled(j)
        /\ UNCHANGED <<kind, row, pc, told, cancelled, client, stopped>>
        /\ begunLate' = IF j \in stopped THEN begunLate \cup {j} ELSE begunLate
    BY <1>3 DEF BeginUnit, watcher
  <2>2. j \in stopped /\ kind[j] = "backfill" => row[j] = "deleted"
    BY <1>0, <2>1 DEF IsCancelled, FailedStatus, Heeded
  <2> QED  BY <1>0, <2>1, <2>2 DEF SInv, Heeded, StopIsObeyed, StopHolds, StopArrives
<1>4. CASE SkipUnits(j) \/ LoseUnit(j)
  <2>1. UNCHANGED <<kind, row, pc, told, cancelled, client, stopped, begunLate>>
    BY <1>4 DEF SkipUnits, LoseUnit, watcher, history
  <2> QED  BY <1>0, <2>1 DEF SInv, Heeded, StopIsObeyed, StopHolds, StopArrives
<1>5. CASE EndUnit(j)
  <2>1. /\ UNCHANGED <<kind, pc, told, cancelled, client, stopped, begunLate>>
        /\ \A i \in Jobs : row'[i] = row[i] \/ row'[i] = "deleted"
    BY <1>0, <1>5 DEF EndUnit, RowsAfter, TypeOK, watcher, history
  <2> QED  BY <1>0, <2>1 DEF SInv, Heeded, StopIsObeyed, StopHolds, StopArrives
<1>6. CASE BodyRaises(j)
  <2>1. /\ UNCHANGED <<kind, row, told, cancelled, client, stopped, begunLate>>
        /\ pc'[j] = "raising" /\ \A i \in Jobs \ {j} : pc'[i] = pc[i]
    BY <1>0, <1>6 DEF BodyRaises, GoTo, TypeOK, watcher, history
  <2>2. pc'[j] \notin BeforeBody \cup {"body"}
    BY <2>1 DEF BeforeBody
  <2> QED  BY <2>1, <2>2, OutsideTheBody
<1>7. ASSUME NEW i \in Jobs, TriggerAnalysis(j, i) PROVE SInv'
  <2>1. /\ pc[j] = "finished" /\ pc[i] = "none" /\ i # j
        /\ kind' = [kind EXCEPT ![i] = "analyze"] /\ row' = [row EXCEPT ![i] = "pending"]
        /\ pc' = [pc EXCEPT ![j] = "gone", ![i] = "created"]
        /\ UNCHANGED <<told, cancelled, client, stopped, begunLate>>
    BY <1>7 DEF TriggerAnalysis, watcher, history
  <2>2. /\ \A x \in Jobs \ {i} : kind'[x] = kind[x] /\ row'[x] = row[x]
        /\ pc'[j] = "gone" /\ \A x \in Jobs \ {i, j} : pc'[x] = pc[x]
    BY <1>0, <2>1 DEF TypeOK
  <2>3. pc'[j] \notin BeforeBody \cup {"body"}
    BY <2>2 DEF BeforeBody
  <2> QED  BY <2>1, <2>2, <2>3, OutsideTheBody
<1> QED  BY <1>1, <1>2, <1>3, <1>4, <1>5, <1>6, <1>7 DEF Runner

LEMMA StopsNext == IInv /\ SInv /\ [Next]_vars => SInv'
<1> SUFFICES ASSUME IInv, SInv, [Next]_vars PROVE SInv'
  OBVIOUS
<1>0. /\ TypeOK /\ Heeded /\ StopHolds /\ StopArrives
      /\ stopped \subseteq Jobs /\ begunLate \subseteq stopped
      /\ \A i \in stopped : pc[i] \notin BeforeBody /\ pc[i] # "none"
  BY DEF IInv, TypeOK, SInv, StopIsObeyed, Heeded, BeforeBody
<1>1. ASSUME NEW j \in Jobs, NEW k \in Kinds, Create(j, k) PROVE SInv'
  <2>1. /\ pc[j] = "none" /\ row[j] = "absent"
        /\ kind' = [kind EXCEPT ![j] = k] /\ row' = [row EXCEPT ![j] = "pending"]
        /\ pc' = [pc EXCEPT ![j] = "created"]
        /\ UNCHANGED <<told, cancelled, client, stopped, begunLate>>
    BY <1>1 DEF Create, GoTo, watcher, history, IInv, Written
  <2>2. /\ \A x \in Jobs \ {j} : kind'[x] = kind[x] /\ row'[x] = row[x] /\ pc'[x] = pc[x]
        /\ pc[j] \in BeforeBody
    BY <1>0, <2>1 DEF TypeOK, BeforeBody
  <2> QED  BY <2>1, <2>2, OutsideTheBody
<1>2. ASSUME NEW j \in Jobs, Hear(j) PROVE SInv'
  <2>1. /\ cancelled' = [cancelled EXCEPT ![j] = TRUE] /\ told' = [told EXCEPT ![j] = FALSE]
        /\ UNCHANGED <<kind, row, pc, client, stopped, begunLate>>
    BY <1>2 DEF Hear, SetCancelled, history
  <2>2. \A i \in Jobs : told[i] \/ cancelled[i] => told'[i] \/ cancelled'[i]
    BY <1>0, <2>1 DEF TypeOK
  <2> QED  BY <1>0, <2>1, <2>2 DEF SInv, Heeded, StopIsObeyed, StopHolds, StopArrives
<1>3. ASSUME NEW c \in Clients, Client(c) PROVE SInv'
  <2>0. client[c] \in Requests
    BY <1>0 DEF TypeOK
  <2>1. ASSUME NEW j \in Jobs, StopReads(c, j) \/ DeleteReads(c, j) PROVE SInv'
    <3>1. /\ client[c] = Idle
          /\ \A d \in Clients \ {c} : client'[d] = client[d]
          /\ UNCHANGED <<kind, row, pc, told, cancelled, stopped, begunLate>>
      BY <1>0, <2>1 DEF StopReads, DeleteReads, TypeOK, watcher, history
    <3>2. \A i \in Jobs, d \in Clients : client[d] = [op |-> "publish", job |-> i] => client'[d] = client[d]
      BY <3>1 DEF Idle
    <3> QED  BY <1>0, <3>1, <3>2 DEF SInv, Heeded, StopIsObeyed, StopHolds, StopArrives
  <2>2. CASE StopWrites(c)
    <3>1. PICK j \in Jobs : client[c] = [op |-> "stop", job |-> j]
      BY <2>0, <2>2 DEF StopWrites, Requests, Idle
    <3>2. /\ row' = Updated(j, "failed")
          /\ stopped' = IF Exists(j) /\ pc[j] = "body" THEN stopped \cup {j} ELSE stopped
          /\ client' = [client EXCEPT ![c] = [op |-> "publish", job |-> j]]
          /\ UNCHANGED <<kind, pc, told, cancelled, begunLate>>
      <4>1. client[c].job = j /\ [client[c] EXCEPT !.op = "publish"] = [op |-> "publish", job |-> j]
        BY <3>1
      <4>2. client' = [client EXCEPT ![c] = [client[c] EXCEPT !.op = "publish"]]
        BY <2>2 DEF StopWrites
      <4> QED  BY <2>2, <4>1, <4>2 DEF StopWrites, watcher
    <3>3. /\ \A i \in Jobs : row'[i] = row[i] \/ (i = j /\ Exists(j) /\ row'[i] = "failed")
          /\ Exists(j) => row'[j] = "failed" /\ row[j] # "deleted"
          /\ client'[c] = [op |-> "publish", job |-> j]
          /\ \A d \in Clients \ {c} : client'[d] = client[d]
          /\ stopped' \subseteq Jobs
      BY <1>0, <3>2 DEF TypeOK, Updated, Exists, Statuses
    <3>4. \A i \in Jobs, d \in Clients : client[d] = [op |-> "publish", job |-> i] => client'[d] = client[d]
      BY <3>1, <3>3
    <3>5. Heeded'
      BY <1>0, <3>2, <3>3 DEF Heeded, BeforeBody
    <3>6. StopHolds'
      BY <1>0, <3>2, <3>3 DEF StopHolds
    <3>7. StopArrives'
      BY <1>0, <3>2, <3>3, <3>4 DEF StopArrives
    <3> QED  BY <3>5, <3>6, <3>7 DEF SInv, StopIsObeyed
  <2>3. CASE StopPublishes(c)
    <3>1. PICK j \in Jobs : client[c] = [op |-> "publish", job |-> j]
      BY <2>0, <2>3 DEF StopPublishes, Requests, Idle
    <3>2. /\ told' = [told EXCEPT ![j] = told[j] \/ (Exists(j) /\ Watching(j))]
          /\ client' = [client EXCEPT ![c] = Idle]
          /\ UNCHANGED <<kind, row, pc, cancelled, stopped, begunLate>>
      BY <2>3, <3>1 DEF StopPublishes, history
    <3>3. /\ \A i \in Jobs : told[i] => told'[i]
          /\ Exists(j) /\ Watching(j) => told'[j]
          /\ \A d \in Clients \ {c} : client'[d] = client[d]
      BY <1>0, <3>2 DEF TypeOK
    <3>4. \A i \in Jobs \ {j}, d \in Clients :
              client[d] = [op |-> "publish", job |-> i] => client'[d] = client[d]
      BY <3>1, <3>3
    <3>5. j \in stopped /\ kind[j] = "analyze" /\ pc[j] = "body" /\ row[j] # "deleted" => told'[j]
      BY <1>0, <3>3 DEF Heeded, Exists, Statuses, Watching
    <3>6. StopArrives'
      BY <1>0, <3>2, <3>3, <3>4, <3>5 DEF StopArrives
    <3> QED  BY <1>0, <3>2, <3>6 DEF SInv, Heeded, StopIsObeyed, StopHolds
  <2>4. CASE DeleteWrites(c)
    <3>1. PICK j \in Jobs : client[c] = [op |-> "delete", job |-> j]
      BY <2>0, <2>4 DEF DeleteWrites, Requests, Idle
    <3>2. /\ row' = Updated(j, "deleted") /\ client' = [client EXCEPT ![c] = Idle]
          /\ UNCHANGED <<kind, pc, told, cancelled, stopped, begunLate>>
      BY <2>4, <3>1 DEF DeleteWrites, watcher, history
    <3>3. /\ \A i \in Jobs : row'[i] = row[i] \/ row'[i] = "deleted"
          /\ \A d \in Clients \ {c} : client'[d] = client[d]
      BY <1>0, <3>2 DEF TypeOK, Updated
    <3>4. \A i \in Jobs, d \in Clients :
              client[d] = [op |-> "publish", job |-> i] => client'[d] = client[d]
      BY <3>1, <3>3
    <3> QED  BY <1>0, <3>2, <3>3, <3>4 DEF SInv, Heeded, StopIsObeyed, StopHolds, StopArrives
  <2> QED  BY <1>3, <2>1, <2>2, <2>3, <2>4 DEF Client
<1>4. CASE Crash
  <2>1. /\ \A j \in Jobs : pc[j] # "none" => pc'[j] = "gone"
        /\ UNCHANGED <<kind, row, stopped, begunLate>>
    BY <1>0, <1>4 DEF Crash, Running, TypeOK
  <2>2. \A j \in stopped : pc'[j] = "gone"
    BY <1>0, <2>1
  <2> QED  BY <1>0, <2>1, <2>2 DEF SInv, Heeded, StopIsObeyed, StopHolds, StopArrives, BeforeBody
<1>5. CASE UNCHANGED vars
  BY <1>0, <1>5 DEF vars, watcher, history, SInv, Heeded, StopIsObeyed, StopHolds, StopArrives
<1> QED  BY <1>1, <1>2, <1>3, <1>4, <1>5, RunnerHeedsStops DEF Next

\* A step of nobody but the announcers of one row, or of none: the others'
\* rows, places and requests are what they were.
Same(j) ==
  /\ row'[j] = row[j] \/ ~Exists(j)'
  /\ j \in cut => j \in cut'
  /\ j \in crossed => j \in crossed'
  /\ announced'[j] = announced[j]
  /\ pc'[j] = pc[j] \/ (pc[j] \notin Announcing /\ pc'[j] \notin Announcing)
  /\ \A c \in Clients : Publishes(c, j)' <=> Publishes(c, j)

\* What the announcement of j's row rests on, said of one row.
Agreed(j) ==
  Exists(j) /\ j \notin cut \cup crossed =>
     /\ pc[j] \in Announcing => row[j] = AboutTo(j)
     /\ \A c \in Clients : Publishes(c, j) => row[j] = "failed" /\ pc[j] \notin Announcing
     /\ \A c, d \in Clients : Publishes(c, j) /\ Publishes(d, j) => c = d
     /\ ~SomeoneAnnounces(j) => announced[j] = row[j]

LEMMA AgreedOfAll ==
  /\ (\A j \in Jobs : Agreed(j)) <=> OneAnnouncer /\ AgreedWhenQuiet
  /\ (\A j \in Jobs : Agreed(j)') <=> OneAnnouncer' /\ AgreedWhenQuiet'
BY DEF Agreed, OneAnnouncer, AgreedWhenQuiet

LEMMA SameAgrees ==
  ASSUME TypeOK, NEW j \in Jobs, Agreed(j), Same(j)
  PROVE  Agreed(j)'
<1> SUFFICES ASSUME Exists(j)', j \notin cut' \cup crossed' PROVE Agreed(j)'
  BY DEF Agreed
<1>1. row'[j] = row[j] /\ j \notin cut \cup crossed /\ announced'[j] = announced[j]
  BY DEF Same
<1>2. Exists(j)
  BY <1>1 DEF Exists
<1>3. (SomeoneAnnounces(j))' <=> SomeoneAnnounces(j)
  BY DEF SomeoneAnnounces, Same, Publishes
<1>4. pc'[j] \in Announcing => pc'[j] = pc[j]
  BY DEF Same
<1>5. pc'[j] \in Announcing => (AboutTo(j))' = AboutTo(j)
  BY <1>4 DEF AboutTo
<1>6. \A c \in Clients : Publishes(c, j)' <=> Publishes(c, j)
  BY DEF Same
<1>7. pc[j] \notin Announcing => pc'[j] \notin Announcing
  BY DEF Same
<1> QED  BY <1>1, <1>2, <1>3, <1>4, <1>5, <1>6, <1>7 DEF Agreed

LEMMA WriteAgrees ==
  ASSUME TypeOK, NEW j \in Jobs, Agreed(j), NEW s \in Statuses,
         NEW from \in Steps \ Announcing, NEW to \in Announcing, Write(j, from, s, to),
         <<to, s>> \in {<<"marked", "running">>, <<"finished", "completed">>, <<"failed", "failed">>}
  PROVE  \A i \in Jobs : Agreed(i) => Agreed(i)'
<1>1. /\ row' = Updated(j, s) /\ crossed' = Crossed(j) /\ pc' = [pc EXCEPT ![j] = to]
      /\ pc[j] \notin Announcing /\ UNCHANGED <<announced, client, cut>>
  BY DEF Write, GoTo
<1>2. \A i \in Jobs \ {j} : row'[i] = row[i] /\ pc'[i] = pc[i]
  BY <1>1 DEF TypeOK, Updated
<1>3. crossed \subseteq crossed'
  BY <1>1 DEF Crossed
<1>4. ASSUME NEW i \in Jobs \ {j}, Agreed(i) PROVE Agreed(i)'
  BY <1>1, <1>2, <1>3, <1>4, SameAgrees DEF Same, Publishes
<1>5. Agreed(j)'
  <2> SUFFICES ASSUME Exists(j)', j \notin cut' \cup crossed' PROVE Agreed(j)'
    BY DEF Agreed
  <2>1. pc'[j] = to /\ row'[j] = s
    BY <1>1 DEF TypeOK, Updated, Exists
  <2>2. ~SomeoneAnnounces(j)
    BY <1>1 DEF Crossed
  <2>3. \A c \in Clients : ~Publishes(c, j)'
    BY <1>1, <2>2 DEF SomeoneAnnounces, Publishes
  <2>4. row'[j] = (AboutTo(j))'
    BY <2>1 DEF AboutTo
  <2>5. SomeoneAnnounces(j)'
    BY <2>1 DEF SomeoneAnnounces
  <2> QED  BY <2>3, <2>4, <2>5 DEF Agreed
<1> QED  BY <1>4, <1>5

LEMMA AnnounceAgrees ==
  ASSUME TypeOK, NEW j \in Jobs, Agreed(j), NEW s,
         pc[j] \in Announcing, s = AboutTo(j),
         row'[j] = row[j], Exists(j) => announced'[j] = s,
         pc'[j] \notin Announcing, UNCHANGED <<client, cut, crossed>>
  PROVE  Agreed(j)'
<1> SUFFICES ASSUME Exists(j)', j \notin cut' \cup crossed' PROVE Agreed(j)'
  BY DEF Agreed
<1>1. Exists(j) /\ j \notin cut \cup crossed
  BY DEF Exists
<1>2. row[j] = s /\ announced'[j] = s
  BY <1>1 DEF Agreed
<1>3. \A c \in Clients : ~Publishes(c, j)'
  BY <1>1 DEF Agreed, Publishes
<1> QED  BY <1>2, <1>3 DEF Agreed

LEMMA CreationAgrees ==
  ASSUME TypeOK, RequestsAreFounded, NEW j \in Jobs, row[j] = "absent",
         row'[j] = "pending", pc'[j] = "created", client' = client
  PROVE  Agreed(j)'
<1>1. \A c \in Clients : ~Publishes(c, j)
  BY DEF RequestsAreFounded, Publishes, Idle
<1>2. \A c \in Clients : ~Publishes(c, j)'
  BY <1>1 DEF Publishes
<1>3. (AboutTo(j))' = "pending" /\ SomeoneAnnounces(j)'
  BY DEF AboutTo, SomeoneAnnounces, Announcing
<1> QED  BY <1>2, <1>3 DEF Agreed

LEMMA RunnerAgrees ==
  ASSUME TypeOK, Written, AInv, NEW j \in Jobs, Runner(j)
  PROVE  \A i \in Jobs : Agreed(i)'
<1>0. \A i \in Jobs : Agreed(i)
  BY AgreedOfAll DEF AInv
<1>1. ASSUME UNCHANGED <<announced, cut, crossed, client>>,
             \A i \in Jobs : row'[i] = row[i] \/ ~Exists(i)',
             \A i \in Jobs : pc'[i] = pc[i] \/ (pc[i] \notin Announcing /\ pc'[i] \notin Announcing)
      PROVE  \A i \in Jobs : Agreed(i)'
  BY <1>0, <1>1, SameAgrees DEF Same, Publishes
<1>2. CASE \/ Begin(j) \/ RunUntracked(j) \/ ReportZero(j) \/ BodyRaises(j) \/ BodyEnds(j) \/ Flush(j)
  <2>1. /\ UNCHANGED <<announced, cut, crossed, client, row>>
        /\ \A i \in Jobs \ {j} : pc'[i] = pc[i]
        /\ pc[j] \notin Announcing /\ pc'[j] \notin Announcing
    BY <1>2 DEF TypeOK, Begin, Preflight, SkipOutcome, AllKinds, RunUntracked, ReportZero, BodyRaises,
       BodyEnds, Flush, GoTo, Announcing, history
  <2> QED  BY <1>1, <2>1
<1>3. CASE BeginUnit(j) \/ SkipUnits(j) \/ LoseUnit(j)
  BY <1>1, <1>3 DEF BeginUnit, SkipUnits, LoseUnit, history
<1>4. CASE EndUnit(j)
  <2>1. /\ UNCHANGED <<announced, cut, crossed, client, pc>>
        /\ \A i \in Jobs : row'[i] = row[i] \/ row'[i] = "deleted"
    BY <1>4 DEF EndUnit, RowsAfter, TypeOK, history
  <2>2. \A i \in Jobs : row'[i] = row[i] \/ ~Exists(i)'
    BY <2>1 DEF Exists, Statuses
  <2> QED  BY <1>1, <2>1, <2>2
<1>5. CASE MarkRunning(j) \/ Complete(j) \/ MarkFailed(j)
  <2>1. \A i \in Jobs : Agreed(i) => Agreed(i)'
    BY <1>0, <1>5, WriteAgrees DEF MarkRunning, Complete, MarkFailed, Statuses, Steps, Announcing
  <2> QED  BY <1>0, <2>1
<1>6. ASSUME UNCHANGED <<row, cut, crossed, client>>,
             pc[j] \in Announcing, Exists(j) => announced'[j] = AboutTo(j),
             \A i \in Jobs \ {j} : announced'[i] = announced[i] /\ pc'[i] = pc[i],
             pc'[j] \notin Announcing
      PROVE  \A i \in Jobs : Agreed(i)'
  <2>1. ASSUME NEW i \in Jobs \ {j} PROVE Agreed(i)'
    BY <1>0, <1>6, SameAgrees DEF Same, Publishes
  <2>2. Agreed(j)'
    BY <1>0, <1>6, AnnounceAgrees
  <2> QED  BY <2>1, <2>2
<1>7. CASE Request(j) \/ AnnounceRunning(j) \/ AnnounceCompleted(j) \/ AnnounceFailed(j)
  <2>1. /\ UNCHANGED <<row, cut, crossed, client>>
        /\ pc[j] \in Announcing /\ pc'[j] \notin Announcing
        /\ \A i \in Jobs \ {j} : pc'[i] = pc[i]
    BY <1>7 DEF TypeOK, Request, AnnounceRunning, AnnounceCompleted, AnnounceFailed, Announce, GoTo,
       Announcing, history
  <2>2. /\ Exists(j) => announced'[j] = AboutTo(j)
        /\ \A i \in Jobs \ {j} : announced'[i] = announced[i]
    BY <1>7 DEF TypeOK, Request, AnnounceRunning, AnnounceCompleted, AnnounceFailed, Announce,
       Published, AboutTo
  <2> QED  BY <1>6, <2>1, <2>2
<1>8. ASSUME NEW i \in Jobs, TriggerAnalysis(j, i) PROVE \A x \in Jobs : Agreed(x)'
  <2>1. /\ pc[j] = "finished" /\ pc[i] = "none" /\ row[i] = "absent" /\ i # j
        /\ announced' = Published(j, "completed") /\ row' = [row EXCEPT ![i] = "pending"]
        /\ pc' = [pc EXCEPT ![j] = "gone", ![i] = "created"]
        /\ UNCHANGED <<client, cut, crossed>>
    BY <1>8 DEF TriggerAnalysis, Written, history
  <2>2. /\ row'[i] = "pending" /\ pc'[i] = "created" /\ pc'[j] = "gone" /\ row'[j] = row[j]
        /\ \A x \in Jobs \ {i, j} : row'[x] = row[x] /\ pc'[x] = pc[x]
        /\ \A x \in Jobs \ {j} : announced'[x] = announced[x]
        /\ Exists(j) => announced'[j] = "completed"
    BY <2>1 DEF TypeOK, Published
  <2>3. Agreed(i)'
    BY <2>1, <2>2, CreationAgrees DEF AInv
  <2>4. pc[j] \in Announcing /\ AboutTo(j) = "completed" /\ pc'[j] \notin Announcing
    BY <2>1, <2>2 DEF Announcing, AboutTo
  <2>5. Agreed(j)'
    BY <1>0, <2>1, <2>2, <2>4, AnnounceAgrees
  <2>6. ASSUME NEW x \in Jobs \ {i, j} PROVE Agreed(x)'
    BY <1>0, <2>1, <2>2, SameAgrees DEF Same, Publishes
  <2> QED  BY <2>3, <2>5, <2>6
<1> QED  BY <1>2, <1>3, <1>4, <1>5, <1>7, <1>8 DEF Runner

LEMMA ClientAgrees ==
  ASSUME TypeOK, AInv, NEW c \in Clients, Client(c)
  PROVE  \A i \in Jobs : Agreed(i)'
<1>0. (\A i \in Jobs : Agreed(i)) /\ client[c] \in Requests
  BY AgreedOfAll DEF AInv, TypeOK
<1>1. ASSUME NEW j \in Jobs, StopReads(c, j) \/ DeleteReads(c, j) PROVE \A i \in Jobs : Agreed(i)'
  <2>1. /\ client[c] = Idle /\ client'[c].op \in {"stop", "delete"}
        /\ \A d \in Clients \ {c} : client'[d] = client[d]
        /\ UNCHANGED <<row, pc, announced, cut, crossed>>
    BY <1>1 DEF StopReads, DeleteReads, TypeOK, history
  <2>2. \A i \in Jobs, d \in Clients : Publishes(d, i)' <=> Publishes(d, i)
    BY <2>1 DEF Publishes, Idle
  <2> QED  BY <1>0, <2>1, <2>2, SameAgrees DEF Same
<1>2. CASE StopWrites(c)
  <2>1. PICK j \in Jobs : client[c] = [op |-> "stop", job |-> j]
    BY <1>0, <1>2 DEF StopWrites, Requests, Idle
  <2>2. /\ row' = Updated(j, "failed") /\ crossed' = Crossed(j)
        /\ client' = [client EXCEPT ![c] = [op |-> "publish", job |-> j]]
        /\ UNCHANGED <<pc, announced, cut>>
    <3>1. client[c].job = j /\ [client[c] EXCEPT !.op = "publish"] = [op |-> "publish", job |-> j]
      BY <2>1
    <3>2. client' = [client EXCEPT ![c] = [client[c] EXCEPT !.op = "publish"]]
      BY <1>2 DEF StopWrites
    <3> QED  BY <1>2, <3>1, <3>2 DEF StopWrites
  <2>3. /\ client'[c] = [op |-> "publish", job |-> j]
        /\ \A d \in Clients \ {c} : client'[d] = client[d]
        /\ \A i \in Jobs \ {j} : row'[i] = row[i]
        /\ Exists(j)' => row'[j] = "failed"
        /\ crossed \subseteq crossed'
    BY <2>2 DEF TypeOK, Updated, Exists, Crossed
  <2>4. ASSUME NEW i \in Jobs \ {j} PROVE Agreed(i)'
    <3>1. \A d \in Clients : Publishes(d, i)' <=> Publishes(d, i)
      BY <2>1, <2>3 DEF Publishes
    <3> QED  BY <1>0, <2>2, <2>3, <3>1, SameAgrees DEF Same
  <2>5. Agreed(j)'
    <3> SUFFICES ASSUME Exists(j)', j \notin cut' \cup crossed' PROVE Agreed(j)'
      BY DEF Agreed
    <3>1. ~SomeoneAnnounces(j)
      BY <2>2 DEF Crossed
    <3>2. \A d \in Clients : Publishes(d, j)' => d = c
      BY <2>3, <3>1 DEF SomeoneAnnounces, Publishes
    <3>3. pc'[j] \notin Announcing /\ SomeoneAnnounces(j)'
      BY <2>2, <2>3, <3>1 DEF SomeoneAnnounces
    <3> QED  BY <2>3, <3>2, <3>3 DEF Agreed
  <2> QED  BY <2>4, <2>5
<1>3. CASE StopPublishes(c)
  <2>1. PICK j \in Jobs : client[c] = [op |-> "publish", job |-> j]
    BY <1>0, <1>3 DEF StopPublishes, Requests, Idle
  <2>2. /\ announced' = Published(j, "failed") /\ client' = [client EXCEPT ![c] = Idle]
        /\ UNCHANGED <<row, pc, cut, crossed>>
    BY <1>3, <2>1 DEF StopPublishes, history
  <2>3. /\ client'[c] = Idle /\ \A d \in Clients \ {c} : client'[d] = client[d]
        /\ \A i \in Jobs \ {j} : announced'[i] = announced[i]
        /\ Exists(j) => announced'[j] = "failed"
    BY <2>2 DEF TypeOK, Published
  <2>4. ASSUME NEW i \in Jobs \ {j} PROVE Agreed(i)'
    <3>1. \A d \in Clients : Publishes(d, i)' <=> Publishes(d, i)
      BY <2>1, <2>3 DEF Publishes, Idle
    <3> QED  BY <1>0, <2>2, <2>3, <3>1, SameAgrees DEF Same
  <2>5. Agreed(j)'
    <3> SUFFICES ASSUME Exists(j)', j \notin cut' \cup crossed' PROVE Agreed(j)'
      BY DEF Agreed
    <3>1. Exists(j) /\ j \notin cut \cup crossed /\ Publishes(c, j)
      BY <2>1, <2>2 DEF Exists, Publishes
    <3>2. /\ row[j] = "failed" /\ pc[j] \notin Announcing
          /\ \A d \in Clients : Publishes(d, j) => d = c
      BY <1>0, <3>1 DEF Agreed
    <3>3. \A d \in Clients : ~Publishes(d, j)'
      BY <2>3, <3>2 DEF Publishes, Idle
    <3> QED  BY <2>2, <2>3, <3>1, <3>2, <3>3 DEF Agreed
  <2> QED  BY <2>4, <2>5
<1>4. CASE DeleteWrites(c)
  <2>1. PICK j \in Jobs : client[c] = [op |-> "delete", job |-> j]
    BY <1>0, <1>4 DEF DeleteWrites, Requests, Idle
  <2>2. /\ row' = Updated(j, "deleted") /\ client' = [client EXCEPT ![c] = Idle]
        /\ UNCHANGED <<pc, announced, cut, crossed>>
    BY <1>4, <2>1 DEF DeleteWrites, history
  <2>3. /\ \A i \in Jobs : row'[i] = row[i] \/ ~Exists(i)'
        /\ client'[c] = Idle /\ \A d \in Clients \ {c} : client'[d] = client[d]
    BY <2>2 DEF TypeOK, Updated, Exists, Statuses
  <2>4. \A i \in Jobs, d \in Clients : Publishes(d, i)' <=> Publishes(d, i)
    BY <2>1, <2>3 DEF Publishes, Idle
  <2> QED  BY <1>0, <2>2, <2>3, <2>4, SameAgrees DEF Same
<1> QED  BY <1>1, <1>2, <1>3, <1>4 DEF Client

\* A row that was there is there, or deleted: it is never absent again.
LEMMA RowsStay ==
  ASSUME TypeOK, Written, [Next]_vars, NEW j \in Jobs, row[j] # "absent"
  PROVE  row'[j] # "absent"
<1>1. ASSUME NEW i \in Jobs, NEW s \in {"failed", "running", "completed", "deleted"},
             row' = Updated(i, s)
      PROVE  row'[j] # "absent"
  BY <1>1 DEF TypeOK, Updated
<1>2. ASSUME NEW i \in Jobs, row' = [row EXCEPT ![i] = "pending"] PROVE row'[j] # "absent"
  BY <1>2 DEF TypeOK
<1>3. CASE row' = row
  BY <1>3
<1>4. ASSUME NEW i \in Jobs, Runner(i) PROVE row'[j] # "absent"
  <2>1. CASE EndUnit(i)
    BY <2>1 DEF EndUnit, RowsAfter, TypeOK
  <2>2. CASE MarkRunning(i) \/ Complete(i) \/ MarkFailed(i)
    BY <1>1, <2>2 DEF MarkRunning, Complete, MarkFailed, Write
  <2> QED  BY <1>2, <1>3, <1>4, <2>1, <2>2 DEF Runner, Request, Begin, RunUntracked, AnnounceRunning,
       ReportZero, BeginUnit, SkipUnits, LoseUnit, BodyRaises, BodyEnds, Flush, AnnounceCompleted,
       AnnounceFailed, Announce, TriggerAnalysis
<1>5. ASSUME NEW c \in Clients, Client(c) PROVE row'[j] # "absent"
  <2>1. client[c] \in Requests
    BY DEF TypeOK
  <2>2. CASE StopWrites(c) \/ DeleteWrites(c)
    <3>1. client[c].job \in Jobs
      BY <2>1, <2>2 DEF StopWrites, DeleteWrites, Requests, Idle
    <3> QED  BY <1>1, <2>2, <3>1 DEF StopWrites, DeleteWrites
  <2> QED  BY <1>3, <1>5, <2>2 DEF Client, StopReads, DeleteReads, StopPublishes
<1> QED  BY <1>2, <1>3, <1>4, <1>5 DEF Next, Create, Hear, Crash, vars

LEMMA RequestsStayFounded ==
  ASSUME TypeOK, Written, RequestsAreFounded, [Next]_vars
  PROVE  RequestsAreFounded'
<1>0. \A j \in Jobs : row[j] # "absent" => row'[j] # "absent"
  BY RowsStay
<1>1. ASSUME NEW c \in Clients, client'[c] # Idle PROVE row'[client'[c].job] # "absent"
  <2>0. client[c] \in Requests /\ (client[c] # Idle => client[c].job \in Jobs)
    BY DEF TypeOK, Requests, Idle
  <2>1. CASE client'[c] = client[c]
    BY <1>0, <1>1, <2>0, <2>1 DEF RequestsAreFounded
  <2>2. CASE client[c] # Idle /\ client'[c].job = client[c].job
    BY <1>0, <1>1, <2>0, <2>2 DEF RequestsAreFounded
  <2>3. ASSUME NEW j \in Jobs, StopReads(c, j) \/ DeleteReads(c, j)
        PROVE  row'[client'[c].job] # "absent"
    <3>1. client'[c].job = j /\ row[j] # "absent"
      BY <2>3 DEF StopReads, DeleteReads, Exists, Statuses, TypeOK
    <3> QED  BY <1>0, <3>1
  <2>4. CASE StopWrites(c)
    <3>1. client'[c] = [client[c] EXCEPT !.op = "publish"]
      BY <2>4 DEF StopWrites, TypeOK
    <3>2. client[c] # Idle /\ client'[c].job = client[c].job
      BY <2>0, <2>4, <3>1 DEF StopWrites, Requests, Idle
    <3> QED  BY <2>2, <3>2
  <2>5. CASE StopPublishes(c) \/ DeleteWrites(c)
    BY <1>1, <2>5 DEF StopPublishes, DeleteWrites, TypeOK
  <2>6. ASSUME NEW d \in Clients \ {c}, Client(d) PROVE client'[c] = client[c]
    BY <2>6 DEF Client, StopReads, StopWrites, StopPublishes, DeleteReads, DeleteWrites, TypeOK
  <2>7. CASE Client(c)
    BY <2>3, <2>4, <2>5, <2>7 DEF Client
  <2>8. CASE Crash
    BY <1>1, <2>8 DEF Crash
  <2>9. ASSUME NEW j \in Jobs, Runner(j) \/ Hear(j) \/ \E k \in Kinds : Create(j, k)
        PROVE client'[c] = client[c]
    BY <2>9 DEF Runner, Hear, Create, Request, Begin, RunUntracked, MarkRunning, Complete, MarkFailed, Write,
       AnnounceRunning, ReportZero, BeginUnit, SkipUnits, EndUnit, LoseUnit, BodyRaises, BodyEnds,
       Flush, AnnounceCompleted, AnnounceFailed, Announce, TriggerAnalysis
  <2> QED  BY <2>1, <2>6, <2>7, <2>8, <2>9 DEF Next, vars
<1> QED  BY <1>1 DEF RequestsAreFounded

LEMMA AgreementNext == IInv /\ AInv /\ [Next]_vars => AInv'
<1> SUFFICES ASSUME IInv, AInv, [Next]_vars PROVE AInv'
  OBVIOUS
<1>0. TypeOK /\ Written /\ (\A j \in Jobs : Agreed(j))
  BY AgreedOfAll DEF IInv, AInv
<1>1. \A j \in Jobs : Agreed(j)'
  <2>1. ASSUME NEW j \in Jobs, NEW k \in Kinds, Create(j, k) PROVE \A i \in Jobs : Agreed(i)'
    <3>1. /\ row[j] = "absent" /\ row'[j] = "pending" /\ pc'[j] = "created"
          /\ UNCHANGED <<announced, client, cut, crossed>>
          /\ \A i \in Jobs \ {j} : row'[i] = row[i] /\ pc'[i] = pc[i]
      BY <1>0, <2>1 DEF Create, GoTo, Written, TypeOK, history
    <3>2. Agreed(j)'
      BY <1>0, <3>1, CreationAgrees DEF AInv
    <3>3. ASSUME NEW i \in Jobs \ {j} PROVE Agreed(i)'
      BY <1>0, <3>1, SameAgrees DEF Same, Publishes
    <3> QED  BY <3>2, <3>3
  <2>2. ASSUME NEW j \in Jobs, Runner(j) PROVE \A i \in Jobs : Agreed(i)'
    BY <1>0, <2>2, RunnerAgrees
  <2>3. ASSUME NEW j \in Jobs, Hear(j) PROVE \A i \in Jobs : Agreed(i)'
    BY <1>0, <2>3, SameAgrees DEF Same, Publishes, Hear, history
  <2>4. ASSUME NEW c \in Clients, Client(c) PROVE \A i \in Jobs : Agreed(i)'
    BY <1>0, <2>4, ClientAgrees
  <2>5. CASE Crash
    <3>1. ASSUME NEW j \in Jobs, j \notin cut' \cup crossed', Exists(j)' PROVE Agreed(j)'
      <4>1. /\ UNCHANGED <<row, announced>> /\ ~Running(j) /\ ~SomeoneAnnounces(j)
            /\ pc'[j] = pc[j] /\ \A c \in Clients : client'[c] = Idle
            /\ j \notin cut \cup crossed
        BY <1>0, <2>5, <3>1 DEF Crash, TypeOK
      <4>2. announced[j] = row[j] /\ pc[j] \notin Announcing
        BY <1>0, <3>1, <4>1 DEF Agreed, Exists, SomeoneAnnounces
      <4>3. \A c \in Clients : ~Publishes(c, j)'
        BY <4>1 DEF Publishes, Idle
      <4> QED  BY <4>1, <4>2, <4>3 DEF Agreed
    <3> QED  BY <3>1 DEF Agreed
  <2>6. CASE UNCHANGED vars
    BY <1>0, <2>6, SameAgrees DEF Same, Publishes, vars, history
  <2> QED  BY <2>1, <2>2, <2>3, <2>4, <2>5, <2>6 DEF Next
<1>2. RequestsAreFounded'
  BY <1>0, RequestsStayFounded DEF AInv
<1> QED  BY <1>1, <1>2, AgreedOfAll DEF AInv

LEMMA AgreementInit == Init => AInv
BY DEF Init, AInv, RequestsAreFounded, OneAnnouncer, AgreedWhenQuiet, Exists, Statuses

\* For any number of jobs, requests and units: a stop written while the body
\* runs is obeyed by the backfill and reaches the analysis, unless the row is
\* deleted.
THEOREM StopsAreObeyed == Spec => []StopIsObeyed
<1>1. SInv => StopIsObeyed
  BY DEF SInv
<1>2. Init => IInv /\ SInv
  BY InitIInv, StopsInit
<1>3. IInv /\ SInv /\ [Next]_vars => (IInv /\ SInv)'
  BY IInvNext, StopsNext
<1> QED  BY <1>1, <1>2, <1>3, PTL DEF Spec

\* For any interleaving of runners, requests, wipes and crashes: what the
\* browsers were told last is what the row says, once nobody is about to
\* publish, unless two writers met at the row or one died.
THEOREM AnnouncementsAgree == Spec => []AgreedWhenQuiet
<1>1. AInv => AgreedWhenQuiet
  BY DEF AInv
<1>2. Init => IInv /\ AInv
  BY InitIInv, AgreementInit
<1>3. IInv /\ AInv /\ [Next]_vars => (IInv /\ AInv)'
  BY IInvNext, AgreementNext
<1> QED  BY <1>1, <1>2, <1>3, PTL DEF Spec
=============================================================================
