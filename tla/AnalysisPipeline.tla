-------------------------- MODULE AnalysisPipeline --------------------------
(***************************************************************************)
(* The analysis of one game: which steps a run of the pipeline takes, what *)
(* it leaves in the tables, what it records as completed, and when the     *)
(* game counts as analysed.  Several runs may be at work on the game (a    *)
(* job, an import, the command line, a backfill), each with connections of *)
(* its own; a run may be cut short at every await by the time limit of the *)
(* engine pool or by the death of the process; the game may be removed     *)
(* under it.  The game has moves, a blunder and a known opening.           *)
(***************************************************************************)
EXTENDS Naturals

CONSTANTS Runs,       \* slots for runs of the pipeline
          Requests,   \* of each slot, what may be asked for: [by, steps, force]
          Orders,     \* orders of the steps that hashing may give: places of each
          MaxFaults,  \* how often something raises or is cut short
          MaxRemovals \* how often the game is removed

Steps == {"eco", "stockfish", "move_quality", "phase", "tactics", "traps", "write"}
Products == {"summary", "eco", "moves", "phase", "tactics"}

DependsOn == [s \in Steps |->
    CASE s = "move_quality" -> {"stockfish"}
      [] s = "tactics"      -> {"move_quality"}
      [] s = "write"        -> {"move_quality", "phase", "eco", "tactics"}
      [] OTHER              -> {}]

Full == {"eco", "stockfish", "move_quality", "phase", "traps", "write"}

\* Steps that only compute: they neither wait nor write.
Pure == {"move_quality", "phase", "tactics"}

\* Who looks whether there is an analysis, who sets the flag of the game, and
\* who works inside the engine pool and its time limit.
Looks == {"job", "bulk"}
Marks == {"job", "pgn"}
Timed == {"job", "bulk", "pgn"}

Sources == Looks \cup Marks \cup {"cli", "eco", "phase"}

ASSUME RequestsAssumption ==
    /\ Requests \in [Runs -> SUBSET [by: Sources, steps: SUBSET Steps, force: BOOLEAN]]
    /\ \A r \in Runs : \A q \in Requests[r] :
         q.steps # {} /\ (q.by \in Marks => "write" \in q.steps)
ASSUME OrdersAssumption ==
    \A o \in Orders :
        /\ o \in [Steps -> Nat]
        /\ \A s, t \in Steps : o[s] = o[t] => s = t
        /\ \A s, t \in Steps : t \in DependsOn[s] => o[t] < o[s]
ASSUME BoundsAssumption == MaxFaults \in Nat /\ MaxRemovals \in Nat

VARIABLES
    tables,     \* what is committed: the game, its products, its recorded steps
    cut,        \* the transaction that a cancelled write left open, if any
    run,        \* of each slot: the request, where it is, what it has done
    wiping,     \* tables the wipe has emptied so far
    faults, removals,
    torn,       \* history: half a write or half a wipe was committed
    overlapped  \* history: the game was removed under a run

vars == <<tables, cut, run, wiping, faults, removals, torn, overlapped>>
history == <<torn, overlapped>>

Away == [by |-> "cli", steps |-> {}, force |-> FALSE,
         pc |-> "over", order |-> [s \in Steps |-> 0], todo |-> {}, ran |-> {}, ok |-> TRUE]

\* The steps asked for and what they directly depend on: one level, no more.
Selected(steps) == steps \cup UNION {DependsOn[s] : s \in steps}

AtWork(r) == run[r].pc # "over"

\* The step that is next, as a set: the first of those to do.
First(r) == {s \in run[r].todo : \A t \in run[r].todo : run[r].order[s] <= run[r].order[t]}
Works(r, s) == run[r].pc = "work" /\ s \in First(r)

\* The steps that have a result, with data or without; in a faulty variant a
\* step that is skipped leaves none.
RanOnly(r) == run[r].ran
Results(r) == Selected(run[r].steps) \ run[r].todo

\* A faulty variant: the tactics are computed and not joined to the moves.
WrittenWithoutTactics(r) ==
    LET ran == run[r].ran
    IN  {"summary"} \cup (ran \cap {"eco"})
          \cup IF {"stockfish", "move_quality"} \subseteq ran
               THEN {"moves"} \cup (ran \cap {"phase"})
               ELSE {}

\* What the write step writes: what the run itself computed.  A step that was
\* skipped left a result without data.
Written(r) ==
    LET ran == run[r].ran
    IN  {"summary"} \cup (ran \cap {"eco"})
          \cup IF {"stockfish", "move_quality"} \subseteq ran
               THEN {"moves"} \cup (ran \cap {"phase", "tactics"})
               ELSE {}

\* The tables after the write that run r is about to make.
Classified == IF "summary" \in tables.rows
              THEN [tables EXCEPT !.rows = @ \cup {"eco"}]
              ELSE tables
Rewritten(r) == [tables EXCEPT !.rows = Written(r)]
Recorded(r) == [tables EXCEPT !.done = @ \cup run[r].ran]
Flagged == [tables EXCEPT !.game = IF @ = "new" THEN "analyzed" ELSE @]

\* The transactions that a write cut short can leave open: after the first,
\* the second, the third statement of the write step, or the only one of others.
Whole(t) == [tables |-> t, half |-> FALSE]
Half(rows) == [tables |-> [tables EXCEPT !.rows = rows], half |-> TRUE]
LeftOpen(r) ==
    LET replaced == {"summary"} \cup (run[r].ran \cap {"eco"})
        moves == tables.rows \ {"summary", "eco"}
    IN  CASE Works(r, "eco")   -> {Whole(Classified)}
          [] Works(r, "write") -> {Half(replaced \cup moves), Half(replaced), Whole(Rewritten(r))}
          [] run[r].pc = "record" -> {Whole(Recorded(r))}
          [] run[r].pc = "mark"   -> {Whole(Flagged)}
          [] OTHER                -> {}

-----------------------------------------------------------------------------

Init ==
    /\ tables = [game |-> "absent", rows |-> {}, done |-> {}]
    /\ cut = {}
    /\ run = [r \in Runs |-> Away]
    /\ wiping = 0
    /\ faults = 0
    /\ removals = 0
    /\ torn = FALSE
    /\ overlapped = FALSE

environment == <<wiping, faults, removals, torn, overlapped>>

\* Run r goes on at pc, or ends.
Goes(r, pc) == run' = [run EXCEPT ![r].pc = pc]
Ends(r) == run' = [run EXCEPT ![r] = Away]

Commit(t) == cut = {} /\ tables' = t

\* What the queries of the repositories find.
AnalysisExists == "summary" \in tables.rows
StepCompleted(s) == s \in tables.done
Unanalyzed     == tables.game = "new"
MissingEco     == AnalysisExists /\ "eco" \notin tables.rows /\ ~StepCompleted("eco")
MissingPhase   == "moves" \in tables.rows /\ "phase" \notin tables.rows
MissingTactics == "moves" \in tables.rows /\ "tactics" \notin tables.rows

\* A request is made: for games without the flag, for games whose products
\* are missing, or, from the command line, for any game.
Wanted(q) ==
    CASE q.by \in Looks  -> Unanalyzed
      [] q.by = "eco"    -> IF q.force THEN AnalysisExists ELSE MissingEco
      [] q.by = "phase"  -> MissingPhase
      [] OTHER           -> tables.game # "absent"

Begin(r, q) ==
    /\ ~AtWork(r)
    /\ Wanted(q)
    /\ \E order \in Orders :
         run' = [run EXCEPT ![r] =
             [by |-> q.by, steps |-> q.steps, force |-> q.force, pc |-> "enter", order |-> order,
              todo |-> Selected(q.steps), ran |-> {}, ok |-> TRUE]]
    /\ overlapped' = (overlapped \/ wiping > 0)
    /\ UNCHANGED <<tables, cut, wiping, faults, removals, torn>>

\* The task looks for an analysis that is there already, then loads the game.
Enter(r) ==
    /\ run[r].pc = "enter"
    /\ LET exists == run[r].by \in Looks /\ ~run[r].force /\ AnalysisExists
       IN  IF exists \/ tables.game = "absent" THEN Ends(r) ELSE Goes(r, "step")
    /\ UNCHANGED <<tables, cut, environment>>

\* Step s is over: the next one, or the record of those that ran.
Advance(r, s, ran) ==
    LET rest == run[r].todo \ {s}
    IN  run' = [run EXCEPT ![r].todo = rest, ![r].ran = ran,
                           ![r].pc = IF rest = {} THEN "record" ELSE "step"]

\* Faulty variant of the next: the failure is not reported to the caller.
StopUnreported(r) == run' = [run EXCEPT ![r].pc = "record"]

\* A step ended without success: the run stops, and records what ran before.
Stop(r) == run' = [run EXCEPT ![r].pc = "record", ![r].ok = FALSE]

\* The next step is skipped as recorded, lacks what it depends on, is computed
\* at once, or starts to work.
Step(r) ==
    /\ run[r].pc = "step"
    /\ \E s \in First(r) :
         LET completed == ~run[r].force /\ StepCompleted(s)
         IN  \/ completed /\ Advance(r, s, run[r].ran)
             \/ ~completed /\ ~(DependsOn[s] \subseteq Results(r)) /\ Stop(r)
             \/ /\ ~completed /\ DependsOn[s] \subseteq Results(r)
                /\ IF s \in Pure THEN Advance(r, s, run[r].ran \cup {s}) ELSE Goes(r, "work")
    /\ UNCHANGED <<tables, cut, environment>>

\* The engine, the classification of the opening, the traps and the write end
\* well.  The matches of traps have a table of their own and are left out.
Work(r) ==
    /\ run[r].pc = "work"
    /\ \E s \in First(r) :
         /\ CASE s = "eco"   -> Commit(Classified)
              [] s = "write" -> Commit(Rewritten(r))
              [] s = "traps" -> Commit(tables)
              [] OTHER       -> UNCHANGED tables
         /\ Advance(r, s, run[r].ran \cup {s})
    /\ UNCHANGED <<cut, environment>>

\* The steps that ran are recorded, whether or not a later one failed.
Record(r) ==
    /\ run[r].pc = "record"
    /\ IF run[r].ran = {} THEN UNCHANGED tables ELSE Commit(Recorded(r))
    /\ IF run[r].ok /\ run[r].by \in Marks THEN Goes(r, "mark") ELSE Ends(r)
    /\ UNCHANGED <<cut, environment>>

Mark(r) ==
    /\ run[r].pc = "mark"
    /\ Commit(Flagged)
    /\ Ends(r)
    /\ UNCHANGED <<cut, environment>>

\* A statement raises: by itself, or, when it writes, because the database
\* stays locked by a transaction that was left open.  Only the work of a step
\* is guarded; anything else ends the run with nothing further recorded.
Writes(r) ==
    CASE run[r].pc = "work"   -> ~Works(r, "stockfish")
      [] run[r].pc = "record" -> run[r].ran # {}
      [] OTHER                -> run[r].pc = "mark"

Raises(r) ==
    /\ AtWork(r)
    /\ \/ faults < MaxFaults /\ faults' = faults + 1
       \/ cut # {} /\ Writes(r) /\ UNCHANGED faults
    /\ IF run[r].pc = "work" THEN Stop(r) ELSE Ends(r)
    /\ UNCHANGED <<tables, cut, wiping, removals, history>>

\* The time limit of the pool cancels the run: nothing is recorded, and as
\* write_transaction rolls back on an Exception only, a write stays open.
Timeout(r) ==
    /\ AtWork(r) /\ run[r].by \in Timed
    /\ faults < MaxFaults /\ faults' = faults + 1
    /\ Ends(r)
    /\ \/ UNCHANGED cut
       \/ cut = {} /\ \E left \in LeftOpen(r) : cut' = {left}
    /\ UNCHANGED <<tables, wiping, removals, history>>

\* The next commit on the same connection takes it along, or closing drops it.
LeftCommits ==
    \E left \in cut :
       /\ tables' = left.tables
       /\ torn' = (torn \/ left.half)
       /\ cut' = {}
       /\ UNCHANGED <<run, wiping, faults, removals, overlapped>>

LeftDropped == cut # {} /\ cut' = {} /\ UNCHANGED <<tables, run, environment>>

-----------------------------------------------------------------------------

Import ==
    /\ tables.game = "absent"
    /\ Commit([tables EXCEPT !.game = "new"])
    /\ UNCHANGED <<cut, run, environment>>

\* The game goes with its profile, in one transaction.
DeleteGame ==
    /\ tables.game # "absent"
    /\ removals < MaxRemovals /\ removals' = removals + 1
    /\ Commit([game |-> "absent", rows |-> {}, done |-> {}])
    /\ overlapped' = (overlapped \/ \E r \in Runs : AtWork(r))
    /\ UNCHANGED <<cut, run, wiping, faults, torn>>

\* All data are deleted, table by table, each in a transaction of its own.
Wipe ==
    /\ wiping = 0 => removals < MaxRemovals
    /\ removals' = IF wiping = 0 THEN removals + 1 ELSE removals
    /\ Commit(CASE wiping = 0 -> [tables EXCEPT !.done = {}]
                [] wiping = 1 -> [tables EXCEPT !.rows = @ \cap {"summary", "eco"}]
                [] wiping = 2 -> [tables EXCEPT !.rows = @ \ {"summary", "eco"}]
                [] wiping = 3 -> [tables EXCEPT !.game = "absent"])
    /\ wiping' = (wiping + 1) % 4
    /\ overlapped' = (overlapped \/ \E r \in Runs : AtWork(r))
    /\ UNCHANGED <<cut, run, faults, torn>>

WipeRaises ==
    /\ wiping > 0 /\ wiping' = 0
    /\ torn' = TRUE
    /\ \/ faults < MaxFaults /\ faults' = faults + 1
       \/ cut # {} /\ UNCHANGED faults
    /\ UNCHANGED <<tables, cut, run, removals, overlapped>>

\* The services behind the command line and the tactics job fill what is
\* missing without the pipeline, and record no step.
Fill(p) ==
    /\ Commit([tables EXCEPT !.rows = @ \cup {p}])
    /\ UNCHANGED <<cut, run, environment>>
FillEco     == MissingEco /\ Fill("eco")
FillPhase   == MissingPhase /\ Fill("phase")
FillTactics == MissingTactics /\ Fill("tactics")

Crash ==
    /\ faults < MaxFaults /\ faults' = faults + 1
    /\ run' = [r \in Runs |-> Away]
    /\ cut' = {}
    /\ wiping' = 0
    /\ torn' = (torn \/ wiping > 0)
    /\ UNCHANGED <<tables, removals, overlapped>>

Next ==
    \/ \E r \in Runs : \/ \E q \in Requests[r] : Begin(r, q)
                       \/ Enter(r) \/ Step(r) \/ Work(r) \/ Record(r) \/ Mark(r)
                       \/ Raises(r) \/ Timeout(r)
    \/ LeftCommits \/ LeftDropped
    \/ Import \/ DeleteGame \/ Wipe \/ WipeRaises
    \/ FillEco \/ FillPhase \/ FillTactics
    \/ Crash

Spec == Init /\ [][Next]_vars

\* Runs go on; a transaction left open is committed or dropped when the job
\* goes on or ends; analyses are asked for again and again, which scheduled
\* syncs do.
Fairness ==
    /\ \A r \in Runs : WF_vars(Enter(r) \/ Step(r) \/ Work(r) \/ Record(r) \/ Mark(r))
    /\ WF_vars(LeftCommits \/ LeftDropped)
    /\ SF_vars(\E r \in Runs : \E q \in Requests[r] : q.by = "job" /\ Begin(r, q))

FairSpec == Spec /\ Fairness

-----------------------------------------------------------------------------

\* The tables and the runs have their types, and a run that is at a step has
\* one to take.
Tables == [game: {"absent", "new", "analyzed"}, rows: SUBSET Products, done: SUBSET Steps]
States == [by: Sources, steps: SUBSET Steps, force: BOOLEAN,
           pc: {"enter", "step", "work", "record", "mark", "over"},
           order: [Steps -> Nat], todo: SUBSET Steps, ran: SUBSET Steps, ok: BOOLEAN]
TypeOK ==
    /\ tables \in Tables
    /\ cut \in SUBSET [tables: Tables, half: BOOLEAN]
    /\ run \in [Runs -> States]
    /\ \A r \in Runs :
         /\ run[r].ran \subseteq Selected(run[r].steps) \ run[r].todo
         /\ run[r].pc \in {"step", "work"} => run[r].todo # {}
    /\ wiping \in 0..3 /\ faults \in 0..MaxFaults /\ removals \in 0..MaxRemovals
    /\ torn \in BOOLEAN /\ overlapped \in BOOLEAN

\* A game that counts as analysed has an analysis, unless it was removed
\* while a run was at work on it.
FlagIsBacked ==
    tables.game = "analyzed" => "summary" \in tables.rows \/ overlapped \/ wiping > 0 \/ torn

\* The steps without which a product is not written.
Makers(p) ==
    CASE p = "eco"   -> {"eco"}
      [] p = "moves" -> {"stockfish", "move_quality"}
      [] OTHER       -> {p, "stockfish", "move_quality"}

\* An analysis lacks a product only if a step that makes it is recorded as
\* completed, so that later runs skip it; or half a write or half a wipe was
\* committed, or the game was removed under a run.
HoleIsRecorded ==
    "summary" \in tables.rows =>
        \A p \in Products \ (tables.rows \cup {"summary"}) :
            Makers(p) \cap tables.done # {} \/ torn \/ overlapped \/ wiping > 0

\* If analyses keep being asked for, a game is analysed, or at least has an
\* analysis, or is gone: no mixture of recorded steps makes runs fail for ever.
IsSettled ==
    tables.game = "new" ~> (tables.game # "new" \/ "summary" \in tables.rows)

\* A backfill of phases that ends well leaves no move without its phase.
BackfillFills ==
    [][\A r \in Runs :
         (run[r].by = "phase" /\ run[r].ok /\ Record(r))
            => ("moves" \in tables'.rows => "phase" \in tables'.rows)]_vars
=============================================================================
