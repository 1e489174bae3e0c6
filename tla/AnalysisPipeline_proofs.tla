---------------------- MODULE AnalysisPipeline_proofs ----------------------
(***************************************************************************)
(* What is proved of AnalysisPipeline, for any runs, requests, orders of   *)
(* the steps and numbers of faults and removals.                           *)
(*                                                                         *)
(* Neither statement is inductive.  What a run skips it skips because it   *)
(* was recorded, and nothing takes a record back but a removal: so the     *)
(* steps a run has behind it either ran or are recorded (RunsAreSound).    *)
(* A step runs only behind those it depends on; hence a product that the   *)
(* write leaves out has a recorded maker, and a run that ends well, for    *)
(* somebody who asks for the write, has a summary behind it.  A write that *)
(* was left open keeps the database as it was when it began (LeftIsSound), *)
(* and a wipe that meets no run meets no open write (WipeIsAlone).         *)
(***************************************************************************)
EXTENDS AnalysisPipeline, TLAPS

Excused == torn \/ overlapped

\* Of a version of the tables: its holes are recorded, its flag and its record
\* of the write have an analysis behind them.
Explained(t) ==
    "summary" \in t.rows =>
        \A p \in Products \ (t.rows \cup {"summary"}) : Makers(p) \cap t.done # {}
Sound(t) ==
    /\ Explained(t)
    /\ t.game = "analyzed" \/ "write" \in t.done => "summary" \in t.rows

TablesAreSound == Excused \/ wiping > 0 \/ Sound(tables)

WipeIsAlone ==
    wiping > 0 /\ ~Excused =>
        /\ \A r \in Runs : ~AtWork(r)
        /\ cut = {} /\ tables.done = {}
        /\ wiping >= 2 => tables.rows \subseteq {"summary", "eco"}
        /\ wiping = 3 => tables.rows = {}

\* A version of the tables that is sound and takes nothing back.
Follows(t) ==
    /\ Sound(t)
    /\ tables.done \subseteq t.done
    /\ "summary" \in tables.rows => "summary" \in t.rows

LeftIsSound == \A left \in cut : left.half \/ Excused \/ Follows(left.tables)

\* Of a run: what it has behind it, whatever happened, and what that is worth.
InOrder(r) ==
    /\ run[r].order \in Orders
    /\ run[r].todo \subseteq Selected(run[r].steps)
    /\ run[r].pc = "enter" => run[r].todo # {}
    /\ \A s \in run[r].ran : DependsOn[s] \subseteq Results(r)
    /\ run[r].pc = "work" => \A s \in First(r) : DependsOn[s] \subseteq Results(r)
    /\ run[r].pc \in {"record", "mark"} /\ run[r].ok => run[r].todo = {}
    /\ run[r].pc = "mark" => run[r].ok /\ run[r].by \in Marks
    /\ run[r].by \in Marks => "write" \in run[r].steps
Behind(r) ==
    /\ Results(r) \subseteq run[r].ran \cup tables.done
    /\ "write" \in run[r].ran => "summary" \in tables.rows
RunsAreSound ==
    \A r \in Runs : AtWork(r) => InOrder(r) /\ (Excused \/ Behind(r))

IInv == TypeOK /\ TablesAreSound /\ WipeIsAlone /\ LeftIsSound /\ RunsAreSound

-----------------------------------------------------------------------------
(* The tables a write leaves.                                               *)

\* Selected adds steps, and only steps.
LEMMA SelectedSteps ==
  ASSUME NEW S \in SUBSET Steps
  PROVE  S \subseteq Selected(S) /\ Selected(S) \subseteq Steps
  BY DEF Selected, DependsOn, Steps

\* A step of a run leads all that are to do; no other one does.
LEMMA OneIsFirst ==
  ASSUME TypeOK, RunsAreSound, NEW r \in Runs, AtWork(r),
         NEW s \in First(r), NEW t \in First(r)
  PROVE  s = t /\ s \in Steps /\ s \in run[r].todo
<1>1. run[r].order \in Orders /\ run[r].todo \subseteq Steps
  BY DEF TypeOK, States, RunsAreSound, InOrder
<1>2. /\ run[r].order \in [Steps -> Nat]
      /\ \A u, v \in Steps : run[r].order[u] = run[r].order[v] => u = v
  BY <1>1, OrdersAssumption
<1>3. s \in run[r].todo /\ t \in run[r].todo
  BY DEF First
<1>4. run[r].order[s] <= run[r].order[t] /\ run[r].order[t] <= run[r].order[s]
  BY <1>3 DEF First
<1>5. run[r].order[s] \in Nat /\ run[r].order[t] \in Nat
  BY <1>1, <1>2, <1>3
<1>6. run[r].order[s] = run[r].order[t]
  BY <1>4, <1>5
<1> QED  BY <1>1, <1>2, <1>3, <1>6

\* The write of a run that has all it depends on behind it, done or recorded,
\* explains each product it lacks.
LEMMA WriteIsExplained ==
  ASSUME TypeOK, NEW r \in Runs, Behind(r),
         DependsOn["write"] \subseteq Results(r),
         \A s \in run[r].ran : DependsOn[s] \subseteq Results(r)
  PROVE  Sound(Rewritten(r))
<1> DEFINE ran  == run[r].ran
           done == tables.done
           rows == Written(r)
<1>1. tables = [game |-> tables.game, rows |-> tables.rows, done |-> done]
  BY DEF TypeOK, Tables
<1>2. Rewritten(r).rows = rows /\ Rewritten(r).done = done /\ Rewritten(r).game = tables.game
  BY <1>1 DEF Rewritten
<1>3. {"move_quality", "phase", "eco", "tactics"} \subseteq ran \cup done
  BY DEF Behind, DependsOn, Steps
<1>4. "move_quality" \in ran => "stockfish" \in ran \cup done
  BY DEF Behind, DependsOn, Steps
<1>5. /\ "summary" \in rows /\ ("eco" \in ran => "eco" \in rows)
      /\ {"stockfish", "move_quality"} \subseteq ran =>
           /\ "moves" \in rows /\ ("phase" \in ran => "phase" \in rows)
           /\ "tactics" \in ran => "tactics" \in rows
  BY DEF Written
<1>6. ASSUME NEW p \in Products \ (rows \cup {"summary"})
      PROVE  Makers(p) \cap done # {}
  <2>1. CASE p = "eco"
    BY <1>3, <1>5, <1>6, <2>1 DEF Makers
  <2>2. CASE p # "eco" /\ ~({"stockfish", "move_quality"} \subseteq ran)
    <3>1. "stockfish" \in done \/ "move_quality" \in done
      BY <1>3, <1>4, <2>2
    <3>2. {"stockfish", "move_quality"} \subseteq Makers(p)
      BY <2>2 DEF Makers
    <3> QED  BY <3>1, <3>2
  <2>3. CASE p # "eco" /\ {"stockfish", "move_quality"} \subseteq ran
    <3>1. p \in {"phase", "tactics"}
      BY <1>5, <1>6, <2>3 DEF Products
    <3>2. p \in done /\ p \in Makers(p)
      BY <1>3, <1>5, <1>6, <2>3, <3>1 DEF Makers
    <3> QED  BY <3>2
  <2> QED  BY <2>1, <2>2, <2>3
<1>7. Explained(Rewritten(r))
  BY <1>2, <1>6 DEF Explained
<1> QED  BY <1>2, <1>5, <1>7 DEF Sound

-----------------------------------------------------------------------------
(* The initial state, and the steps that only move a run.                   *)

LEMMA InitIInv == Init => IInv
<1> SUFFICES ASSUME Init PROVE IInv
  OBVIOUS
<1>1. TypeOK
  <2>1. Away \in States /\ Away.ran = {} /\ Away.pc = "over"
    BY DEF Away, States, Sources
  <2>2. run \in [Runs -> States] /\ \A r \in Runs : run[r].ran = {} /\ run[r].pc = "over"
    BY <2>1 DEF Init
  <2>3. faults \in 0..MaxFaults /\ removals \in 0..MaxRemovals /\ wiping \in 0..3
    BY BoundsAssumption, SMT DEF Init
  <2>4. tables \in Tables /\ cut = {} /\ torn = FALSE /\ overlapped = FALSE
    BY DEF Init, Tables
  <2> QED  BY <2>2, <2>3, <2>4 DEF TypeOK
<1>2. TablesAreSound
  BY DEF Init, TablesAreSound, Sound, Explained
<1>3. WipeIsAlone /\ LeftIsSound
  BY SMT DEF Init, WipeIsAlone, LeftIsSound
<1>4. RunsAreSound
  BY DEF Init, RunsAreSound, AtWork, Away
<1> QED  BY <1>1, <1>2, <1>3, <1>4 DEF IInv

\* A step that leaves the tables, the open write and the wipe as they are needs
\* only what it does to its run.
LEMMA RunStepKeepsIInv ==
  ASSUME IInv, UNCHANGED <<tables, cut, wiping, removals, history>>,
         faults' \in 0..MaxFaults,
         NEW r \in Runs, AtWork(r), NEW new \in States, run' = [run EXCEPT ![r] = new],
         new.ran \subseteq Selected(new.steps) \ new.todo,
         new.pc \in {"step", "work"} => new.todo # {},
         AtWork(r)' => (InOrder(r) /\ (Excused \/ Behind(r)))'
  PROVE  IInv'
<1>1. TypeOK'
  BY DEF IInv, TypeOK, history
<1>2. TablesAreSound' /\ LeftIsSound'
  BY DEF IInv, TablesAreSound, LeftIsSound, Follows, Sound, Explained, Excused, history
<1>3. WipeIsAlone'
  BY DEF IInv, WipeIsAlone, Excused, AtWork, history
<1>4. ASSUME NEW q \in Runs, AtWork(q)'
      PROVE  (InOrder(q) /\ (Excused \/ Behind(q)))'
  <2>1. CASE q = r
    BY <1>4, <2>1
  <2>2. CASE q # r
    BY <1>4, <2>2 DEF IInv, TypeOK, RunsAreSound, InOrder, Behind, Excused, Results, First, AtWork, history
  <2> QED  BY <2>1, <2>2
<1>5. RunsAreSound'
  BY <1>4 DEF RunsAreSound
<1> QED  BY <1>1, <1>2, <1>3, <1>5 DEF IInv

LEMMA BeginKeepsIInv ==
  ASSUME IInv, NEW r \in Runs, NEW q \in Requests[r], Begin(r, q)
  PROVE  IInv'
<1>1. PICK order \in Orders :
        run' = [run EXCEPT ![r] =
            [by |-> q.by, steps |-> q.steps, force |-> q.force, pc |-> "enter", order |-> order,
             todo |-> Selected(q.steps), ran |-> {}, ok |-> TRUE]]
  BY DEF Begin
<1> DEFINE new == [by |-> q.by, steps |-> q.steps, force |-> q.force, pc |-> "enter", order |-> order,
                   todo |-> Selected(q.steps), ran |-> {}, ok |-> TRUE]
<1>2. /\ q \in [by: Sources, steps: SUBSET Steps, force: BOOLEAN]
      /\ q.by \in Marks => "write" \in q.steps
  BY RequestsAssumption
<1>3. new \in States
  BY <1>1, <1>2, OrdersAssumption, SelectedSteps DEF States
<1>4. run' = [run EXCEPT ![r] = new] /\ UNCHANGED <<tables, cut, wiping, faults, removals, torn>>
  BY <1>1 DEF Begin
<1>5. overlapped' = (overlapped \/ wiping > 0)
  BY DEF Begin
<1>6. TypeOK'
  BY <1>3, <1>4, <1>5 DEF IInv, TypeOK
<1>7. TablesAreSound' /\ LeftIsSound'
  BY <1>4, <1>5 DEF IInv, TablesAreSound, LeftIsSound, Follows, Sound, Explained, Excused
<1>8. WipeIsAlone'
  BY <1>4, <1>5 DEF WipeIsAlone, Excused
<1>9. ASSUME NEW p \in Runs, AtWork(p)'
      PROVE  (InOrder(p) /\ (Excused \/ Behind(p)))'
  <2>1. CASE p = r
    <3>1. run'[r] = new
      BY <1>3, <1>4 DEF IInv, TypeOK
    <3>2. Selected(q.steps) # {}
      BY <1>2, RequestsAssumption, SelectedSteps
    <3> QED  BY <1>2, <2>1, <3>1, <3>2 DEF InOrder, Behind, Results
  <2>2. CASE p # r
    BY <1>4, <1>5, <1>9, <2>2 DEF IInv, TypeOK, RunsAreSound, InOrder, Behind, Excused, Results, First, AtWork
  <2> QED  BY <2>1, <2>2
<1>10. RunsAreSound'
  BY <1>9 DEF RunsAreSound
<1> QED  BY <1>6, <1>7, <1>8, <1>10 DEF IInv

\* A run that ends leaves its slot as it was at first.
LEMMA AwayIsDone ==
  ASSUME TypeOK, NEW r \in Runs, Ends(r)
  PROVE  /\ Away \in States /\ Away.ran = {} /\ Away.pc = "over"
         /\ run' = [run EXCEPT ![r] = Away] /\ run'[r] = Away
  BY DEF TypeOK, Ends, Away, States, Sources

LEMMA EndKeepsIInv ==
  ASSUME IInv, UNCHANGED <<tables, cut, wiping, removals, history>>,
         faults' \in 0..MaxFaults, NEW r \in Runs, AtWork(r), Ends(r)
  PROVE  IInv'
<1>1. /\ Away \in States /\ Away.ran = {} /\ Away.pc = "over"
      /\ run' = [run EXCEPT ![r] = Away] /\ run'[r] = Away
  BY AwayIsDone DEF IInv
<1>2. ~AtWork(r)'
  BY <1>1 DEF AtWork
<1> QED  BY <1>1, <1>2, RunStepKeepsIInv

\* A run that is at work and not excused works on sound tables.
LEMMA WorkIsOnSoundTables ==
  ASSUME IInv, ~Excused, NEW r \in Runs, AtWork(r)
  PROVE  /\ ~(wiping > 0) /\ Sound(tables)
         /\ InOrder(r) /\ Behind(r)
  BY DEF IInv, WipeIsAlone, TablesAreSound, RunsAreSound

LEMMA EnterKeepsIInv ==
  ASSUME IInv, NEW r \in Runs, Enter(r)
  PROVE  IInv'
<1>1. AtWork(r) /\ run[r].pc = "enter" /\ UNCHANGED <<tables, cut, wiping, faults, removals, history>>
  BY DEF Enter, AtWork, environment, history
<1>2. faults' \in 0..MaxFaults
  BY <1>1 DEF IInv, TypeOK
<1>3. CASE Ends(r)
  BY <1>1, <1>2, <1>3, EndKeepsIInv
<1>4. CASE Goes(r, "step")
  <2> DEFINE new == [run[r] EXCEPT !.pc = "step"]
  <2>1. run \in [Runs -> States] /\ run[r] \in States /\ run[r].ran \subseteq Selected(run[r].steps) \ run[r].todo
    BY DEF IInv, TypeOK
  <2>2. InOrder(r) /\ (Excused \/ Behind(r))
    BY <1>1 DEF IInv, RunsAreSound
  <2>3. new \in States /\ run' = [run EXCEPT ![r] = new] /\ run'[r] = new
    BY <1>4, <2>1 DEF Goes, States
  <2>4. /\ new.pc = "step" /\ new.todo = run[r].todo /\ new.ran = run[r].ran /\ new.steps = run[r].steps
        /\ new.order = run[r].order /\ new.by = run[r].by /\ new.ok = run[r].ok
    BY <2>1 DEF States
  <2>5. new.todo # {}
    BY <1>1, <2>2, <2>4 DEF InOrder
  <2>6. InOrder(r)'
    BY <2>2, <2>3, <2>4 DEF InOrder, Results
  <2>7. (Excused \/ Behind(r))'
    BY <1>1, <2>2, <2>3, <2>4 DEF Behind, Results, Excused, history
  <2> HIDE DEF new
  <2> QED  BY <1>1, <1>2, <2>1, <2>3, <2>4, <2>5, <2>6, <2>7, RunStepKeepsIInv
<1> QED  BY <1>3, <1>4 DEF Enter

\* What it does to a run that its step s is over, with s among those that ran
\* or recorded: it has s behind it as well, and goes on, or is done.
LEMMA AdvanceKeepsOrder ==
  ASSUME IInv, NEW r \in Runs, AtWork(r), NEW s \in First(r), NEW ran,
         ran = run[r].ran \/ (ran = run[r].ran \cup {s} /\ DependsOn[s] \subseteq Results(r)),
         Advance(r, s, ran)
  PROVE  /\ s \in Steps
         /\ run' \in [Runs -> States] /\ \A q \in Runs \ {r} : run'[q] = run[q]
         /\ run'[r].ran = ran /\ run'[r].ran \subseteq Selected(run'[r].steps) \ run'[r].todo
         /\ run'[r].pc \in {"step", "work"} => run'[r].todo # {}
         /\ InOrder(r)'
         /\ Results(r)' \subseteq Results(r) \cup {s}
<1> DEFINE rest == run[r].todo \ {s}
           next == IF rest = {} THEN "record" ELSE "step"
           new  == [run[r] EXCEPT !.todo = rest, !.ran = ran, !.pc = next]
<1>1. /\ run \in [Runs -> States] /\ run[r] \in States
      /\ run[r].ran \subseteq Selected(run[r].steps) \ run[r].todo
  BY DEF IInv, TypeOK
<1>2. s \in run[r].todo /\ s \in Steps
  BY <1>1 DEF First, States
<1>3. InOrder(r)
  BY DEF IInv, RunsAreSound
<1>4. /\ new \in States /\ run' = [run EXCEPT ![r] = new] /\ run'[r] = new
  BY <1>1, <1>2 DEF Advance, States
<1>5. /\ new.pc = next /\ new.todo = rest /\ new.ran = ran /\ new.steps = run[r].steps
      /\ new.order = run[r].order /\ new.by = run[r].by /\ new.ok = run[r].ok
  BY <1>1 DEF States
<1> HIDE DEF new
<1>6. run' \in [Runs -> States] /\ \A q \in Runs \ {r} : run'[q] = run[q]
  BY <1>1, <1>4
<1>7. new.pc \in {"step", "work"} => new.todo # {}
  BY <1>5
<1>8. Results(r)' = Selected(run[r].steps) \ rest
  BY <1>4, <1>5 DEF Results
<1>9. Results(r) \subseteq Results(r)' /\ Results(r)' \subseteq Results(r) \cup {s}
  BY <1>8 DEF Results
<1>10. new.ran \subseteq Selected(new.steps) \ new.todo
  <2>1. s \in Selected(run[r].steps)
    BY <1>2, <1>3 DEF InOrder
  <2> QED  BY <1>1, <1>5, <2>1
<1>11. InOrder(r)'
  BY <1>3, <1>4, <1>5, <1>9 DEF InOrder
<1> QED  BY <1>2, <1>4, <1>5, <1>6, <1>7, <1>9, <1>10, <1>11

\* A step that stops stays with what ran before.
LEMMA StopKeepsIInv ==
  ASSUME IInv, UNCHANGED <<tables, cut, wiping, removals, history>>,
         faults' \in 0..MaxFaults, NEW r \in Runs, AtWork(r), Stop(r)
  PROVE  IInv'
<1> DEFINE new == [run[r] EXCEPT !.pc = "record", !.ok = FALSE]
<1>1. run \in [Runs -> States] /\ run[r] \in States /\ run[r].ran \subseteq Selected(run[r].steps) \ run[r].todo
  BY DEF IInv, TypeOK
<1>2. InOrder(r) /\ (Excused \/ Behind(r))
  BY DEF IInv, RunsAreSound
<1>3. new \in States /\ run' = [run EXCEPT ![r] = new] /\ run'[r] = new
  BY <1>1 DEF Stop, States
<1>4. /\ new.pc = "record" /\ new.todo = run[r].todo /\ new.ran = run[r].ran /\ new.steps = run[r].steps
      /\ new.order = run[r].order /\ new.by = run[r].by /\ new.ok = FALSE
  BY <1>1 DEF States
<1> HIDE DEF new
<1>5. InOrder(r)'
  BY <1>2, <1>3, <1>4 DEF InOrder, Results
<1>6. (Excused \/ Behind(r))'
  BY <1>2, <1>3, <1>4 DEF Behind, Results, Excused, history
<1> QED  BY <1>1, <1>3, <1>4, <1>5, <1>6, RunStepKeepsIInv

LEMMA StepKeepsIInv ==
  ASSUME IInv, NEW r \in Runs, Step(r)
  PROVE  IInv'
<1>1. /\ AtWork(r) /\ run[r].pc = "step"
      /\ UNCHANGED <<tables, cut, wiping, faults, removals, history>>
  BY DEF Step, AtWork, environment, history
<1>2. faults' \in 0..MaxFaults
  BY <1>1 DEF IInv, TypeOK
<1>3. PICK s \in First(r) :
         LET completed == ~run[r].force /\ StepCompleted(s)
         IN  \/ completed /\ Advance(r, s, run[r].ran)
             \/ ~completed /\ ~(DependsOn[s] \subseteq Results(r)) /\ Stop(r)
             \/ /\ ~completed /\ DependsOn[s] \subseteq Results(r)
                /\ IF s \in Pure THEN Advance(r, s, run[r].ran \cup {s}) ELSE Goes(r, "work")
  BY DEF Step
<1>4. InOrder(r) /\ (Excused \/ Behind(r))
  BY <1>1 DEF IInv, RunsAreSound
<1>5. ASSUME NEW ran, Advance(r, s, ran),
             \/ ran = run[r].ran /\ StepCompleted(s)
             \/ ran = run[r].ran \cup {s} /\ DependsOn[s] \subseteq Results(r) /\ s \in Pure
      PROVE  IInv'
  <2>1. /\ run' \in [Runs -> States] /\ \A q \in Runs \ {r} : run'[q] = run[q]
        /\ run'[r].ran = ran /\ run'[r].ran \subseteq Selected(run'[r].steps) \ run'[r].todo
        /\ run'[r].pc \in {"step", "work"} => run'[r].todo # {}
        /\ InOrder(r)'
        /\ Results(r)' \subseteq Results(r) \cup {s}
    BY <1>1, <1>5, AdvanceKeepsOrder
  <2>2. (Excused \/ Behind(r))'
    <3>1. s \in ran \/ s \in tables.done
      BY <1>5 DEF StepCompleted
    <3>2. "write" \in ran => "write" \in run[r].ran
      BY <1>5 DEF Pure
    <3> QED  BY <1>1, <1>4, <1>5, <2>1, <3>1, <3>2 DEF Behind, Excused, history
  <2>3. run' = [run EXCEPT ![r] = run'[r]] /\ run'[r] \in States
    BY <2>1 DEF IInv, TypeOK
  <2> QED  BY <1>1, <1>2, <2>1, <2>2, <2>3, RunStepKeepsIInv
<1>6. CASE Goes(r, "work") /\ DependsOn[s] \subseteq Results(r)
  <2> DEFINE new == [run[r] EXCEPT !.pc = "work"]
  <2>1. /\ run \in [Runs -> States] /\ run[r] \in States
        /\ run[r].ran \subseteq Selected(run[r].steps) \ run[r].todo /\ run[r].todo # {}
    BY <1>1 DEF IInv, TypeOK
  <2>2. new \in States /\ run' = [run EXCEPT ![r] = new] /\ run'[r] = new
    BY <1>6, <2>1 DEF Goes, States
  <2>3. /\ new.pc = "work" /\ new.todo = run[r].todo /\ new.ran = run[r].ran /\ new.steps = run[r].steps
        /\ new.order = run[r].order /\ new.by = run[r].by /\ new.ok = run[r].ok
    BY <2>1 DEF States
  <2> HIDE DEF new
  <2>4. First(r)' = First(r) /\ Results(r)' = Results(r)
    BY <2>2, <2>3 DEF First, Results
  <2>5. \A t \in First(r) : t = s
    BY <1>1, OneIsFirst DEF IInv
  <2>6. InOrder(r)'
    BY <1>4, <1>6, <2>2, <2>3, <2>4, <2>5 DEF InOrder
  <2>7. (Excused \/ Behind(r))'
    BY <1>1, <1>4, <2>2, <2>3, <2>4 DEF Behind, Excused, history
  <2> QED  BY <1>1, <1>2, <2>1, <2>2, <2>3, <2>6, <2>7, RunStepKeepsIInv
<1>7. CASE Stop(r)
  BY <1>1, <1>2, <1>7, StopKeepsIInv
<1>8. \/ \E ran : /\ Advance(r, s, ran)
                 /\ \/ ran = run[r].ran /\ StepCompleted(s)
                    \/ ran = run[r].ran \cup {s} /\ DependsOn[s] \subseteq Results(r) /\ s \in Pure
      \/ Goes(r, "work") /\ DependsOn[s] \subseteq Results(r)
      \/ Stop(r)
  BY <1>3
<1> QED  BY <1>5, <1>6, <1>7, <1>8

LEMMA RaisesKeepsIInv ==
  ASSUME IInv, NEW r \in Runs, Raises(r)
  PROVE  IInv'
<1>1. AtWork(r) /\ UNCHANGED <<tables, cut, wiping, removals, history>>
  BY DEF Raises
<1>2. faults' \in 0..MaxFaults
  <2>1. faults \in 0..MaxFaults
    BY DEF IInv, TypeOK
  <2>2. faults' = faults \/ (faults < MaxFaults /\ faults' = faults + 1)
    BY DEF Raises
  <2> QED  BY <2>1, <2>2, BoundsAssumption
<1>3. Stop(r) \/ Ends(r)
  BY DEF Raises
<1> QED  BY <1>1, <1>2, <1>3, StopKeepsIInv, EndKeepsIInv

-----------------------------------------------------------------------------
(* The steps that commit.                                                   *)

\* What the runs at work may commit follows what is there.
LEMMA CommitsFollow ==
  ASSUME IInv, NEW r \in Runs, AtWork(r)
  PROVE  /\ Classified \in Tables /\ (Excused \/ Follows(Classified))
         /\ Rewritten(r) \in Tables
         /\ DependsOn["write"] \subseteq Results(r) => Excused \/ Follows(Rewritten(r))
         /\ Recorded(r) \in Tables /\ (Excused \/ Follows(Recorded(r)))
         /\ Flagged \in Tables
         /\ run[r].pc = "mark" => Excused \/ Follows(Flagged)
<1>1. /\ tables \in Tables /\ run[r] \in States
      /\ tables = [game |-> tables.game, rows |-> tables.rows, done |-> tables.done]
  BY DEF IInv, TypeOK, Tables
<1>2. ~Excused => Sound(tables) /\ InOrder(r) /\ Behind(r)
  BY WorkIsOnSoundTables
<1>3. Classified \in Tables /\ (Excused \/ Follows(Classified))
  <2>1. Classified \in Tables
    BY <1>1 DEF Classified, Tables, Products
  <2>2. /\ Classified.game = tables.game /\ Classified.done = tables.done
        /\ tables.rows \subseteq Classified.rows
        /\ "summary" \in Classified.rows => "summary" \in tables.rows
    BY <1>1 DEF Classified
  <2> QED  BY <1>2, <2>1, <2>2 DEF Follows, Sound, Explained
<1>4. Rewritten(r) \in Tables
  <2>1. Written(r) \subseteq Products
    BY DEF Written, Products
  <2> QED  BY <1>1, <2>1 DEF Rewritten, Tables
<1>5. ASSUME DependsOn["write"] \subseteq Results(r)
      PROVE  Excused \/ Follows(Rewritten(r))
  <2>1. Rewritten(r).done = tables.done /\ "summary" \in Rewritten(r).rows
    BY <1>1 DEF Rewritten, Written
  <2>2. ASSUME ~Excused PROVE Sound(Rewritten(r))
    BY <1>2, <1>5, <2>2, WriteIsExplained DEF IInv, InOrder
  <2> QED  BY <2>1, <2>2 DEF Follows
<1>6. Recorded(r) \in Tables /\ (Excused \/ Follows(Recorded(r)))
  <2>1. Recorded(r) \in Tables
    BY <1>1 DEF Recorded, Tables, States
  <2>2. /\ Recorded(r).game = tables.game /\ Recorded(r).rows = tables.rows
        /\ Recorded(r).done = tables.done \cup run[r].ran
    BY <1>1 DEF Recorded
  <2>3. ASSUME Sound(tables) PROVE Explained(Recorded(r))
    BY <2>2, <2>3 DEF Sound, Explained
  <2> QED  BY <1>2, <2>1, <2>2, <2>3 DEF Follows, Sound, Behind
<1>7. Flagged \in Tables
  BY <1>1 DEF Flagged, Tables
<1>8. ASSUME run[r].pc = "mark"
      PROVE  Excused \/ Follows(Flagged)
  <2>1. Flagged.rows = tables.rows /\ Flagged.done = tables.done
    BY <1>1 DEF Flagged
  <2>2. ASSUME ~Excused PROVE "summary" \in tables.rows
    <3>1. run[r].steps \subseteq Selected(run[r].steps)
      BY <1>1, SelectedSteps DEF States
    <3>2. "write" \in Results(r)
      BY <1>2, <1>8, <2>2, <3>1 DEF InOrder, Results
    <3> QED  BY <1>2, <2>2, <3>2 DEF Behind, Sound
  <2> QED  BY <1>2, <2>1, <2>2 DEF Follows, Sound, Explained
<1> QED  BY <1>3, <1>4, <1>5, <1>6, <1>7, <1>8

\* A commit that follows what is there needs, besides, only what it does to
\* the run that commits.
LEMMA CommitKeepsIInv ==
  ASSUME IInv, UNCHANGED <<cut, environment>>, cut = {}, tables' \in Tables,
         run' \in [Runs -> States],
         Excused \/ Follows(tables'), ~(wiping > 0) \/ Excused,
         NEW r \in Runs, \A q \in Runs \ {r} : run'[q] = run[q],
         run'[r].ran \subseteq Selected(run'[r].steps) \ run'[r].todo,
         run'[r].pc \in {"step", "work"} => run'[r].todo # {},
         AtWork(r)' => (InOrder(r) /\ (Excused \/ Behind(r)))'
  PROVE  IInv'
<1>1. TypeOK'
  <2>1. ASSUME NEW q \in Runs
        PROVE  /\ run'[q].ran \subseteq Selected(run'[q].steps) \ run'[q].todo
               /\ run'[q].pc \in {"step", "work"} => run'[q].todo # {}
    BY DEF IInv, TypeOK
  <2> QED  BY <2>1 DEF IInv, TypeOK, environment
<1>2. TablesAreSound'
  BY DEF TablesAreSound, Follows, Sound, Explained, Excused, environment
<1>3. WipeIsAlone' /\ LeftIsSound'
  BY DEF WipeIsAlone, LeftIsSound, Excused, environment
<1>4. ASSUME NEW q \in Runs, AtWork(q)'
      PROVE  (InOrder(q) /\ (Excused \/ Behind(q)))'
  <2>1. CASE q = r
    BY <1>4, <2>1
  <2>2. CASE q # r
    <3>1. run'[q] = run[q] /\ AtWork(q)
      BY <1>4, <2>2 DEF AtWork
    <3>2. InOrder(q) /\ (Excused \/ Behind(q))
      BY <3>1 DEF IInv, RunsAreSound
    <3>3. InOrder(q)'
      BY <3>1, <3>2 DEF InOrder, Results, First
    <3>4. (Excused \/ Behind(q))'
      BY <3>1, <3>2 DEF Behind, Results, Follows, Excused, environment
    <3> QED  BY <3>3, <3>4
  <2> QED  BY <2>1, <2>2
<1>5. RunsAreSound'
  BY <1>4 DEF RunsAreSound
<1> QED  BY <1>1, <1>2, <1>3, <1>5 DEF IInv

LEMMA WorkKeepsIInv ==
  ASSUME IInv, NEW r \in Runs, Work(r)
  PROVE  IInv'
<1>1. AtWork(r) /\ run[r].pc = "work" /\ UNCHANGED <<cut, environment>>
  BY DEF Work, AtWork
<1>2. PICK s \in First(r) :
         /\ CASE s = "eco"   -> Commit(Classified)
              [] s = "write" -> Commit(Rewritten(r))
              [] s = "traps" -> Commit(tables)
              [] OTHER       -> UNCHANGED tables
         /\ Advance(r, s, run[r].ran \cup {s})
  BY DEF Work
<1>3. /\ InOrder(r) /\ (Excused \/ Behind(r))
      /\ DependsOn[s] \subseteq Results(r)
  BY <1>1 DEF IInv, RunsAreSound, InOrder
<1>4. /\ s \in Steps
      /\ run' \in [Runs -> States] /\ \A q \in Runs \ {r} : run'[q] = run[q]
      /\ run'[r].ran = run[r].ran \cup {s}
      /\ run'[r].ran \subseteq Selected(run'[r].steps) \ run'[r].todo
      /\ run'[r].pc \in {"step", "work"} => run'[r].todo # {}
      /\ InOrder(r)'
      /\ Results(r)' \subseteq Results(r) \cup {s}
  BY <1>1, <1>2, <1>3, AdvanceKeepsOrder
<1>5. /\ tables' \in Tables /\ (Excused \/ Follows(tables'))
      /\ s = "write" => "summary" \in tables'.rows
      /\ tables' = tables \/ cut = {}
  <2>1. CASE s = "eco"
    BY <1>1, <1>2, <2>1, CommitsFollow DEF Commit
  <2>2. CASE s = "write"
    <3>1. tables' = Rewritten(r) /\ cut = {}
      BY <1>2, <2>2 DEF Commit
    <3>2. "summary" \in Rewritten(r).rows
      BY DEF IInv, TypeOK, Tables, Rewritten, Written
    <3> QED  BY <1>1, <1>3, <2>2, <3>1, <3>2, CommitsFollow
  <2>3. CASE s \notin {"eco", "write"}
    <3>1. tables' = tables
      BY <1>2, <2>3 DEF Commit
    <3>2. ~Excused => Sound(tables)
      BY <1>1, WorkIsOnSoundTables
    <3> QED  BY <2>3, <3>1, <3>2 DEF IInv, TypeOK, Follows
  <2> QED  BY <2>1, <2>2, <2>3
<1>6. (Excused \/ Behind(r))'
  BY <1>1, <1>3, <1>4, <1>5 DEF Behind, Follows, Excused, environment
<1>7. ~(wiping > 0) \/ Excused
  BY <1>1, WorkIsOnSoundTables
<1>8. CASE tables' = tables
  <2>1. run' = [run EXCEPT ![r] = run'[r]] /\ run'[r] \in States
    BY <1>4 DEF IInv, TypeOK
  <2>2. faults' \in 0..MaxFaults
    BY <1>1 DEF IInv, TypeOK, environment
  <2> QED  BY <1>1, <1>4, <1>6, <1>8, <2>1, <2>2, RunStepKeepsIInv DEF environment, history
<1>9. CASE cut = {}
  BY <1>1, <1>4, <1>5, <1>6, <1>7, <1>9, CommitKeepsIInv
<1> QED  BY <1>5, <1>8, <1>9

LEMMA RecordKeepsIInv ==
  ASSUME IInv, NEW r \in Runs, Record(r)
  PROVE  IInv'
<1>1. AtWork(r) /\ run[r].pc = "record" /\ UNCHANGED <<cut, environment>>
  BY DEF Record, AtWork
<1>2. /\ run \in [Runs -> States] /\ run[r] \in States
      /\ run[r].ran \subseteq Selected(run[r].steps) \ run[r].todo
  BY DEF IInv, TypeOK
<1>3. /\ InOrder(r) /\ (Excused \/ Behind(r)) /\ (Excused \/ Sound(tables))
  BY <1>1, WorkIsOnSoundTables DEF IInv, RunsAreSound
<1>4. /\ tables' \in Tables /\ (Excused \/ Follows(tables'))
      /\ tables' = tables \/ cut = {}
  <2>1. CASE run[r].ran = {}
    BY <1>3, <2>1 DEF Record, IInv, TypeOK, Follows
  <2>2. CASE run[r].ran # {}
    BY <1>1, <2>2, CommitsFollow DEF Record, Commit
  <2> QED  BY <2>1, <2>2
<1>5. /\ run' \in [Runs -> States] /\ run'[r] \in States /\ \A q \in Runs \ {r} : run'[q] = run[q]
      /\ run'[r].ran \subseteq Selected(run'[r].steps) \ run'[r].todo
      /\ run'[r].pc \notin {"step", "work"}
      /\ AtWork(r)' => InOrder(r)' /\ (Excused \/ Behind(r))'
  <2>1. CASE run[r].ok /\ run[r].by \in Marks
    <3> DEFINE new == [run[r] EXCEPT !.pc = "mark"]
    <3>1. new \in States /\ run' = [run EXCEPT ![r] = new] /\ run'[r] = new
      BY <1>2, <2>1 DEF Record, Goes, States
    <3>2. /\ new.pc = "mark" /\ new.todo = run[r].todo /\ new.ran = run[r].ran
          /\ new.steps = run[r].steps /\ new.order = run[r].order /\ new.by = run[r].by
          /\ new.ok = run[r].ok
      BY <1>2 DEF States
    <3> HIDE DEF new
    <3>3. InOrder(r)'
      BY <1>1, <1>3, <2>1, <3>1, <3>2 DEF InOrder, Results
    <3>4. (Excused \/ Behind(r))'
      BY <1>1, <1>3, <1>4, <3>1, <3>2 DEF Behind, Results, Follows, Excused, environment
    <3> QED  BY <1>2, <3>1, <3>2, <3>3, <3>4
  <2>2. CASE ~(run[r].ok /\ run[r].by \in Marks)
    <3>1. Ends(r)
      BY <2>2 DEF Record
    <3>2. /\ Away \in States /\ Away.ran = {} /\ Away.pc = "over"
          /\ run' = [run EXCEPT ![r] = Away] /\ run'[r] = Away
      BY <3>1, AwayIsDone DEF IInv
    <3> QED  BY <1>2, <3>2 DEF AtWork
  <2> QED  BY <2>1, <2>2
<1>6. ~(wiping > 0) \/ Excused
  BY <1>1, WorkIsOnSoundTables
<1>7. CASE tables' = tables
  <2>1. run' = [run EXCEPT ![r] = run'[r]]
    BY <1>2, <1>5
  <2>2. faults' \in 0..MaxFaults
    BY <1>1 DEF IInv, TypeOK, environment
  <2> QED  BY <1>1, <1>5, <1>7, <2>1, <2>2, RunStepKeepsIInv DEF environment, history
<1>8. CASE cut = {}
  BY <1>1, <1>4, <1>5, <1>6, <1>8, CommitKeepsIInv
<1> QED  BY <1>4, <1>7, <1>8

LEMMA MarkKeepsIInv ==
  ASSUME IInv, NEW r \in Runs, Mark(r)
  PROVE  IInv'
<1>1. /\ AtWork(r) /\ run[r].pc = "mark" /\ UNCHANGED <<cut, environment>>
      /\ cut = {} /\ tables' = Flagged /\ Ends(r)
  BY DEF Mark, AtWork, Commit
<1>2. /\ Away \in States /\ Away.ran = {} /\ Away.pc = "over"
      /\ run' = [run EXCEPT ![r] = Away] /\ run'[r] = Away
  BY <1>1, AwayIsDone DEF IInv
<1>3. tables' \in Tables /\ (Excused \/ Follows(tables'))
  BY <1>1, CommitsFollow
<1>4. ~(wiping > 0) \/ Excused
  BY <1>1, WorkIsOnSoundTables
<1>5. /\ run' \in [Runs -> States] /\ \A q \in Runs \ {r} : run'[q] = run[q]
      /\ ~AtWork(r)'
  BY <1>2 DEF IInv, TypeOK, AtWork
<1> QED  BY <1>1, <1>2, <1>3, <1>4, <1>5, CommitKeepsIInv

-----------------------------------------------------------------------------
(* Runs cut short, and what they leave open.                                *)

LEMMA FaultsAreBounded ==
  ASSUME IInv, faults' = faults \/ (faults < MaxFaults /\ faults' = faults + 1)
  PROVE  faults' \in 0..MaxFaults
<1>1. faults \in 0..MaxFaults
  BY DEF IInv, TypeOK
<1> QED  BY <1>1, BoundsAssumption

LEMMA TimeoutKeepsIInv ==
  ASSUME IInv, NEW r \in Runs, Timeout(r)
  PROVE  IInv'
<1>1. /\ AtWork(r) /\ Ends(r) /\ UNCHANGED <<tables, wiping, removals, torn, overlapped>>
      /\ UNCHANGED cut \/ (cut = {} /\ \E left \in LeftOpen(r) : cut' = {left})
  BY DEF Timeout, history
<1>2. faults' \in 0..MaxFaults
  BY FaultsAreBounded DEF Timeout
<1>3. CASE UNCHANGED cut
  BY <1>1, <1>2, <1>3, EndKeepsIInv DEF history
<1>4. CASE cut = {} /\ \E left \in LeftOpen(r) : cut' = {left}
  <2>1. PICK left \in LeftOpen(r) : cut' = {left}
    BY <1>4
  <2>2. InOrder(r) /\ (~Excused => ~(wiping > 0))
    BY <1>1, WorkIsOnSoundTables DEF IInv, RunsAreSound
  <2>3. Works(r, "write") => DependsOn["write"] \subseteq Results(r)
    BY <2>2 DEF Works, InOrder
  <2>4. /\ left \in [tables: Tables, half: BOOLEAN]
        /\ left.half \/ Excused \/ Follows(left.tables)
    <3>1. ASSUME NEW rows \in SUBSET Products
          PROVE  Half(rows) \in [tables: Tables, half: BOOLEAN] /\ Half(rows).half
      BY DEF Half, IInv, TypeOK, Tables
    <3>2. ASSUME NEW t \in Tables
          PROVE  Whole(t) \in [tables: Tables, half: BOOLEAN] /\ Whole(t).tables = t
      BY DEF Whole
    <3>0. ~(Works(r, "eco") /\ Works(r, "write"))
      BY <1>1, OneIsFirst DEF Works, IInv
    <3>3. CASE Works(r, "eco")
      <4>0. ~Works(r, "write") /\ run[r].pc # "record" /\ run[r].pc # "mark"
        BY <3>0, <3>3 DEF Works
      <4>1. left = Whole(Classified)
        BY <2>1, <3>3, <4>0 DEF LeftOpen
      <4> QED  BY <1>1, <3>2, <4>1, CommitsFollow
    <3>4. CASE Works(r, "write") /\ ~Works(r, "eco")
      <4> DEFINE replaced == {"summary"} \cup (run[r].ran \cap {"eco"})
                 moves == tables.rows \ {"summary", "eco"}
      <4>1. replaced \in SUBSET Products /\ replaced \cup moves \in SUBSET Products
        BY DEF IInv, TypeOK, Tables, Products
      <4>0. run[r].pc # "record" /\ run[r].pc # "mark"
        BY <3>4 DEF Works
      <4>2. left \in {Half(replaced \cup moves), Half(replaced), Whole(Rewritten(r))}
        BY <2>1, <3>4, <4>0 DEF LeftOpen
      <4> HIDE DEF replaced, moves
      <4>3. CASE left = Whole(Rewritten(r))
        BY <1>1, <2>3, <3>2, <3>4, <4>3, CommitsFollow
      <4>4. CASE left # Whole(Rewritten(r))
        BY <3>1, <4>1, <4>2, <4>4
      <4> QED  BY <4>3, <4>4
    <3>5. CASE ~Works(r, "eco") /\ ~Works(r, "write") /\ run[r].pc = "record"
      <4>1. left = Whole(Recorded(r))
        BY <2>1, <3>5 DEF LeftOpen
      <4> QED  BY <1>1, <3>2, <4>1, CommitsFollow
    <3>6. CASE ~Works(r, "eco") /\ ~Works(r, "write") /\ run[r].pc # "record"
      <4>1. left = Whole(Flagged) /\ run[r].pc = "mark"
        BY <2>1, <3>6 DEF LeftOpen
      <4> QED  BY <1>1, <3>2, <4>1, CommitsFollow
    <3> QED  BY <3>3, <3>4, <3>5, <3>6
  <2>5. /\ Away \in States /\ Away.ran = {} /\ Away.pc = "over"
        /\ run' = [run EXCEPT ![r] = Away] /\ run'[r] = Away
    BY <1>1, AwayIsDone DEF IInv
  <2>6. TypeOK'
    BY <1>1, <1>2, <2>1, <2>4, <2>5 DEF IInv, TypeOK
  <2>7. TablesAreSound'
    BY <1>1 DEF IInv, TablesAreSound, Excused, Sound, Explained
  <2>8. WipeIsAlone'
    BY <1>1, <2>2 DEF WipeIsAlone, Excused
  <2>9. LeftIsSound'
    BY <1>1, <2>1, <2>4 DEF LeftIsSound, Follows, Sound, Explained, Excused
  <2>10. RunsAreSound'
    <3>1. ASSUME NEW q \in Runs, AtWork(q)'
          PROVE  run'[q] = run[q] /\ AtWork(q)
      BY <2>5, <3>1 DEF AtWork, IInv, TypeOK
    <3> QED  BY <1>1, <3>1 DEF IInv, RunsAreSound, InOrder, Behind, Results, First, Excused
  <2> QED  BY <2>6, <2>7, <2>8, <2>9, <2>10 DEF IInv
<1> QED  BY <1>1, <1>3, <1>4

\* Runs that are left alone, by a step that follows what is there.
LEMMA RunsStaySound ==
  ASSUME IInv, UNCHANGED run, Excused => Excused', Excused' \/ Follows(tables')
  PROVE  RunsAreSound'
<1>1. ASSUME NEW q \in Runs, AtWork(q)'
      PROVE  (InOrder(q) /\ (Excused \/ Behind(q)))'
  <2>1. AtWork(q) /\ InOrder(q) /\ (Excused \/ Behind(q))
    BY <1>1 DEF IInv, RunsAreSound, AtWork
  <2>2. InOrder(q)'
    BY <2>1 DEF InOrder, Results, First
  <2>3. (Excused \/ Behind(q))'
    BY <2>1 DEF Behind, Results, Follows
  <2> QED  BY <2>2, <2>3
<1> QED  BY <1>1 DEF RunsAreSound

LEMMA LeftCommitsKeepsIInv == IInv /\ LeftCommits => IInv'
<1> SUFFICES ASSUME IInv, LeftCommits PROVE IInv'
  OBVIOUS
<1>1. PICK left \in cut :
        /\ tables' = left.tables /\ torn' = (torn \/ left.half) /\ cut' = {}
        /\ UNCHANGED <<run, wiping, faults, removals, overlapped>>
  BY DEF LeftCommits
<1>2. left \in [tables: Tables, half: BOOLEAN] /\ torn' \in BOOLEAN
  BY <1>1 DEF IInv, TypeOK
<1>3. Excused' \/ Follows(tables')
  BY <1>1, <1>2 DEF IInv, LeftIsSound, Excused
<1>4. Excused => Excused'
  BY <1>1 DEF Excused
<1>5. TypeOK'
  BY <1>1, <1>2 DEF IInv, TypeOK
<1>6. TablesAreSound'
  BY <1>3 DEF TablesAreSound, Follows, Sound, Explained
<1>7. WipeIsAlone'
  <2>1. ~Excused => ~(wiping > 0)
    BY <1>1 DEF IInv, WipeIsAlone
  <2> QED  BY <1>1, <1>4, <2>1 DEF WipeIsAlone
<1>8. LeftIsSound'
  BY <1>1 DEF LeftIsSound
<1>9. RunsAreSound'
  BY <1>1, <1>3, <1>4, RunsStaySound
<1> QED  BY <1>5, <1>6, <1>7, <1>8, <1>9 DEF IInv

LEMMA LeftDroppedKeepsIInv == IInv /\ LeftDropped => IInv'
<1> SUFFICES ASSUME IInv, LeftDropped PROVE IInv'
  OBVIOUS
<1>1. cut' = {} /\ UNCHANGED <<tables, run, wiping, faults, removals, torn, overlapped>>
  BY DEF LeftDropped, environment
<1>2. TypeOK'
  BY <1>1 DEF IInv, TypeOK
<1>3. TablesAreSound' /\ LeftIsSound'
  BY <1>1 DEF IInv, TablesAreSound, LeftIsSound, Sound, Explained, Excused
<1>4. WipeIsAlone'
  BY <1>1 DEF IInv, WipeIsAlone, Excused, AtWork
<1>5. RunsAreSound'
  BY <1>1 DEF IInv, RunsAreSound, InOrder, Behind, Results, First, Excused, AtWork
<1> QED  BY <1>2, <1>3, <1>4, <1>5 DEF IInv

-----------------------------------------------------------------------------
(* The rest of the program: imports, removals, fillers, and the crash.      *)

LEMMA ImportKeepsIInv == IInv /\ Import => IInv'
<1> SUFFICES ASSUME IInv, Import PROVE IInv'
  OBVIOUS
<1>1. /\ tables.game = "absent" /\ tables' = [tables EXCEPT !.game = "new"]
      /\ UNCHANGED <<cut, run, wiping, faults, removals, torn, overlapped>> /\ cut = {}
  BY DEF Import, Commit, environment
<1>2. /\ tables' \in Tables /\ tables'.game = "new"
      /\ tables'.rows = tables.rows /\ tables'.done = tables.done
  BY <1>1 DEF IInv, TypeOK, Tables
<1>3. Sound(tables) => Follows(tables')
  BY <1>2 DEF Follows, Sound, Explained
<1>4. TypeOK'
  BY <1>1, <1>2 DEF IInv, TypeOK
<1>5. TablesAreSound'
  BY <1>1, <1>3 DEF IInv, TablesAreSound, Follows, Sound, Explained, Excused
<1>6. WipeIsAlone'
  BY <1>1, <1>2 DEF IInv, WipeIsAlone, Excused, AtWork
<1>7. LeftIsSound'
  BY <1>1 DEF LeftIsSound
<1>8. RunsAreSound'
  BY <1>1, <1>2 DEF IInv, RunsAreSound, InOrder, Behind, Results, First, Excused, AtWork
<1> QED  BY <1>4, <1>5, <1>6, <1>7, <1>8 DEF IInv

LEMMA DeleteGameKeepsIInv == IInv /\ DeleteGame => IInv'
<1> SUFFICES ASSUME IInv, DeleteGame PROVE IInv'
  OBVIOUS
<1>1. /\ tables' = [game |-> "absent", rows |-> {}, done |-> {}]
      /\ overlapped' = (overlapped \/ \E r \in Runs : AtWork(r))
      /\ UNCHANGED <<cut, run, wiping, faults, torn>> /\ cut = {}
      /\ removals < MaxRemovals /\ removals' = removals + 1
  BY DEF DeleteGame, Commit
<1>2. removals' \in 0..MaxRemovals
  <2>1. removals \in 0..MaxRemovals
    BY DEF IInv, TypeOK
  <2> QED  BY <1>1, <2>1, BoundsAssumption
<1>3. TypeOK'
  BY <1>1, <1>2 DEF IInv, TypeOK, Tables
<1>4. TablesAreSound' /\ LeftIsSound'
  BY <1>1 DEF TablesAreSound, LeftIsSound, Sound, Explained
<1>5. WipeIsAlone'
  BY <1>1 DEF IInv, WipeIsAlone, Excused, AtWork
<1>6. RunsAreSound'
  <2>1. ASSUME NEW q \in Runs, AtWork(q)'
        PROVE  (InOrder(q) /\ (Excused \/ Behind(q)))'
    <3>1. run' = run /\ AtWork(q) /\ Excused'
      BY <1>1, <2>1 DEF AtWork, Excused
    <3>2. InOrder(q)
      BY <3>1 DEF IInv, RunsAreSound
    <3> QED  BY <3>1, <3>2 DEF InOrder, Results, First
  <2> QED  BY <2>1 DEF RunsAreSound
<1> QED  BY <1>3, <1>4, <1>5, <1>6 DEF IInv

LEMMA WipeKeepsIInv == IInv /\ Wipe => IInv'
<1> SUFFICES ASSUME IInv, Wipe PROVE IInv'
  OBVIOUS
<1>1. /\ overlapped' = (overlapped \/ \E r \in Runs : AtWork(r))
      /\ UNCHANGED <<cut, run, faults, torn>> /\ cut = {}
      /\ wiping' = (wiping + 1) % 4
  BY DEF Wipe, Commit
<1>2. wiping \in {0, 1, 2, 3}
  BY DEF IInv, TypeOK
<1>3. removals' \in 0..MaxRemovals
  <2>1. removals \in 0..MaxRemovals
    BY DEF IInv, TypeOK
  <2>2. removals' = removals \/ (removals < MaxRemovals /\ removals' = removals + 1)
    BY DEF Wipe
  <2> QED  BY <2>1, <2>2, BoundsAssumption
<1>4. /\ wiping = 0 => tables' = [tables EXCEPT !.done = {}] /\ wiping' = 1
      /\ wiping = 1 => tables' = [tables EXCEPT !.rows = @ \cap {"summary", "eco"}] /\ wiping' = 2
      /\ wiping = 2 => tables' = [tables EXCEPT !.rows = @ \ {"summary", "eco"}] /\ wiping' = 3
      /\ wiping = 3 => tables' = [tables EXCEPT !.game = "absent"] /\ wiping' = 0
  BY <1>1 DEF Wipe, Commit
<1>5. tables \in Tables /\ tables = [game |-> tables.game, rows |-> tables.rows, done |-> tables.done]
  BY DEF IInv, TypeOK, Tables
<1>6. tables' \in Tables
  BY <1>2, <1>4, <1>5 DEF Tables
<1>7. wiping' \in 0..3
  BY <1>2, <1>4
<1>8. TypeOK'
  BY <1>1, <1>3, <1>6, <1>7 DEF IInv, TypeOK
<1>9. LeftIsSound'
  BY <1>1 DEF LeftIsSound
<1>10. ASSUME ~Excused'
       PROVE  ~Excused /\ \A q \in Runs : ~AtWork(q) /\ ~AtWork(q)'
  BY <1>1, <1>10 DEF Excused, AtWork
<1>11. ASSUME ~Excused'
       PROVE  TablesAreSound' /\ WipeIsAlone'
  <2>1. wiping > 0 => /\ tables.done = {}
                      /\ wiping >= 2 => tables.rows \subseteq {"summary", "eco"}
                      /\ wiping = 3 => tables.rows = {}
    BY <1>10, <1>11 DEF IInv, WipeIsAlone
  <2>2. CASE wiping = 0
    BY <1>1, <1>4, <1>5, <1>10, <1>11, <2>2 DEF TablesAreSound, WipeIsAlone
  <2>3. CASE wiping = 1
    BY <1>1, <1>4, <1>5, <1>10, <1>11, <2>1, <2>3 DEF TablesAreSound, WipeIsAlone
  <2>4. CASE wiping = 2
    <3>1. tables'.done = {} /\ tables'.rows = {} /\ wiping' = 3
      BY <1>4, <1>5, <2>1, <2>4
    <3> QED  BY <1>1, <1>10, <1>11, <3>1 DEF TablesAreSound, WipeIsAlone
  <2>5. CASE wiping = 3
    <3>1. tables'.done = {} /\ tables'.rows = {} /\ tables'.game = "absent" /\ wiping' = 0
      BY <1>4, <1>5, <2>1, <2>5
    <3> QED  BY <3>1 DEF TablesAreSound, WipeIsAlone, Sound, Explained
  <2> QED  BY <1>2, <2>2, <2>3, <2>4, <2>5
<1>12. TablesAreSound' /\ WipeIsAlone'
  BY <1>11 DEF TablesAreSound, WipeIsAlone
<1>13. RunsAreSound'
  <2>1. ASSUME NEW q \in Runs, AtWork(q)'
        PROVE  (InOrder(q) /\ (Excused \/ Behind(q)))'
    <3>1. run' = run /\ AtWork(q) /\ Excused'
      BY <1>1, <1>10, <2>1 DEF AtWork
    <3>2. InOrder(q)
      BY <3>1 DEF IInv, RunsAreSound
    <3> QED  BY <3>1, <3>2 DEF InOrder, Results, First
  <2> QED  BY <2>1 DEF RunsAreSound
<1> QED  BY <1>8, <1>9, <1>12, <1>13 DEF IInv

LEMMA WipeRaisesKeepsIInv == IInv /\ WipeRaises => IInv'
<1> SUFFICES ASSUME IInv, WipeRaises PROVE IInv'
  OBVIOUS
<1>1. /\ wiping' = 0 /\ torn' = TRUE
      /\ faults' = faults \/ (faults < MaxFaults /\ faults' = faults + 1)
      /\ UNCHANGED <<tables, cut, run, removals, overlapped>>
  BY DEF WipeRaises
<1>2. TypeOK'
  BY <1>1, FaultsAreBounded DEF IInv, TypeOK
<1>3. TablesAreSound' /\ WipeIsAlone' /\ LeftIsSound'
  BY <1>1 DEF TablesAreSound, WipeIsAlone, LeftIsSound, Excused
<1>4. RunsAreSound'
  BY <1>1 DEF IInv, RunsAreSound, InOrder, Results, First, Excused, AtWork
<1> QED  BY <1>2, <1>3, <1>4 DEF IInv

\* A product may be added to an analysis at any time.
LEMMA FillKeepsIInv ==
  ASSUME IInv, NEW p \in Products \ {"summary"}, Fill(p),
         p = "eco" => "summary" \in tables.rows,
         p # "eco" => "moves" \in tables.rows
  PROVE  IInv'
<1>1. /\ tables' = [tables EXCEPT !.rows = @ \cup {p}] /\ cut = {}
      /\ UNCHANGED <<cut, run, wiping, faults, removals, torn, overlapped>>
  BY DEF Fill, Commit, environment
<1>2. /\ tables' \in Tables /\ tables'.game = tables.game
      /\ tables'.rows = tables.rows \cup {p} /\ tables'.done = tables.done
  BY <1>1 DEF IInv, TypeOK, Tables
<1>3. TypeOK'
  BY <1>1, <1>2 DEF IInv, TypeOK
<1>4. TablesAreSound'
  BY <1>1, <1>2 DEF IInv, TablesAreSound, Sound, Explained, Excused
<1>5. WipeIsAlone'
  BY <1>1, <1>2 DEF IInv, WipeIsAlone, Excused, AtWork
<1>6. LeftIsSound'
  BY <1>1 DEF LeftIsSound
<1>7. RunsAreSound'
  BY <1>1, <1>2 DEF IInv, RunsAreSound, InOrder, Behind, Results, First, Excused, AtWork
<1> QED  BY <1>3, <1>4, <1>5, <1>6, <1>7 DEF IInv

LEMMA FillersKeepIInv == IInv /\ (FillEco \/ FillPhase \/ FillTactics) => IInv'
<1> SUFFICES ASSUME IInv, FillEco \/ FillPhase \/ FillTactics PROVE IInv'
  OBVIOUS
<1>1. CASE FillEco
  BY <1>1, FillKeepsIInv DEF FillEco, MissingEco, AnalysisExists, Products
<1>2. CASE FillPhase
  BY <1>2, FillKeepsIInv DEF FillPhase, MissingPhase, Products
<1>3. CASE FillTactics
  BY <1>3, FillKeepsIInv DEF FillTactics, MissingTactics, Products
<1> QED  BY <1>1, <1>2, <1>3

LEMMA CrashKeepsIInv == IInv /\ Crash => IInv'
<1> SUFFICES ASSUME IInv, Crash PROVE IInv'
  OBVIOUS
<1>1. /\ run' = [r \in Runs |-> Away] /\ cut' = {} /\ wiping' = 0
      /\ torn' = (torn \/ wiping > 0) /\ UNCHANGED <<tables, removals, overlapped>>
      /\ faults' \in 0..MaxFaults
  BY FaultsAreBounded DEF Crash
<1>2. Away \in States /\ Away.ran = {} /\ Away.pc = "over"
  BY DEF Away, States, Sources
<1>3. TypeOK'
  BY <1>1, <1>2 DEF IInv, TypeOK
<1>4. TablesAreSound'
  BY <1>1 DEF IInv, TablesAreSound, Sound, Explained, Excused
<1>5. WipeIsAlone' /\ LeftIsSound' /\ RunsAreSound'
  BY <1>1, <1>2 DEF WipeIsAlone, LeftIsSound, RunsAreSound, AtWork
<1> QED  BY <1>3, <1>4, <1>5 DEF IInv

-----------------------------------------------------------------------------
(* The theorems.                                                            *)

LEMMA NextKeepsIInv == IInv /\ [Next]_vars => IInv'
<1> SUFFICES ASSUME IInv, [Next]_vars PROVE IInv'
  OBVIOUS
<1>1. ASSUME NEW r \in Runs,
             \/ \E q \in Requests[r] : Begin(r, q)
             \/ Enter(r) \/ Step(r) \/ Work(r) \/ Record(r) \/ Mark(r)
             \/ Raises(r) \/ Timeout(r)
      PROVE  IInv'
  BY <1>1, BeginKeepsIInv, EnterKeepsIInv, StepKeepsIInv, WorkKeepsIInv, RecordKeepsIInv,
     MarkKeepsIInv, RaisesKeepsIInv, TimeoutKeepsIInv
<1>2. CASE LeftCommits \/ LeftDropped
  BY <1>2, LeftCommitsKeepsIInv, LeftDroppedKeepsIInv
<1>3. CASE Import \/ DeleteGame \/ Wipe \/ WipeRaises
  BY <1>3, ImportKeepsIInv, DeleteGameKeepsIInv, WipeKeepsIInv, WipeRaisesKeepsIInv
<1>4. CASE FillEco \/ FillPhase \/ FillTactics \/ Crash
  BY <1>4, FillersKeepIInv, CrashKeepsIInv
<1>5. CASE UNCHANGED vars
  <2>1. UNCHANGED <<tables, cut, run, wiping, faults, removals, torn, overlapped>>
    BY <1>5 DEF vars
  <2>2. TypeOK'
    BY <2>1 DEF IInv, TypeOK
  <2>3. TablesAreSound' /\ LeftIsSound'
    BY <2>1 DEF IInv, TablesAreSound, LeftIsSound, Follows, Sound, Explained, Excused
  <2>4. WipeIsAlone'
    BY <2>1 DEF IInv, WipeIsAlone, Excused, AtWork
  <2>5. RunsAreSound'
    BY <2>1 DEF IInv, RunsAreSound, InOrder, Behind, Results, First, Excused, AtWork
  <2> QED  BY <2>2, <2>3, <2>4, <2>5 DEF IInv
<1> QED  BY <1>1, <1>2, <1>3, <1>4, <1>5 DEF Next

\* In every behaviour the tables and the runs have their types, and whenever a
\* game counts as analysed it has an analysis, or was removed under a run, or
\* half a write or half a wipe is in the tables: whatever the runs ask for, in
\* whatever order they take the steps, wherever they are cut short.
THEOREM FlagsAreBacked == Spec => [](TypeOK /\ FlagIsBacked)
<1>1. IInv => TypeOK /\ FlagIsBacked
  BY DEF IInv, TablesAreSound, Sound, Excused, FlagIsBacked
<1> QED  BY <1>1, InitIInv, NextKeepsIInv, PTL DEF Spec

\* In every behaviour, whenever an analysis lacks a product, a step that makes
\* it is recorded as completed, unless the game was removed under a run or half
\* a write or half a wipe is in the tables.
THEOREM HolesAreRecorded == Spec => []HoleIsRecorded
<1>1. IInv => HoleIsRecorded
  BY DEF IInv, TablesAreSound, Sound, Explained, Excused, HoleIsRecorded
<1> QED  BY <1>1, InitIInv, NextKeepsIInv, PTL DEF Spec
=============================================================================
