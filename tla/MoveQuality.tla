------------------------------ MODULE MoveQuality ------------------------------
(***************************************************************************)
(* How one move of an analysed game is judged: from the engine's scores    *)
(* before and after it to the row of analysis_moves (steps/stockfish.py,   *)
(* steps/_move_quality_classifier.py, steps/move_quality.py,               *)
(* analysis/thresholds.py), which game type a time control is              *)
(* (utils/time_control.py), which phase of the game a position is          *)
(* (analysis/phase.py), and which blunders are worth a puzzle              *)
(* (analysis/filtering.py).                                                *)
(*                                                                         *)
(* Scores are centipawns as White sees them; the winning chances of a      *)
(* score, a logistic curve, are given in thousandths by a constant.        *)
(***************************************************************************)
EXTENDS Integers, Sequences

CONSTANT WinningChances   \* of a score in -1000..1000

NoMate == 0                  \* a mate depth is positive for the side that mates
None == "none"

Least(a, b) == IF a < b THEN a ELSE b
Most(a, b) == IF a > b THEN a ELSE b

MateScore == 100000
Mating == 90000
Good == 0
Inaccuracy == 1
Mistake == 2
Blunder == 3
-----------------------------------------------------------------------------
\* score_to_cp: the score as the side that moves sees it.
Pov(cp, player) == IF player = 0 THEN cp ELSE -cp

Chances(cp) == WinningChances[Most(-1000, Least(1000, cp))]

ByChances(loss) ==
    IF loss >= 300 THEN Blunder
    ELSE IF loss >= 200 THEN Mistake
    ELSE IF loss >= 100 THEN Inaccuracy ELSE Good

MateCreated(before) ==
    IF before < -999 THEN Inaccuracy ELSE IF before < -700 THEN Mistake ELSE Blunder

MateLost(after) ==
    IF after > 999 THEN Inaccuracy ELSE IF after > 700 THEN Mistake ELSE Blunder

\* The depth of a mate is known before the move; after it, only the score.  The
\* faulty variant takes a mate that is lost for a mere loss of chances.
LabelByChances(mate, before, after) ==
    ByChances(Most(0, Chances(before) - Chances(after)))
Label(mate, before, after) ==
    IF mate = NoMate /\ after <= -Mating THEN MateCreated(before)
    ELSE IF mate > 0 /\ after < Mating
      THEN IF after <= -Mating THEN Blunder ELSE MateLost(after)
    ELSE LabelByChances(mate, before, after)

\* classify_move: a move that checkmates is good whatever was there before.
Classify(mate, before, after) ==
    IF after = MateScore THEN [class |-> Good, loss |-> 0, mate |-> NoMate]
    ELSE [class |-> Label(mate, before, after),
          loss  |-> Least(Most(0, before - after), 1500),
          mate  |-> Most(mate, NoMate)]
-----------------------------------------------------------------------------
\* The best move's quietness, and how few moves there are to choose from.
Quietness(best) == IF "check" \in best THEN 5 ELSE IF "capture" \in best THEN 15 ELSE 40
Narrowness(legal) ==
    IF legal <= 3 THEN 30 ELSE IF legal <= 8 THEN 20 ELSE IF legal <= 15 THEN 10 ELSE 0

\* best: what the best move does, or {None} when there is none.
Difficulty(best, legal, class, loss) ==
    IF class < Inaccuracy THEN 0
    ELSE IF best = {None} THEN 50
    ELSE Least(100, Quietness(best) + Narrowness(legal)
                    + IF loss >= 400 /\ best = {} THEN 15 ELSE 0)
-----------------------------------------------------------------------------
\* classify_game_type: a control is <<base, increment>> in seconds, or <<"daily">>,
\* or <<>> when the header is missing or cannot be read.
GameType(control) ==
    IF control = <<>> THEN "unknown"
    ELSE IF Len(control) = 1 THEN "correspondence"
    ELSE LET duration == control[1] + 40 * control[2]
         IN IF duration < 29 THEN "ultrabullet"
            ELSE IF duration < 180 THEN "bullet"
            ELSE IF duration < 480 THEN "blitz"
            ELSE IF duration < 1500 THEN "rapid" ELSE "classical"
-----------------------------------------------------------------------------
\* classify_phase, of the pieces there are besides the kings.
Phase(pieces, number) ==
    IF (number <= 10 /\ pieces >= 20) \/ (number <= 15 /\ pieces >= 16) THEN "opening"
    ELSE IF pieces <= 6 \/ (pieces <= 10 /\ number > 30) THEN "endgame"
    ELSE "middlegame"
-----------------------------------------------------------------------------
\* The row that is stored: player 0 is White, and the scores are the mover's.
\* m is what the engine and the board say of the move.
Judged(m) ==
    LET before == Pov(m.before, m.player)
        after == IF m.checkmates THEN MateScore ELSE Pov(m.after, m.player)
        judged == Classify(m.mate, before, after)
    IN [ply |-> m.ply, number |-> m.number, player |-> m.player,
        before |-> before, after |-> after,
        class |-> judged.class, loss |-> judged.loss, mate |-> judged.mate,
        difficulty |-> Difficulty(m.best, m.legal, judged.class, judged.loss),
        phase |-> Phase(m.pieces, m.number), pattern |-> IF judged.class = Blunder THEN m.pattern ELSE None]

\* is_valid_blunder: a short mate missed always is; a loss that changes nothing
\* is not.
WorthAPuzzle(row) ==
    \/ row.mate \in 1..5
    \/ /\ ~(row.before >= Mating /\ row.after >= 0)
       /\ row.after < Mating
       /\ row.before > -300
       /\ row.after < 300
=============================================================================
