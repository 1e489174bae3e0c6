------------------------------ MODULE Explanation ------------------------------
(***************************************************************************)
(* The explanation of a puzzle by rules (utils/explanation.py): what was   *)
(* wrong with the move played and what the better move achieves, first     *)
(* from the line of the engine, then from the position alone.              *)
(*                                                                         *)
(* A message is its kind, the piece and the square it names ("none" and    *)
(* NoSquare when it names none), and, of a mate, in how many moves.  A     *)
(* strategy that may have nothing to say is a set of at most one message.  *)
(* Lessons are the records of LessonFacts, with the loss in centipawns.    *)
(***************************************************************************)
EXTENDS LessonFacts

SignificantLoss == 150
Worth == [pawn |-> 1, knight |-> 3, bishop |-> 3, rook |-> 5, queen |-> 9, king |-> 0]
WorthAt(b, s) == Worth[b.at[s].type]

Says(kind) == [kind |-> kind, piece |-> "none", square |-> NoSquare, moves |-> 0]
SaysOf(kind, piece) == [Says(kind) EXCEPT !.piece = piece]
SaysAt(kind, b, s) == [SaysOf(kind, b.at[s].type) EXCEPT !.square = s]

\* The first strategy that has something to say.
First(strategies) ==
    LET said == {i \in DOMAIN strategies : strategies[i] # {}}
    IN  IF said = {} THEN {} ELSE strategies[CHOOSE i \in said : \A j \in said : i <= j]

\* The dearest of some squares, the lowest among equals.
Dearest(b, S) ==
    CHOOSE s \in S : \A t \in S :
        WorthAt(b, s) > WorthAt(b, t) \/ (WorthAt(b, s) = WorthAt(b, t) /\ s <= t)

Hangs(b, s, c) ==
    s \in Own(b, c) /\ Attacked(b, Other(c), s) /\ ~Attacked(b, c, s)
GivesMate(b, m) == IsCheckmate(Push(b, m))

-----------------------------------------------------------------------------
\* What was wrong with the move played.

MissedMate(l) == {Says("missed mate") : m \in {x \in l.best : GivesMate(l.board, x)}}

MovedHangs(l) ==
    IF Hangs(After(l), l.played.to, l.board.turn)
      THEN {[SaysAt("hanging piece", After(l), l.played.to) EXCEPT
                !.piece = l.board.at[l.played.from].type]}
      ELSE {}

Exposed(l) ==
    LET me == l.board.turn
    IN  {s \in Own(After(l), me) \ {l.played.to} :
            Hangs(After(l), s, me) /\ ~Hangs(l.board, s, me)}
ExposesPiece(l) ==
    IF Exposed(l) = {} THEN {} ELSE {SaysAt("exposed piece", After(l), Lowest(Exposed(l)))}

\* An attacker that is worth less than what it attacks.
ProfitablyAttacked(b, s) ==
    \E a \in Attackers(b, Other(b.at[s].color), s) : WorthAt(b, a) < WorthAt(b, s)

Ignored(l) ==
    LET b == l.board
        enemy == Other(b.turn)
    IN  {s \in Own(b, b.turn) \ {l.played.from} :
            /\ WorthAt(b, s) >= 3
            /\ ProfitablyAttacked(b, s)
            /\ ~(IsCapture(b, l.played) /\ l.played.to \in Attackers(b, enemy, s))
            /\ s \in Own(After(l), b.turn)
            /\ Attacked(After(l), enemy, s)}
IgnoresThreat(l) ==
    IF Ignored(l) = {} THEN {} ELSE {SaysAt("ignored threat", l.board, Dearest(l.board, Ignored(l)))}

BadCapture(l) ==
    LET b == l.board
        m == l.played
    IN  IF /\ m.to \in DOMAIN b.at
           /\ WorthAt(b, m.from) > WorthAt(b, m.to)
           /\ Attacked(After(l), Other(b.turn), m.to)
          THEN {SaysOf("bad capture", b.at[m.from].type)} ELSE {}

LosesPawns(l) == IF l.loss >= 100 THEN {Says("loss")} ELSE {}

ExplainBlunder(l) ==
    First(<<MissedMate(l), MovedHangs(l), ExposesPiece(l), IgnoresThreat(l), BadCapture(l), LosesPawns(l)>>)

-----------------------------------------------------------------------------
\* What the line of the engine shows: who takes what, what it comes to, and
\* whether it ends in mate.  A capture en passant takes from an empty square
\* and is not counted.
TakenAt(at, line, i) == at[i - 1].at[line[i].to].type
Takes(at, line, c) ==
    {i \in DOMAIN line : line[i].to \in DOMAIN at[i - 1].at /\ at[i - 1].turn = c}
Walk(at, line) ==
    LET mine == Takes(at, line, at[0].turn)
        worth(i) == Worth[TakenAt(at, line, i)]
    IN  [mates |-> \E i \in DOMAIN line : IsCheckmate(at[i]),
         gain |-> Balance(at[Len(line)], at[0].turn) - Balance(at[0], at[0].turn),
         mine |-> Cardinality(mine),
         theirs |-> Cardinality(Takes(at, line, Other(at[0].turn))),
         won |-> IF mine = {} THEN "none"
                 ELSE TakenAt(at, line, CHOOSE i \in mine : \A j \in mine :
                         worth(i) > worth(j) \/ (worth(i) = worth(j) /\ i <= j))]

\* In how many moves: counted from the length of the whole line.
MateInPlies(line) ==
    IF Len(line) <= 1 THEN Says("checkmate")
    ELSE [Says("line mates") EXCEPT !.moves = Len(line)]
MateInLine(line) ==
    IF Len(line) \div 2 + 1 <= 1 THEN Says("checkmate")
    ELSE [Says("line mates") EXCEPT !.moves = Len(line) \div 2 + 1]

SimpleCapture(b, m, w) ==
    IsCapture(b, m) /\ w.mine = 1 /\ w.gain >= Worth[w.won]

FromLine(l, m, w) ==
    LET wins == w.gain >= 1 /\ w.won # "none"
    IN  IF Len(l.bestLine) < 2 THEN {}
        ELSE IF w.mates THEN {MateInLine(l.bestLine)}
        ELSE IF wins /\ w.theirs > 0 /\ w.gain >= 3
          THEN {SaysOf(IF l.pattern = "none" THEN "wins by combination" ELSE "wins by pattern", w.won)}
        ELSE IF wins
          THEN IF SimpleCapture(l.board, m, w) THEN {} ELSE {SaysOf("line wins piece", w.won)}
        ELSE IF w.gain >= 3 THEN {Says("combination")} ELSE {}

-----------------------------------------------------------------------------
\* What the position alone shows of the better move.

HangingEnemies(b) == {s \in Own(b, b.turn) : b.at[s].type # "king" /\ Hangs(b, s, b.turn)}

OfCheck(l, m, after) ==
    IF m.to \in DOMAIN l.board.at THEN {SaysOf("capture with check", l.board.at[m.to].type)}
    ELSE IF l.pattern = "none" THEN {Says("check")}
    ELSE IF l.pattern = "hanging piece" /\ HangingEnemies(after) # {}
      THEN {SaysAt("check wins hanging", after, Dearest(after, HangingEnemies(after)))}
    ELSE {Says("check with pattern")}

OfPattern(l, m) ==
    CASE l.pattern = "none" -> {}
      [] l.pattern \in {"discovered attack", "discovered check"} -> {Says("discovers")}
      [] l.pattern = "hanging piece" ->
            IF m.to \in DOMAIN l.board.at /\ Hangs(l.board, m.to, Other(l.board.turn))
              THEN {SaysAt("takes hanging", l.board, m.to)} ELSE {}
      [] OTHER -> {Says("pattern")}

Retreats(l, m, after) ==
    LET b == l.board
    IN  IF /\ ~IsCapture(b, m)
           /\ WorthAt(b, m.from) >= 3
           /\ ProfitablyAttacked(b, m.from)
           /\ \A a \in Attackers(after, after.turn, m.to) : WorthAt(after, a) >= WorthAt(b, m.from)
          THEN {SaysOf("saves piece", b.at[m.from].type)} ELSE {}

Captures(l, m) ==
    IF m.to \in DOMAIN l.board.at THEN {SaysOf("wins piece", l.board.at[m.to].type)} ELSE {}

NewlyAttacked(l, after) ==
    LET me == l.board.turn
    IN  {s \in Own(after, Other(me)) : /\ after.at[s].type # "king" /\ WorthAt(after, s) >= 5
                                       /\ Attacked(after, me, s) /\ ~Attacked(l.board, me, s)}

\* What the player threatens if the opponent passes.  The code takes the first
\* threat in the order in which the library lists the moves, here one of them.
Threat(null, x, sign) ==
    CASE sign = "mate" -> {Says("threatens mate")}
      [] sign = "none" -> {}
      [] x.to \in DOMAIN null.at /\ WorthAt(null, x.to) >= 3 /\ sign = "check" ->
            {SaysOf("threatens capture with check", null.at[x.to].type)}
      [] OTHER -> IF null.at[x.from].type = "pawn" THEN {}
                  ELSE {SaysOf("creates threat", null.at[x.from].type)}
NullThreats(null) == UNION {Threat(null, x, Sign(Push(null, x))) : x \in LegalMoves(null)}
OneOf(S) == IF S = {} THEN {} ELSE {CHOOSE t \in S : TRUE}
Threatens(after, new, null) ==
    IF new # {} THEN {SaysOf("attacks piece", after.at[Dearest(after, new)].type)}
    ELSE OneOf(NullThreats(null))

AvoidsLoss(l) == {Says(IF l.loss >= SignificantLoss THEN "avoids loss" ELSE "is best")}

Static(l, m, after) ==
    IF InCheck(after) THEN OfCheck(l, m, after)
    ELSE First(<<OfPattern(l, m), Retreats(l, m, after), Captures(l, m),
                 Threatens(after, NewlyAttacked(l, after), PushNull(after)), AvoidsLoss(l)>>)

\* A better move that mates at once, then the line, then the position.
ExplainBest(l) ==
    UNION {IF GivesMate(l.board, m) THEN {Says("checkmate")}
           ELSE First(<<FromLine(l, m, Walk(Boards(l.board, l.bestLine), l.bestLine)),
                        Static(l, m, Push(l.board, m))>>) : m \in l.best}

\* generate_explanation: what is said of the move played, of the refutation and
\* of the better move; the coach's note must not repeat them.
Explain(l) ==
    [consequence |-> ExplainBlunder(l), refutation |-> l.refutation # <<>>, comparison |-> ExplainBest(l)]
=============================================================================
