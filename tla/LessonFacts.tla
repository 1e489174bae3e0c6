------------------------------ MODULE LessonFacts ------------------------------
(***************************************************************************)
(* The facts of a lesson (services/lesson_facts.py): what the coach is told *)
(* of a blunder, computed from the position, the move played, the better   *)
(* move and the two lines of the engine.                                   *)
(*                                                                         *)
(* A lesson is a record                                                    *)
(*   [board, played, best, bestLine, refutation, phase, pattern]           *)
(* where best is a set of at most one move, bestLine the line that starts  *)
(* with it and refutation the line that answers the move played, both      *)
(* legal, both empty when the engine gave none.                            *)
(***************************************************************************)
EXTENDS Board, SequencesExt

Count(b, c, k) == Cardinality({s \in Own(b, c) : b.at[s].type = k})
Material(b, c) ==
    Count(b, c, "pawn") + 3 * (Count(b, c, "knight") + Count(b, c, "bishop"))
      + 5 * Count(b, c, "rook") + 9 * Count(b, c, "queen")
Balance(b, c) == Material(b, c) - Material(b, Other(c))

After(l) == Push(l.board, l.played)
GivesCheck(b, m) == InCheck(Push(b, m))

\* A move from the first rank of its side that takes nothing develops a piece,
\* be it the king or a piece that goes home; a pawn counts when it comes to
\* the d or e file.
Develops(b, m) ==
    b.at[m.from].type # "pawn" /\ Rank(m.from) = HomeRank(b.at[m.from].color)
Intent(b, m) ==
    IF IsCastling(b, m) THEN "castles"
    ELSE IF IsCapture(b, m) THEN "captures material"
    ELSE IF b.at[m.from].type = "pawn" /\ File(m.to) \in {3, 4} THEN "moves a central pawn"
    ELSE IF Develops(b, m) THEN "develops a piece" ELSE "unknown"

ReplyType(b, m) ==
    IF GivesCheck(b, m) THEN "check"
    ELSE IF IsCapture(b, m) THEN "capture"
    ELSE IF m.promo # "none" THEN "promotion" ELSE "unknown"

CastledStatus(b, c) ==
    LET king == KingOf(b, c)
    IN  IF Rank(king) # HomeRank(c) THEN "unknown"
        ELSE IF File(king) \in {2, 6} THEN "castled"
        ELSE IF File(king) = 4 THEN "uncastled" ELSE "unknown"

AttackedFrom(after, s) == Attacks(after, s) \cap Own(after, after.turn)
Undefended(b, c) ==
    {s \in Own(b, c) : b.at[s].type # "king" /\ ~Attacked(b, c, s)}

\* Of a line: how many checks and captures, what was taken where, whether any
\* move promotes, and whether any move, of either side and forced or not, is a
\* move of a king.
StatsOf(at, line) ==
    LET captures == {i \in DOMAIN line : IsCapture(at[i - 1], line[i])}
    IN  [checks |-> Cardinality({i \in DOMAIN line : InCheck(at[i])}),
         captures |-> Cardinality(captures),
         captured |-> [i \in {j \in captures : line[j].to \in DOMAIN at[j - 1].at} |->
                          at[i - 1].at[line[i].to].type],
         promotes |-> \E i \in DOMAIN line : line[i].promo # "none",
         kingMoves |-> \E i \in DOMAIN line : at[i - 1].at[line[i].from].type = "king"]
LineStats(b, line) == StatsOf(Boards(b, line), line)

Consequence(delta) ==
    IF delta <= -2 THEN "opponent wins material"
    ELSE IF delta >= 2 THEN "player wins material"
    ELSE "material remains roughly equal"

\* Why the better move is better, most urgent reason first.
When(condition, purpose) == IF condition THEN <<purpose>> ELSE <<>>
Purposes(l, m, reply) ==
    LET b == l.board
        all == When(reply \in {"check", "capture", "promotion"}, "addresses an immediate forcing reply")
            \o When(GivesCheck(b, m), "gives check")
            \o When(Develops(b, m), "develops a piece")
            \o When(IsCastling(b, m), "improves king safety")
            \o When(IsCapture(b, m), "avoids material loss")
    IN  IF all = <<>> THEN <<"prevents or reduces opponent initiative">> ELSE all

Categories(l, reply, losesMaterial) ==
    LET forcing == reply.type \in {"check", "capture", "promotion"}
        bestIntents == {Intent(l.board, m) : m \in l.best}
        all == (IF reply.check THEN {"missed forcing check"} ELSE {})
          \cup (IF reply.capture THEN {"allowed capture"} ELSE {})
          \cup (IF reply.capture \/ losesMaterial THEN {"allowed material loss"} ELSE {})
          \cup (IF forcing /\ Intent(l.board, l.played) # "captures material"
                  THEN {"wrong priority"} ELSE {})
          \cup (IF l.phase = "opening" /\ forcing
                     /\ bestIntents \cap {"develops a piece", "castles"} # {}
                  THEN {"opening development"} ELSE {})
          \cup (IF l.pattern # "none" THEN {"missed tactic"} ELSE {})
    IN  IF all = {} THEN {"wrong priority"} ELSE all

\* The sentence that tells the consequence; a capture is always said to win
\* material, whatever the line makes of it.
Immediate(reply, losesMaterial, kingMoves) ==
    IF reply.type = "check" THEN "allows a check"
    ELSE IF reply.type = "capture" THEN "capture wins material"
    ELSE IF kingMoves THEN "forces the king to move"
    ELSE IF reply.type # "none" THEN "forcing reply" ELSE "priority error"

\* The rule to take away.  Only a rule that starts with one of the coach's
\* transfer markers is used as it stands.
Seed(reply, categories, intent) ==
    IF reply.type = "check" THEN "when the opponent has a check"
    ELSE IF reply.type = "capture" THEN "if a piece move leaves material loose"
    ELSE IF "opening development" \in categories THEN "before playing a quiet move"
    ELSE IF intent = "castles" THEN "before castling"
    ELSE IF "missed tactic" \in categories THEN "before playing a natural move"
    ELSE "before playing a quiet move"

\* The reply is the first move of the refutation.
NoReply == [type |-> "none", check |-> FALSE, capture |-> FALSE, promotes |-> FALSE,
            takes |-> "none", attacks |-> {}]
ReplyOf(b, m) ==
    [type |-> ReplyType(b, m), check |-> GivesCheck(b, m), capture |-> IsCapture(b, m),
     promotes |-> m.promo # "none",
     takes |-> IF m.to \in DOMAIN b.at THEN b.at[m.to].type
               ELSE IF IsCapture(b, m) THEN "unknown" ELSE "none",
     attacks |-> AttackedFrom(Push(b, m), m.to)]
Reply(l) == IF l.refutation = <<>> THEN NoReply ELSE ReplyOf(After(l), l.refutation[1])

\* What the move comes to: after the refutation, when one is given, else at once.
Delta(l) ==
    Balance(Boards(After(l), l.refutation)[Len(l.refutation)], l.board.turn)
      - Balance(l.board, l.board.turn)
Loses(l, delta) == l.refutation # <<>> /\ delta <= -2

\* build_lesson_facts
FactsFrom(l, after, reply, line, better, delta, intent, categories) ==
    [reply |-> reply, intent |-> intent,
     bestIntent |-> {Intent(l.board, m) : m \in l.best},
     lineChecks |-> line.checks, lineCaptures |-> line.captures, captured |-> line.captured,
     linePromotes |-> line.promotes, kingMoves |-> line.kingMoves,
     bestChecks |-> better.checks > 0, bestCaptures |-> better.captures > 0,
     material |-> Consequence(delta), delta |-> delta,
     checkAfter |-> InCheck(after), castled |-> CastledStatus(l.board, l.board.turn),
     undefended |-> Undefended(after, l.board.turn),
     categories |-> categories,
     purposes |-> IF l.best = {} THEN <<>>
                  ELSE Purposes(l, CHOOSE m \in l.best : TRUE, reply.type),
     consequence |-> Immediate(reply, Loses(l, delta), line.kingMoves),
     seed |-> Seed(reply, categories, intent)]

FactsAfter(l, after, reply, delta) ==
    FactsFrom(l, after, reply, LineStats(after, l.refutation), LineStats(l.board, l.bestLine),
              delta, Intent(l.board, l.played), Categories(l, reply, Loses(l, delta)))
FactsOf(l) == FactsAfter(l, After(l), Reply(l), Delta(l))

\* format_lesson_facts_for_prompt: which of the facts the prompt tells.
Told(f) ==
    {"consequence", "material", "categories", "seed"}
      \cup (IF f.reply.type # "none" THEN {"reply"} ELSE {})
      \cup (IF f.reply.type # "none" /\ f.reply.check THEN {"check"} ELSE {})
      \cup (IF f.reply.type # "none" /\ f.reply.capture THEN {"capture"} ELSE {})
      \cup (IF f.reply.attacks # {} THEN {"attacked"} ELSE {})
      \cup (IF f.kingMoves THEN {"king"} ELSE {})
      \cup (IF f.castled # "unknown" THEN {"castled"} ELSE {})
      \cup (IF f.purposes # <<>> THEN {"purposes"} ELSE {})
      \cup (IF f.lineChecks > 0 THEN {"checks"} ELSE {})
      \cup (IF f.lineCaptures > 0 THEN {"captures"} ELSE {})
      \cup (IF f.undefended # {} THEN {"undefended"} ELSE {})
      \cup (IF f.intent # "unknown" THEN {"intent"} ELSE {})
      \cup (IF f.bestIntent \ {"unknown"} # {} THEN {"best intent"} ELSE {})
=============================================================================
