--------------------------------- MODULE Board ---------------------------------
(***************************************************************************)
(* The board of python-chess as the coaching code uses it: squares, lines, *)
(* what a piece attacks, legal moves, check and mate, captures, castling,  *)
(* en passant and promotion.  The library is not in the repository: the    *)
(* module states what the calls in analysis/tactics.py,                    *)
(* services/lesson_facts.py and utils/explanation.py rely on.              *)
(***************************************************************************)
EXTENDS Integers, FiniteSets, Sequences

Colors == {"white", "black"}
Types == {"pawn", "knight", "bishop", "rook", "queen", "king"}
Sliders == {"bishop", "rook", "queen"}
Other(c) == IF c = "white" THEN "black" ELSE "white"

Squares == 0..63
NoSquare == 64
File(s) == s % 8
Rank(s) == s \div 8
Gap(a, b) == IF a < b THEN b - a ELSE a - b
Distance(s, t) ==
    LET f == Gap(File(s), File(t))
        r == Gap(Rank(s), Rank(t))
    IN  IF f < r THEN r ELSE f
HomeRank(c) == IF c = "white" THEN 0 ELSE 7
Lowest(S) == CHOOSE s \in S : \A t \in S : s <= t

Straight(s, t) == s # t /\ (File(s) = File(t) \/ Rank(s) = Rank(t))
Diagonal(s, t) == s # t /\ Gap(File(s), File(t)) = Gap(Rank(s), Rank(t))
Hop(s, t) == {Gap(File(s), File(t)), Gap(Rank(s), Rank(t))} = {1, 2}
Ahead(c, s, t) == Rank(t) = Rank(s) + IF c = "white" THEN 1 ELSE -1

\* chess.ray: the whole rank, file or diagonal that two squares share, from
\* edge to edge of the board; empty when they share none.
Line == [s \in Squares |-> [t \in Squares |->
    CASE s # t /\ File(s) = File(t) -> {u \in Squares : File(u) = File(s)}
      [] s # t /\ Rank(s) = Rank(t) -> {u \in Squares : Rank(u) = Rank(s)}
      [] Diagonal(s, t) -> {s, t} \cup {u \in Squares : Diagonal(s, u) /\ Diagonal(t, u)
              /\ (File(u) - File(s)) * (Rank(t) - Rank(s)) = (Rank(u) - Rank(s)) * (File(t) - File(s))}
      [] OTHER -> {}]]
Between == [s \in Squares |-> [t \in Squares |->
    {u \in Line[s][t] \ {s, t} : Distance(s, u) + Distance(u, t) = Distance(s, t)}]]

\* Where a piece of a type and colour attacks on an empty board.
Reach == [k \in Types |-> [c \in Colors |-> [s \in Squares |->
    {t \in Squares \ {s} :
        CASE k = "pawn"   -> Ahead(c, s, t) /\ Gap(File(s), File(t)) = 1
          [] k = "knight" -> Hop(s, t)
          [] k = "king"   -> Distance(s, t) = 1
          [] k = "rook"   -> Straight(s, t)
          [] k = "bishop" -> Diagonal(s, t)
          [] k = "queen"  -> Straight(s, t) \/ Diagonal(s, t)}]]]

-----------------------------------------------------------------------------
\* A position: the pieces on their squares, who is to move, where a pawn may be
\* taken en passant, and the squares to which a king may still castle.
\*   [at: occupied squares -> [type, color], turn, ep, castle]
\* A move: [from, to, promo], promo being "none" or the new type.
IsPosition(b) ==
    /\ DOMAIN b.at \subseteq Squares
    /\ \A s \in DOMAIN b.at : b.at[s] \in [type : Types, color : Colors]
    /\ b.turn \in Colors /\ b.castle \subseteq {2, 6, 58, 62}
AnyMove == [from : Squares, to : Squares, promo : Types \cup {"none"}]

Own(b, c) == {s \in DOMAIN b.at : b.at[s].color = c}
KingOf(b, c) == CHOOSE s \in Own(b, c) : b.at[s].type = "king"

Attacks(b, s) ==
    {t \in Reach[b.at[s].type][b.at[s].color][s] : Between[s][t] \cap DOMAIN b.at = {}
        \/ b.at[s].type \notin Sliders}
Attackers(b, c, t) == {s \in Own(b, c) : t \in Attacks(b, s)}
Attacked(b, c, t) == \E s \in Own(b, c) : t \in Attacks(b, s)

Checkers(b) == Attackers(b, Other(b.turn), KingOf(b, b.turn))
InCheck(b) == Checkers(b) # {}

IsEnPassant(b, m) ==
    b.at[m.from].type = "pawn" /\ m.to = b.ep /\ File(m.from) # File(m.to)
IsCapture(b, m) == m.to \in DOMAIN b.at \/ IsEnPassant(b, m)
IsCastling(b, m) == b.at[m.from].type = "king" /\ Distance(m.from, m.to) = 2

\* What leaves the board by the move, and where the rook of a castling goes.
Taken(b, m) ==
    IF IsEnPassant(b, m) THEN {8 * Rank(m.from) + File(m.to)} ELSE {m.to} \cap DOMAIN b.at
RookFrom(m) == IF m.to > m.from THEN m.to + 1 ELSE m.to - 2
RookTo(m) == IF m.to > m.from THEN m.to - 1 ELSE m.to + 1

Push(b, m) ==
    LET mover == b.at[m.from]
        rook == IF IsCastling(b, m) THEN {RookTo(m)} ELSE {}
        gone == Taken(b, m) \cup {m.from} \cup IF rook = {} THEN {} ELSE {RookFrom(m)}
    IN  [at |-> [s \in ((DOMAIN b.at) \ gone) \cup {m.to} \cup rook |->
                    IF s = m.to
                      THEN IF m.promo = "none" THEN mover ELSE [mover EXCEPT !.type = m.promo]
                    ELSE IF s \in rook THEN b.at[RookFrom(m)] ELSE b.at[s]],
         turn |-> Other(b.turn),
         ep |-> IF mover.type = "pawn" /\ Gap(Rank(m.from), Rank(m.to)) = 2
                  THEN (m.from + m.to) \div 2 ELSE NoSquare,
         castle |-> {k \in b.castle : mover.type = "king" => Rank(k) # Rank(m.from)}]

\* A move that only passes the turn (chess.Move.null).
PushNull(b) == [b EXCEPT !.turn = Other(@), !.ep = NoSquare]

-----------------------------------------------------------------------------
PawnSteps(b, s) ==
    LET c == b.at[s].color
        one == {t \in Squares : Ahead(c, s, t) /\ File(t) = File(s)} \ DOMAIN b.at
        two == IF Gap(Rank(s), HomeRank(c)) # 1 THEN {} ELSE
               {t \in Squares : \E u \in one : Ahead(c, u, t) /\ File(t) = File(s)} \ DOMAIN b.at
    IN  one \cup two \cup {t \in Reach["pawn"][c][s] : t = b.ep \/ t \in Own(b, Other(c))}

Castlings(b, s) ==
    {t \in b.castle :
        /\ Rank(t) = Rank(s) /\ Distance(s, t) = 2 /\ ~InCheck(b)
        /\ LET r == RookFrom([from |-> s, to |-> t])
           IN  r \in Own(b, b.turn) /\ Between[s][r] \cap DOMAIN b.at = {}
        /\ \A u \in Between[s][t] : ~Attacked(b, Other(b.turn), u)}

Targets(b, s) ==
    IF b.at[s].type = "pawn" THEN PawnSteps(b, s)
    ELSE (Attacks(b, s) \ Own(b, b.turn))
           \cup IF b.at[s].type = "king" THEN Castlings(b, s) ELSE {}

Promotions(b, s, t) ==
    IF b.at[s].type = "pawn" /\ Rank(t) \in {0, 7}
      THEN {"knight", "bishop", "rook", "queen"} ELSE {"none"}

LeavesSafe(after) == ~Attacked(after, after.turn, KingOf(after, Other(after.turn)))
Safe(b, m) == LeavesSafe(Push(b, m))

LegalMoves(b) ==
    {m \in UNION {UNION {{[from |-> s, to |-> t, promo |-> p] : p \in Promotions(b, s, t)}
                           : t \in Targets(b, s)} : s \in Own(b, b.turn)} : Safe(b, m)}

\* Board.is_valid, of games by the rules: one king of each colour, that of the
\* side that has moved not attacked, and en passant only behind a pawn.
IsKingOf(b, c, k) == k \in Own(b, c) /\ \A s \in Own(b, c) : b.at[s].type = "king" <=> s = k
HasPassed(b, s) == b.at[s].type = "pawn" /\ File(s) = File(b.ep) /\ Ahead(b.at[s].color, b.ep, s)
EnPassantFits(b) ==
    b.ep # NoSquare =>
        b.ep \in Squares \ DOMAIN b.at /\ \E s \in Own(b, Other(b.turn)) : HasPassed(b, s)
IsValid(b) ==
    /\ \A c \in Colors : \E k \in Squares : IsKingOf(b, c, k)
    /\ LeavesSafe(b)
    /\ EnPassantFits(b)

IsCheckmate(b) == InCheck(b) /\ LegalMoves(b) = {}

\* The positions of a line of legal moves: the first is b.
Boards(b, line) ==
    LET after[i \in 0..Len(line)] == IF i = 0 THEN b ELSE Push(after[i - 1], line[i])
    IN  after
LegalLine(b, line) ==
    \A i \in DOMAIN line : line[i] \in LegalMoves(Boards(b, line)[i - 1])

\* The letters of a move in algebraic notation: a piece, "x", and "#" or "+".
Sign(after) ==
    IF ~InCheck(after) THEN "none" ELSE IF LegalMoves(after) = {} THEN "mate" ELSE "check"
San(b, m) ==
    [piece |-> b.at[m.from].type, capture |-> IsCapture(b, m), sign |-> Sign(Push(b, m))]
=============================================================================
