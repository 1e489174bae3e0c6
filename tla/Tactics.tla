-------------------------------- MODULE Tactics --------------------------------
(***************************************************************************)
(* The tactical patterns of a blunder (analysis/tactics.py and the tactics *)
(* step): what the best move would have exploited, what the blunder        *)
(* allowed, and which of them the puzzle is named after.                   *)
(*                                                                         *)
(* A pattern that may be absent is a set of at most one motif; where the   *)
(* code takes the first square that fits, squares are scanned upwards.     *)
(***************************************************************************)
EXTENDS Board

Value == [pawn |-> 100, knight |-> 320, bishop |-> 330, rook |-> 500, queen |-> 900, king |-> 20000]
DiscoveredFloor == 300
DoubleCheckGain == 500
MateThreatGain == 10000

Motif(pattern, squares, gain) == [pattern |-> pattern, squares |-> squares, gain |-> gain]
ValueAt(b, s) == Value[b.at[s].type]
TheLowest(S) == {s \in S : \A t \in S : s <= t}

-----------------------------------------------------------------------------
\* Two targets worth no less than the piece that attacks them, or the king.
ForkTargets(b, after, m) ==
    {s \in Attacks(after, m.to) \cap Own(after, after.turn) :
        after.at[s].type = "king" \/ ValueAt(after, s) >= ValueAt(b, m.from)}

\* The gain is the second value from the top.
SecondValue(b, S) ==
    LET pairs == {p \in S \X S : p[1] # p[2] /\ ValueAt(b, p[1]) <= ValueAt(b, p[2])}
    IN  CHOOSE v \in {ValueAt(b, p[1]) : p \in pairs} : \A p \in pairs : ValueAt(b, p[1]) <= v

ForkOf(after, m, targets) ==
    IF Cardinality(targets) < 2 THEN {}
    ELSE {Motif("fork", {m.to} \cup targets, SecondValue(after, targets))}
Fork(b, after, m) == ForkOf(after, m, ForkTargets(b, after, m))

\* A piece on the line through a and front, farther from a than front is.  The
\* line runs to both edges of the board and may be blocked: what lies on the
\* other side of a counts, and what lies behind another piece.
BehindOn(b, a, front, S) ==
    {s \in (Line[a][front] \ {a, front}) \cap S : Distance(a, s) > Distance(a, front)}

Skewered(after, a, f) == Lowest(BehindOn(after, a, f, Own(after, after.turn)))
Skewers(after, a) ==
    {f \in Attacks(after, a) \cap Own(after, after.turn) :
        /\ after.at[f].type \in {"king", "queen", "rook"}
        /\ BehindOn(after, a, f, Own(after, after.turn)) # {}
        /\ ValueAt(after, f) > ValueAt(after, Skewered(after, a, f))}
SkewerOf(after, a, f, s) == Motif("skewer", {a, f, s}, ValueAt(after, s))
Skewer(b, after, m) ==
    IF b.at[m.from].type \notin Sliders THEN {}
    ELSE {SkewerOf(after, m.to, f, Skewered(after, m.to, f)) :
            f \in TheLowest(Skewers(after, m.to))}

\* What piece a attacks only since the move left the line between them.
Revealed(b, after, m, a) ==
    IF Line[a][m.from] = {} \/ a \notin DOMAIN after.at THEN {}
    ELSE {s \in (Attacks(after, a) \ Attacks(b, a)) \cap Own(after, after.turn) :
             after.at[s].type = "king" \/ ValueAt(after, s) >= DiscoveredFloor}
Discoverers(b, after, m) ==
    {a \in Own(b, b.turn) \ {m.to} : b.at[a].type \in Sliders /\ Revealed(b, after, m, a) # {}}
DiscoveryOf(after, m, a, s) ==
    Motif(IF after.at[s].type = "king" THEN "discovered check" ELSE "discovered attack",
          {a, m.from, s}, ValueAt(after, s))
Discovered(b, after, m) ==
    {DiscoveryOf(after, m, a, Lowest(Revealed(b, after, m, a))) : a \in TheLowest(Discoverers(b, after, m))}

DoubleCheck(after) ==
    {Motif("double check", c, DoubleCheckGain) : c \in {x \in {Checkers(after)} : Cardinality(x) >= 2}}

EmptyEscapes(b) ==
    {s \in Attacks(b, KingOf(b, b.turn)) \ DOMAIN b.at : ~Attacked(b, Other(b.turn), s)}
\* The squares beside the king of the side to move that no enemy attacks now.
\* The king itself still screens the squares behind it.
Escapes(b) ==
    {s \in Attacks(b, KingOf(b, b.turn)) \ Own(b, b.turn) : ~Attacked(b, Other(b.turn), s)}

BackRank(b, after, m) ==
    LET king == KingOf(after, after.turn)
    IN  IF /\ b.at[m.from].type \in {"rook", "queen"}
           /\ InCheck(after)
           /\ Rank(king) = HomeRank(after.turn) /\ Rank(m.to) = HomeRank(after.turn)
           /\ Escapes(after) = {}
          THEN {Motif("back rank threat", {m.to, king}, MateThreatGain)}
          ELSE {}

\* The pattern that gains most; among equals, the detector that comes first.
DetectorOf == [p \in {"fork", "skewer", "discovered attack", "discovered check",
                      "double check", "back rank threat"} |->
    CASE p = "fork" -> 1 [] p = "skewer" -> 2 [] p = "double check" -> 4
      [] p = "back rank threat" -> 5 [] OTHER -> 3]
Foremost(found) ==
    {t \in found : \A u \in found :
        \/ u.gain < t.gain
        \/ u.gain = t.gain /\ DetectorOf[t.pattern] <= DetectorOf[u.pattern]}
Found(b, after, m) ==
    Fork(b, after, m) \cup Skewer(b, after, m) \cup Discovered(b, after, m)
      \cup DoubleCheck(after) \cup BackRank(b, after, m)
MoveTactics(b, m) == Foremost(Found(b, Push(b, m), m))

-----------------------------------------------------------------------------
Hanging(b, s) ==
    LET c == b.at[s].color
    IN  Attacked(b, Other(c), s) /\ ~Attacked(b, c, s)

HangingPieces(b, c) ==
    {Motif("hanging piece", {s}, ValueAt(b, s)) :
        s \in {t \in Own(b, c) : b.at[t].type # "king" /\ Hanging(b, t)}}

\* Pinned to the king: an enemy slider would attack it were the piece gone.
PinnedBy(b, c, s) ==
    LET king == KingOf(b, c)
        without == [b EXCEPT !.at = [t \in (DOMAIN b.at) \ {s} |-> b.at[t]]]
    IN  {a \in Own(b, Other(c)) : /\ b.at[a].type \in Sliders /\ s \in Between[a][king]
                                  /\ king \in Attacks(without, a)}
\* Named as the pinner is the lowest enemy anywhere on the line of the pin.
AbsolutePins(b, c) ==
    {Motif("pin", {s, Lowest(Line[KingOf(b, c)][s] \cap Own(b, Other(c)))}, ValueAt(b, s)) :
        s \in {t \in Own(b, c) : b.at[t].type # "king" /\ PinnedBy(b, c, t) # {}}}

\* A piece with a dearer one, the king excepted, behind it.  A pin of the same
\* two pieces is not told twice.
PinBehind(b, c, a, s) ==
    BehindOn(b, a, s, {t \in Own(b, c) : b.at[t].type # "king"})
PinTargets(b, c, a) ==
    {s \in Attacks(b, a) \cap Own(b, c) :
        /\ PinBehind(b, c, a, s) # {}
        /\ ValueAt(b, Lowest(PinBehind(b, c, a, s))) > ValueAt(b, s)}
RelativePins(b, c) ==
    UNION {{Motif("pin", {s, a, Lowest(PinBehind(b, c, a, s))}, ValueAt(b, s)) :
              s \in {t \in PinTargets(b, c, a) : ~\E u \in PinTargets(b, c, a) :
                        u < t /\ t = Lowest(PinBehind(b, c, a, u))}} :
           a \in {x \in Own(b, Other(c)) : b.at[x].type \in Sliders}}

Weaknesses(b, c) == HangingPieces(b, c) \cup AbsolutePins(b, c) \cup RelativePins(b, c)
NewWeaknesses(b, m) ==
    {w \in Weaknesses(Push(b, m), b.turn) :
        ~\E v \in Weaknesses(b, b.turn) : v.pattern = w.pattern /\ v.squares = w.squares}

\* classify_blunder_tactics as the tactics step calls it: with the best move,
\* if there is one, and without a reply, so that what the blunder allowed is the
\* worst weakness that was not there before.  Among equal ones the code takes
\* the first; they name the puzzle alike unless one hangs and one is pinned.
Gravest(new) == {w \in new : \A v \in new : v.gain <= w.gain}
Worst(S) ==
    IF S = {} THEN {}
    ELSE {CHOOSE w \in S : \A v \in S : w.pattern = "hanging piece" \/ v.pattern # "hanging piece"}
Classified(b, blunder, best) ==
    [missed |-> UNION {MoveTactics(b, m) : m \in best},
     allowed |-> Worst(Gravest(NewWeaknesses(b, blunder)))]

\* The pattern the puzzle is filed under: a missed tactic before an allowed one.
PrimaryPattern(t) ==
    IF t.missed # {} THEN (CHOOSE x \in t.missed : TRUE).pattern
    ELSE IF t.allowed # {} THEN (CHOOSE x \in t.allowed : TRUE).pattern
    ELSE "none"
=============================================================================
