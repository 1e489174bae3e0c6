-------------------------------- MODULE MCCoach --------------------------------
EXTENDS CoachNotes

Column == [a |-> 0, b |-> 1, c |-> 2, d |-> 3, e |-> 4, f |-> 5, g |-> 6, h |-> 7]
At(c, r) == 8 * (r - 1) + Column[c]
Piece_(k, c) == [type |-> k, color |-> c]
W(k) == Piece_(k, "white")
B(k) == Piece_(k, "black")
Position(at) == [at |-> at, turn |-> "white", ep |-> NoSquare, castle |-> {}]
Move(c, r, d, s) == [from |-> At(c, r), to |-> At(d, s), promo |-> "none"]
Case(b, played, line, refutation, phase, loss) ==
    [board |-> b, played |-> played, best |-> IF line = <<>> THEN {} ELSE {line[1]},
     bestLine |-> line, refutation |-> refutation, phase |-> phase, loss |-> loss]
Lesson(c) ==
    [board |-> c.board, played |-> c.played, best |-> c.best, bestLine |-> c.bestLine,
     refutation |-> c.refutation, phase |-> c.phase, loss |-> c.loss,
     pattern |-> PrimaryPattern(Classified(c.board, c.played, c.best))]

\* 1: the queen takes a pawn and leaves the back rank.
Grab == Position(
    At("g", 1) :> W("king") @@ At("d", 4) :> W("queen") @@ At("f", 2) :> W("pawn")
    @@ At("g", 2) :> W("pawn") @@ At("h", 2) :> W("pawn")
    @@ At("g", 8) :> B("king") @@ At("b", 8) :> B("rook") @@ At("a", 7) :> B("pawn")
    @@ At("f", 7) :> B("pawn") @@ At("g", 7) :> B("pawn") @@ At("h", 7) :> B("pawn"))
\* 2: a fork of king and rook is missed.
Knight == Position(
    At("g", 1) :> W("king") @@ At("d", 5) :> W("knight") @@ At("g", 2) :> W("pawn")
    @@ At("e", 8) :> B("king") @@ At("a", 8) :> B("rook") @@ At("h", 7) :> B("pawn"))
\* 3: a double check and a discovered one are missed; the queen may be lost.
Battery == Position(
    At("g", 1) :> W("king") @@ At("e", 1) :> W("rook") @@ At("e", 4) :> W("knight")
    @@ At("h", 2) :> W("pawn") @@ At("e", 8) :> B("king") @@ At("d", 5) :> B("queen")
    @@ At("f", 8) :> B("bishop") @@ At("d", 7) :> B("pawn"))
\* 4: mate on the back rank is missed, and the queen put where it is taken.
Corner == Position(
    At("g", 1) :> W("king") @@ At("d", 5) :> W("queen") @@ At("h", 2) :> W("pawn")
    @@ At("h", 8) :> B("king") @@ At("c", 8) :> B("bishop") @@ At("g", 7) :> B("pawn")
    @@ At("h", 7) :> B("pawn"))

\* 5: two rooks mate in two moves.
Ladder == Position(
    At("g", 1) :> W("king") @@ At("a", 1) :> W("rook") @@ At("b", 1) :> W("rook")
    @@ At("h", 7) :> B("king") @@ At("g", 3) :> B("pawn"))
\* 6: the rook wins the queen and is taken.
Trade == Position(
    At("g", 1) :> W("king") @@ At("d", 1) :> W("rook") @@ At("h", 2) :> W("pawn")
    @@ At("h", 7) :> B("king") @@ At("d", 5) :> B("queen") @@ At("e", 6) :> B("pawn"))
\* 7: the queen gives herself up; she may be saved, but then it is mate.
Lost == Position(
    At("h", 1) :> W("king") @@ At("h", 2) :> W("pawn") @@ At("e", 7) :> W("queen")
    @@ At("h", 8) :> B("king") @@ At("b", 2) :> B("rook") @@ At("c", 8) :> B("rook"))

Cases ==
    [grab  |-> Case(Grab, Move("d", 4, "a", 7), <<Move("h", 2, "h", 3), Move("h", 7, "h", 6)>>,
                      <<Move("b", 8, "b", 1)>>, "endgame", 1000),
     fork  |-> Case(Knight, Move("d", 5, "f", 4), <<Move("d", 5, "c", 7)>>, <<>>, "middlegame", 500),
     forkDeep |-> Case(Knight, Move("d", 5, "f", 4),
                      <<Move("d", 5, "c", 7), Move("e", 8, "e", 7), Move("c", 7, "a", 8)>>,
                      <<Move("e", 8, "f", 7), Move("g", 2, "g", 4)>>, "middlegame", 500),
     battery |-> Case(Battery, Move("h", 2, "h", 3), <<Move("e", 4, "f", 6), Move("e", 8, "d", 8), Move("f", 6, "d", 5)>>,
                      <<Move("d", 5, "e", 4), Move("e", 1, "e", 4)>>, "middlegame", 300),
     corner |-> Case(Corner, Move("d", 5, "d", 7), <<Move("d", 5, "d", 8)>>,
                      <<Move("c", 8, "d", 7)>>, "endgame", 2000),
     ladder |-> Case(Ladder, Move("b", 1, "b", 3),
                      <<Move("a", 1, "a", 7), Move("h", 7, "g", 8), Move("b", 1, "b", 8)>>,
                      <<Move("h", 7, "g", 6)>>, "endgame", 400),
     lost |-> Case(Lost, Move("e", 7, "e", 2), <<Move("e", 7, "d", 7)>>,
                      <<Move("b", 2, "e", 2)>>, "endgame", 600),
     lostDeep |-> Case(Lost, Move("e", 7, "e", 2),
                      <<Move("e", 7, "d", 7), Move("c", 8, "c", 1), Move("d", 7, "d", 1), Move("c", 1, "d", 1)>>,
                      <<Move("b", 2, "e", 2)>>, "endgame", 600),
     trade |-> Case(Trade, Move("h", 2, "h", 3), <<Move("d", 1, "d", 5), Move("e", 6, "d", 5)>>,
                      <<Move("d", 5, "d", 1)>>, "middlegame", 1400)]
MCLessonOf == [n \in DOMAIN Cases |-> Lesson(Cases[n])]
MCLessons == {"grab", "fork", "forkDeep", "battery", "corner", "ladder", "trade", "lost", "lostDeep"}
MCLonger == [n \in MCLessons |-> CASE n = "fork" -> {"forkDeep"} [] n = "lost" -> {"lostDeep"} [] OTHER -> {}]
MCCourses == {<< <<"ladder", "grab">>, <<"fork", "battery">> >>,
              << <<"corner", "trade">> >>, << <<"lost", "trade">> >>}

Part(rule, claims, squares, passive) ==
    [rule |-> rule, long |-> FALSE, concept |-> TRUE, claims |-> claims,
     squares |-> squares, places |-> {}, passive |-> passive]
Text(echoes, sentences) == [marks |-> {}, echoes |-> echoes, sentences |-> sentences]
MCAnswers ==
    {Text({"loss", "missed mate"}, <<Part("none", {"check"}, {At("d", 1)}, FALSE), Part("concrete", {}, {}, FALSE)>>),
     Text({}, <<Part("none", {"mate", "king"}, {}, TRUE), Part("concrete", {}, {}, FALSE)>>),
     Text({}, <<Part("none", {"capture"}, {}, TRUE), Part("none", {}, {}, FALSE), Part("none", {}, {}, FALSE),
                Part("concrete", {}, {}, FALSE), Part("none", {"mate"}, {}, FALSE)>>),
     Text({}, <<Part("none", {}, {}, FALSE), Part("generic", {}, {}, FALSE)>>)}
=============================================================================
