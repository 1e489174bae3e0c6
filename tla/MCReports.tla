------------------------------- MODULE MCReports -------------------------------
EXTENDS Reports, TLC

\* The logistic curve in thousandths, at the scores used below.
MCWinningChances ==
    (1000 :> 951 @@ 400 :> 627 @@ 250 :> 430 @@ 100 :> 182 @@ 0 :> 0
     @@ -100 :> -182 @@ -250 :> -430 @@ -400 :> -627 @@ -1000 :> -951)

Take == {"capture"}
Quiet == {}
Move(ply, player, before, after, mate, best, pieces, pattern) ==
    [ply |-> ply, number |-> (ply + 1) \div 2, player |-> player, before |-> before, after |-> after,
     mate |-> mate, checkmates |-> FALSE, best |-> best, legal |-> 12, pieces |-> pieces, pattern |-> pattern]
Game(white, black, control, day, hour, order, won, elo, profile) ==
    [white |-> white, black |-> black, username |-> "me", control |-> control, day |-> day,
     hour |-> hour, order |-> order, won |-> won, elo |-> elo, profile |-> profile,
     source |-> IF profile = "p1" THEN "lichess" ELSE "chesscom"]

\* The opening of g1 is met again after a position of its trap; the last position
\* of g2 is one of a trap; g3 and g4 leave the book at once.
MCPositions == ("g1" :> <<"start", "e4", "trap", "book", "later">> @@ "g2" :> <<"start", "e4", "other">>
                @@ "g3" :> <<"start", "a3">> @@ "g4" :> <<"start", "a3">>)
MCMoves == ("g1" :> <<"e4", "e5", "Nf3", "d6">> @@ "g2" :> <<"e4", "c5">> @@ "g3" :> <<"a3">> @@ "g4" :> <<"a3">>)
Line(code, at, plies) == [code |-> code, at |-> at, plies |-> plies]
MCBook == <<Line("B00", "e4", 1), Line("C40", "book", 3), Line("C41", "book", 3), Line("A00", Nothing, 2)>>
Spot(at, mistake) == [at |-> at, mistake |-> mistake]
MCTraps == {"legal", "noah"}
MCVictim == ("legal" :> 0 @@ "noah" :> 0)
MCSpots == ("legal" :> {Spot("trap", "Nf3"), Spot("book", "d6")}
            @@ "noah" :> {Spot("trap", Nothing), Spot("other", "d4")})
MCPreceding == ("eco" :> {} @@ "phase" :> {"eco"} @@ "engine" :> {"eco", "phase"} @@ "traps" :> {"eco"}
             @@ "write" :> {"eco", "phase", "engine"})

\* g1: the user has White and blunders twice.  g2: Black, on the same day, a missed
\* mate and an opponent's blunder.  g3: no blunder, and no time.  g4: an earlier
\* day, a blunder, and no time control.
MCGames == {"g1", "g2", "g3", "g4"}
MCRow ==
    ("g1" :> Game("me", "you", <<180, 2>>, 2, 20, 3, 1, <<1500, 1600>>, "p1")
     @@ "g2" :> Game("you", "me", <<600, 0>>, 2, NoClock, 4, 1, <<1400, 1510>>, "p1")
     @@ "g3" :> Game("me", "you", <<"daily">>, NoDay, NoClock, 1, Draw, <<0, 1700>>, "p2")
     @@ "g4" :> Game("me", "you", <<>>, 1, 9, 2, 0, <<1490, 1500>>, "p1"))
MCSheet ==
    ("g1" :> {Move(9, 0, 100, -400, 0, Quiet, 28, "fork"), Move(85, 0, -400, -100000, 0, {None}, 5, None)}
     @@ "g2" :> {Move(8, 1, -99997, 0, 3, Take, 26, "pin"), Move(11, 0, 0, -400, 0, Quiet, 20, None)}
     @@ "g3" :> {Move(9, 0, 0, -100, 0, Quiet, 28, "fork")}
     @@ "g4" :> {Move(7, 0, 100, -400, 0, Quiet, 28, "pin")})
MCPool == ({"puzzles"} :> {"g1", "g2"} @@ {"puzzles", "removals"} :> {"g1"}
           @@ {"collapse"} :> MCGames @@ {"collapse", "removals"} :> {"g1", "g2"}
           @@ {"traps", "removals"} :> {"g1", "g2"} @@ {"traps", "faults"} :> {"g1", "g2"}
           @@ {"traps", "removals", "faults"} :> {"g1"})
MCMixes == DOMAIN MCPool
NoFilter == [start |-> NoDay, end |-> NoDay, types |-> {}, phases |-> {},
             patterns |-> {}, colors |-> {}, ranges |-> {}]
MCAsked ==
    {NoFilter, [start |-> 1, end |-> 3, types |-> {"blitz", "rapid", "hyper"}, phases |-> {"opening", "endgame"},
                patterns |-> {"fork", None}, colors |-> {0}, ranges |-> {<<0, 60>>}],
     [NoFilter EXCEPT !.end = 2]}
=============================================================================
