------------------------------- MODULE Openings -------------------------------
(***************************************************************************)
(* What the positions of a game say of it: the opening it belongs to       *)
(* (analysis/eco.py) and the known traps it ran into (analysis/traps.py),  *)
(* and what the trap tables tell (repositories/trap_repository.py).        *)
(*                                                                         *)
(* A position is a value: two orders of moves that come to the same one    *)
(* meet in it, as they meet in its hash or its EPD.                        *)
(***************************************************************************)
EXTENDS Integers, FiniteSets, Sequences, SequencesExt

CONSTANTS
    Games,     \* ids
    Positions, \* of each game, the positions in order, from the initial one
    Moves,     \* and the moves between them
    Book,      \* the rows of eco.tsv in order: code, at, plies
    Traps,     \* ids of traps.json
    Victim,    \* of each, the side that falls for it: 0 or 1
    Spots      \* and its positions: at, mistake (Nothing where there is none)

Nothing == "none"   \* no position, no mistake, no opening

ASSUME OpeningsAssumption ==
    /\ \A g \in Games : /\ Moves[g] \in Seq(ToSet(Moves[g])) /\ Positions[g] \in Seq(ToSet(Positions[g]))
                        /\ Len(Positions[g]) = Len(Moves[g]) + 1 /\ Nothing \notin ToSet(Positions[g])
    /\ Book \in Seq(ToSet(Book)) /\ \A row \in ToSet(Book) : row.code # Nothing
-----------------------------------------------------------------------------
(* Openings.                                                                *)

\* _load_eco_entries: a position keeps its longest line, of equals the last; a
\* row that cannot be played is left out.
Kept(found, row) == row.at \in DOMAIN found /\ row.plies < found[row.at].plies
Added(found, row) ==
    IF row.at = Nothing \/ Kept(found, row) THEN found
    ELSE [p \in DOMAIN found \cup {row.at} |-> IF p = row.at THEN row ELSE found[p]]
EcoEntries ==
    LET read[n \in 0..Len(Book)] == IF n = 0 THEN <<>> ELSE Added(read[n - 1], Book[n])
    IN read[Len(Book)]

\* classify takes moves back until it meets a position of the book.
Classified(g) ==
    LET back[n \in 0..Len(Positions[g])] ==
            IF n = 0 THEN Nothing
            ELSE IF Positions[g][n] \in DOMAIN EcoEntries THEN EcoEntries[Positions[g][n]].code
            ELSE back[n - 1]
    IN back[Len(Positions[g])]
Opening == [g \in Games |-> Classified(g)]
-----------------------------------------------------------------------------
(* Traps.                                                                   *)

\* _scan_position: the mistakes first, then the entries.
Sprung(seen, g, n) ==
    {t \in Traps \ DOMAIN seen.triggered :
        \E s \in Spots[t] : s.at = Positions[g][n] /\ s.mistake = Moves[g][n]}
Met(g, n) == {t \in Traps : \E s \in Spots[t] : s.at = Positions[g][n]}
Scan(seen, g, n) ==
    LET now == Sprung(seen, g, n)
    IN [entered |-> seen.entered \cup Met(g, n),
        triggered |-> [t \in DOMAIN seen.triggered \cup now |-> IF t \in now THEN n ELSE seen.triggered[t]]]

\* _finalize_entries: nothing is played in the last position, which may still be
\* one of a trap.  The faulty variant looks at those before a move only.
LastForgotten(seen, g) == seen
Finalize(seen, g) == [seen EXCEPT !.entered = @ \cup Met(g, Len(Positions[g]))]

\* _build_match, for the side the user had.
Match(g, t, seen, side) ==
    LET sprung == t \in DOMAIN seen.triggered
    IN [game |-> g, trap |-> t, victim |-> Victim[t] = side,
        type |-> IF ~sprung THEN "entered" ELSE IF Victim[t] = side THEN "sprung" ELSE "executed",
        ply |-> IF sprung THEN seen.triggered[t] ELSE 0]

\* match_game.
Scanned(g) ==
    LET seen[n \in 0..Len(Moves[g])] ==
            IF n = 0 THEN [entered |-> {}, triggered |-> <<>>] ELSE Scan(seen[n - 1], g, n)
    IN Finalize(seen[Len(Moves[g])], g)
MatchGame(g, side) ==
    {Match(g, t, Scanned(g), side) : t \in Scanned(g).entered \cup DOMAIN Scanned(g).triggered}
-----------------------------------------------------------------------------
(* The reports on the rows of trap_matches.                                 *)

OfType(rows, type) == Cardinality({m \in rows : m.type = type})

\* get_trap_stats, a row for each trap.
TrapStats(rows) ==
    [t \in {m.trap : m \in rows} |->
        LET its == {m \in rows : m.trap = t}
        IN [entered |-> OfType(its, "entered"), sprung |-> OfType({m \in its : m.victim}, "sprung"),
            executed |-> OfType(its, "executed"), total |-> Cardinality(its)]]

\* ORDER BY a number DESC LIMIT: which of equals come in is left open.
Top(numbers, limit) ==
    CHOOSE top \in SUBSET DOMAIN numbers :
        /\ Cardinality(top) <= limit
        /\ top # DOMAIN numbers => Cardinality(top) = limit
        /\ \A a \in top, b \in DOMAIN numbers \ top : numbers[a] >= numbers[b]
Ranked(numbers, limit) == [k \in Top(numbers, limit) |-> numbers[k]]

\* get_trap_summary: the totals, and the traps the user falls for most.
TrapSummary(rows, limit) ==
    LET fallen == {m \in rows : m.type = "sprung" /\ m.victim}
        times == [t \in {m.trap : m \in fallen} |-> Cardinality({m \in fallen : m.trap = t})]
    IN [games_with_traps |-> Cardinality({m.game : m \in rows}),
        total_sprung |-> Cardinality(fallen), total_entered |-> OfType(rows, "entered"),
        total_executed |-> OfType(rows, "executed"), top_traps |-> Ranked(times, limit)]

\* get_trap_history joins the games: rows of games that are gone do not show.
TrapHistory(rows, index, t) == {m \in rows : m.trap = t /\ m.game \in index}
=============================================================================
