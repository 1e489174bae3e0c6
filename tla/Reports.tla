-------------------------------- MODULE Reports --------------------------------
(***************************************************************************)
(* What the dashboard says of a user's blunders and which of them the      *)
(* trainer offers as puzzles (repositories/stats_repository.py,            *)
(* web/api/stats.py, trainer.py, services/puzzle_service.py,               *)
(* repositories/puzzle_attempt_repository.py), and the rows of the traps   *)
(* (steps/traps.py, services/trap_backfill_service.py), while games are    *)
(* imported, analysed and deleted.  An answer is put together from several *)
(* queries, with awaits between them; trap matches are saved one by one; a *)
(* run of the pipeline skips what an earlier one recorded as done.         *)
(*                                                                         *)
(* A name stands for all its spellings: both sides compare lower case.     *)
(***************************************************************************)
EXTENDS MoveQuality, Openings, FiniteSetsExt

CONSTANTS
    Row,       \* of each game: white, black, username, control, day, hour, order, won, elo, profile, source
    Sheet,     \* of each: what the engine says of its moves, a set
    Asked,     \* the filters asked for
    Mixes,     \* bound: what one behaviour draws from: puzzles, collapse, traps, faults, removals
    Pool,      \* bound: the games of each
    Preceding, \* of each step, those that come before it: more than it depends on, as hashing has it
    DayLimit, ColorLimit, \* days, and rows of days and colours, that are shown
    Window,    \* games to a window of the growth report
    MaxAnalyses, \* bound: analyses at once, each of another game
    MaxFaults, \* bound: steps that fail, runs and wipes that are cut short
    MaxAttempts, \* bound: attempts submitted
    MaxRemovals \* bound: profiles deleted and wipes

\* The steps of a run; stockfish, move_quality and tactics are one.
Steps == {"eco", "phase", "engine", "traps", "write"}

\* A game's place in the order they ended agrees with its day; which of two that
\* ended at the same moment comes first is left open.
ASSUME ReportsAssumption ==
    /\ IsFiniteSet(Games)
    /\ \A g \in Games : IsFiniteSet(Sheet[g]) /\ \A m \in Sheet[g] : m.player \in 0..1
    /\ \A g \in Games : Row[g].day \in Nat /\ Row[g].order \in Nat
    /\ \A g, h \in Games : /\ Row[g].order = Row[h].order => g = h
                           /\ Row[g].order < Row[h].order => Row[g].day <= Row[h].day
    /\ Asked \subseteq [start : Nat, end : Nat, types : SUBSET STRING, phases : SUBSET STRING,
                        patterns : SUBSET STRING, colors : SUBSET (0..1), ranges : SUBSET (Nat \X Nat)]
    /\ Preceding \in [Steps -> SUBSET Steps] /\ {"eco", "phase", "engine"} \subseteq Preceding["write"]
    /\ DayLimit \in Nat \ {0} /\ ColorLimit = 2 * DayLimit
    /\ Window \in Nat \ {0} /\ MaxAnalyses \in Nat /\ MaxAttempts \in Nat
    /\ MaxRemovals \in Nat /\ MaxFaults \in Nat

Idle == [kind |-> "none"]
Neither == -1   \* a side, besides 0 for White and 1 for Black
Draw == 2       \* a winner
NoDay == 0      \* days begin at 1
NoClock == -1   \* an hour, besides 0..23
NoRating == 0

VARIABLES
    mix,       \* what this behaviour draws from
    index,     \* games in game_index_cache
    analysed,  \* those whose flag is set
    moves,     \* games that have rows in analysis_moves
    phased,    \* those whose rows have a game_phase
    analyses,  \* games that have a row in analysis_games
    named,     \* those whose row got what classify_opening says, not NULL for want of it
    recorded,  \* of each game, the steps in analysis_step_status
    attempts,  \* puzzle_attempts by id: resting, less than spaced_repetition_days ago
    matches,   \* rows of trap_matches
    running,   \* of each game, where its analysis is: the steps left, those that ran, traps to save
    backfill,  \* the trap backfill: the games left, the one it is at, and its traps
    wiping,    \* the tables the wipe has still to empty, in order
    removals, faults, \* counts for the bounds
    request,   \* the answer that is being put together
    untold     \* history: games removed while they were analysed, or left half told

tables == <<index, analysed, moves, phased, attempts>>
kept   == <<analyses, named, recorded>>
traps  == <<matches, backfill, untold>>
counts == <<removals, faults>>
reportVars == <<mix, tables, kept, traps, running, wiping, counts, request>>

Resting == [left |-> {}, game |-> Nothing, todo |-> {}]
Run(at, left, ran, todo) == [at |-> at, left |-> left, ran |-> ran, todo |-> todo]
NotRun  == Run("idle", {}, {}, {})

ReportsInit ==
    /\ index = {} /\ analysed = {} /\ moves = {} /\ phased = {} /\ attempts = <<>>
    /\ analyses = {} /\ named = {} /\ recorded = [g \in Games |-> {}]
    /\ mix \in Mixes /\ matches = {} /\ backfill = Resting /\ untold = {}
    /\ running = [g \in Games |-> NotRun] /\ wiping = <<>> /\ removals = 0 /\ faults = 0
    /\ request = Idle
-----------------------------------------------------------------------------
(* The rows a report is about.                                              *)

\* _build_stats_filter, _puzzle_filters.  The dashboard drops the names it does
\* not know, and does not filter at all by a list of none that it knows.
GameTypes == {"ultrabullet", "bullet", "blitz", "rapid", "classical", "correspondence", "unknown"}
Phases == {"opening", "middlegame", "endgame"}
StatsFilter(a) == [a EXCEPT !.types = @ \cap GameTypes, !.phases = @ \cap Phases]
Filters == {StatsFilter(a) : a \in Asked}

\* PLAYER_SIDE_FILTER and get_all_game_side_map: White if both are the user.
Side ==
    [g \in Games |-> IF Row[g].white = Row[g].username THEN 0
                     ELSE IF Row[g].black = Row[g].username THEN 1 ELSE Neither]
TypeOf == [g \in Games |-> GameType(Row[g].control)]

\* The time of a game is compared as a string.  One that has a clock,
\* "2024-01-15T...", is greater than "2024-01-15 23:59:59" as it is greater than
\* "2024-01-15": the games of the last day pass only if they have none.
Within(g, f) ==
    /\ f.start # NoDay => Row[g].day # NoDay /\ Row[g].day >= f.start
    /\ f.end # NoDay => /\ Row[g].day # NoDay
                        /\ Row[g].day < f.end \/ (Row[g].day = f.end /\ Row[g].hour = NoClock)

Matching ==
    [f \in Filters |-> {g \in Games : Within(g, f) /\ (f.types # {} => TypeOf[g] \in f.types)}]

\* whole: the rows of the game have their phases.
PhaseMatches(m, whole, f) == f.phases # {} => whole /\ m.phase \in f.phases

\* StatsFilter.append_to behind the JOIN of moves and games.  Own: the user's
\* moves, as they are stored.
Rows == [g \in Games |-> {Judged(m) : m \in Sheet[g]}]
Own == [g \in Games |-> {m \in Rows[g] : m.player = Side[g]}]
Selection ==
    [f \in Filters |-> [g \in Games |-> [whole \in BOOLEAN |->
        {m \in Own[g] : g \in Matching[f] /\ PhaseMatches(m, whole, f)}]]]
Selected(f) == UNION {{g} \X Selection[f][g][(g \in phased)] : g \in index \cap moves}
Blunders(f) == {r \in Selected(f) : r[2].class = Blunder}

\* get_overview_stats.
Overview(f) ==
    LET games == index \cap Matching[f]
    IN [total_games |-> Cardinality(games),
        analyzed_games |-> Cardinality(games \cap analysed),
        total_blunders |-> Cardinality(Blunders(f)),
        pending_analysis |-> Cardinality(games \ analysed)]

\* The rows of one GROUP BY: how many have each key.
GroupBy(key) ==
    [k \in {key[r] : r \in DOMAIN key} |-> Cardinality({r \in DOMAIN key : key[r] = k})]

ByPhase(f) == GroupBy([r \in Blunders(f) |-> IF r[1] \in phased THEN r[2].phase ELSE None])
ByColor(f) == GroupBy([r \in Blunders(f) |-> Side[r[1]]])
ByPattern(f) == GroupBy([r \in Blunders(f) |-> r[2].pattern])
ByGameType(f) == GroupBy([r \in Blunders(f) |-> TypeOf[r[1]]])
ByDifficulty(f) ==
    GroupBy([r \in Blunders(f) |-> IF r[2].difficulty <= 30 THEN "easy"
                                  ELSE IF r[2].difficulty <= 60 THEN "medium" ELSE "hard"])

\* The blunders of the days, and of each colour on them; a game without a time
\* has none.  Only the newest are shown, ORDER BY date DESC LIMIT; which colours
\* of the last day is left open.
DatedBlunders(f) == {b \in Blunders(f) : Row[b[1]].day # NoDay}
ByDay(f) ==
    LET days == GroupBy([r \in DatedBlunders(f) |-> Row[r[1]].day])
    IN Restrict(days, {d \in DOMAIN days : Cardinality({e \in DOMAIN days : e > d}) < DayLimit})

NewestRows(rows, all) ==
    /\ Cardinality(rows) <= ColorLimit
    /\ rows # all => Cardinality(rows) = ColorLimit
    /\ \A r \in rows, o \in all \ rows : r[1] >= o[1]
ByDayColor(f) ==
    LET colors == GroupBy([r \in DatedBlunders(f) |-> <<Row[r[1]].day, Side[r[1]]>>])
    IN {Restrict(colors, rows) : rows \in {s \in SUBSET DOMAIN colors : NewestRows(s, DOMAIN colors)}}

\* The games behind the accuracies of a day or an hour: analysed, with moves that
\* pass.  A game without a time has NULL for both, and a sort of NULL and others
\* raises: then there is no answer.
Sorted(groups, null) == IF null \in DOMAIN groups /\ DOMAIN groups # {null} THEN <<>> ELSE groups
Accurate(f) == {r[1] : r \in {x \in Selected(f) : x[1] \in analysed}}
HourOf(g) == IF Row[g].day = NoDay THEN NoClock ELSE Most(0, Row[g].hour)
GamesByDay(f) == Sorted(GroupBy([g \in Accurate(f) |-> Row[g].day]), NoDay)
GamesByHour(f) == Sorted(GroupBy([g \in Accurate(f) |-> HourOf(g)]), NoClock)

\* get_game_breakdown takes no filter.
BySource == GroupBy([g \in index |-> Row[g].source])

\* The openings with the most blunders, and their total: not that of all.
ByOpening(f, limit) ==
    LET with == {b \in Blunders(f) : b[1] \in named /\ Opening[b[1]] # Nothing}
    IN Ranked(GroupBy([r \in with |-> Opening[r[1]]]), limit)
-----------------------------------------------------------------------------
(* Conversion, collapse and growth: one value for each game.                *)

\* _aggregate_game_evals turns the sign for a user who had Black.
Evals(g, f) ==
    {IF Side[g] = 0 THEN r[2].before ELSE -r[2].before : r \in {x \in Selected(f) : x[1] = g}}

\* _classify_game_outcome: was the user ahead at some move, or behind, and how
\* did the game end?
Outcome(g, f) ==
    LET ahead == \E e \in Evals(g, f) : e > 200
        behind == \E e \in Evals(g, f) : e < -200
    IN [advantage |-> ahead, converted |-> ahead /\ Row[g].won = Side[g],
        disadvantage |-> behind, saved |-> behind /\ Row[g].won \in {Side[g], Draw}]

\* get_conversion_resilience.
Conversion(f) ==
    LET outcomes == [g \in {o \in index \cap analysed : Evals(o, f) # {}} |-> Outcome(g, f)]
        Count(Of(_)) == Cardinality({g \in DOMAIN outcomes : Of(outcomes[g])})
    IN [games_with_advantage |-> Count(LAMBDA o : o.advantage),
        games_converted |-> Count(LAMBDA o : o.converted),
        games_with_disadvantage |-> Count(LAMBDA o : o.disadvantage),
        games_saved |-> Count(LAMBDA o : o.saved)]

\* The first query of get_collapse_point, and what is made of it.
FirstBlunders(f) ==
    LET found == {r \in Blunders(f) : r[1] \in analysed}
    IN [g \in {r[1] : r \in found} |->
          LET first == CHOOSE r \in found :
                         r[1] = g /\ \A o \in found : o[1] = g => r[2].ply <= o[2].ply
          IN first[2].number]

\* Buckets of five moves, and one for all from the 41st on.
Bucket(number) == IF number >= 41 THEN 41 ELSE ((number - 1) \div 5) * 5 + 1
Distribution(firsts) ==
    [b \in {Bucket(firsts[g]) : g \in DOMAIN firsts} |->
        Cardinality({g \in DOMAIN firsts : Bucket(firsts[g]) = b})]

\* The second query.  The faulty variant counts the games still to be analysed.
CountStored(f) == Cardinality(index \cap Matching[f])
CountAnalysed(f) == Cardinality(index \cap analysed \cap Matching[f])

\* Games in the order they ended.
InOrder ==
    [games \in SUBSET Games |-> [n \in 1..Cardinality(games) |->
        CHOOSE g \in games : Cardinality({o \in games : Row[o].order < Row[g].order}) = n - 1]]

Entry ==
    [g \in Games |->
        LET blunders == {m \in Own[g] : m.class = Blunder}
        IN [game |-> g, blunders |-> Cardinality(blunders),
            catastrophic |-> Cardinality({m \in blunders : m.loss > 500})]]

\* get_growth_metrics: the games in the order they ended, whatever their phase.
Growth(f) ==
    LET ended == InOrder[{g \in index \cap analysed \cap moves \cap Matching[f] : Own[g] # {}}]
    IN [n \in DOMAIN ended |-> Entry[ended[n]]]

\* What is told of a window.
Totals(games) ==
    LET Sum(Of(_)) == FoldLeft(LAMBDA sum, e : sum + Of(e), 0, games)
    IN [blunders |-> Sum(LAMBDA e : e.blunders),
        clean |-> Sum(LAMBDA e : IF e.blunders = 0 THEN 1 ELSE 0),
        catastrophic |-> Sum(LAMBDA e : e.catastrophic)]

\* _compute_growth_windows: whole windows, counted from the oldest game.  The
\* faulty variant counts them from the newest.
FromNewest(n) == n % Window
FromOldest(n) == 0
WindowOf(games, k) ==
    LET start == FromOldest(Len(games)) + (k - 1) * Window
    IN SubSeq(games, start + 1, start + Window)
Windows(f) ==
    LET games == Growth(f)
    IN [k \in 1..(Len(games) \div Window) |-> Totals(WindowOf(games, k))]
-----------------------------------------------------------------------------
(* The rating history of a profile.                                         *)

\* list_rating_history_rows: of each day the game that ended last.
LatestOfDays(p, mode, since) ==
    LET recent == {g \in index : /\ Row[g].profile = p /\ Row[g].day >= since
                                 /\ mode # Nothing => TypeOf[g] = mode}
    IN {g \in recent : \A o \in recent : Row[o].day = Row[g].day => Row[o].order <= Row[g].order}

\* _resolve_mode: "unknown" is no mode, and raises.
IsMode(mode) == mode \in {Nothing} \cup (GameTypes \ {"unknown"})

\* _pick_side and _row_to_point: the user's rating, if the headers have it.  A
\* day whose last game has none is left out, whatever its other games have.
Rating(g) == IF Side[g] = Neither THEN NoRating ELSE Row[g].elo[Side[g] + 1]
RatingHistory(p, mode, since) ==
    LET rated == InOrder[{g \in LatestOfDays(p, mode, since) : IsMode(mode) /\ Rating(g) # NoRating}]
    IN [n \in DOMAIN rated |->
          [game |-> rated[n], day |-> Row[rated[n]].day, type |-> TypeOf[rated[n]], rating |-> Rating(rated[n])]]
-----------------------------------------------------------------------------
(* The tables.  moved tells a report that they changed since its first query. *)

Touched ==
    request' = IF request.kind = "collapse" THEN [request EXCEPT !.moved = TRUE] ELSE request

\* An analysis works on the game it loaded.
Begins(g) ==
    /\ running[g] = NotRun
    /\ Cardinality({o \in Games : running[o] # NotRun}) < MaxAnalyses
    /\ running' = [running EXCEPT ![g] = Run("step", Steps, {}, {})]

Import(g) ==
    /\ g \in Pool[mix] \ index
    /\ index' = index \cup {g}
    /\ Touched
    /\ UNCHANGED <<traps, kept, analysed, moves, phased, attempts, running, wiping, counts>>

\* A job looks whether there is an analysis; a PGN that is uploaded is analysed
\* whatever an earlier life of the game left.
Analyse(g) ==
    /\ g \in index \ (analysed \cup analyses)
    /\ Begins(g)
    /\ UNCHANGED <<tables, kept, traps, wiping, counts, request>>

Upload(g) ==
    /\ g \in Pool[mix] \ index
    /\ index' = index \cup {g}
    /\ Begins(g)
    /\ Touched
    /\ UNCHANGED <<traps, kept, analysed, moves, phased, attempts, wiping, counts>>

\* _run_single_step: a step that an earlier run recorded is skipped, and leaves
\* an empty result.
IsNext(g, s) ==
    /\ running[g].at = "step"
    /\ s \in running[g].left /\ Preceding[s] \cap running[g].left = {}
IsExecuted(g, s) == IsNext(g, s) /\ s \notin recorded[g]
Done(g, s) ==
    running' = [running EXCEPT ![g] = Run("step", @.left \ {s}, @.ran \cup {s}, @.todo)]

SkipStep(g, s) ==
    /\ IsNext(g, s) /\ s \in recorded[g]
    /\ running' = [running EXCEPT ![g] = Run(@.at, @.left \ {s}, @.ran, @.todo)]
    /\ UNCHANGED <<tables, kept, traps, wiping, counts, request>>

\* The opening goes to the row of an earlier analysis, if there is one; the
\* others only compute.
ComputeStep(g, s) ==
    /\ s \in {"eco", "phase", "engine"} /\ IsExecuted(g, s)
    /\ Done(g, s)
    /\ named' = IF s = "eco" THEN named \cup ({g} \cap analyses) ELSE named
    /\ UNCHANGED <<tables, analyses, recorded, traps, wiping, counts, request>>

\* write_analysis replaces the rows by what this run itself computed.
Replaced(rows, g, s) == IF s \in running[g].ran THEN rows \cup {g} ELSE rows \ {g}
WriteMoves(g) ==
    /\ IsExecuted(g, "write")
    /\ Done(g, "write")
    /\ analyses' = analyses \cup {g}
    /\ named' = Replaced(named, g, "eco")
    /\ moves' = Replaced(moves, g, "engine") /\ phased' = Replaced(phased, g, "phase")
    /\ Touched
    /\ UNCHANGED <<index, analysed, attempts, recorded, traps, wiping, counts>>

\* TrapDetectionStep, and _resolve_user_color with backfill_game: no matches
\* without the game or the user's side.  (Bound: without "traps" in the mix no game
\* runs into one.)
Due(g) == IF Side[g] # Neither /\ "traps" \in mix THEN MatchGame(g, Side[g]) ELSE {}
Found(g) == IF g \in index THEN Due(g) ELSE {}

LookForTraps(g) ==
    /\ IsExecuted(g, "traps")
    /\ running' = [running EXCEPT ![g] = Run("save", @.left, @.ran, Found(g))]
    /\ untold' = untold \ ({g} \cap index)
    /\ UNCHANGED <<tables, kept, matches, backfill, wiping, counts, request>>

\* save_trap_match: INSERT OR REPLACE by game and trap.
Saved(m) == {o \in matches : o.game # m.game \/ o.trap # m.trap} \cup {m}

SaveMatch(g, m) ==
    /\ m \in running[g].todo
    /\ running' = [running EXCEPT ![g] = Run(@.at, @.left, @.ran, @.todo \ {m})]
    /\ matches' = Saved(m)
    /\ UNCHANGED <<tables, kept, backfill, untold, wiping, counts, request>>

TrapsAreSaved(g) ==
    /\ running[g].at = "save" /\ running[g].todo = {}
    /\ Done(g, "traps")
    /\ UNCHANGED <<tables, kept, traps, wiping, counts, request>>

\* A step fails, and what ran before it is recorded all the same.
Faulty == "faults" \in mix /\ faults < MaxFaults /\ faults' = faults + 1
StepFails(g) ==
    /\ running[g].at \in {"step", "save"} /\ running[g].left # {}
    /\ Faulty
    /\ running' = [running EXCEPT ![g] = Run("failed", @.left, @.ran, {})]
    /\ UNCHANGED <<tables, kept, traps, wiping, removals, request>>

\* A run is cut short, by its time limit or with the process: nothing is recorded.
CutShort(g) ==
    /\ running[g] # NotRun
    /\ Faulty
    /\ running' = [running EXCEPT ![g] = NotRun]
    /\ UNCHANGED <<tables, kept, traps, wiping, removals, request>>

\* mark_steps_completed asks for no game; the flag of one that is gone is set
\* nowhere.
Record(g) ==
    /\ running[g].at = "failed" \/ (running[g].at = "step" /\ running[g].left = {})
    /\ recorded' = [recorded EXCEPT ![g] = @ \cup running[g].ran]
    /\ running' = [running EXCEPT ![g] = IF @.at = "step" THEN Run("mark", {}, @.ran, {}) ELSE NotRun]
    /\ UNCHANGED <<tables, analyses, named, traps, wiping, counts, request>>

MarkAnalysed(g) ==
    /\ running[g].at = "mark"
    /\ running' = [running EXCEPT ![g] = NotRun]
    /\ analysed' = analysed \cup ({g} \cap index)
    /\ Touched
    /\ UNCHANGED <<index, moves, phased, attempts, kept, traps, wiping, counts>>

\* The backfills of openings and phases, behind the command line.
FillEco(g) ==
    /\ g \in analyses \ named /\ "eco" \notin recorded[g]
    /\ named' = named \cup {g}
    /\ UNCHANGED <<tables, analyses, recorded, traps, running, wiping, counts, request>>

FillPhase(g) ==
    /\ g \in moves \ phased
    /\ phased' = phased \cup {g}
    /\ Touched
    /\ UNCHANGED <<index, analysed, moves, attempts, kept, traps, running, wiping, counts>>

\* The backfill of traps goes over the analysed games without a match: those
\* that ran into none, and those whose rows were lost.
BeginBackfill ==
    /\ "traps" \in mix /\ backfill = Resting
    /\ LET without == analysed \ {m.game : m \in matches}
       IN without # {} /\ backfill' = [Resting EXCEPT !.left = without]
    /\ UNCHANGED <<tables, kept, matches, untold, running, wiping, counts, request>>

\* backfill_game; load_game raises if the game went after it was looked at.
BackfillGame(g) ==
    /\ g \in backfill.left /\ backfill.todo = {}
    /\ backfill' = [left |-> backfill.left \ {g}, game |-> g, todo |-> Found(g)]
    /\ untold' = untold \ ({g} \cap index)
    /\ UNCHANGED <<tables, kept, matches, running, wiping, counts, request>>

BackfillMatch(m) ==
    /\ m \in backfill.todo
    /\ backfill' = [backfill EXCEPT !.todo = @ \ {m}]
    /\ matches' = Saved(m)
    /\ UNCHANGED <<tables, kept, untold, running, wiping, counts, request>>

\* It is through, it was stopped, which it looks for between two games, or it
\* died: a game half told has a match, and is not looked at again.
EndBackfill ==
    /\ backfill # Resting
    /\ backfill' = Resting
    /\ untold' = IF backfill.todo = {} THEN untold ELSE untold \cup {backfill.game}
    /\ UNCHANGED <<tables, kept, matches, running, wiping, counts, request>>

\* What an analysis tells of a game is not whole if that goes meanwhile.
Told(gone) == untold' = untold \cup {g \in gone : running[g] # NotRun}

\* A profile goes with what hangs on its games, in one transaction.

Removes == "removals" \in mix /\ removals < MaxRemovals /\ removals' = removals + 1
DeleteProfile(p) ==
    LET gone == {g \in index : Row[g].profile = p}
    IN /\ gone # {} /\ Removes
       /\ index' = index \ gone /\ analysed' = analysed \ gone
       /\ moves' = moves \ gone /\ phased' = phased \ gone
       /\ analyses' = analyses \ gone /\ named' = named \ gone
       /\ recorded' = [g \in Games |-> IF g \in gone THEN {} ELSE recorded[g]]
       /\ attempts' = [n \in {m \in DOMAIN attempts : attempts[m].game \notin gone} |-> attempts[n]]
       /\ matches' = {m \in matches : m.game \notin gone}
       /\ Told(gone)
       /\ Touched
       /\ UNCHANGED <<backfill, running, wiping, faults>>

\* The wipe of all data empties one table after the other, and not trap_matches;
\* it may be cut short.
BeginWipe ==
    /\ wiping = <<>> /\ index # {}
    /\ Removes
    /\ wiping' = <<"puzzle_attempts", "analysis_step_status", "analysis_moves", "analysis_games", "game_index_cache">>
    /\ UNCHANGED <<traps, tables, kept, running, faults, request>>

WipeTable ==
    LET Emptied(table, rows) == IF Head(wiping) = table THEN {} ELSE rows
    IN /\ wiping # <<>>
       /\ wiping' = Tail(wiping)
       /\ attempts' = IF Head(wiping) = "puzzle_attempts" THEN <<>> ELSE attempts
       /\ recorded' = [g \in Games |-> Emptied("analysis_step_status", recorded[g])]
       /\ moves' = Emptied("analysis_moves", moves) /\ phased' = Emptied("analysis_moves", phased)
       /\ analyses' = Emptied("analysis_games", analyses) /\ named' = Emptied("analysis_games", named)
       /\ index' = Emptied("game_index_cache", index) /\ analysed' = Emptied("game_index_cache", analysed)
       /\ Told(index \ index')
       /\ Touched
       /\ UNCHANGED <<matches, backfill, running, counts>>

WipeFails ==
    /\ wiping # <<>> /\ Faulty
    /\ wiping' = <<>>
    /\ UNCHANGED <<tables, kept, traps, running, removals, request>>

\* Days pass, and what was solved before a certain day may be offered again.
RestEnds(n) ==
    /\ attempts[n].resting
    /\ attempts' = [m \in DOMAIN attempts |-> [attempts[m] EXCEPT !.resting = @ /\ m > n]]
    /\ UNCHANGED <<traps, kept, index, analysed, moves, phased, running, wiping, counts, request>>
-----------------------------------------------------------------------------
(* The collapse report.                                                     *)

AskCollapse(f) ==
    /\ request = Idle /\ "collapse" \in mix
    /\ request' = [kind |-> "collapse", filter |-> f, firsts |-> FirstBlunders(f), moved |-> FALSE]
    /\ UNCHANGED <<traps, tables, kept, running, wiping, counts>>

AnswerCollapse ==
    /\ request.kind = "collapse"
    /\ LET with == Cardinality(DOMAIN request.firsts)
       IN request' = [kind |-> "collapsed",
                      total_games_with_blunders |-> with,
                      total_games_without_blunders |-> CountAnalysed(request.filter) - with,
                      distribution |-> Distribution(request.firsts)]
    /\ UNCHANGED <<traps, tables, kept, running, wiping, counts>>

Sent ==
    /\ request.kind \in {"collapsed", "served"}
    /\ request' = Idle
    /\ UNCHANGED <<traps, tables, kept, running, wiping, counts>>
-----------------------------------------------------------------------------
(* The trainer.                                                             *)

\* get_recently_solved_puzzles.  The faulty variant looks at the failures.
Failed == {<<a.game, a.ply>> : a \in {x \in ToSet(attempts) : ~x.right /\ x.resting}}
Solved == {<<a.game, a.ply>> : a \in {x \in ToSet(attempts) : x.right /\ x.resting}}

\* Whose blunders the trainer offers.  The faulty variant: also the opponent's.
OfEither(m, g) == TRUE
OfUser(m, g) == m.player = Side[g]

\* _filter_by_difficulty, and the dates again, by code of the trainer's own.
ByDifficultyRange(m, f) ==
    f.ranges # {} => \E range \in f.ranges : range[1] <= m.difficulty /\ m.difficulty <= range[2]
DateInRange(g, f) ==
    LET late == Row[g].day > f.end \/ (Row[g].day = f.end /\ Row[g].hour # NoClock)
    IN Row[g].day # NoDay /\ Row[g].day >= f.start /\ ~(f.end # NoDay /\ late)

\* get_all_game_side_map: the games whose user had a side.
SideMap == {g \in index : Side[g] # Neither}

\* fetch_blunders_with_tactics, filter_blunders.
Puzzles ==
    [f \in Filters |-> [g \in Games |-> [whole \in BOOLEAN |->
        {m \in Rows[g] :
            /\ m.class = Blunder
            /\ PhaseMatches(m, whole, f)
            /\ f.patterns # {} => m.pattern \in f.patterns
            /\ f.colors # {} => m.player \in f.colors
            /\ f.types # {} => TypeOf[g] \in f.types
            /\ OfUser(m, g)
            /\ WorthAPuzzle(m)
            /\ ByDifficultyRange(m, f)}]]]
Candidates(f, sides) == UNION {{g} \X Puzzles[f][g][(g \in phased)] : g \in index \cap moves \cap sides}

\* _weight_for_blunder, in thousandths.  Attempts count for the pattern the
\* move has now.
MateWeight(m) == IF m.mate \in 1..2 THEN 20 ELSE IF m.mate \in 3..5 THEN 15 ELSE 10
PatternWeight(m) ==
    LET Tried == {n \in DOMAIN attempts :
                    /\ attempts[n].game \in moves
                    /\ \E o \in Rows[attempts[n].game] :
                          o.ply = attempts[n].ply /\ o.pattern = m.pattern}
        history == \E n \in DOMAIN attempts : attempts[n].game \in moves
    IN IF ~history \/ (Tried = {} /\ m.pattern = None) THEN 10
       ELSE IF Tried = {} THEN 15
       ELSE 10 + (10 * Cardinality({n \in Tried : ~attempts[n].right})) \div Cardinality(Tried)
DifficultyWeight(m) == IF m.difficulty <= 30 THEN 13 ELSE IF m.difficulty >= 70 THEN 7 ELSE 10
Weight(m) == MateWeight(m) * PatternWeight(m) * DifficultyWeight(m)

\* GET /api/puzzle.  A failure is told to the browser.
Fails == request' = Idle /\ UNCHANGED <<traps, tables, kept, running, wiping, counts>>
Goes(next) ==
    /\ request' = next
    /\ UNCHANGED <<traps, tables, kept, running, wiping, counts>>

AskPuzzle(f) ==
    /\ request = Idle /\ "puzzles" \in mix
    /\ SideMap # {}
    /\ Goes([kind |-> "puzzle", step |-> "blunders", filter |-> f, sides |-> SideMap])

FetchBlunders ==
    /\ request.kind = "puzzle" /\ request.step = "blunders"
    /\ Goes([kind |-> "puzzle", step |-> "dates", filter |-> request.filter,
             left |-> Candidates(request.filter, request.sides)])

\* A candidate whose game is gone when its date is asked for is left out; with
\* no date in the filter nothing is asked.
OfTheDates(left, f) ==
    IF f.start = NoDay /\ f.end = NoDay THEN left
    ELSE {r \in left : r[1] \in index /\ DateInRange(r[1], f)}

FilterByDate ==
    /\ request.kind = "puzzle" /\ request.step = "dates"
    /\ Goes([kind |-> "puzzle", step |-> "solved", left |-> OfTheDates(request.left, request.filter)])

FilterRecentlySolved ==
    /\ request.kind = "puzzle" /\ request.step = "solved"
    /\ Goes([kind |-> "puzzle", step |-> "choose", late |-> {},
             left |-> {r \in request.left : <<r[1], r[2].ply>> \notin Solved}])

NoBlundersFound ==
    /\ request.kind = "puzzle" /\ request.step = "choose" /\ request.left = {}
    /\ Fails

\* random.choices: any candidate of a positive weight.
Choose ==
    /\ request.kind = "puzzle" /\ request.step = "choose"
    /\ \E r \in request.left : Weight(r[2]) > 0 /\ Goes([kind |-> "puzzle", step |-> "load", left |-> {r}])

Serve ==
    /\ request.kind = "puzzle" /\ request.step = "load"
    /\ \E r \in request.left : r[1] \in index /\ Goes([kind |-> "served", left |-> {r}])

GameNotFound ==
    /\ request.kind = "puzzle" /\ request.step = "load"
    /\ \E r \in request.left : r[1] \notin index
    /\ Fails

\* GET /api/puzzle/specific asks for the row of a move, whatever it is and however
\* lately it was solved.
MoveAnalysis(g) == IF g \in moves THEN Rows[g] ELSE {}
AskSpecific(g, m) ==
    /\ request = Idle /\ "puzzles" \in mix
    /\ m \in MoveAnalysis(g)
    /\ Goes([kind |-> "puzzle", step |-> "load", left |-> {<<g, m>>}])

\* record_attempt.
Recorded(g, ply, right) ==
    LET id == Max(DOMAIN attempts \cup {0}) + 1
    IN [n \in DOMAIN attempts \cup {id} |->
          IF n = id THEN [game |-> g, ply |-> ply, right |-> right, resting |-> TRUE] ELSE attempts[n]]

\* get_user_stats.
UserStats ==
    LET right == {n \in DOMAIN attempts : attempts[n].right}
    IN [total_attempts |-> Cardinality(DOMAIN attempts), correct_attempts |-> Cardinality(right),
        incorrect_attempts |-> Cardinality(DOMAIN attempts) - Cardinality(right),
        unique_puzzles |-> Cardinality({<<a.game, a.ply>> : a \in ToSet(attempts)})]

\* POST /api/submit: the puzzle is in the payload, from this tab or another, and
\* nothing asks whether the game is still there.
SubmitAttempt(g, ply, right) ==
    /\ Cardinality(DOMAIN attempts) < MaxAttempts /\ "puzzles" \in mix
    /\ attempts' = Recorded(g, ply, right)
    /\ request' = IF right /\ request.kind = "puzzle" /\ request.step = "choose"
                    THEN [request EXCEPT !.late = @ \cup {<<g, ply>>}] ELSE request
    /\ UNCHANGED <<traps, kept, index, analysed, moves, phased, running, wiping, counts>>
-----------------------------------------------------------------------------
AnalysisStep(g) ==
    \/ Analyse(g) \/ Upload(g) \/ (\E s \in Steps : SkipStep(g, s) \/ ComputeStep(g, s)) \/ WriteMoves(g)
    \/ LookForTraps(g) \/ (\E m \in running[g].todo : SaveMatch(g, m)) \/ TrapsAreSaved(g)
    \/ StepFails(g) \/ CutShort(g) \/ Record(g) \/ MarkAnalysed(g)

Tables ==
    \/ \E g \in Games : Import(g) \/ AnalysisStep(g) \/ FillEco(g) \/ FillPhase(g) \/ BackfillGame(g)
    \/ \E p \in {Row[g].profile : g \in Games} : DeleteProfile(p)
    \/ BeginBackfill \/ EndBackfill \/ \E m \in backfill.todo : BackfillMatch(m)
    \/ BeginWipe \/ WipeTable \/ WipeFails \/ \E n \in DOMAIN attempts : RestEnds(n)

Puzzle ==
    \/ FetchBlunders \/ FilterByDate \/ FilterRecentlySolved
    \/ NoBlundersFound \/ Choose \/ Serve \/ GameNotFound

\* A puzzle in the browser's hands is a blunder of the user's.
Known(g) == {m \in Own[g] : m.class = Blunder /\ WorthAPuzzle(m)}

ReportsNext ==
    /\ mix' = mix
    /\ \/ Tables
       \/ \E f \in Filters : AskCollapse(f) \/ AskPuzzle(f)
       \/ AnswerCollapse \/ Sent
       \/ Puzzle
       \/ \E g \in Games : \E m \in Known(g) :
             AskSpecific(g, m) \/ \E right \in BOOLEAN : SubmitAttempt(g, m.ply, right)

ReportsSpec == ReportsInit /\ [][ReportsNext]_reportVars
-----------------------------------------------------------------------------
(* Properties.                                                              *)

\* Under any filter every breakdown of the dashboard is one of the same
\* blunders as its first number counts, but the openings, which are the first
\* few, and the days, which are the newest: from the oldest of them on nothing is
\* missing, nor from what is shown of their colours; its days and hours, where
\* they answer, hold no more games than were analysed; the trainer offers none
\* that is not among them, though it goes over games and moves with code of its
\* own; the rating history of a profile has one point a day, in order, each in the
\* history of its type too, if one may ask for it; and the traps add up to their
\* summary.
\* (The tables are the same whether a request is under way or not: a look at those
\* at rest is enough.)
ReportsAgree ==
    request = Idle =>
    \A f \in Filters :
      LET total == Overview(f).total_blunders
      IN /\ SumFunction(ByPhase(f)) = total /\ SumFunction(ByColor(f)) = total
         /\ SumFunction(ByPattern(f)) = total /\ SumFunction(ByGameType(f)) = total
         /\ SumFunction(ByDifficulty(f)) = total
         /\ LET days == ByDay(f)
                shown == DOMAIN days
                undated == {r \in Blunders(f) : Row[r[1]].day = NoDay}
                Of(colors, row) == IF row \in DOMAIN colors THEN colors[row] ELSE 0
            IN /\ SumFunction(days) = Cardinality({r \in DatedBlunders(f) : \E d \in shown : d <= Row[r[1]].day})
               /\ Cardinality(shown) < DayLimit => SumFunction(days) + Cardinality(undated) = total
               /\ \A colors \in ByDayColor(f), d \in shown :
                    Of(colors, <<d, 0>>) + Of(colors, <<d, 1>>) = days[d]
         /\ \A games \in {SumFunction(GamesByDay(f)), SumFunction(GamesByHour(f))} :
              games <= Overview(f).analyzed_games
         /\ Overview(f).total_games <= SumFunction(BySource)
         /\ \A limit \in 1..2 : SumFunction(ByOpening(f, limit)) <= total
         /\ OfTheDates(Candidates(f, SideMap), f) \subseteq Blunders(f)
         /\ \A p \in {Row[g].profile : g \in index} :
              LET history == RatingHistory(p, Nothing, 1)
              IN \A n \in DOMAIN history :
                    /\ n > 1 => history[n - 1].day < history[n].day
                    /\ IsMode(history[n].type) => history[n] \in ToSet(RatingHistory(p, history[n].type, 1))
         /\ UserStats.unique_puzzles <= UserStats.total_attempts
         /\ Cardinality(Solved) <= UserStats.correct_attempts
         /\ LET stats == TrapStats(matches)
                whole == TrapSummary(matches, 3)
                Total(Number(_)) == SumFunction([t \in DOMAIN stats |-> Number(stats[t])])
            IN /\ Total(LAMBDA r : r.total) = Cardinality(matches)
               /\ Total(LAMBDA r : r.entered) = whole.total_entered
               /\ Total(LAMBDA r : r.sprung) = whole.total_sprung
               /\ Total(LAMBDA r : r.executed) = whole.total_executed
               /\ \A t \in DOMAIN stats : Cardinality(TrapHistory(matches, index, t)) <= stats[t].total

\* The collapse report is made of two queries.  When nothing was written between
\* them, its clean games are the analysed ones without a blunder of the user's
\* and its buckets hold the others.  (When something was, it can be off, and even
\* below zero.)
CollapseIsExact ==
    [][request.kind = "collapse" /\ ~request.moved /\ request'.kind = "collapsed" =>
            /\ request'.total_games_without_blunders =
                 Cardinality({g \in index \cap analysed \cap Matching[request.filter] :
                                \A r \in Blunders(request.filter) : r[1] # g})
            /\ SumFunction(request'.distribution) = request'.total_games_with_blunders]_reportVars

\* A window of the growth report, once full, says the same when the analysis of a
\* game that ended later is through: what comes after rewrites no trend.
WindowsStand ==
    [][\A g \in Games : MarkAnalysed(g) =>
         \A f \in Filters : IsPrefix(Growth(f), Growth(f)') => IsPrefix(Windows(f), Windows(f)')]_reportVars

\* A puzzle is not chosen within spaced_repetition_days of a right answer to it,
\* unless the answer came while the request was choosing.
SolvedRests ==
    [][request.kind = "puzzle" /\ request.step = "choose" /\ request' # Idle /\ request'.step = "load" =>
         \A r \in request'.left, n \in DOMAIN attempts :
            attempts[n].right /\ attempts[n].resting /\ <<attempts[n].game, attempts[n].ply>> = <<r[1], r[2].ply>>
              => <<r[1], r[2].ply>> \in request.late]_reportVars

\* What is told of an analysed game is what its positions say, whichever of the
\* analysis and the backfill told it, even if both did at once, and whatever steps
\* failed, were repeated or skipped: its opening, if there is one, is the last
\* position of the book it passed, and its traps are those one of whose positions
\* it reached, the last one included, with the first of the mistakes made there.
\* Left out are games without an opening because the step had been recorded, those
\* that were removed while they were analysed, which may be recorded as told and
\* stay without their traps, and those a backfill left half told.
BookIsTold ==
    \A g \in analysed \ untold : (g = backfill.game => backfill.todo = {}) =>
        LET reached == ToSet(Positions[g])
            Deepest(p) == \E n \in DOMAIN Positions[g] :
                Positions[g][n] = p /\ \A k \in n..Len(Positions[g]) :
                    k > n => \A row \in ToSet(Book) : row.at # Positions[g][k]
            mistakes(t) == {n \in DOMAIN Moves[g] : \E s \in Spots[t] :
                              s.at = Positions[g][n] /\ s.mistake = Moves[g][n]}
        IN /\ g \in named /\ Opening[g] = Nothing => \A row \in ToSet(Book) : row.at \notin reached
           /\ g \in named /\ Opening[g] # Nothing => \E row \in ToSet(Book) : row.code = Opening[g] /\ Deepest(row.at)
           /\ Side[g] # Neither /\ "traps" \in mix =>
                \A t \in Traps :
                  LET rows == {m \in matches : m.game = g /\ m.trap = t}
                  IN IF \A s \in Spots[t] : s.at \notin reached THEN rows = {}
                     ELSE \E m \in rows :
                            /\ rows = {m}
                            /\ m.type # "entered" <=> mistakes(t) # {}
                            /\ m.type = "sprung" => Victim[t] = Side[g]
                            /\ m.ply = IF mistakes(t) = {} THEN 0 ELSE Min(mistakes(t))

\* What "games_with_advantage" says: in each the user stood better by more than
\* 200 at a move of theirs.
AdvantageIsTheUsers ==
    \A f \in Filters :
      LET ahead == {r \in Selected(f) : r[1] \in analysed /\ r[2].before > 200}
      IN Conversion(f).games_with_advantage = Cardinality({r[1] : r \in ahead})
=============================================================================
