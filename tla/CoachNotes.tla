------------------------------ MODULE CoachNotes -------------------------------
(***************************************************************************)
(* The coach's notes on the blunders of one analysed game: how a note is   *)
(* asked of a language model, judged, asked again, replaced by a text made *)
(* from the facts, or given up (services/llm_explanation.py); how the      *)
(* backfill stores notes with the moves (steps/llm_step.py,                *)
(* jobs/backfill_llm.py); and how a puzzle shows a stored note or has one  *)
(* made on a thread of its own (web/api/analysis.py), while the game is    *)
(* analysed anew and the server restarts with another version.             *)
(*                                                                         *)
(* A text is its sentences and what disqualifies it as a whole:            *)
(*   [marks, echoes, sentences]                                            *)
(* marks: refusal, filler, talk of engines, evaluations; echoes: the       *)
(* explanations by rules whose wording it repeats.  A sentence:            *)
(*   [rule, long, concept, claims, squares, places, passive]               *)
(* rule: "none", or how good a rule to take away it is; claims: of check,  *)
(* capture, mate, of a king forced to move; squares and places: the squares*)
(* it names, alone or with a piece on them.                                *)
(***************************************************************************)
EXTENDS Prompt, Tactics

CONSTANTS Lessons,     \* lessons by name
          LessonOf,    \* of each name, the lesson
          Longer,      \* of each name, the lessons with longer lines for the same move
          Size,        \* how many blunders the game has
          Courses,     \* the analyses of the game, one after another: ply -> lesson
          Answers,     \* texts that the language model may give
          Viewers,     \* puzzles being shown, each with a thread
          MaxAnswers, MaxRestarts

Plies == 1..Size
Claims == {"check", "capture", "mate", "king"}
Sentences ==
    [rule : {"none", "concrete", "generic"}, long : BOOLEAN, concept : BOOLEAN,
     claims : SUBSET Claims, squares : SUBSET Squares, places : SUBSET (Types \X Squares),
     passive : BOOLEAN]
Texts == [marks : SUBSET STRING, echoes : SUBSET STRING, sentences : Seq(Sentences)]
NoNote == {}

ASSUME CoursesAssumption == Courses \subseteq Seq([Plies -> Lessons]) \ {<<>>}
IsLesson(l) ==
    /\ IsPosition(l.board) /\ IsValid(l.board)
    /\ l.bestLine \in Seq(AnyMove) /\ l.refutation \in Seq(AnyMove)
    /\ {l.played} \cup l.best \subseteq LegalMoves(l.board)
    /\ LegalLine(l.board, l.bestLine) /\ LegalLine(After(l), l.refutation)
    /\ l.best = IF l.bestLine = <<>> THEN {} ELSE {l.bestLine[1]}
Extends(x, l) ==
    x.board = l.board /\ x.played = l.played /\ Len(x.refutation) >= Len(l.refutation)
ASSUME LessonsAssumption ==
    \A n \in Lessons :
        /\ IsLesson(LessonOf[n])
        /\ Longer[n] \subseteq Lessons /\ \A x \in Longer[n] : Extends(LessonOf[x], LessonOf[n])
ASSUME TextsAssumption == Answers \subseteq Texts
ASSUME BoundsAssumption ==
    Size \in Nat /\ MaxAnswers \in Nat /\ MaxRestarts \in Nat /\ "backfill" \notin Viewers

VARIABLES
    rows,      \* of each blunder: its lesson, the note stored and its version
    recorded,  \* is the step "llm" recorded as completed for the game?
    server,    \* the version that runs, and whether the coach is enabled
    cache,     \* what the language model has answered since the start
    work,      \* of each thread at work on a note, and of the backfill, how far
    shown,     \* of each puzzle shown: the note, the lesson it is for
    todo,      \* the rows that the backfill has read and not done
    answers, coming, restarts, \* coming: the analyses that are still to be made
    crossed    \* history: the game was analysed anew under a backfill

vars == <<rows, recorded, server, cache, work, shown, todo, answers, coming, restarts, crossed>>

Workers == Viewers \cup {"backfill"}

-----------------------------------------------------------------------------
\* What may be named and claimed in a lesson.

Lines(l) == {<<l.board, l.bestLine>>, <<After(l), l.refutation>>}
Moves(l) == {<<l.board, l.played>>} \cup {<<l.board, m>> : m \in l.best}
    \cup UNION {LET at == Boards(x[1], x[2])
                IN  {<<at[i - 1], x[2][i]>> : i \in DOMAIN x[2]} : x \in Lines(l)}

\* From the coordinates of the two moves and the notation of all: castling is
\* written without squares, and a promotion with the letter of the pawn.
AllowedSquares(l) ==
    (UNION {{m.from, m.to} : m \in {l.played} \cup l.best})
      \cup {x[2].to : x \in {y \in Moves(l) : ~IsCastling(y[1], y[2])}}
PlacesOf(l) ==
    {<<x[1].at[x[2].from].type, x[2].to>> : x \in {y \in Moves(l) : ~IsCastling(y[1], y[2])}}

\* The letters of a line: "+" or "#", "x", "#", and a check that a king answers.
Letters(san) ==
    LET checks == {i \in DOMAIN san : san[i].sign # "none"}
    IN  (IF checks # {} THEN {"check"} ELSE {})
          \cup (IF \E i \in DOMAIN san : san[i].capture THEN {"capture"} ELSE {})
          \cup (IF \E i \in DOMAIN san : san[i].sign = "mate" THEN {"mate"} ELSE {})
          \cup (IF \E i \in checks : i + 1 \in DOMAIN san /\ san[i + 1].piece = "king"
                  THEN {"king"} ELSE {})
Notation(b, line) == [i \in DOMAIN line |-> San(Boards(b, line)[i - 1], line[i])]
AnyClaim(l, f) == Claims
Supported(l, f) ==
    (UNION {Letters(Notation(x[1], x[2])) : x \in Lines(l)})
      \cup (IF f.reply.check \/ f.lineChecks > 0 \/ f.bestChecks THEN {"check"} ELSE {})
      \cup (IF \/ f.reply.capture \/ f.lineCaptures > 0 \/ f.bestCaptures
               \/ f.material \in {"opponent wins material", "player wins material"}
              THEN {"capture"} ELSE {})

\* What is worked out of a lesson, whenever it is needed: the same each time.
KnownFrom(l, facts) ==
    [facts |-> facts, prompt |-> PromptOf(l, facts), backed |-> Supported(l, facts),
     squares |-> AllowedSquares(l), places |-> PlacesOf(l), explained |-> Explain(l)]
KnownOf(l) == KnownFrom(l, FactsOf(l))
Known == [n \in Lessons |-> KnownOf(LessonOf[n])]

\* Lessons with the same prompt.
SamePrompt(prompt) == {x \in Lessons : Known[x].prompt = prompt}
Same(n) == SamePrompt(Known[n].prompt)

\* The explanations by rules that the puzzle shows beside the note.
References(explained) ==
    {m.kind : m \in explained.consequence \cup explained.comparison}
      \cup (IF explained.refutation THEN {"refutation"} ELSE {})

-----------------------------------------------------------------------------
\* _clean_response: at least two sentences, of which the first four are kept;
\* none too long, the last a rule to take away, no rule a commonplace, a notion
\* of chess somewhere.
Kept(text) == SubSeq(text.sentences, 1, IF Len(text.sentences) > 4 THEN 4 ELSE Len(text.sentences))
Unfit(text) ==
    \/ text.marks # {}
    \/ \E i \in DOMAIN Kept(text) : Kept(text)[i].long \/ Kept(text)[i].rule = "generic"
    \/ \A i \in DOMAIN Kept(text) : ~Kept(text)[i].concept
Usable(text) ==
    /\ Len(text.sentences) >= 2
    /\ Kept(text)[Len(Kept(text))].rule # "none"
    /\ ~Unfit(text)
Clean(text) == [text EXCEPT !.sentences = Kept(text)]

\* In the following, known is what is worked out of the lesson at hand.
\*
\* What a text says outside the rule to take away; a forced king counts anywhere.
Plain(text) == {s \in ToSet(text.sentences) : s.rule = "none"}
Claimed(text) ==
    (UNION {s.claims : s \in Plain(text)})
      \cup UNION {s.claims \cap {"king"} : s \in ToSet(text.sentences)}

Said(text) == ToSet(text.sentences)
Similar(text, references) == text.echoes \cap references # {}
NamesOther(known, text) == ~(UNION {s.squares : s \in Said(text)} \subseteq known.squares)
Conflicts(known, text) ==
    \E p \in UNION {s.places : s \in Said(text)} :
        p \notin known.places /\ \E q \in known.places : q[2] = p[2]
Passive(text) == \E s \in Plain(text) : s.passive

\* Why a cleaned text is not accepted, and what each reason costs.
Reasons(known, text, references) ==
    {r \in {"similar", "square", "place", "passive"} :
        CASE r = "similar" -> Similar(text, references)
          [] r = "square" -> NamesOther(known, text)
          [] r = "place" -> Conflicts(known, text)
          [] OTHER -> Passive(text)} \cup (Claimed(text) \ known.backed)
Cost(r) == CASE r = "passive" -> 20 [] r = "similar" -> 30
             [] r \in {"square", "place", "mate"} -> 40 [] OTHER -> 35
Score(reasons) == 100 - FoldSet(LAMBDA r, sum : Cost(r) + sum, 0, reasons)

\* _score_explanation: a passive is forgiven; a text that breaks the contract
\* scores 20 and may be asked for again, no text at all may not.
Accepted(known, text, references) ==
    Usable(text) /\ Reasons(known, Clean(text), references) \subseteq {"passive"}
Retryable(known, text, references) ==
    Usable(text) => Score(Reasons(known, Clean(text), references)) >= 50
Complaints(known, text, references) ==
    IF Usable(text) THEN Reasons(known, Clean(text), references) ELSE {"contract"}

-----------------------------------------------------------------------------
\* _fallback_explanation: a text made from the facts.
Sentence(rule, claims) ==
    [rule |-> rule, long |-> FALSE, concept |-> TRUE, claims |-> claims,
     squares |-> {}, places |-> {}, passive |-> FALSE]
Context(f) == Sentence("none", IF f.intent = "captures material" THEN {"capture"} ELSE {})
SaidOfReply(f) == Sentence("none", {f.reply.type} \cap {"check", "capture"})
SaidOfBest(f) ==
    Sentence("none", IF f.purposes # <<>> /\ f.purposes[1] = "gives check" THEN {"check"} ELSE {})

\* The rule of the facts when it starts like one, else one that always fits.
StartsLikeARule == {"before playing a quiet move", "before playing a natural move"}
SeedAsItStands(f) == Sentence(IF f.seed \in StartsLikeARule THEN "concrete" ELSE "none", {})
Taught(f) == IF f.seed \in StartsLikeARule THEN SeedAsItStands(f) ELSE Sentence("concrete", {})

Fallback(f) ==
    [marks |-> {}, echoes |-> {},
     sentences |-> <<Context(f), SaidOfReply(f), SaidOfBest(f), Taught(f)>>]
FallbackNote(known, n) ==
    IF Accepted(known, Fallback(known.facts), {})
      THEN {[text |-> Clean(Fallback(known.facts)), of |-> n]} ELSE NoNote

-----------------------------------------------------------------------------
\* What an analysis leaves of the blunders: the rows are written anew, without
\* notes; the record of completed steps stays.
Fresh(found) == [p \in Plies |-> [lesson |-> found[p], note |-> NoNote, version |-> 0]]
NotesKept(found) == [p \in Plies |-> [rows[p] EXCEPT !.lesson = found[p]]]
Written(found) == Fresh(found)

Idle == [at |-> "idle", ply |-> 0, lesson |-> "none", references |-> {}, why |-> {}, note |-> NoNote]
Nothing == [lesson |-> "none", note |-> NoNote, coach |-> FALSE]

Init ==
    /\ \E course \in Courses : rows = Fresh(Head(course)) /\ coming = Tail(course)
    /\ recorded = FALSE
    /\ server = [version |-> 1, enabled |-> TRUE]
    /\ cache = {}
    /\ work = [w \in Workers |-> Idle]
    /\ shown = [v \in Viewers |-> Nothing]
    /\ todo = <<>>
    /\ answers = 0
    /\ restarts = 0
    /\ crossed = FALSE

stored == <<rows, recorded, server, coming, restarts, crossed>>

\* The backfill works out a note on the event loop and lets nothing else run.
LoopFree == work["backfill"].at \notin {"ask", "call"}

Asking(p, n, references) ==
    [Idle EXCEPT !.at = "ask", !.ply = p, !.lesson = n, !.references = references]
Show(v, n, note) ==
    shown' = [shown EXCEPT ![v] = [lesson |-> n, note |-> note, coach |-> server.enabled]]

\* The backfill goes on with the rows that it has read, or has done them all.
Onward(left) ==
    /\ todo' = IF left = <<>> THEN <<>> ELSE Tail(left)
    /\ work' = [work EXCEPT !["backfill"] =
                  IF left = <<>> THEN [Idle EXCEPT !.at = "record"]
                  ELSE Asking(Head(left)[1], Head(left)[2], {})]

\* The lines that a puzzle is shown with: those of the row, or longer ones that
\* the engine finds when these are short (PuzzleService._enrich_lines).
Shows(n) == {n} \cup Longer[n]

\* A puzzle is shown: the note stored with its row if it is of the version that
\* runs, for the lines of the row; else one made now, for the lines shown, and
\* not stored.
Stored(v, p) ==
    /\ work[v].at = "idle" /\ LoopFree
    /\ rows[p].note # NoNote /\ rows[p].version = server.version
    /\ Show(v, rows[p].lesson, rows[p].note)
    /\ UNCHANGED <<stored, cache, work, todo, answers>>

Make(v, p) ==
    /\ work[v].at = "idle" /\ LoopFree
    /\ rows[p].note = NoNote \/ rows[p].version # server.version
    /\ \E n \in Shows(rows[p].lesson) :
         IF server.enabled
           THEN work' = [work EXCEPT ![v] = Asking(p, n, References(Known[n].explained))] /\ UNCHANGED shown
           ELSE Show(v, n, NoNote) /\ UNCHANGED work
    /\ UNCHANGED <<stored, cache, todo, answers>>

\* explain_training_lesson is over: with a note, or with none.
Ends(w, note) ==
    IF w \in Viewers
      THEN /\ Show(w, work[w].lesson, note)
           /\ work' = [work EXCEPT ![w] = Idle]
           /\ UNCHANGED todo
      ELSE /\ UNCHANGED shown
           /\ IF note = NoNote THEN Onward(todo)
              ELSE /\ work' = [work EXCEPT ![w].at = "store", ![w].note = note]
                   /\ UNCHANGED todo

\* The first text is judged, then a second asked for with the complaints, and
\* in the end the text made from the facts.
Judge(w, known, text) ==
    LET j == work[w]
    IN  IF Accepted(known, text, j.references)
          THEN Ends(w, {[text |-> Clean(text), of |-> j.lesson]})
        ELSE IF j.why = {} /\ Retryable(known, text, j.references)
          THEN /\ work' = [work EXCEPT ![w].at = "ask",
                               ![w].why = Complaints(known, text, j.references)]
               /\ UNCHANGED <<shown, todo>>
        ELSE Ends(w, FallbackNote(known, j.lesson))

\* The cache is asked before the language model.  A text is kept by its prompt,
\* which a second attempt extends by the complaints, and judged whenever it is used.
Hits(w) == {c \in cache : c.lesson \in Same(work[w].lesson) /\ c.why = work[w].why}
Look(w) ==
    /\ work[w].at = "ask"
    /\ LET hits == Hits(w)
       IN  IF hits = {}
             THEN work' = [work EXCEPT ![w].at = "call"] /\ UNCHANGED <<shown, todo>>
             ELSE \E c \in hits : Judge(w, Known[work[w].lesson], c.text)
    /\ UNCHANGED <<stored, cache, answers>>

\* The model answers, perhaps when another thread has asked the same.
Answer(w) ==
    /\ work[w].at = "call" /\ answers < MaxAnswers
    /\ \E text \in Answers :
         /\ cache' = (cache \ Hits(w)) \cup {[lesson |-> work[w].lesson, why |-> work[w].why, text |-> text]}
         /\ Judge(w, Known[work[w].lesson], text)
    /\ answers' = answers + 1
    /\ UNCHANGED stored

\* No answer in time, an error, or nothing usable in it: there is no retry.
NoAnswer(w) ==
    /\ work[w].at = "call"
    /\ Ends(w, FallbackNote(Known[work[w].lesson], work[w].lesson))
    /\ UNCHANGED <<stored, cache, answers>>

-----------------------------------------------------------------------------
\* The backfill takes a game with a note missing or of another version.  When
\* the step is recorded for the game it is skipped and nothing happens at all;
\* otherwise every blunder is read and a note made for each, those that have
\* one included.
Backfill ==
    /\ work["backfill"].at = "idle" /\ ~recorded
    /\ \E p \in Plies : rows[p].note = NoNote \/ rows[p].version # server.version
    /\ Onward(IF server.enabled
                THEN [i \in 1..Size |-> <<i, rows[i].lesson>>] ELSE <<>>)
    /\ UNCHANGED <<stored, cache, shown, answers>>

\* UPDATE ... WHERE game_id = ? AND ply = ?: into whatever row is there now.
Store ==
    LET j == work["backfill"]
    IN  /\ j.at = "store"
        /\ rows' = [rows EXCEPT ![j.ply].note = j.note, ![j.ply].version = server.version]
        /\ Onward(todo)
        /\ UNCHANGED <<recorded, server, coming, restarts, crossed, cache, shown, answers>>

\* The step has succeeded whether or not it made any note.
Record ==
    /\ work["backfill"].at = "record"
    /\ recorded' = TRUE
    /\ work' = [work EXCEPT !["backfill"] = Idle]
    /\ UNCHANGED <<rows, server, coming, restarts, crossed, cache, shown, todo, answers>>

-----------------------------------------------------------------------------
\* Another process analyses the game again and finds other lines.
Reanalyse ==
    /\ coming # <<>>
    /\ coming' = Tail(coming)
    /\ rows' = Written(Head(coming))
    /\ crossed' = (crossed \/ work["backfill"].at # "idle")
    /\ UNCHANGED <<recorded, server, restarts, cache, work, shown, todo, answers>>

\* The server stops and starts, perhaps as a new version, perhaps with the
\* coach switched on or off.
Restart ==
    /\ restarts < MaxRestarts
    /\ restarts' = restarts + 1
    /\ \E v \in {server.version, server.version + 1}, on \in BOOLEAN :
         server' = [version |-> v, enabled |-> on]
    /\ cache' = {}
    /\ work' = [w \in Workers |-> Idle]
    /\ shown' = [v \in Viewers |-> Nothing]
    /\ todo' = <<>>
    /\ UNCHANGED <<rows, recorded, answers, coming, crossed>>

Next ==
    \/ \E v \in Viewers, p \in Plies : Stored(v, p) \/ Make(v, p)
    \/ \E w \in Workers : Look(w) \/ Answer(w) \/ NoAnswer(w)
    \/ Backfill \/ Store \/ Record
    \/ Reanalyse \/ Restart

Spec == Init /\ [][Next]_vars

-----------------------------------------------------------------------------
Notes == UNION ({rows[p].note : p \in Plies} \cup {shown[v].note : v \in Viewers})

\* What really happens on the board in the moves and lines of a lesson.
LineSteps(l) ==
    UNION {LET at == Boards(x[1], x[2])
           IN  {[from |-> at[i - 1], move |-> x[2][i], to |-> at[i]] : i \in DOMAIN x[2]} : x \in Lines(l)}
HappensIn(l, steps) ==
    (IF \E s \in steps : InCheck(s.to) THEN {"check"} ELSE {})
      \cup (IF \/ IsCapture(l.board, l.played) \/ l.played.promo # "none"
               \/ \E s \in steps : IsCapture(s.from, s.move) \/ s.move.promo # "none"
              THEN {"capture"} ELSE {})
      \cup (IF \E s \in steps : IsCheckmate(s.to) THEN {"mate"} ELSE {})
      \cup (IF \E s \in steps : InCheck(s.from) /\ s.from.at[s.move.from].type = "king"
              THEN {"king"} ELSE {})
Happens == [n \in Lessons |-> HappensIn(LessonOf[n], LineSteps(LessonOf[n]))]

\* Of each lesson, computed once: the squares that its moves touch, whether its
\* lines take anything, and what its explanations and tactics should be.
Touched == [n \in Lessons |-> UNION {{y[2].from, y[2].to} : y \in Moves(LessonOf[n])}]
QuietGrab == [n \in Lessons |->
    LET l == LessonOf[n]
    IN  IsCapture(l.board, l.played) /\ \A s \in LineSteps(l) : ~IsCapture(s.from, s.move)]

TrueOf(l, known, happens, at) ==
    LET end == at[Len(l.bestLine)]
        me == l.board.turn
        told == known.prompt.told
    IN  /\ "reply" \in told <=> known.prompt.hints[2] # "none: invent nothing"
        /\ told \cap {"check", "checks"} # {} => "check" \in happens
        /\ told \cap {"capture", "captures"} # {} => "capture" \in happens
        /\ Says("missed mate") \in known.explained.consequence <=> \E m \in l.best : GivesMate(l.board, m)
        /\ \A m \in known.explained.comparison :
             /\ m.kind = "line mates" =>
                  /\ IsCheckmate(end)
                  /\ end.turn # me =>
                       m.moves = Cardinality({i \in DOMAIN l.bestLine : at[i - 1].turn = me})
             /\ m.kind \in {"wins by combination", "wins by pattern", "line wins piece"} =>
                  /\ Balance(end, me) > Balance(l.board, me)
                  /\ Count(end, end.turn, m.piece) + Count(end, Other(end.turn), m.piece)
                       < Count(l.board, me, m.piece) + Count(l.board, Other(me), m.piece)
                           + Cardinality({i \in DOMAIN l.bestLine : l.bestLine[i].promo = m.piece})
True == [n \in Lessons |->
    TrueOf(LessonOf[n], Known[n], Happens[n], Boards(LessonOf[n].board, LessonOf[n].bestLine))]

RealAfter(b, after, m, replies) ==
    LET kingMoves == {r \in replies : after.at[r.from].type = "king"}
    IN  /\ DoubleCheck(after) # {} => replies = kingMoves
        /\ BackRank(b, after, m) # {} => kingMoves = {}
        /\ \A t \in Discovered(b, after, m) :
             t.pattern = "discovered check" => Checkers(after) \ {m.to} # {}
        /\ \A t \in Fork(b, after, m) : \A r \in replies :
             r.to # m.to /\ r.from \in t.squares
               => \E s \in t.squares \ {m.to, r.from} : s \in Own(Push(after, r), after.turn)
Real == [n \in Lessons |->
    LET b == LessonOf[n].board
    IN  \A m \in LegalMoves(b) : RealAfter(b, Push(b, m), m, LegalMoves(Push(b, m)))]

\* Whatever the language model answers, a note that is stored or shown claims a
\* check, a capture, a mate or a king on the run only where the lines of its
\* lesson have one on the board, and names only squares that moves touch: the
\* judgement of texts (services/llm_explanation.py) by the letters of the
\* notation and the facts of the lesson, through retries and cached texts.
NotesAreGrounded ==
    \A x \in Notes :
        /\ Claimed(x.text) \subseteq Happens[x.of]
        /\ UNION {s.squares : s \in ToSet(x.text.sentences)} \subseteq Touched[x.of]

\* An enabled coach has always something to say, because its own text stands in
\* for a model that is silent or wrong, but after a capture where the lines
\* show none: there its own sentence makes a claim for which it finds no evidence.
SilenceIsExplained ==
    \A v \in Viewers :
        shown[v].coach /\ shown[v].note = NoNote => QuietGrab[shown[v].lesson]

\* A note belongs to the analysis whose row it is stored with or shown for,
\* unless the game was analysed anew while a backfill was under way: the write
\* of an analysis drops the notes (repositories/analysis.py), the backfill
\* writes by game and ply alone (update_move_llm_explanation).
NotesFitTheirLines ==
    \/ crossed
    \/ /\ \A p \in Plies : \A x \in rows[p].note : x.of = rows[p].lesson
       /\ \A v \in Viewers : \A x \in shown[v].note : x.of = shown[v].lesson

\* What the prompt tells the language model of checks and captures happens on
\* the board (services/lesson_facts.py), and so does what is said by rules: a
\* missed mate is one that the better move gives; a mate said to be in the line
\* ends it, and when it is the player who mates he needs as many moves as is said
\* (that the player is mated himself is told in the same words, with a number
\* that counts nothing); a piece said to be won by the line was taken by the
\* player, who is better off at the end (utils/explanation.py).
ExplanationsAreTrue == \A p \in Plies : \A n \in Shows(rows[p].lesson) : True[n]

\* A tactic that is named exists by the rules of the game, not only by the
\* patterns of lines and values (analysis/tactics.py): after a double check only
\* the king moves, after a back rank mate threat it has no move, a check that is
\* discovered comes from a piece that has not moved, and a fork cannot be met by
\* moving one of its targets alone.
TacticsAreReal == \A p \in Plies : Real[rows[p].lesson]
=============================================================================
