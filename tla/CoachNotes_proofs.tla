------------------------- MODULE CoachNotes_proofs -------------------------
(***************************************************************************)
(* Theorems about CoachNotes, for any lessons, any answers of the language *)
(* model, any number of blunders, viewers and restarts.                    *)
(***************************************************************************)
EXTENDS CoachNotes, FiniteSetTheorems, SequenceTheorems, WellFoundedInduction, TLAPS

-----------------------------------------------------------------------------
(* The inductive invariant.                                                 *)

\* What a note says is backed by what was worked out of its lesson.
Backed(x) ==
    /\ Claimed(x.text) \subseteq Known[x.of].backed
    /\ UNION {s.squares : s \in ToSet(x.text.sentences)} \subseteq Known[x.of].squares
BackedNotes == {x \in [text : Texts, of : Lessons] : Backed(x)}
AllOf(note, n) == \A x \in note : x.of = n

\* The coach's own text does not pass its judgement.
Mute(n) == ~Accepted(Known[n], Fallback(Known[n].facts), {})

IsJob(j) ==
    /\ DOMAIN j = {"at", "ply", "lesson", "references", "why", "note"}
    /\ j.note \in SUBSET BackedNotes
    /\ j.at \in {"ask", "call", "store"} => j.lesson \in Lessons

CoachTyped ==
    /\ rows \in [Plies -> [lesson : Lessons, note : SUBSET BackedNotes, version : Nat]]
    /\ server \in [version : Nat, enabled : BOOLEAN]
    /\ \A c \in cache : c.text \in Texts
    /\ DOMAIN work = Workers /\ \A w \in Workers : IsJob(work[w])
    /\ shown \in [Viewers ->
                     [lesson : Lessons \cup {"none"}, note : SUBSET BackedNotes, coach : BOOLEAN]]
    /\ todo \in Seq(Plies \X Lessons)
    /\ coming \in Seq([Plies -> Lessons])
    /\ crossed \in BOOLEAN

\* Where the backfill is: its job is one of a row, and its note of its lesson.
BackfillFits ==
    LET j == work["backfill"]
    IN  /\ j.at \in {"ask", "call", "store"} => j.ply \in Plies
        /\ j.at \in {"idle", "record"} => todo = <<>>
        /\ j.at = "store" => AllOf(j.note, j.lesson)

\* Unless an analysis crossed it, the backfill works on the lessons of the rows.
RowsFit ==
    /\ \A p \in Plies : AllOf(rows[p].note, rows[p].lesson)
    /\ \A v \in Viewers : AllOf(shown[v].note, shown[v].lesson)
    /\ \A i \in DOMAIN todo : todo[i][2] = rows[todo[i][1]].lesson
    /\ LET j == work["backfill"]
       IN  j.at \in {"ask", "call", "store"} => j.lesson = rows[j.ply].lesson

MuteWhenSilent ==
    \A v \in Viewers :
        shown[v].coach /\ shown[v].note = NoNote => shown[v].lesson \in Lessons /\ Mute(shown[v].lesson)

CoachInv == CoachTyped /\ BackfillFits /\ (crossed \/ RowsFit) /\ MuteWhenSilent
-----------------------------------------------------------------------------
(* Texts.                                                                   *)

LEMMA KnownIs == \A n \in Lessons : Known[n] = KnownOf(LessonOf[n])
BY DEF Known

(* The first sentences of a text, at most four of them, are a text's.       *)
LEMMA CleanIsText ==
    ASSUME NEW text \in Texts
    PROVE  Clean(text) \in Texts
<1>1. text.sentences \in Seq(Sentences) /\ Len(text.sentences) \in Nat
    BY LenProperties DEF Texts
<1>2. Kept(text) \in Seq(Sentences)
    <2>1. CASE Len(text.sentences) > 4
        BY <1>1, <2>1, SubSeqProperties DEF Kept
    <2>2. CASE ~(Len(text.sentences) > 4)
        BY <1>1, <2>2, SubSeqProperties DEF Kept
    <2> QED BY <2>1, <2>2
<1> HIDE DEF Sentences
<1> QED BY <1>2 DEF Clean, Texts

(* The words of a text that is accepted are backed.                         *)
LEMMA AcceptedIsBacked ==
    ASSUME NEW n \in Lessons, NEW text \in Texts, NEW references, Accepted(Known[n], text, references)
    PROVE  [text |-> Clean(text), of |-> n] \in BackedNotes
<1> DEFINE t == Clean(text)
           known == Known[n]
<1>1. t \in Texts
    BY CleanIsText
<1>2. Reasons(known, t, references) \subseteq {"passive"}
    BY DEF Accepted
<1>3. Claimed(t) \subseteq Claims
    <2>1. \A s \in ToSet(t.sentences) : s.claims \subseteq Claims
        <3> SUFFICES ASSUME NEW i \in DOMAIN t.sentences PROVE t.sentences[i].claims \subseteq Claims
            BY DEF ToSet
        <3>1. t.sentences \in Seq(Sentences)
            BY <1>1 DEF Texts
        <3>2. t.sentences[i] \in Sentences
            BY <3>1, ElementOfSeq, LenProperties
        <3> QED BY <3>2 DEF Sentences
    <2> QED BY <2>1 DEF Claimed, Plain
<1>4. Claimed(t) \subseteq known.backed
    <2>1. Claimed(t) \ known.backed \subseteq {"passive"}
        BY <1>2 DEF Reasons
    <2> QED BY <2>1, <1>3 DEF Claims
<1>5. ~NamesOther(known, t)
    BY <1>2 DEF Reasons
<1>6. Backed([text |-> t, of |-> n])
    BY <1>4, <1>5 DEF Backed, NamesOther, Said
<1> QED BY <1>1, <1>6 DEF BackedNotes

(* The coach's own text is a text.                                          *)
LEMMA FallbackIsText ==
    ASSUME NEW f
    PROVE  Fallback(f) \in Texts
<1>1. /\ Context(f) \in Sentences /\ SaidOfReply(f) \in Sentences
      /\ SaidOfBest(f) \in Sentences /\ Taught(f) \in Sentences
    BY DEF Context, SaidOfReply, SaidOfBest, Taught, SeedAsItStands, Sentence, Sentences, Claims
<1>2. <<Context(f), SaidOfReply(f), SaidOfBest(f), Taught(f)>> \in Seq(Sentences)
    BY <1>1
<1> QED BY <1>2 DEF Fallback, Texts

LEMMA FallbackNoteIs ==
    ASSUME NEW n \in Lessons
    PROVE  /\ FallbackNote(Known[n], n) \in SUBSET BackedNotes
           /\ AllOf(FallbackNote(Known[n], n), n)
           /\ FallbackNote(Known[n], n) = NoNote => Mute(n)
<1>1. Fallback(Known[n].facts) \in Texts
    BY FallbackIsText
<1>2. Accepted(Known[n], Fallback(Known[n].facts), {})
        => [text |-> Clean(Fallback(Known[n].facts)), of |-> n] \in BackedNotes
    BY <1>1, AcceptedIsBacked
<1> QED BY <1>2 DEF FallbackNote, NoNote, Mute, AllOf


-----------------------------------------------------------------------------
(* The steps.                                                               *)

LEMMA Named == Viewers \subseteq Workers /\ "backfill" \in Workers /\ "backfill" \notin Viewers
BY BoundsAssumption DEF Workers

LEMMA CoursesAre ==
    \A c \in Courses : Head(c) \in [Plies -> Lessons] /\ Tail(c) \in Seq([Plies -> Lessons])
BY CoursesAssumption

(* What a new analysis leaves has no notes.                                 *)
LEMMA FreshIs ==
    ASSUME NEW found \in [Plies -> Lessons]
    PROVE  /\ Fresh(found) \in [Plies -> [lesson : Lessons, note : SUBSET BackedNotes, version : Nat]]
           /\ \A p \in Plies : AllOf(Fresh(found)[p].note, Fresh(found)[p].lesson)
BY DEF Fresh, AllOf, NoNote

LEMMA IdleIs == IsJob(Idle) /\ Idle.at = "idle"
BY DEF Idle, IsJob, NoNote

LEMMA NothingIs ==
    /\ Nothing \in [lesson : Lessons \cup {"none"}, note : SUBSET BackedNotes, coach : BOOLEAN]
    /\ Nothing.note = {} /\ Nothing.coach = FALSE
BY DEF Nothing, NoNote

LEMMA AskingIs ==
    ASSUME NEW p, NEW n \in Lessons, NEW r
    PROVE  /\ IsJob(Asking(p, n, r))
           /\ Asking(p, n, r).at = "ask" /\ Asking(p, n, r).ply = p /\ Asking(p, n, r).lesson = n
BY DEF Asking, Idle, IsJob, NoNote

LEMMA CoachInit == Init => CoachInv
<1> SUFFICES ASSUME Init PROVE CoachInv
    OBVIOUS
<1>1. PICK course \in Courses : rows = Fresh(Head(course)) /\ coming = Tail(course)
    BY DEF Init
<1>2. work["backfill"] = Idle
    BY Named DEF Init
<1>3. CoachTyped
    <2>1. /\ rows \in [Plies -> [lesson : Lessons, note : SUBSET BackedNotes, version : Nat]]
          /\ coming \in Seq([Plies -> Lessons])
        BY <1>1, CoursesAre, FreshIs
    <2>2. DOMAIN work = Workers /\ \A w \in Workers : IsJob(work[w])
        BY IdleIs DEF Init
    <2>3. shown \in [Viewers -> [lesson : Lessons \cup {"none"}, note : SUBSET BackedNotes,
                                coach : BOOLEAN]]
        BY NothingIs DEF Init
    <2>4. /\ server \in [version : Nat, enabled : BOOLEAN] /\ crossed \in BOOLEAN
          /\ cache = {} /\ todo \in Seq(Plies \X Lessons)
        <3>1. /\ server = [version |-> 1, enabled |-> TRUE] /\ crossed = FALSE
              /\ cache = {} /\ todo = <<>>
            BY DEF Init
        <3>2. [version |-> 1, enabled |-> TRUE] \in [version : Nat, enabled : BOOLEAN]
            OBVIOUS
        <3>3. <<>> \in Seq(Plies \X Lessons)
            OBVIOUS
        <3> QED BY <3>1, <3>2, <3>3
    <2> QED BY <2>1, <2>2, <2>3, <2>4 DEF CoachTyped
<1>4. BackfillFits
    BY <1>2, IdleIs DEF Init, BackfillFits
<1>5. RowsFit
    BY <1>1, <1>2, CoursesAre, FreshIs, IdleIs, NothingIs DEF Init, RowsFit, AllOf
<1>6. MuteWhenSilent
    BY NothingIs DEF Init, MuteWhenSilent
<1> QED BY <1>3, <1>4, <1>5, <1>6 DEF CoachInv

(* The backfill goes on with rows whose lessons are still theirs.           *)
LEMMA OnwardKeeps ==
    ASSUME CoachTyped, NEW left \in Seq(Plies \X Lessons), Onward(left)
    PROVE  /\ todo' \in Seq(Plies \X Lessons)
           /\ DOMAIN work' = Workers /\ \A w \in Workers : IsJob(work'[w])
           /\ BackfillFits'
           /\ \A at \in [Plies -> Lessons] :
                (\A i \in DOMAIN left : left[i][2] = at[left[i][1]]) =>
                  /\ \A i \in DOMAIN todo' : todo'[i][2] = at[todo'[i][1]]
                  /\ work'["backfill"].at \in {"ask", "call", "store"}
                       => work'["backfill"].lesson = at[work'["backfill"].ply]
<1> DEFINE job == IF left = <<>> THEN [Idle EXCEPT !.at = "record"]
                  ELSE Asking(Head(left)[1], Head(left)[2], {})
<1>1. /\ todo' = IF left = <<>> THEN <<>> ELSE Tail(left)
      /\ work' = [work EXCEPT !["backfill"] = job]
    BY DEF Onward
<1>2. /\ DOMAIN work = Workers /\ \A w \in Workers : IsJob(work[w])
    BY DEF CoachTyped
<1>3. CASE left = <<>>
    <2>1. IsJob(job) /\ job.at = "record"
        BY <1>3 DEF Idle, IsJob, NoNote
    <2>2. todo' = <<>>
        BY <1>1, <1>3
    <2> HIDE DEF job
    <2>3. work'["backfill"] = job
        BY <1>1, <1>2, Named
    <2>4. DOMAIN work' = Workers /\ \A w \in Workers : IsJob(work'[w])
        BY <1>1, <1>2, <2>1
    <2> QED BY <2>1, <2>2, <2>3, <2>4 DEF BackfillFits
<1>4. CASE left # <<>>
    <2>1. Head(left) = left[1] /\ left[1] \in Plies \X Lessons /\ 1 \in DOMAIN left
        BY <1>4
    <2>2. /\ IsJob(job) /\ job.at = "ask"
          /\ job.ply = left[1][1] /\ job.lesson = left[1][2]
        BY <1>4, <2>1, AskingIs
    <2>3. Tail(left) \in Seq(Plies \X Lessons)
          /\ \A i \in DOMAIN Tail(left) : i + 1 \in DOMAIN left /\ Tail(left)[i] = left[i + 1]
        BY <1>4
    <2> HIDE DEF job
    <2>4. work'["backfill"] = job
        BY <1>1, <1>2, Named
    <2>5. DOMAIN work' = Workers /\ \A w \in Workers : IsJob(work'[w])
        BY <1>1, <1>2, <2>2
    <2>6. todo' = Tail(left)
        BY <1>1, <1>4
    <2>7. BackfillFits'
        BY <2>1, <2>2, <2>4 DEF BackfillFits
    <2> QED BY <2>1, <2>2, <2>3, <2>4, <2>5, <2>6, <2>7
<1> QED BY <1>3, <1>4

(* A job asks again.                                                        *)
LEMMA AskingAgainKeeps ==
    ASSUME CoachInv, NEW w \in Workers, NEW job, work' = [work EXCEPT ![w] = job],
           work[w].at \in {"ask", "call"}, job.at \in {"ask", "call"}, IsJob(job),
           job.ply = work[w].ply, job.lesson = work[w].lesson,
           UNCHANGED <<rows, server, coming, crossed, shown, todo>>,
           \A c \in cache' : c.text \in Texts
    PROVE  CoachInv'
<1>1. CoachTyped /\ BackfillFits /\ MuteWhenSilent
    BY DEF CoachInv
<1>2. /\ DOMAIN work' = Workers /\ \A v \in Workers : v # w => work'[v] = work[v]
      /\ work'[w] = job
    BY <1>1 DEF CoachTyped
<1>3. CoachTyped'
    BY <1>1, <1>2 DEF CoachTyped
<1>4. BackfillFits'
    BY <1>1, <1>2, Named DEF BackfillFits
<1>5. crossed' \/ RowsFit'
    BY <1>2, Named DEF CoachInv, RowsFit
<1>6. MuteWhenSilent'
    BY <1>1 DEF MuteWhenSilent
<1> QED BY <1>3, <1>4, <1>5, <1>6 DEF CoachInv

(* A job is over, with a note of its lesson or, if the coach's own text does *)
(* not pass, with none.                                                     *)
LEMMA EndsKeeps ==
    ASSUME CoachInv, NEW w \in Workers, NEW note, Ends(w, note),
           work[w].at \in {"ask", "call"},
           note \in SUBSET BackedNotes, AllOf(note, work[w].lesson),
           note = NoNote => Mute(work[w].lesson),
           UNCHANGED <<rows, server, coming, crossed>>,
           \A c \in cache' : c.text \in Texts
    PROVE  CoachInv'
<1> DEFINE j == work[w]
<1>1. /\ CoachTyped /\ BackfillFits /\ MuteWhenSilent
      /\ DOMAIN work = Workers /\ \A v \in Workers : IsJob(work[v])
      /\ j.lesson \in Lessons
    BY DEF CoachInv, CoachTyped, IsJob
<1>2. CASE w \in Viewers
    <2> DEFINE told == [lesson |-> j.lesson, note |-> note, coach |-> server.enabled]
    <2>1. /\ shown' = [shown EXCEPT ![w] = told]
          /\ work' = [work EXCEPT ![w] = Idle] /\ todo' = todo
        BY <1>2 DEF Ends, Show
    <2>2. told \in [lesson : Lessons \cup {"none"}, note : SUBSET BackedNotes, coach : BOOLEAN]
        BY <1>1 DEF CoachTyped
    <2>3. told.note = note /\ told.lesson = j.lesson
        OBVIOUS
    <2> HIDE DEF told
    <2>4. /\ shown' \in [Viewers -> [lesson : Lessons \cup {"none"}, note : SUBSET BackedNotes,
                                   coach : BOOLEAN]]
          /\ shown'[w] = told /\ \A v \in Viewers : v # w => shown'[v] = shown[v]
        BY <1>1, <1>2, <2>1, <2>2 DEF CoachTyped
    <2>5. /\ DOMAIN work' = Workers /\ work'["backfill"] = work["backfill"]
          /\ \A v \in Workers : IsJob(work'[v])
        BY <1>1, <1>2, <2>1, IdleIs, Named
    <2>6. CoachTyped'
        BY <1>1, <2>1, <2>4, <2>5 DEF CoachTyped
    <2>7. BackfillFits'
        BY <1>1, <2>1, <2>5 DEF BackfillFits
    <2>8. crossed' \/ RowsFit'
        BY <2>1, <2>3, <2>4, <2>5 DEF CoachInv, RowsFit
    <2>9. MuteWhenSilent'
        BY <1>1, <2>3, <2>4 DEF MuteWhenSilent
    <2> QED BY <2>6, <2>7, <2>8, <2>9 DEF CoachInv
<1>3. CASE w \notin Viewers /\ note = NoNote
    <2>1. /\ shown' = shown /\ Onward(todo) /\ todo \in Seq(Plies \X Lessons)
        BY <1>1, <1>3 DEF Ends, CoachTyped
    <2>2. /\ todo' \in Seq(Plies \X Lessons)
          /\ DOMAIN work' = Workers /\ \A v \in Workers : IsJob(work'[v])
          /\ BackfillFits'
        BY <1>1, <2>1, OnwardKeeps
    <2>3. CoachTyped'
        BY <1>1, <2>1, <2>2 DEF CoachTyped
    <2>4. MuteWhenSilent'
        BY <1>1, <2>1 DEF MuteWhenSilent
    <2>5. ASSUME RowsFit PROVE RowsFit'
        <3> DEFINE at == [p \in Plies |-> rows[p].lesson]
        <3>1. at \in [Plies -> Lessons]
            BY <1>1 DEF CoachTyped
        <3>2. \A i \in DOMAIN todo : todo[i] \in Plies \X Lessons
            BY <2>1, ElementOfSeq, LenProperties
        <3>3. \A i \in DOMAIN todo : todo[i][2] = at[todo[i][1]]
            BY <2>5, <3>2 DEF RowsFit
        <3> HIDE DEF at
        <3>4. /\ \A i \in DOMAIN todo' : todo'[i][2] = at[todo'[i][1]]
              /\ work'["backfill"].at \in {"ask", "call", "store"}
                   => work'["backfill"].lesson = at[work'["backfill"].ply]
            BY <1>1, <2>1, <3>1, <3>3, OnwardKeeps
        <3>5. \A i \in DOMAIN todo' : todo'[i] \in Plies \X Lessons
            BY <2>2, ElementOfSeq, LenProperties
        <3>6. work'["backfill"].at \in {"ask", "call", "store"} => work'["backfill"].ply \in Plies
            BY <2>2 DEF BackfillFits
        <3> USE DEF at
        <3> QED BY <2>1, <2>5, <3>4, <3>5, <3>6 DEF RowsFit
    <2> QED BY <2>2, <2>3, <2>4, <2>5 DEF CoachInv
<1>4. CASE w \notin Viewers /\ note # NoNote
    <2>1. w = "backfill"
        BY <1>4 DEF Workers
    <2>2. /\ shown' = shown /\ todo' = todo
          /\ work' = [work EXCEPT ![w].at = "store", ![w].note = note]
        BY <1>4 DEF Ends
    <2>3. /\ DOMAIN work' = Workers /\ \A v \in Workers : v # w => work'[v] = work[v]
          /\ DOMAIN work'[w] = DOMAIN j /\ work'[w].at = "store" /\ work'[w].note = note
          /\ work'[w].ply = j.ply /\ work'[w].lesson = j.lesson
        BY <1>1, <2>2 DEF IsJob
    <2>4. IsJob(work'[w])
        BY <1>1, <2>3 DEF IsJob
    <2>5. CoachTyped'
        BY <1>1, <2>2, <2>3, <2>4 DEF CoachTyped
    <2>6. BackfillFits'
        BY <1>1, <2>1, <2>2, <2>3 DEF BackfillFits
    <2>7. crossed' \/ RowsFit'
        BY <2>1, <2>2, <2>3 DEF CoachInv, RowsFit
    <2>8. MuteWhenSilent'
        BY <1>1, <2>2 DEF MuteWhenSilent
    <2> QED BY <2>5, <2>6, <2>7, <2>8 DEF CoachInv
<1> QED BY <1>2, <1>3, <1>4

(* A text is judged.                                                        *)
LEMMA JudgeKeeps ==
    ASSUME CoachInv, NEW w \in Workers, NEW text \in Texts, Judge(w, Known[work[w].lesson], text),
           work[w].at \in {"ask", "call"},
           UNCHANGED <<rows, server, coming, crossed>>,
           \A c \in cache' : c.text \in Texts
    PROVE  CoachInv'
<1> DEFINE j == work[w]
           known == Known[j.lesson]
<1>1. j.lesson \in Lessons
    BY DEF CoachInv, CoachTyped, IsJob
<1>2. CASE Accepted(known, text, j.references)
    <2> DEFINE note == {[text |-> Clean(text), of |-> j.lesson]}
    <2>1. Ends(w, note)
        BY <1>2 DEF Judge
    <2>2. note \in SUBSET BackedNotes
        BY <1>1, <1>2, AcceptedIsBacked
    <2>3. AllOf(note, j.lesson) /\ note # NoNote
        BY DEF AllOf, NoNote
    <2> HIDE DEF note
    <2> QED BY <2>1, <2>2, <2>3, EndsKeeps
<1>3. CASE /\ ~Accepted(known, text, j.references)
           /\ j.why = {} /\ Retryable(known, text, j.references)
    <2> DEFINE job == [j EXCEPT !.at = "ask", !.why = Complaints(known, text, j.references)]
    <2>1. /\ UNCHANGED <<shown, todo>>
          /\ work' = [work EXCEPT ![w] = job]
        BY <1>3 DEF Judge
    <2>2. IsJob(job) /\ job.at = "ask" /\ job.ply = j.ply /\ job.lesson = j.lesson
        BY <1>1 DEF CoachInv, CoachTyped, IsJob
    <2> HIDE DEF job
    <2> QED BY <2>1, <2>2, AskingAgainKeeps
<1>4. CASE /\ ~Accepted(known, text, j.references)
           /\ ~(j.why = {} /\ Retryable(known, text, j.references))
    <2> DEFINE note == FallbackNote(known, j.lesson)
    <2>1. Ends(w, note)
        BY <1>4 DEF Judge
    <2>2. note \in SUBSET BackedNotes /\ AllOf(note, j.lesson) /\ (note = NoNote => Mute(j.lesson))
        BY <1>1, FallbackNoteIs
    <2> HIDE DEF note
    <2> QED BY <2>1, <2>2, EndsKeeps
<1> QED BY <1>2, <1>3, <1>4

LEMMA StoredKeeps ==
    ASSUME CoachInv, NEW v \in Viewers, NEW p \in Plies, Stored(v, p)
    PROVE  CoachInv'
<1> DEFINE told == [lesson |-> rows[p].lesson, note |-> rows[p].note, coach |-> server.enabled]
<1>1. CoachTyped /\ BackfillFits /\ MuteWhenSilent
    BY DEF CoachInv
<1>2. /\ shown' = [shown EXCEPT ![v] = told] /\ told.note # NoNote
      /\ UNCHANGED <<rows, server, coming, crossed, cache, work, todo>>
    BY DEF Stored, Show, stored
<1>3. /\ told \in [lesson : Lessons \cup {"none"}, note : SUBSET BackedNotes, coach : BOOLEAN]
      /\ told.lesson = rows[p].lesson /\ told.note = rows[p].note
    BY <1>1 DEF CoachTyped
<1> HIDE DEF told
<1>4. /\ shown' \in [Viewers -> [lesson : Lessons \cup {"none"}, note : SUBSET BackedNotes,
                               coach : BOOLEAN]]
      /\ shown'[v] = told /\ \A u \in Viewers : u # v => shown'[u] = shown[u]
    BY <1>1, <1>2, <1>3 DEF CoachTyped
<1>5. CoachTyped'
    BY <1>1, <1>2, <1>4 DEF CoachTyped
<1>6. BackfillFits'
    BY <1>1, <1>2 DEF BackfillFits
<1>7. crossed' \/ RowsFit'
    BY <1>2, <1>3, <1>4 DEF CoachInv, RowsFit
<1>8. MuteWhenSilent'
    BY <1>1, <1>2, <1>4 DEF MuteWhenSilent
<1> QED BY <1>5, <1>6, <1>7, <1>8 DEF CoachInv

LEMMA MakeKeeps ==
    ASSUME CoachInv, NEW v \in Viewers, NEW p \in Plies, Make(v, p)
    PROVE  CoachInv'
<1>1. CoachTyped /\ BackfillFits /\ MuteWhenSilent
    BY DEF CoachInv
<1>2. UNCHANGED <<rows, server, coming, crossed, cache, todo>>
    BY DEF Make, stored
<1>3. PICK n \in Shows(rows[p].lesson) :
        IF server.enabled
          THEN work' = [work EXCEPT ![v] = Asking(p, n, References(Known[n].explained))]
                 /\ UNCHANGED shown
          ELSE Show(v, n, NoNote) /\ UNCHANGED work
    BY DEF Make
<1>4. n \in Lessons
    BY <1>1, LessonsAssumption DEF Shows, CoachTyped
<1>5. CASE server.enabled
    <2> DEFINE job == Asking(p, n, References(Known[n].explained))
    <2>1. work' = [work EXCEPT ![v] = job] /\ shown' = shown
        BY <1>3, <1>5
    <2>2. IsJob(job)
        BY <1>4, AskingIs
    <2> HIDE DEF job
    <2>3. /\ DOMAIN work' = Workers /\ work'["backfill"] = work["backfill"]
          /\ \A w \in Workers : IsJob(work'[w])
        BY <1>1, <2>1, <2>2, Named DEF CoachTyped
    <2>4. CoachTyped'
        BY <1>1, <1>2, <2>1, <2>3 DEF CoachTyped
    <2>5. BackfillFits'
        BY <1>1, <1>2, <2>3 DEF BackfillFits
    <2>6. crossed' \/ RowsFit'
        BY <1>2, <2>1, <2>3 DEF CoachInv, RowsFit
    <2>7. MuteWhenSilent'
        BY <1>1, <2>1 DEF MuteWhenSilent
    <2> QED BY <2>4, <2>5, <2>6, <2>7 DEF CoachInv
<1>6. CASE ~server.enabled
    <2> DEFINE told == [lesson |-> n, note |-> NoNote, coach |-> FALSE]
    <2>1. server.enabled = FALSE
        BY <1>1, <1>6 DEF CoachTyped
    <2>2. shown' = [shown EXCEPT ![v] = told] /\ work' = work
        BY <1>3, <2>1 DEF Show
    <2>3. /\ told \in [lesson : Lessons \cup {"none"}, note : SUBSET BackedNotes, coach : BOOLEAN]
          /\ AllOf(told.note, told.lesson) /\ ~told.coach
        BY <1>4 DEF NoNote, AllOf
    <2> HIDE DEF told
    <2>4. /\ shown' \in [Viewers -> [lesson : Lessons \cup {"none"}, note : SUBSET BackedNotes,
                                   coach : BOOLEAN]]
          /\ shown'[v] = told /\ \A u \in Viewers : u # v => shown'[u] = shown[u]
        BY <1>1, <2>2, <2>3 DEF CoachTyped
    <2>5. CoachTyped'
        BY <1>1, <1>2, <2>2, <2>4 DEF CoachTyped
    <2>6. BackfillFits'
        BY <1>1, <1>2, <2>2 DEF BackfillFits
    <2>7. crossed' \/ RowsFit'
        BY <1>2, <2>2, <2>3, <2>4 DEF CoachInv, RowsFit
    <2>8. MuteWhenSilent'
        BY <1>1, <2>3, <2>4 DEF MuteWhenSilent
    <2> QED BY <2>5, <2>6, <2>7, <2>8 DEF CoachInv
<1> QED BY <1>5, <1>6

LEMMA LookKeeps ==
    ASSUME CoachInv, NEW w \in Workers, Look(w)
    PROVE  CoachInv'
<1>1. /\ work[w].at = "ask" /\ UNCHANGED <<rows, server, coming, crossed, cache>>
    BY DEF Look, stored
<1>2. \A c \in cache : c.text \in Texts
    BY DEF CoachInv, CoachTyped
<1>3. CASE Hits(w) = {}
    <2> DEFINE job == [work[w] EXCEPT !.at = "call"]
    <2>1. work' = [work EXCEPT ![w] = job] /\ UNCHANGED <<shown, todo>>
        BY <1>3 DEF Look
    <2>2. IsJob(job) /\ job.at = "call" /\ job.ply = work[w].ply /\ job.lesson = work[w].lesson
        BY <1>1 DEF CoachInv, CoachTyped, IsJob
    <2> HIDE DEF job
    <2> QED BY <1>1, <1>2, <2>1, <2>2, AskingAgainKeeps
<1>4. CASE Hits(w) # {}
    <2>1. PICK c \in Hits(w) : Judge(w, Known[work[w].lesson], c.text)
        BY <1>4 DEF Look
    <2>2. c.text \in Texts
        BY <1>2 DEF Hits
    <2> QED BY <1>1, <1>2, <2>1, <2>2, JudgeKeeps
<1> QED BY <1>3, <1>4

LEMMA AnswerKeeps ==
    ASSUME CoachInv, NEW w \in Workers, Answer(w)
    PROVE  CoachInv'
<1>1. /\ work[w].at = "call" /\ UNCHANGED <<rows, server, coming, crossed>>
    BY DEF Answer, stored
<1>2. PICK text \in Answers :
        /\ cache' = (cache \ Hits(w))
                      \cup {[lesson |-> work[w].lesson, why |-> work[w].why, text |-> text]}
        /\ Judge(w, Known[work[w].lesson], text)
    BY DEF Answer
<1>3. text \in Texts
    BY TextsAssumption
<1>4. \A c \in cache' : c.text \in Texts
    BY <1>2, <1>3 DEF CoachInv, CoachTyped
<1> QED BY <1>1, <1>2, <1>3, <1>4, JudgeKeeps

LEMMA NoAnswerKeeps ==
    ASSUME CoachInv, NEW w \in Workers, NoAnswer(w)
    PROVE  CoachInv'
<1> DEFINE n == work[w].lesson
           note == FallbackNote(Known[n], n)
<1>1. /\ work[w].at = "call" /\ UNCHANGED <<rows, server, coming, crossed, cache>>
      /\ Ends(w, note)
    BY DEF NoAnswer, stored
<1>2. n \in Lessons
    BY <1>1 DEF CoachInv, CoachTyped, IsJob
<1>3. note \in SUBSET BackedNotes /\ AllOf(note, n) /\ (note = NoNote => Mute(n))
    BY <1>2, FallbackNoteIs
<1>4. \A c \in cache' : c.text \in Texts
    BY <1>1 DEF CoachInv, CoachTyped
<1> HIDE DEF note
<1> QED BY <1>1, <1>3, <1>4, EndsKeeps

LEMMA BackfillKeeps ==
    ASSUME CoachInv, Backfill
    PROVE  CoachInv'
<1> DEFINE left == IF server.enabled THEN [i \in 1..Size |-> <<i, rows[i].lesson>>] ELSE <<>>
           at == [p \in Plies |-> rows[p].lesson]
<1>1. CoachTyped /\ MuteWhenSilent /\ at \in [Plies -> Lessons]
    BY DEF CoachInv, CoachTyped
<1>2. /\ Onward(left) /\ UNCHANGED <<rows, server, coming, crossed, cache, shown>>
    BY DEF Backfill, stored
<1>3. /\ left \in Seq(Plies \X Lessons)
      /\ \A i \in DOMAIN left : left[i] = <<i, at[i]>> /\ i \in Plies
    <2>1. Size \in Nat /\ Plies = 1..Size
        BY BoundsAssumption DEF Plies
    <2>2. [i \in 1..Size |-> <<i, rows[i].lesson>>] \in Seq(Plies \X Lessons)
        <3>1. \A i \in 1..Size : <<i, rows[i].lesson>> \in Plies \X Lessons
            BY <1>1, <2>1
        <3> QED BY <2>1, <3>1, IsASeq
    <2>3. <<>> \in Seq(Plies \X Lessons)
        OBVIOUS
    <2> QED BY <2>1, <2>2, <2>3
<1> HIDE DEF left
<1>4. /\ todo' \in Seq(Plies \X Lessons)
      /\ DOMAIN work' = Workers /\ \A w \in Workers : IsJob(work'[w])
      /\ BackfillFits'
      /\ \A i \in DOMAIN todo' : todo'[i][2] = at[todo'[i][1]]
      /\ work'["backfill"].at \in {"ask", "call", "store"}
           => work'["backfill"].lesson = at[work'["backfill"].ply]
    <2> HIDE DEF at
    <2>1. \A i \in DOMAIN left : left[i][2] = at[left[i][1]]
        BY <1>3
    <2> QED BY <1>1, <1>2, <1>3, <2>1, OnwardKeeps
<1>5. CoachTyped'
    BY <1>1, <1>2, <1>4 DEF CoachTyped
<1>6. ASSUME RowsFit PROVE RowsFit'
    <2>1. \A i \in DOMAIN todo' : todo'[i] \in Plies \X Lessons
        BY <1>4, ElementOfSeq, LenProperties
    <2>2. work'["backfill"].at \in {"ask", "call", "store"} => work'["backfill"].ply \in Plies
        BY <1>4 DEF BackfillFits
    <2> QED BY <1>2, <1>4, <1>6, <2>1, <2>2 DEF RowsFit
<1>7. MuteWhenSilent'
    BY <1>1, <1>2 DEF MuteWhenSilent
<1>8. crossed' = crossed
    BY <1>2
<1> QED BY <1>4, <1>5, <1>6, <1>7, <1>8 DEF CoachInv

LEMMA StoreKeeps ==
    ASSUME CoachInv, Store
    PROVE  CoachInv'
<1> DEFINE j == work["backfill"]
           at == [p \in Plies |-> rows[p].lesson]
<1>1. /\ CoachTyped /\ BackfillFits /\ MuteWhenSilent /\ at \in [Plies -> Lessons]
      /\ DOMAIN work = Workers /\ IsJob(j) /\ todo \in Seq(Plies \X Lessons)
    BY Named DEF CoachInv, CoachTyped
<1>2. /\ j.at = "store" /\ Onward(todo)
      /\ rows' = [rows EXCEPT ![j.ply].note = j.note, ![j.ply].version = server.version]
      /\ UNCHANGED <<server, coming, crossed, cache, shown>>
    BY DEF Store
<1>3. /\ j.ply \in Plies /\ AllOf(j.note, j.lesson) /\ j.note \in SUBSET BackedNotes
      /\ server.version \in Nat
    BY <1>1, <1>2 DEF BackfillFits, IsJob, CoachTyped
<1>4. rows' \in [Plies -> [lesson : Lessons, note : SUBSET BackedNotes, version : Nat]]
    <2> DEFINE row == [rows[j.ply] EXCEPT !.note = j.note, !.version = server.version]
    <2>1. rows' = [rows EXCEPT ![j.ply] = row]
        BY <1>2
    <2>2. row \in [lesson : Lessons, note : SUBSET BackedNotes, version : Nat]
        BY <1>1, <1>3 DEF CoachTyped
    <2> HIDE DEF row
    <2> QED BY <1>1, <2>1, <2>2 DEF CoachTyped
<1>5. /\ rows'[j.ply].note = j.note
      /\ \A p \in Plies : rows'[p].lesson = rows[p].lesson
      /\ \A p \in Plies : p # j.ply => rows'[p].note = rows[p].note
    BY <1>1, <1>2, <1>3 DEF CoachTyped
<1>6. /\ todo' \in Seq(Plies \X Lessons)
      /\ DOMAIN work' = Workers /\ \A w \in Workers : IsJob(work'[w])
      /\ BackfillFits'
    BY <1>1, <1>2, OnwardKeeps
<1>7. CoachTyped'
    BY <1>1, <1>2, <1>4, <1>6 DEF CoachTyped
<1>8. ASSUME RowsFit PROVE RowsFit'
    <2>1. \A i \in DOMAIN todo : todo[i] \in Plies \X Lessons
        BY <1>1, ElementOfSeq, LenProperties
    <2>2. \A i \in DOMAIN todo : todo[i][2] = at[todo[i][1]]
        BY <1>8, <2>1 DEF RowsFit
    <2> HIDE DEF at
    <2>3. /\ \A i \in DOMAIN todo' : todo'[i][2] = at[todo'[i][1]]
          /\ work'["backfill"].at \in {"ask", "call", "store"}
               => work'["backfill"].lesson = at[work'["backfill"].ply]
        BY <1>1, <1>2, <2>2, OnwardKeeps
    <2>4. \A i \in DOMAIN todo' : todo'[i] \in Plies \X Lessons
        BY <1>6, ElementOfSeq, LenProperties
    <2>5. work'["backfill"].at \in {"ask", "call", "store"} => work'["backfill"].ply \in Plies
        BY <1>6 DEF BackfillFits
    <2> USE DEF at
    <2>6. \A p \in Plies : AllOf(rows'[p].note, rows'[p].lesson)
        <3>1. j.lesson = rows[j.ply].lesson
            BY <1>2, <1>8 DEF RowsFit
        <3> QED BY <1>3, <1>5, <1>8, <3>1 DEF RowsFit
    <2>7. \A i \in DOMAIN todo' : todo'[i][2] = rows'[todo'[i][1]].lesson
        BY <1>5, <2>3, <2>4
    <2>8. work'["backfill"].at \in {"ask", "call", "store"}
            => work'["backfill"].lesson = rows'[work'["backfill"].ply].lesson
        BY <1>5, <2>3, <2>5
    <2> QED BY <1>2, <1>8, <2>6, <2>7, <2>8 DEF RowsFit
<1>9. MuteWhenSilent' /\ crossed' = crossed
    BY <1>1, <1>2 DEF MuteWhenSilent
<1> QED BY <1>6, <1>7, <1>8, <1>9 DEF CoachInv

LEMMA RecordKeeps ==
    ASSUME CoachInv, Record
    PROVE  CoachInv'
<1>1. CoachTyped /\ BackfillFits /\ MuteWhenSilent
    BY DEF CoachInv
<1>2. /\ work["backfill"].at = "record" /\ work' = [work EXCEPT !["backfill"] = Idle]
      /\ UNCHANGED <<rows, server, coming, crossed, cache, shown, todo>>
    BY DEF Record
<1>3. /\ DOMAIN work' = Workers /\ work'["backfill"] = Idle
      /\ \A w \in Workers : IsJob(work'[w])
    BY <1>1, <1>2, IdleIs, Named DEF CoachTyped
<1>4. CoachTyped'
    BY <1>1, <1>2, <1>3 DEF CoachTyped
<1>5. BackfillFits'
    BY <1>1, <1>2, <1>3, IdleIs DEF BackfillFits
<1>6. crossed' \/ RowsFit'
    BY <1>2, <1>3, IdleIs DEF CoachInv, RowsFit
<1>7. MuteWhenSilent'
    BY <1>1, <1>2 DEF MuteWhenSilent
<1> QED BY <1>4, <1>5, <1>6, <1>7 DEF CoachInv

LEMMA ReanalyseKeeps ==
    ASSUME CoachInv, Reanalyse
    PROVE  CoachInv'
<1>1. CoachTyped /\ BackfillFits /\ MuteWhenSilent
    BY DEF CoachInv
<1>2. /\ coming # <<>> /\ coming' = Tail(coming) /\ rows' = Fresh(Head(coming))
      /\ crossed' = (crossed \/ work["backfill"].at # "idle")
      /\ UNCHANGED <<server, cache, work, shown, todo>>
    BY DEF Reanalyse, Written
<1>3. Head(coming) \in [Plies -> Lessons] /\ Tail(coming) \in Seq([Plies -> Lessons])
    BY <1>1, <1>2 DEF CoachTyped
<1>4. /\ rows' \in [Plies -> [lesson : Lessons, note : SUBSET BackedNotes, version : Nat]]
      /\ \A p \in Plies : AllOf(rows'[p].note, rows'[p].lesson)
    BY <1>2, <1>3, FreshIs
<1>5. CoachTyped'
    BY <1>1, <1>2, <1>3, <1>4 DEF CoachTyped
<1>6. BackfillFits'
    BY <1>1, <1>2 DEF BackfillFits
<1>7. crossed' \/ RowsFit'
    <2>1. CASE work["backfill"].at = "idle" /\ ~crossed
        <3>1. todo' = <<>> /\ work' = work /\ RowsFit
            BY <1>1, <1>2, <2>1 DEF BackfillFits, CoachInv
        <3> QED BY <1>2, <1>4, <2>1, <3>1 DEF RowsFit
    <2>2. CASE ~(work["backfill"].at = "idle" /\ ~crossed)
        BY <1>2, <2>2
    <2> QED BY <2>1, <2>2
<1>8. MuteWhenSilent'
    BY <1>1, <1>2 DEF MuteWhenSilent
<1> QED BY <1>5, <1>6, <1>7, <1>8 DEF CoachInv

LEMMA RestartKeeps ==
    ASSUME CoachInv, Restart
    PROVE  CoachInv'
<1>1. CoachTyped
    BY DEF CoachInv
<1>2. /\ cache' = {} /\ work' = [w \in Workers |-> Idle] /\ shown' = [v \in Viewers |-> Nothing]
      /\ todo' = <<>> /\ UNCHANGED <<rows, coming, crossed>>
    BY DEF Restart
<1>3. server' \in [version : Nat, enabled : BOOLEAN]
    <2>1. PICK v \in {server.version, server.version + 1}, on \in BOOLEAN :
            server' = [version |-> v, enabled |-> on]
        BY DEF Restart
    <2>2. v \in Nat
        BY <1>1 DEF CoachTyped
    <2> QED BY <2>1, <2>2
<1>4. /\ DOMAIN work' = Workers /\ work'["backfill"] = Idle
      /\ \A w \in Workers : IsJob(work'[w])
    BY <1>2, IdleIs, Named
<1>5. CoachTyped'
    <2>1. shown' \in [Viewers -> [lesson : Lessons \cup {"none"}, note : SUBSET BackedNotes,
                                coach : BOOLEAN]]
        BY <1>2, NothingIs
    <2>2. todo' \in Seq(Plies \X Lessons)
        <3>1. <<>> \in Seq(Plies \X Lessons)
            OBVIOUS
        <3> QED BY <1>2, <3>1
    <2> QED BY <1>1, <1>2, <1>3, <1>4, <2>1, <2>2 DEF CoachTyped
<1>6. BackfillFits'
    BY <1>2, <1>4, IdleIs DEF BackfillFits
<1>7. crossed' \/ RowsFit'
    BY <1>2, <1>4, IdleIs, NothingIs DEF CoachInv, RowsFit, AllOf
<1>8. MuteWhenSilent'
    BY <1>2, NothingIs DEF MuteWhenSilent
<1> QED BY <1>5, <1>6, <1>7, <1>8 DEF CoachInv

LEMMA CoachNext == CoachInv /\ [Next]_vars => CoachInv'
<1> SUFFICES ASSUME CoachInv, [Next]_vars PROVE CoachInv'
    OBVIOUS
<1>1. ASSUME NEW v \in Viewers, NEW p \in Plies, Stored(v, p) PROVE CoachInv'
    BY <1>1, StoredKeeps
<1>2. ASSUME NEW v \in Viewers, NEW p \in Plies, Make(v, p) PROVE CoachInv'
    BY <1>2, MakeKeeps
<1>3. ASSUME NEW w \in Workers, Look(w) PROVE CoachInv'
    BY <1>3, LookKeeps
<1>4. ASSUME NEW w \in Workers, Answer(w) PROVE CoachInv'
    BY <1>4, AnswerKeeps
<1>5. ASSUME NEW w \in Workers, NoAnswer(w) PROVE CoachInv'
    BY <1>5, NoAnswerKeeps
<1>6. ASSUME Backfill \/ Store \/ Record PROVE CoachInv'
    BY <1>6, BackfillKeeps, StoreKeeps, RecordKeeps
<1>7. ASSUME Reanalyse \/ Restart PROVE CoachInv'
    BY <1>7, ReanalyseKeeps, RestartKeeps
<1>8. ASSUME UNCHANGED vars PROVE CoachInv'
    BY <1>8 DEF vars, CoachInv, CoachTyped, BackfillFits, RowsFit, MuteWhenSilent
<1> QED BY <1>1, <1>2, <1>3, <1>4, <1>5, <1>6, <1>7, <1>8 DEF Next

LEMMA CoachStands == Spec => []CoachInv
BY CoachInit, CoachNext, PTL DEF Spec

(* A note belongs to the analysis whose row it is stored with or shown for, *)
(* unless the game was analysed anew under a backfill, for any lessons,     *)
(* answers, viewers and restarts.                                           *)
THEOREM NotesBelongToTheirLines == Spec => []NotesFitTheirLines
<1>1. CoachInv => NotesFitTheirLines
    BY DEF CoachInv, RowsFit, NotesFitTheirLines, AllOf
<1> QED BY <1>1, CoachStands, PTL

-----------------------------------------------------------------------------
(* Lines of moves.                                                          *)

LEMMA LowestIs ==
    ASSUME NEW S \in SUBSET Nat, S # {}
    PROVE  \E m \in S : \A i \in S : m <= i
<1>1. PICK m \in S : \A i \in S : <<i, m>> \notin OpToRel(<, Nat)
    BY NatLessThanWellFounded, WFMin
<1>2. \A i \in S : ~(i < m)
    BY <1>1 DEF OpToRel
<1> QED BY <1>2

(* The positions of a line: each comes from the one before by its move.     *)
LEMMA BoardsAre ==
    ASSUME NEW b, NEW line, Len(line) \in Nat
    PROVE  /\ Boards(b, line)[0] = b
           /\ \A i \in 1..Len(line) : Boards(b, line)[i] = Push(Boards(b, line)[i - 1], line[i])
<1> DEFINE n == Len(line)
           Is(g, k) == g = [i \in 0..k |-> IF i = 0 THEN b ELSE Push(g[i - 1], line[i])]
           Bad == {k \in 0..n : \A g : ~Is(g, k)}
<1>1. Bad = {}
    <2> SUFFICES ASSUME Bad # {} PROVE FALSE
        OBVIOUS
    <2>1. Bad \subseteq Nat
        OBVIOUS
    <2> HIDE DEF Bad
    <2>2. PICK k \in Bad : \A m \in Bad : k <= m
        BY <2>1, LowestIs
    <2>3. \A m \in Bad : m \in Nat /\ ~(m < k)
        BY <2>1, <2>2
    <2>4. k \in 0..n /\ \A g : ~Is(g, k)
        BY DEF Bad
    <2>5. k # 0
        <3> SUFFICES ASSUME k = 0 PROVE FALSE
            OBVIOUS
        <3> DEFINE first == [i \in 0..0 |-> b]
        <3>1. first = [i \in 0..0 |-> IF i = 0 THEN b ELSE Push(first[i - 1], line[i])]
            <4>1. \A i \in 0..0 : i = 0
                OBVIOUS
            <4> QED BY <4>1
        <3> HIDE DEF first
        <3>2. Is(first, 0)
            BY <3>1
        <3> QED BY <2>4, <3>2
    <2>6. k - 1 \in 0..n /\ k - 1 < k
        BY <2>4, <2>5
    <2>7. PICK g : Is(g, k - 1)
        BY <2>3, <2>6 DEF Bad
    <2> DEFINE h == [i \in 0..k |-> IF i = k THEN Push(g[k - 1], line[k]) ELSE g[i]]
    <2>8. \A i \in 0..k : h[i] = IF i = 0 THEN b ELSE Push(h[i - 1], line[i])
        <3> SUFFICES ASSUME NEW i \in 0..k
                     PROVE  h[i] = IF i = 0 THEN b ELSE Push(h[i - 1], line[i])
            OBVIOUS
        <3>1. CASE i = k
            <4>1. i # 0 /\ i - 1 \in 0..k /\ i - 1 # k
                BY <2>4, <2>5, <3>1
            <4>2. h[i] = Push(g[i - 1], line[i]) /\ h[i - 1] = g[i - 1]
                BY <3>1, <4>1
            <4> QED BY <4>1, <4>2
        <3>2. CASE i # k
            <4>1. i \in 0..(k - 1) /\ h[i] = g[i]
                BY <2>4, <3>2
            <4>2. g[i] = IF i = 0 THEN b ELSE Push(g[i - 1], line[i])
                BY <2>7, <4>1
            <4>3. i # 0 => i - 1 \in 0..k /\ i - 1 # k /\ h[i - 1] = g[i - 1]
                BY <2>4, <4>1
            <4> QED BY <4>1, <4>2, <4>3
        <3> QED BY <3>1, <3>2
    <2>9. Is(h, k)
        <3>1. h = [i \in 0..k |-> h[i]]
            OBVIOUS
        <3> HIDE DEF h
        <3> QED BY <2>8, <3>1
    <2> HIDE DEF Is
    <2> QED BY <2>4, <2>9
<1>2. \E g : Is(g, n)
    BY <1>1
<1>3. Boards(b, line) =
        CHOOSE g : g = [i \in 0..Len(line) |-> IF i = 0 THEN b ELSE Push(g[i - 1], line[i])]
    BY DEF Boards
<1>4. Is(Boards(b, line), n)
    BY <1>2, <1>3
<1> HIDE DEF n
<1>5. n \in Nat
    BY DEF n
<1>6. \A i \in 0..n : Boards(b, line)[i] = IF i = 0 THEN b ELSE Push(Boards(b, line)[i - 1], line[i])
    BY <1>4
<1>7. 0 \in 0..n /\ \A i \in 1..n : i \in 0..n /\ i # 0
    BY <1>5
<1> QED BY <1>6, <1>7 DEF n

-----------------------------------------------------------------------------
(* Moves.                                                                   *)

LEMMA SquaresAre == Squares \in SUBSET Nat /\ IsFiniteSet(Squares)
<1>1. \A n \in Int : IsFiniteSet(0..n)
    BY FS_Interval
<1>2. 63 \in Int /\ Squares = 0..63
    BY DEF Squares
<1>3. IsFiniteSet(Squares)
    BY <1>1, <1>2
<1> QED BY <1>2, <1>3

(* A piece attacks squares of the board other than its own, and a king those *)
(* next to it.                                                              *)
LEMMA AttacksAre ==
    ASSUME NEW b, IsPosition(b), NEW s \in DOMAIN b.at
    PROVE  /\ Attacks(b, s) \subseteq Squares \ {s}
           /\ b.at[s].type = "king" => \A t \in Attacks(b, s) : Distance(s, t) = 1
<1>1. /\ b.at[s].type \in Types /\ b.at[s].color \in Colors /\ s \in Squares
    BY SMTT(30) DEF IsPosition
<1>2. /\ Reach[b.at[s].type][b.at[s].color][s] \subseteq Squares \ {s}
      /\ b.at[s].type = "king" =>
           \A t \in Reach[b.at[s].type][b.at[s].color][s] : Distance(s, t) = 1
    BY <1>1 DEF Reach
<1> QED BY <1>2 DEF Attacks

LEMMA LegalMovesAre ==
    ASSUME NEW b, IsPosition(b), NEW m \in LegalMoves(b)
    PROVE  /\ m \in AnyMove /\ m.from \in Own(b, b.turn) /\ m.from # m.to
           /\ IsCastling(b, m) => m.to \in Castlings(b, m.from)
<1> DEFINE s == m.from
           t == m.to
           p == m.promo
<1>1. /\ s \in Own(b, b.turn) /\ t \in Targets(b, s) /\ p \in Promotions(b, s, t)
      /\ m = [from |-> s, to |-> t, promo |-> p]
    BY DEF LegalMoves
<1> HIDE DEF s, t, p
<1>2. s \in DOMAIN b.at /\ s \in Squares
    BY <1>1 DEF Own, IsPosition
<1>3. p \in Types \cup {"none"}
    BY <1>1 DEF Promotions, Types
<1>4. CASE b.at[s].type = "pawn"
    <2>1. t \in PawnSteps(b, s)
        BY <1>1, <1>4 DEF Targets
    <2>2. b.at[s].color \in Colors
        BY <1>2 DEF IsPosition
    <2>3. t \in Squares /\ t # s
        <3>1. CASE t \in Reach["pawn"][b.at[s].color][s]
            <4>1. Reach["pawn"][b.at[s].color][s] \subseteq Squares \ {s}
                BY <1>2, <2>2 DEF Reach, Types
            <4> QED BY <3>1, <4>1
        <3>2. CASE t \notin Reach["pawn"][b.at[s].color][s]
            BY <1>2, <2>1, <3>2 DEF PawnSteps
        <3> QED BY <3>1, <3>2
    <2> QED BY <1>1, <1>2, <1>3, <1>4, <2>3 DEF AnyMove, IsCastling
<1>5. CASE b.at[s].type # "pawn"
    <2>1. \/ t \in Attacks(b, s)
          \/ b.at[s].type = "king" /\ t \in Castlings(b, s)
        BY <1>1, <1>5 DEF Targets
    <2>2. CASE t \in Attacks(b, s)
        <3>1. t \in Squares \ {s} /\ (b.at[s].type = "king" => Distance(s, t) = 1)
            BY <1>2, <2>2, AttacksAre
        <3>2. ~IsCastling(b, m)
            BY <1>1, <3>1 DEF IsCastling
        <3> QED BY <1>1, <1>2, <1>3, <3>1, <3>2 DEF AnyMove
    <2>3. CASE t \in Castlings(b, s)
        <3>1. t \in Squares /\ Distance(s, t) = 2
            BY <2>3 DEF Castlings, IsPosition, Squares
        <3>2. s # t
            BY <1>2, <3>1 DEF Distance, Gap, File, Rank, Squares
        <3> QED BY <1>1, <1>2, <1>3, <2>3, <3>1, <3>2 DEF AnyMove
    <2> QED BY <2>1, <2>2, <2>3
<1> QED BY <1>4, <1>5

(* Where king and rook of a castling are, and where the rook goes.          *)
LEMMA CastlingIs ==
    ASSUME NEW b, IsPosition(b), NEW m \in LegalMoves(b), IsCastling(b, m)
    PROVE  /\ RookFrom(m) \in Own(b, b.turn) /\ RookFrom(m) # m.from
           /\ RookTo(m) \in Squares /\ RookTo(m) \notin DOMAIN b.at
           /\ RookTo(m) # m.to /\ RookFrom(m) # m.to
<1> DEFINE s == m.from
           t == m.to
           r == RookFrom(m)
           u == RookTo(m)
<1>1. /\ t \in {2, 6, 58, 62} /\ Rank(t) = Rank(s) /\ Distance(s, t) = 2
      /\ r \in Own(b, b.turn) /\ Between[s][r] \cap DOMAIN b.at = {}
      /\ s \in Squares
    <2>1. t \in Castlings(b, s) /\ s \in Squares
        BY LegalMovesAre DEF AnyMove
    <2>2. RookFrom([from |-> s, to |-> t]) = r
        BY DEF RookFrom
    <2> QED BY <2>1, <2>2 DEF Castlings, IsPosition
<1>2. <<s, t>> \in {<<4, 6>>, <<0, 2>>, <<4, 2>>, <<56, 58>>, <<60, 58>>, <<60, 62>>}
    BY <1>1 DEF Rank, Distance, Gap, File, Squares
<1>3. <<s, t, r, u>> \in {<<4, 6, 7, 5>>, <<0, 2, 3, 1>>, <<4, 2, 0, 3>>,
                         <<56, 58, 59, 57>>, <<60, 58, 56, 59>>, <<60, 62, 63, 61>>}
    BY <1>2 DEF RookFrom, RookTo
<1>4. r \in Squares /\ u \in Squares /\ u # r /\ u # s /\ r # s /\ u # t /\ r # t
    BY <1>3 DEF Squares
<1>5. u \in Between[s][r]
    <2>1. Rank(s) = Rank(r) /\ Rank(u) = Rank(r) /\ File(s) # File(r)
        BY <1>3 DEF Rank, File
    <2> HIDE DEF s, t, r, u
    <2>2. Line[s][r] = {x \in Squares : Rank(x) = Rank(s)}
        <3>1. Line[s] = [x \in Squares |->
                CASE s # x /\ File(s) = File(x) -> {y \in Squares : File(y) = File(s)}
                  [] s # x /\ Rank(s) = Rank(x) -> {y \in Squares : Rank(y) = Rank(s)}
                  [] Diagonal(s, x) -> {s, x} \cup {y \in Squares : Diagonal(s, y) /\ Diagonal(x, y)
                        /\ (File(y) - File(s)) * (Rank(x) - Rank(s))
                              = (Rank(y) - Rank(s)) * (File(x) - File(s))}
                  [] OTHER -> {}]
            BY <1>1 DEF Line
        <3>2. Diagonal(s, r) = FALSE
            BY <1>1, <1>4, <2>1 DEF Diagonal, Gap, File, Rank, Squares
        <3> QED BY <1>4, <2>1, <3>1, <3>2
    <2>3. Distance(s, u) + Distance(u, r) = Distance(s, r)
        BY <1>3 DEF Distance, Gap, Rank, File
    <2> QED BY <1>1, <1>4, <2>1, <2>2, <2>3 DEF Between
<1> QED BY <1>1, <1>4, <1>5

(* What a legal move leaves is a position.                                  *)
LEMMA PushIsPosition ==
    ASSUME NEW b, IsPosition(b), NEW m \in LegalMoves(b)
    PROVE  IsPosition(Push(b, m))
<1> DEFINE mover == b.at[m.from]
           rook == IF IsCastling(b, m) THEN {RookTo(m)} ELSE {}
           gone == Taken(b, m) \cup {m.from} \cup (IF rook = {} THEN {} ELSE {RookFrom(m)})
           here == ((DOMAIN b.at) \ gone) \cup {m.to} \cup rook
           at == [s \in here |->
                    IF s = m.to
                      THEN IF m.promo = "none" THEN mover ELSE [mover EXCEPT !.type = m.promo]
                    ELSE IF s \in rook THEN b.at[RookFrom(m)] ELSE b.at[s]]
           Pieces == [type : Types, color : Colors]
<1>1. /\ m \in AnyMove /\ m.from \in DOMAIN b.at
      /\ \A s \in DOMAIN b.at : s \in Squares /\ b.at[s] \in Pieces
      /\ b.turn \in Colors /\ b.castle \subseteq {2, 6, 58, 62}
    BY LegalMovesAre DEF IsPosition, Own
<1>2. Push(b, m).at = at
    BY DEF Push
<1>3. Push(b, m).turn = Other(b.turn) /\ Push(b, m).castle \subseteq b.castle
    BY DEF Push
<1>4. mover \in Pieces
    BY <1>1
<1>5. m.promo # "none" => [mover EXCEPT !.type = m.promo] \in Pieces
    BY <1>1, <1>4 DEF AnyMove
<1>6. rook \subseteq Squares /\ (rook # {} => RookFrom(m) \in DOMAIN b.at)
    BY CastlingIs DEF Own
<1>7. here \subseteq Squares
    BY <1>1, <1>6 DEF AnyMove
<1>8. \A s \in here : at[s] \in Pieces
    <2> SUFFICES ASSUME NEW s \in here PROVE at[s] \in Pieces
        OBVIOUS
    <2>1. CASE s = m.to
        BY <1>4, <1>5, <2>1
    <2>2. CASE s # m.to /\ s \in rook
        BY <1>1, <1>6, <2>2
    <2>3. CASE s # m.to /\ s \notin rook
        BY <1>1, <2>3
    <2> QED BY <2>1, <2>2, <2>3
<1>9. Other(b.turn) \in Colors
    BY DEF Other, Colors
<1>10. DOMAIN at = here
    OBVIOUS
<1> HIDE DEF at, here
<1> QED BY <1>1, <1>2, <1>3, <1>7, <1>8, <1>9, <1>10 DEF IsPosition

LEMMA SameSize ==
    ASSUME NEW S, NEW T, NEW f \in [S -> T], IsFiniteSet(S),
           \A x, y \in S : f[x] = f[y] => x = y, \A y \in T : \E x \in S : f[x] = y
    PROVE  Cardinality(T) = Cardinality(S)
<1>1. f \in Bijection(S, T)
    BY DEF Bijection, Injection, Surjection, IsInjective
<1>2. ExistsBijection(S, T)
    BY <1>1 DEF ExistsBijection
<1> QED BY <1>2, FS_Bijection

(* A move that neither takes nor promotes leaves as many pieces of a kind.   *)
LEMMA QuietKeepsCount ==
    ASSUME NEW b, IsPosition(b), NEW m \in LegalMoves(b), ~IsCapture(b, m), m.promo = "none",
           NEW c, NEW k
    PROVE  Count(Push(b, m), c, k) = Count(b, c, k) /\ Count(b, c, k) \in Nat
<1> DEFINE after == Push(b, m)
           Kind(x) == {s \in DOMAIN x.at : x.at[s].color = c /\ x.at[s].type = k}
           f == [s \in Kind(b) |-> IF s = m.from THEN m.to
                                   ELSE IF IsCastling(b, m) /\ s = RookFrom(m) THEN RookTo(m) ELSE s]
           Maps == /\ f \in [Kind(b) -> Kind(after)]
                   /\ \A x, y \in Kind(b) : f[x] = f[y] => x = y
                   /\ \A y \in Kind(after) : \E x \in Kind(b) : f[x] = y
<1>1. /\ m.from \in DOMAIN b.at /\ m.to \notin DOMAIN b.at
      /\ DOMAIN b.at \subseteq Squares
    BY LegalMovesAre DEF IsCapture, Own, IsPosition
<1>2. Taken(b, m) = {}
    BY <1>1 DEF Taken, IsCapture
<1>3. IsCastling(b, m) =>
        /\ RookFrom(m) \in DOMAIN b.at /\ RookFrom(m) # m.from
        /\ RookTo(m) \notin DOMAIN b.at /\ RookTo(m) # m.to
    BY CastlingIs DEF Own
<1>4. ASSUME IsCastling(b, m) PROVE Maps
    <2>1. /\ DOMAIN after.at = ((DOMAIN b.at) \ {m.from, RookFrom(m)}) \cup {m.to, RookTo(m)}
          /\ after.at[m.to] = b.at[m.from] /\ after.at[RookTo(m)] = b.at[RookFrom(m)]
          /\ \A s \in (DOMAIN b.at) \ {m.from, RookFrom(m)} : after.at[s] = b.at[s]
        BY <1>1, <1>2, <1>3, <1>4 DEF Push
    <2> HIDE DEF after
    <2>2. f \in [Kind(b) -> Kind(after)]
        BY <1>1, <1>3, <1>4, <2>1
    <2>3. \A x, y \in Kind(b) : f[x] = f[y] => x = y
        BY <1>1, <1>3, <1>4
    <2>4. \A y \in Kind(after) : \E x \in Kind(b) : f[x] = y
        <3> SUFFICES ASSUME NEW y \in Kind(after) PROVE \E x \in Kind(b) : f[x] = y
            OBVIOUS
        <3>1. CASE y = m.to
            BY <1>1, <2>1, <3>1
        <3>2. CASE y = RookTo(m)
            BY <1>1, <1>3, <1>4, <2>1, <3>2
        <3>3. CASE y \notin {m.to, RookTo(m)}
            BY <1>1, <2>1, <3>3
        <3> QED BY <3>1, <3>2, <3>3
    <2> QED BY <2>2, <2>3, <2>4
<1>5. ASSUME ~IsCastling(b, m) PROVE Maps
    <2>1. /\ DOMAIN after.at = ((DOMAIN b.at) \ {m.from}) \cup {m.to}
          /\ after.at[m.to] = b.at[m.from]
          /\ \A s \in (DOMAIN b.at) \ {m.from} : after.at[s] = b.at[s]
        BY <1>1, <1>2, <1>5 DEF Push
    <2> HIDE DEF after
    <2>2. f \in [Kind(b) -> Kind(after)]
        BY <1>1, <1>5, <2>1
    <2>3. \A x, y \in Kind(b) : f[x] = f[y] => x = y
        BY <1>1, <1>5
    <2>4. \A y \in Kind(after) : \E x \in Kind(b) : f[x] = y
        BY <1>1, <1>5, <2>1
    <2> QED BY <2>2, <2>3, <2>4
<1>6. IsFiniteSet(Kind(b))
    <2>1. Kind(b) \subseteq Squares
        BY <1>1
    <2> QED BY <2>1, SquaresAre, FS_Subset
<1>7. Cardinality(Kind(after)) = Cardinality(Kind(b)) /\ Cardinality(Kind(b)) \in Nat
    <2>1. Maps
        BY <1>4, <1>5
    <2> HIDE DEF f, Kind
    <2> QED BY <1>6, <2>1, SameSize, FS_CardinalityType
<1>8. Count(b, c, k) = Cardinality(Kind(b)) /\ Count(after, c, k) = Cardinality(Kind(after))
    <2>1. \A x : {s \in Own(x, c) : x.at[s].type = k} = Kind(x)
        BY DEF Own
    <2> QED BY <2>1 DEF Count
<1> QED BY <1>7, <1>8

LEMMA QuietKeepsBalance ==
    ASSUME NEW b, IsPosition(b), NEW m \in LegalMoves(b), ~IsCapture(b, m), m.promo = "none", NEW c
    PROVE  Balance(Push(b, m), c) = Balance(b, c) /\ Balance(b, c) \in Int
<1>1. \A d, k : Count(Push(b, m), d, k) = Count(b, d, k) /\ Count(b, d, k) \in Nat
    BY QuietKeepsCount
<1>2. \A d : Material(Push(b, m), d) = Material(b, d) /\ Material(b, d) \in Int
    BY <1>1 DEF Material
<1> QED BY <1>2 DEF Balance

(* All positions of a line of legal moves are positions.                    *)
LEMMA LinesArePositions ==
    ASSUME NEW b, IsPosition(b), NEW line \in Seq(AnyMove), LegalLine(b, line)
    PROVE  \A i \in 0..Len(line) : IsPosition(Boards(b, line)[i])
<1> DEFINE n == Len(line)
           Bad == {i \in 0..n : ~IsPosition(Boards(b, line)[i])}
<1>1. n \in Nat /\ DOMAIN line = 1..n
    BY LenProperties
<1>2. /\ Boards(b, line)[0] = b
      /\ \A i \in 1..n : Boards(b, line)[i] = Push(Boards(b, line)[i - 1], line[i])
    BY <1>1, BoardsAre
<1>3. Bad = {}
    <2> SUFFICES ASSUME Bad # {} PROVE FALSE
        OBVIOUS
    <2>1. Bad \in SUBSET Nat
        BY <1>1
    <2> HIDE DEF Bad
    <2>2. PICK k \in Bad : \A i \in Bad : k <= i
        BY <2>1, LowestIs
    <2> USE DEF Bad
    <2>3. k \in 1..n /\ k - 1 \in 0..n /\ k - 1 \notin Bad
        BY <1>1, <1>2, <2>2
    <2>4. IsPosition(Boards(b, line)[k - 1])
        BY <2>3
    <2>5. line[k] \in LegalMoves(Boards(b, line)[k - 1])
        BY <1>1, <2>3 DEF LegalLine
    <2>6. IsPosition(Boards(b, line)[k])
        BY <1>2, <2>3, <2>4, <2>5, PushIsPosition
    <2> QED BY <2>2, <2>6
<1> QED BY <1>3

(* A line in which nothing is taken and nothing promoted leaves the balance. *)
LEMMA QuietLineKeepsBalance ==
    ASSUME NEW b, IsPosition(b), NEW line \in Seq(AnyMove), LegalLine(b, line), NEW c,
           \A i \in DOMAIN line :
              ~IsCapture(Boards(b, line)[i - 1], line[i]) /\ line[i].promo = "none"
    PROVE  Balance(Boards(b, line)[Len(line)], c) = Balance(b, c)
<1> DEFINE n == Len(line)
           Bad == {i \in 0..n : Balance(Boards(b, line)[i], c) # Balance(b, c)}
<1>1. n \in Nat /\ DOMAIN line = 1..n
    BY LenProperties
<1>2. /\ Boards(b, line)[0] = b
      /\ \A i \in 1..n : Boards(b, line)[i] = Push(Boards(b, line)[i - 1], line[i])
    BY <1>1, BoardsAre
<1>3. Bad = {}
    <2> SUFFICES ASSUME Bad # {} PROVE FALSE
        OBVIOUS
    <2>1. Bad \in SUBSET Nat
        BY <1>1
    <2> HIDE DEF Bad
    <2>2. PICK k \in Bad : \A i \in Bad : k <= i
        BY <2>1, LowestIs
    <2> USE DEF Bad
    <2>3. k \in 1..n /\ k - 1 \in 0..n /\ k - 1 \notin Bad
        BY <1>1, <1>2, <2>2
    <2>4. IsPosition(Boards(b, line)[k - 1])
        BY <2>3, LinesArePositions
    <2>5. line[k] \in LegalMoves(Boards(b, line)[k - 1])
        BY <1>1, <2>3 DEF LegalLine
    <2>6. Balance(Boards(b, line)[k], c) = Balance(Boards(b, line)[k - 1], c)
        BY <1>1, <1>2, <2>3, <2>4, <2>5, QuietKeepsBalance
    <2> QED BY <2>2, <2>3, <2>6
<1> QED BY <1>1, <1>3

-----------------------------------------------------------------------------
(* What is worked out of a lesson happens in it.                            *)

LEMMA StepsAre ==
    ASSUME NEW l, NEW x \in Lines(l), NEW i \in DOMAIN x[2]
    PROVE  [from |-> Boards(x[1], x[2])[i - 1], move |-> x[2][i], to |-> Boards(x[1], x[2])[i]]
             \in LineSteps(l)
BY DEF LineSteps

(* What a step shows of each claim.                                         *)
LEMMA StepsShow ==
    ASSUME NEW l, NEW s \in LineSteps(l)
    PROVE  /\ InCheck(s.to) => "check" \in HappensIn(l, LineSteps(l))
           /\ IsCapture(s.from, s.move) \/ s.move.promo # "none"
                => "capture" \in HappensIn(l, LineSteps(l))
           /\ IsCheckmate(s.to) => "mate" \in HappensIn(l, LineSteps(l))
           /\ InCheck(s.from) /\ s.from.at[s.move.from].type = "king"
                => "king" \in HappensIn(l, LineSteps(l))
BY DEF HappensIn

LEMMA LinesAre ==
    ASSUME NEW l, IsLesson(l), NEW x \in Lines(l)
    PROVE  /\ IsPosition(x[1]) /\ x[2] \in Seq(AnyMove) /\ LegalLine(x[1], x[2])
           /\ Len(x[2]) \in Nat /\ DOMAIN x[2] = 1..Len(x[2])
           /\ Boards(x[1], x[2])[0] = x[1]
           /\ \A i \in DOMAIN x[2] : Boards(x[1], x[2])[i] = Push(Boards(x[1], x[2])[i - 1], x[2][i])
<1>1. IsPosition(l.board) /\ IsPosition(After(l))
    BY PushIsPosition DEF IsLesson, After
<1>2. \/ x[1] = l.board /\ x[2] = l.bestLine
      \/ x[1] = After(l) /\ x[2] = l.refutation
    BY DEF Lines
<1>3. x[2] \in Seq(AnyMove) /\ LegalLine(x[1], x[2]) /\ IsPosition(x[1])
    BY <1>1, <1>2 DEF IsLesson
<1>4. Len(x[2]) \in Nat /\ DOMAIN x[2] = 1..Len(x[2])
    BY <1>3, LenProperties
<1> QED BY <1>3, <1>4, BoardsAre

(* The letters of the notation.                                             *)
LEMMA LettersHappen ==
    ASSUME NEW l, IsLesson(l), NEW x \in Lines(l)
    PROVE  Letters(Notation(x[1], x[2])) \subseteq HappensIn(l, LineSteps(l))
<1> DEFINE at == Boards(x[1], x[2])
           line == x[2]
           san == Notation(x[1], x[2])
           Step(i) == [from |-> at[i - 1], move |-> line[i], to |-> at[i]]
           H == HappensIn(l, LineSteps(l))
<1>1. /\ DOMAIN san = DOMAIN line
      /\ \A i \in DOMAIN line : san[i] = San(at[i - 1], line[i])
    BY DEF Notation
<1>2. /\ DOMAIN line = 1..Len(line) /\ Len(line) \in Nat
      /\ \A i \in DOMAIN line : at[i] = Push(at[i - 1], line[i])
    BY LinesAre
<1>3. \A i \in DOMAIN line :
        /\ san[i].piece = at[i - 1].at[line[i].from].type
        /\ san[i].capture = IsCapture(at[i - 1], line[i])
        /\ san[i].sign = Sign(at[i])
    <2>1. \A b, m : /\ San(b, m).piece = b.at[m.from].type /\ San(b, m).capture = IsCapture(b, m)
                   /\ San(b, m).sign = Sign(Push(b, m))
        BY DEF San
    <2> HIDE DEF san
    <2> QED BY <1>1, <1>2, <2>1
<1>4. \A i \in DOMAIN line : Step(i) \in LineSteps(l)
    BY StepsAre
<1>5. \A i \in DOMAIN line :
        /\ san[i].sign # "none" => InCheck(at[i])
        /\ san[i].sign = "mate" => IsCheckmate(at[i])
    BY <1>3 DEF Sign, IsCheckmate
<1>6. ASSUME NEW i \in DOMAIN line
      PROVE  /\ san[i].sign # "none" => "check" \in H
             /\ san[i].capture => "capture" \in H
             /\ san[i].sign = "mate" => "mate" \in H
             /\ san[i].sign # "none" /\ i + 1 \in DOMAIN line /\ san[i + 1].piece = "king"
                  => "king" \in H
    <2>1. Step(i) \in LineSteps(l) /\ Step(i).from = at[i - 1] /\ Step(i).to = at[i]
          /\ Step(i).move = line[i]
        BY <1>4
    <2>2. i + 1 \in DOMAIN line =>
            /\ Step(i + 1) \in LineSteps(l) /\ Step(i + 1).from = at[i]
            /\ Step(i + 1).move = line[i + 1]
            /\ san[i + 1].piece = at[i].at[line[i + 1].from].type
        BY <1>2, <1>3, <1>4
    <2> HIDE DEF Step, H
    <2> QED BY <1>3, <1>5, <2>1, <2>2, StepsShow DEF H
<1> HIDE DEF H, san, line
<1> QED BY <1>1, <1>6 DEF Letters, san, H

(* The facts that claims rest on.                                           *)
LEMMA FactsAre ==
    ASSUME NEW l
    PROVE  /\ FactsOf(l).reply = Reply(l)
           /\ FactsOf(l).intent = Intent(l.board, l.played)
           /\ FactsOf(l).lineChecks = LineStats(After(l), l.refutation).checks
           /\ FactsOf(l).lineCaptures = LineStats(After(l), l.refutation).captures
           /\ FactsOf(l).bestChecks = (LineStats(l.board, l.bestLine).checks > 0)
           /\ FactsOf(l).bestCaptures = (LineStats(l.board, l.bestLine).captures > 0)
           /\ FactsOf(l).material = Consequence(Delta(l))
           /\ FactsOf(l).purposes = IF l.best = {} THEN <<>>
                                    ELSE Purposes(l, CHOOSE m \in l.best : TRUE, Reply(l).type)
BY DEF FactsOf, FactsAfter, FactsFrom

(* A check or a capture that is counted is a step of the line.              *)
LEMMA CountedHappens ==
    ASSUME NEW l, IsLesson(l), NEW x \in Lines(l)
    PROVE  /\ LineStats(x[1], x[2]).checks > 0 => "check" \in HappensIn(l, LineSteps(l))
           /\ LineStats(x[1], x[2]).captures > 0 => "capture" \in HappensIn(l, LineSteps(l))
<1> DEFINE at == Boards(x[1], x[2])
           line == x[2]
           checks == {i \in DOMAIN line : InCheck(at[i])}
           captures == {i \in DOMAIN line : IsCapture(at[i - 1], line[i])}
           Step(i) == [from |-> at[i - 1], move |-> line[i], to |-> at[i]]
           H == HappensIn(l, LineSteps(l))
<1>1. /\ LineStats(x[1], x[2]).checks = Cardinality(checks)
      /\ LineStats(x[1], x[2]).captures = Cardinality(captures)
    BY DEF LineStats, StatsOf
<1>2. Cardinality({}) = 0
    BY FS_EmptySet
<1>3. \A i \in DOMAIN line : Step(i) \in LineSteps(l)
    BY StepsAre
<1>4. ASSUME NEW i \in DOMAIN line
      PROVE  (InCheck(at[i]) => "check" \in H) /\ (IsCapture(at[i - 1], line[i]) => "capture" \in H)
    <2>1. Step(i) \in LineSteps(l) /\ Step(i).from = at[i - 1] /\ Step(i).to = at[i]
          /\ Step(i).move = line[i]
        BY <1>3
    <2> HIDE DEF Step, H
    <2> QED BY <2>1, StepsShow DEF H
<1>5. checks # {} => "check" \in H
    BY <1>4
<1>6. captures # {} => "capture" \in H
    BY <1>4
<1> HIDE DEF checks, captures, H
<1> QED BY <1>1, <1>2, <1>5, <1>6 DEF H

(* The reply is the first step of the refutation.                           *)
LEMMA ReplyHappens ==
    ASSUME NEW l, IsLesson(l)
    PROVE  /\ Reply(l).check => "check" \in HappensIn(l, LineSteps(l))
           /\ Reply(l).capture => "capture" \in HappensIn(l, LineSteps(l))
<1> DEFINE x == <<After(l), l.refutation>>
           m == l.refutation[1]
           s == [from |-> Boards(x[1], x[2])[1 - 1], move |-> x[2][1], to |-> Boards(x[1], x[2])[1]]
<1>1. CASE l.refutation = <<>>
    BY <1>1 DEF Reply, NoReply
<1>2. CASE l.refutation # <<>>
    <2>1. x \in Lines(l) /\ x[1] = After(l) /\ x[2] = l.refutation
        BY DEF Lines
    <2>2. l.refutation \in Seq(AnyMove)
        BY DEF IsLesson
    <2>3. 1 \in DOMAIN x[2]
        BY <1>2, <2>1, <2>2
    <2>4. /\ Boards(x[1], x[2])[0] = After(l)
          /\ Boards(x[1], x[2])[1] = Push(After(l), m)
        <3>1. /\ Boards(x[1], x[2])[0] = x[1]
              /\ Boards(x[1], x[2])[1] = Push(Boards(x[1], x[2])[1 - 1], x[2][1])
            BY <2>1, <2>3, LinesAre
        <3> QED BY <2>1, <3>1
    <2>5. s \in LineSteps(l)
        BY <2>1, <2>3, StepsAre
    <2>6. s.from = After(l) /\ s.move = m /\ s.to = Push(After(l), m)
        BY <2>1, <2>4
    <2>7. /\ Reply(l).check = InCheck(Push(After(l), m))
          /\ Reply(l).capture = IsCapture(After(l), m)
        BY <1>2 DEF Reply, ReplyOf, GivesCheck
    <2> HIDE DEF s, m
    <2> QED BY <2>5, <2>6, <2>7, StepsShow
<1> QED BY <1>1, <1>2

LEMMA NoDifference == \A a \in Int : a - a = 0
OBVIOUS

(* Material is only won or lost where something is taken or promoted.       *)
LEMMA MaterialHappens ==
    ASSUME NEW l, IsLesson(l),
           Consequence(Delta(l)) \in {"opponent wins material", "player wins material"}
    PROVE  "capture" \in HappensIn(l, LineSteps(l))
<1> DEFINE c == l.board.turn
           x == <<After(l), l.refutation>>
           H == HappensIn(l, LineSteps(l))
<1> SUFFICES ASSUME "capture" \notin H PROVE FALSE
    OBVIOUS
<1>1. x \in Lines(l) /\ x[1] = After(l) /\ x[2] = l.refutation
    BY DEF Lines
<1>2. IsPosition(l.board) /\ l.played \in LegalMoves(l.board)
    BY DEF IsLesson
<1>3. ~IsCapture(l.board, l.played) /\ l.played.promo = "none"
    BY DEF HappensIn
<1>4. Balance(After(l), c) = Balance(l.board, c) /\ Balance(l.board, c) \in Int
    BY <1>2, <1>3, QuietKeepsBalance DEF After
<1>5. \A i \in DOMAIN x[2] :
        ~IsCapture(Boards(x[1], x[2])[i - 1], x[2][i]) /\ x[2][i].promo = "none"
    <2> SUFFICES ASSUME NEW i \in DOMAIN x[2]
                 PROVE  ~IsCapture(Boards(x[1], x[2])[i - 1], x[2][i]) /\ x[2][i].promo = "none"
        OBVIOUS
    <2> DEFINE s == [from |-> Boards(x[1], x[2])[i - 1], move |-> x[2][i], to |-> Boards(x[1], x[2])[i]]
    <2>1. s \in LineSteps(l)
        BY <1>1, StepsAre
    <2>2. s.from = Boards(x[1], x[2])[i - 1] /\ s.move = x[2][i]
        OBVIOUS
    <2> HIDE DEF s, x
    <2> QED BY <2>1, <2>2, StepsShow
<1>6. Balance(Boards(x[1], x[2])[Len(x[2])], c) = Balance(x[1], c)
    <2>1. IsPosition(x[1]) /\ x[2] \in Seq(AnyMove) /\ LegalLine(x[1], x[2])
        BY <1>1, LinesAre
    <2> HIDE DEF x
    <2> QED BY <1>5, <2>1, QuietLineKeepsBalance
<1>7. Delta(l) = 0
    <2>1. Balance(Boards(After(l), l.refutation)[Len(l.refutation)], c) = Balance(After(l), c)
        BY <1>6
    <2> DEFINE end == Balance(Boards(After(l), l.refutation)[Len(l.refutation)], c)
               start == Balance(l.board, c)
    <2>2. Delta(l) = end - start
        BY DEF Delta
    <2>3. start \in Int /\ end = start
        BY <1>4, <2>1
    <2> HIDE DEF end, start
    <2>4. Delta(l) = start - start
        BY <2>2, <2>3
    <2> QED BY <2>3, <2>4, NoDifference
<1> QED BY <1>7 DEF Consequence

LEMMA SupportedHappens ==
    ASSUME NEW l, IsLesson(l)
    PROVE  Supported(l, FactsOf(l)) \subseteq HappensIn(l, LineSteps(l))
<1> DEFINE f == FactsOf(l)
           H == HappensIn(l, LineSteps(l))
           y == <<l.board, l.bestLine>>
           x == <<After(l), l.refutation>>
<1>1. (UNION {Letters(Notation(z[1], z[2])) : z \in Lines(l)}) \subseteq H
    BY LettersHappen
<1>2. /\ LineStats(After(l), l.refutation).checks > 0 => "check" \in H
      /\ LineStats(After(l), l.refutation).captures > 0 => "capture" \in H
      /\ LineStats(l.board, l.bestLine).checks > 0 => "check" \in H
      /\ LineStats(l.board, l.bestLine).captures > 0 => "capture" \in H
    <2>1. /\ x \in Lines(l) /\ x[1] = After(l) /\ x[2] = l.refutation
          /\ y \in Lines(l) /\ y[1] = l.board /\ y[2] = l.bestLine
        BY DEF Lines
    <2> HIDE DEF x, y, H
    <2> QED BY <2>1, CountedHappens DEF H
<1>3. f.reply.check \/ f.lineChecks > 0 \/ f.bestChecks => "check" \in H
    BY <1>2, FactsAre, ReplyHappens
<1>4. f.reply.capture \/ f.lineCaptures > 0 \/ f.bestCaptures
        \/ f.material \in {"opponent wins material", "player wins material"} => "capture" \in H
    BY <1>2, FactsAre, ReplyHappens, MaterialHappens
<1> HIDE DEF f, H
<1> QED BY <1>1, <1>3, <1>4 DEF Supported, f, H

(* The squares that may be named are touched.                               *)
LEMMA AllowedAreTouched ==
    ASSUME NEW l
    PROVE  AllowedSquares(l) \subseteq UNION {{y[2].from, y[2].to} : y \in Moves(l)}
<1>1. \A m \in {l.played} \cup l.best : <<l.board, m>> \in Moves(l) /\ <<l.board, m>>[2] = m
    BY DEF Moves
<1> SUFFICES ASSUME NEW s \in AllowedSquares(l)
             PROVE  \E y \in Moves(l) : s \in {y[2].from, y[2].to}
    OBVIOUS
<1>2. CASE \E m \in {l.played} \cup l.best : s \in {m.from, m.to}
    BY <1>1, <1>2
<1>3. CASE \E y \in Moves(l) : s = y[2].to
    BY <1>3
<1> QED BY <1>2, <1>3 DEF AllowedSquares

LEMMA NotesAreOfLessons == CoachTyped => Notes \subseteq BackedNotes
BY DEF CoachTyped, Notes

(* Whatever the language model answers, a note that is stored or shown      *)
(* claims only what happens in the lines of its lesson and names only       *)
(* squares that its moves touch, for any lessons with legal lines, however  *)
(* long, and any answers: the judgement by letters and facts                *)
(* (services/llm_explanation.py, services/lesson_facts.py) lets no other    *)
(* text through.                                                            *)
THEOREM NotesStayGrounded == Spec => []NotesAreGrounded
<1>1. CoachInv => NotesAreGrounded
    <2> SUFFICES ASSUME CoachInv, NEW note \in Notes
                 PROVE  /\ Claimed(note.text) \subseteq Happens[note.of]
                        /\ UNION {s.squares : s \in ToSet(note.text.sentences)} \subseteq Touched[note.of]
        BY DEF NotesAreGrounded
    <2> DEFINE l == LessonOf[note.of]
    <2>1. note.of \in Lessons /\ Backed(note)
        BY NotesAreOfLessons DEF CoachInv, BackedNotes
    <2>2. IsLesson(l)
        BY <2>1, LessonsAssumption
    <2>3. /\ Known[note.of].backed = Supported(l, FactsOf(l))
          /\ Known[note.of].squares = AllowedSquares(l)
        <3>1. Known[note.of] = KnownOf(l)
            BY <2>1, KnownIs
        <3> HIDE DEF l
        <3> QED BY <3>1 DEF KnownOf, KnownFrom
    <2>4. /\ Happens[note.of] = HappensIn(l, LineSteps(l))
          /\ Touched[note.of] = UNION {{y[2].from, y[2].to} : y \in Moves(l)}
        BY <2>1 DEF Happens, Touched
    <2> HIDE DEF l
    <2> QED BY <2>1, <2>2, <2>3, <2>4, SupportedHappens, AllowedAreTouched DEF Backed
<1> QED BY <1>1, CoachStands, PTL

-----------------------------------------------------------------------------
(* The coach's own text.                                                    *)

(* What it claims.                                                          *)
LEMMA OwnClaims ==
    ASSUME NEW f
    PROVE  Claimed(Clean(Fallback(f))) \subseteq
             (IF f.intent = "captures material" THEN {"capture"} ELSE {})
               \cup ({f.reply.type} \cap {"check", "capture"})
               \cup (IF f.purposes # <<>> /\ f.purposes[1] = "gives check" THEN {"check"} ELSE {})
<1> DEFINE text == Fallback(f)
           four == <<Context(f), SaidOfReply(f), SaidOfBest(f), Taught(f)>>
           some == (IF f.intent = "captures material" THEN {"capture"} ELSE {})
                     \cup ({f.reply.type} \cap {"check", "capture"})
                     \cup (IF f.purposes # <<>> /\ f.purposes[1] = "gives check" THEN {"check"} ELSE {})
<1>1. text.sentences = four /\ Len(four) = 4
    BY DEF Fallback
<1>2. /\ Context(f).claims \subseteq some /\ SaidOfReply(f).claims \subseteq some
      /\ SaidOfBest(f).claims \subseteq some /\ Taught(f).claims \subseteq some
    BY DEF Context, SaidOfReply, SaidOfBest, Taught, SeedAsItStands, Sentence
<1>3. Kept(text) = four
    <2>1. Kept(text) = SubSeq(four, 1, 4)
        BY <1>1 DEF Kept
    <2>2. four \in Seq({Context(f), SaidOfReply(f), SaidOfBest(f), Taught(f)})
        OBVIOUS
    <2> HIDE DEF four
    <2>3. SubSeq(four, 1, 4) = four
        BY <1>1, <2>2, SubSeqFull
    <2> QED BY <2>1, <2>3
<1>4. Clean(text).sentences = four
    BY <1>3 DEF Clean, Fallback
<1>5. \A s \in ToSet(four) : s.claims \subseteq some
    <2>1. DOMAIN four = 1..4
        OBVIOUS
    <2>2. \A i \in 1..4 : four[i] \in {Context(f), SaidOfReply(f), SaidOfBest(f), Taught(f)}
        OBVIOUS
    <2> HIDE DEF four, some
    <2>3. \A s \in {Context(f), SaidOfReply(f), SaidOfBest(f), Taught(f)} : s.claims \subseteq some
        BY <1>2
    <2> QED BY <2>1, <2>2, <2>3 DEF ToSet
<1> HIDE DEF some, four, text
<1>6. Claimed(Clean(text)) \subseteq some
    BY <1>4, <1>5 DEF Claimed, Plain
<1> QED BY <1>6 DEF some, text

(* But for its claims, nothing stands against it.                           *)
LEMMA OwnTextPasses ==
    ASSUME NEW known, NEW f, Claimed(Clean(Fallback(f))) \subseteq known.backed
    PROVE  Accepted(known, Fallback(f), {})
<1> DEFINE text == Fallback(f)
           four == <<Context(f), SaidOfReply(f), SaidOfBest(f), Taught(f)>>
<1>1. /\ text.sentences = four /\ text.marks = {} /\ text.echoes = {} /\ Len(four) = 4
      /\ DOMAIN text = {"marks", "echoes", "sentences"}
    BY DEF Fallback
<1>2. \A i \in 1..4 : /\ four[i].squares = {} /\ four[i].places = {} /\ four[i].passive = FALSE
                      /\ four[i].long = FALSE /\ four[i].concept = TRUE
                      /\ four[i].rule # "generic"
    <2> DEFINE Simple(s) == /\ s.squares = {} /\ s.places = {} /\ s.passive = FALSE
                            /\ s.long = FALSE /\ s.concept = TRUE /\ s.rule # "generic"
    <2>3. \A rule, claims : rule # "generic" => Simple(Sentence(rule, claims))
        BY DEF Sentence
    <2>4. /\ \E rule, claims : rule # "generic" /\ Context(f) = Sentence(rule, claims)
          /\ \E rule, claims : rule # "generic" /\ SaidOfReply(f) = Sentence(rule, claims)
          /\ \E rule, claims : rule # "generic" /\ SaidOfBest(f) = Sentence(rule, claims)
          /\ \E rule, claims : rule # "generic" /\ Taught(f) = Sentence(rule, claims)
        <3>1. "none" # "generic" /\ "concrete" # "generic"
            OBVIOUS
        <3> QED BY <3>1, Zenon DEF Context, SaidOfReply, SaidOfBest, Taught, SeedAsItStands
    <2> HIDE DEF Simple
    <2>1. \A s \in {Context(f), SaidOfReply(f), SaidOfBest(f), Taught(f)} : Simple(s)
        BY <2>3, <2>4
    <2> USE DEF Simple
    <2>2. \A i \in 1..4 : four[i] \in {Context(f), SaidOfReply(f), SaidOfBest(f), Taught(f)}
        OBVIOUS
    <2> HIDE DEF four
    <2> QED BY <2>1, <2>2
<1>3. four[4].rule = "concrete"
    BY DEF Taught, SeedAsItStands, Sentence
<1>4. Kept(text) = four
    <2>1. Kept(text) = SubSeq(four, 1, 4)
        BY <1>1 DEF Kept
    <2>2. four \in Seq({Context(f), SaidOfReply(f), SaidOfBest(f), Taught(f)})
        OBVIOUS
    <2> HIDE DEF four
    <2>3. SubSeq(four, 1, 4) = four
        BY <1>1, <2>2, SubSeqFull
    <2> QED BY <2>1, <2>3
<1>5. DOMAIN four = 1..4
    OBVIOUS
<1>6. Clean(text).sentences = four /\ Clean(text).marks = {} /\ Clean(text).echoes = {}
    BY <1>1, <1>4 DEF Clean
<1> HIDE DEF four, text
<1>7. Usable(text)
    <2>1. Len(text.sentences) >= 2 /\ Kept(text)[Len(Kept(text))].rule # "none"
        <3>1. Len(Kept(text)) = 4 /\ Len(text.sentences) = 4
            BY <1>1, <1>4
        <3>2. Kept(text)[Len(Kept(text))] = four[4]
            BY <1>4, <3>1
        <3>3. "concrete" # "none"
            OBVIOUS
        <3> QED BY <1>3, <3>1, <3>2, <3>3
    <2>2. 1 \in DOMAIN four /\ four[1].concept = TRUE
        BY <1>2, <1>5
    <2>3. \A i \in DOMAIN four : four[i].long = FALSE /\ four[i].rule # "generic"
        BY <1>2, <1>5
    <2>4. ~Unfit(text)
        BY <1>1, <1>4, <2>2, <2>3 DEF Unfit
    <2> QED BY <2>1, <2>4 DEF Usable
<1>8. \A s \in ToSet(four) : s.squares = {} /\ s.places = {} /\ s.passive = FALSE
    BY <1>2, <1>5 DEF ToSet
<1>9. /\ ~Similar(Clean(text), {}) /\ ~NamesOther(known, Clean(text))
      /\ ~Conflicts(known, Clean(text))
    BY <1>6, <1>8 DEF Similar, NamesOther, Conflicts, Said
<1>10. Claimed(Clean(text)) \ known.backed = {}
    BY DEF text
<1>11. Reasons(known, Clean(text), {}) \subseteq {"passive"}
    BY <1>9, <1>10 DEF Reasons
<1> QED BY <1>7, <1>11 DEF Accepted, text

(* The first purpose is to give check only if the better move does.         *)
LEMMA Singles ==
    ASSUME NEW S
    PROVE  <<>> \in Seq(S) /\ \A p \in S : <<p>> \in Seq(S)
OBVIOUS

LEMMA FirstOf ==
    ASSUME NEW S, NEW s \in Seq(S), s # <<>>
    PROVE  s[1] \in S
<1>1. Len(s) \in Nat \ {0} /\ DOMAIN s = 1..Len(s)
    BY EmptySeq, LenProperties
<1>2. 1 \in DOMAIN s
    BY <1>1
<1> QED BY <1>1, <1>2, ElementOfSeq

LEMMA OnePurpose ==
    ASSUME NEW S, NEW condition, NEW p \in S
    PROVE  When(condition, p) \in Seq(S)
BY Singles DEF When

LEMMA FirstOfFive ==
    ASSUME NEW S, NEW s1 \in Seq(S), NEW s2 \in Seq(S), NEW s3 \in Seq(S), NEW s4 \in Seq(S),
           NEW s5 \in Seq(S), NEW other \in S, NEW all, all = s1 \o s2 \o s3 \o s4 \o s5
    PROVE  (IF all = <<>> THEN <<other>> ELSE all)[1] \in S
<1>1. all \in Seq(S)
    BY ConcatProperties
<1>2. CASE all = <<>>
    BY <1>2
<1>3. CASE all # <<>>
    BY <1>1, <1>3, FirstOf
<1> QED BY <1>2, <1>3

LEMMA FirstPurpose ==
    ASSUME NEW l, NEW m, NEW reply, ~GivesCheck(l.board, m)
    PROVE  Purposes(l, m, reply)[1] # "gives check"
<1> DEFINE others == {"addresses an immediate forcing reply", "develops a piece",
                      "improves king safety", "avoids material loss",
                      "prevents or reduces opponent initiative"}
<1>1. When(GivesCheck(l.board, m), "gives check") \in Seq(others)
    BY Singles DEF When
<1> DEFINE s1 == When(reply \in {"check", "capture", "promotion"},
                      "addresses an immediate forcing reply")
           s2 == When(GivesCheck(l.board, m), "gives check")
           s3 == When(Develops(l.board, m), "develops a piece")
           s4 == When(IsCastling(l.board, m), "improves king safety")
           s5 == When(IsCapture(l.board, m), "avoids material loss")
           other == "prevents or reduces opponent initiative"
<1>2. /\ other \in others /\ s1 \in Seq(others) /\ s2 \in Seq(others) /\ s3 \in Seq(others)
      /\ s4 \in Seq(others) /\ s5 \in Seq(others)
    BY <1>1, OnePurpose
<1> DEFINE all == s1 \o s2 \o s3 \o s4 \o s5
<1>3. Purposes(l, m, reply) = IF all = <<>> THEN <<other>> ELSE all
    BY DEF Purposes
<1>4. Purposes(l, m, reply)[1] \in others
    <2> HIDE DEF others, other, s1, s2, s3, s4, s5
    <2>1. (IF all = <<>> THEN <<other>> ELSE all)[1] \in others
        BY <1>2, FirstOfFive
    <2> HIDE DEF all
    <2> QED BY <1>3, <2>1
<1> QED BY <1>4

LEMMA ReplyTypes ==
    ASSUME NEW l
    PROVE  /\ Reply(l).type = "check" => Reply(l).check
           /\ Reply(l).type = "capture" => Reply(l).capture
<1> DEFINE b == After(l)
           m == l.refutation[1]
<1>1. CASE l.refutation = <<>>
    BY <1>1 DEF Reply, NoReply
<1>2. CASE l.refutation # <<>>
    <2>1. /\ Reply(l).type = ReplyType(b, m) /\ Reply(l).check = GivesCheck(b, m)
          /\ Reply(l).capture = IsCapture(b, m)
        BY <1>2 DEF Reply, ReplyOf
    <2> HIDE DEF b, m
    <2> QED BY <2>1 DEF ReplyType
<1> QED BY <1>1, <1>2

(* A better move that gives check is counted as one in its line.            *)
LEMMA FirstChecks ==
    ASSUME NEW l, IsLesson(l), l.bestLine # <<>>, GivesCheck(l.board, l.bestLine[1])
    PROVE  LineStats(l.board, l.bestLine).checks > 0
<1> DEFINE y == <<l.board, l.bestLine>>
           checks == {i \in DOMAIN l.bestLine : InCheck(Boards(l.board, l.bestLine)[i])}
<1>1. y \in Lines(l) /\ y[1] = l.board /\ y[2] = l.bestLine
    BY DEF Lines
<1>2. /\ l.bestLine \in Seq(AnyMove) /\ Len(l.bestLine) \in Nat \ {0}
      /\ DOMAIN l.bestLine = 1..Len(l.bestLine)
    BY LenProperties, EmptySeq DEF IsLesson
<1>3. 1 \in DOMAIN l.bestLine /\ IsFiniteSet(DOMAIN l.bestLine)
    <2>1. IsFiniteSet(1..Len(l.bestLine))
        BY <1>2, FS_Interval
    <2> QED BY <1>2, <2>1
<1>4. InCheck(Boards(l.board, l.bestLine)[1])
    <2>1. /\ Boards(y[1], y[2])[0] = y[1]
          /\ Boards(y[1], y[2])[1] = Push(Boards(y[1], y[2])[1 - 1], y[2][1])
        BY <1>1, <1>3, LinesAre
    <2>2. Boards(l.board, l.bestLine)[1] = Push(l.board, l.bestLine[1])
        BY <1>1, <2>1
    <2> QED BY <2>2 DEF GivesCheck
<1>5. checks # {} /\ IsFiniteSet(checks)
    BY <1>3, <1>4, FS_Subset
<1> HIDE DEF checks
<1>6. Cardinality(checks) \in Nat /\ Cardinality(checks) # 0
    BY <1>5, FS_EmptySet, FS_CardinalityType
<1>7. LineStats(l.board, l.bestLine).checks = Cardinality(checks)
    BY DEF LineStats, StatsOf, checks
<1> QED BY <1>6, <1>7

(* It is not silent but after a capture in whose lines nothing is taken.    *)
LEMMA SilenceIs ==
    ASSUME NEW n \in Lessons, Mute(n)
    PROVE  QuietGrab[n]
<1> DEFINE l == LessonOf[n]
           f == FactsOf(l)
           backed == Supported(l, f)
<1>1. IsLesson(l)
    BY LessonsAssumption
<1>2. Known[n].facts = f /\ Known[n].backed = backed
    <2>1. Known[n] = KnownOf(l)
        BY KnownIs
    <2> HIDE DEF l
    <2> QED BY <2>1 DEF KnownOf, KnownFrom
<1> SUFFICES ASSUME ~QuietGrab[n] PROVE FALSE
    OBVIOUS
<1>3. QuietGrab[n] = (IsCapture(l.board, l.played)
                        /\ \A s \in LineSteps(l) : ~IsCapture(s.from, s.move))
    BY DEF QuietGrab
<1> HIDE DEF l
<1>4. f.intent = "captures material" => "capture" \in backed
    <2> SUFFICES ASSUME f.intent = "captures material" PROVE "capture" \in backed
        OBVIOUS
    <2>1. IsCapture(l.board, l.played)
        BY FactsAre DEF Intent
    <2>2. PICK s \in LineSteps(l) : IsCapture(s.from, s.move)
        BY <1>3, <2>1
    <2>3. PICK x \in Lines(l) : \E i \in DOMAIN x[2] :
            s = [from |-> Boards(x[1], x[2])[i - 1], move |-> x[2][i], to |-> Boards(x[1], x[2])[i]]
        BY <2>2 DEF LineSteps
    <2>4. PICK i \in DOMAIN x[2] :
            s = [from |-> Boards(x[1], x[2])[i - 1], move |-> x[2][i], to |-> Boards(x[1], x[2])[i]]
        BY <2>3
    <2>5. IsCapture(Boards(x[1], x[2])[i - 1], x[2][i])
        BY <2>2, <2>4
    <2>6. i \in DOMAIN Notation(x[1], x[2]) /\ Notation(x[1], x[2])[i].capture
        BY <2>5 DEF Notation, San
    <2>7. "capture" \in Letters(Notation(x[1], x[2]))
        BY <2>6 DEF Letters
    <2> QED BY <2>7 DEF Supported
<1>5. f.reply.type = "check" => "check" \in backed
    <2>1. f.reply.type = "check" => f.reply.check
        BY ReplyTypes, FactsAre
    <2> HIDE DEF f
    <2> QED BY <2>1 DEF Supported
<1>6. f.reply.type = "capture" => "capture" \in backed
    <2>1. f.reply.type = "capture" => f.reply.capture
        BY ReplyTypes, FactsAre
    <2> HIDE DEF f
    <2> QED BY <2>1 DEF Supported
<1>7. f.purposes # <<>> /\ f.purposes[1] = "gives check" => "check" \in backed
    <2> SUFFICES ASSUME f.purposes # <<>>, f.purposes[1] = "gives check" PROVE "check" \in backed
        OBVIOUS
    <2> DEFINE m == CHOOSE m \in l.best : TRUE
    <2>1. l.best # {} /\ f.purposes = Purposes(l, m, Reply(l).type)
        BY FactsAre
    <2>2. l.bestLine # <<>> /\ m = l.bestLine[1]
        <3>1. l.best = IF l.bestLine = <<>> THEN {} ELSE {l.bestLine[1]}
            BY <1>1 DEF IsLesson
        <3>2. m \in l.best
            BY <2>1
        <3> HIDE DEF m
        <3> QED BY <3>1, <3>2
    <2>3. GivesCheck(l.board, l.bestLine[1])
        BY <2>1, <2>2, FirstPurpose
    <2>4. LineStats(l.board, l.bestLine).checks > 0
        BY <1>1, <2>2, <2>3, FirstChecks
    <2>5. f.bestChecks
        BY <2>4, FactsAre
    <2> QED BY <2>5 DEF Supported
<1>8. Claimed(Clean(Fallback(f))) \subseteq backed
    <2> HIDE DEF f, backed
    <2> QED BY <1>4, <1>5, <1>6, <1>7, OwnClaims
<1>9. Accepted(Known[n], Fallback(f), {})
    <2> HIDE DEF f, backed
    <2> QED BY <1>2, <1>8, OwnTextPasses
<1> QED BY <1>2, <1>9 DEF Mute

(* An enabled coach has a note to show for every puzzle but one: the move   *)
(* played takes something and the lines show nothing taken.  For any        *)
(* lessons with legal lines and any answers of the language model, refused  *)
(* or missing ones included (_fallback_explanation).                        *)
THEOREM SilenceHasItsReason == Spec => []SilenceIsExplained
<1>1. CoachInv => SilenceIsExplained
    BY SilenceIs DEF CoachInv, MuteWhenSilent, SilenceIsExplained
<1> QED BY <1>1, CoachStands, PTL

-----------------------------------------------------------------------------
(* Squares and their coordinates.                                           *)

LEMMA SquareIs ==
    ASSUME NEW s \in Squares
    PROVE  File(s) \in 0..7 /\ Rank(s) \in 0..7 /\ s = 8 * Rank(s) + File(s)
BY DEF Squares, File, Rank

Amid(x, y, z) == (x < y /\ y < z) \/ (z < y /\ y < x)
(* u lies between s and t on a file, a rank or a diagonal.                   *)
OnWay(s, u, t) ==
    \/ File(u) = File(s) /\ File(t) = File(s) /\ Amid(Rank(s), Rank(u), Rank(t))
    \/ Rank(u) = Rank(s) /\ Rank(t) = Rank(s) /\ Amid(File(s), File(u), File(t))
    \/ /\ Amid(File(s), File(u), File(t))
       /\ File(u) - File(s) = Rank(u) - Rank(s) /\ File(t) - File(s) = Rank(t) - Rank(s)
    \/ /\ Amid(File(s), File(u), File(t))
       /\ File(u) - File(s) = Rank(s) - Rank(u) /\ File(t) - File(s) = Rank(s) - Rank(t)

(* The way between two numbers.                                             *)
LEMMA GapIs ==
    ASSUME NEW x \in Int, NEW y \in Int
    PROVE  Gap(x, y) \in Nat /\ (Gap(x, y) = x - y \/ Gap(x, y) = y - x)
BY DEF Gap

(* Steps of a king.                                                         *)
LEMMA DistanceIs ==
    ASSUME NEW s \in Squares, NEW t \in Squares
    PROVE  LET x == File(s) - File(t)
               y == Rank(s) - Rank(t)
           IN  /\ Distance(s, t) \in {x, -x, y, -y}
               /\ \A z \in {x, -x, y, -y} : z <= Distance(s, t)
<1>1. /\ File(s) \in Int /\ Rank(s) \in Int /\ File(t) \in Int /\ Rank(t) \in Int
  BY SquareIs
<1> QED BY <1>1 DEF Distance, Gap

(* A square between two others is on their line, on the way.                *)
LEMMA BetweenIs ==
    ASSUME NEW s \in Squares, NEW t \in Squares, NEW u \in Squares
    PROVE  u \in Between[s][t] <=> OnWay(s, u, t)
<1> DEFINE fs == File(s)
           ft == File(t)
           fu == File(u)
           rs == Rank(s)
           rt == Rank(t)
           ru == Rank(u)
<1>1. /\ fs \in 0..7 /\ ft \in 0..7 /\ fu \in 0..7 /\ rs \in 0..7 /\ rt \in 0..7 /\ ru \in 0..7
      /\ s = 8 * rs + fs /\ t = 8 * rt + ft /\ u = 8 * ru + fu
  BY SquareIs
<1>2. u \in Between[s][t] <=>
        u \in Line[s][t] /\ u # s /\ u # t /\ Distance(s, u) + Distance(u, t) = Distance(s, t)
  BY DEF Between
<1>d. /\ Distance(s, u) \in {fs - fu, -(fs - fu), rs - ru, -(rs - ru)}
      /\ \A z \in {fs - fu, -(fs - fu), rs - ru, -(rs - ru)} : z <= Distance(s, u)
      /\ Distance(u, t) \in {fu - ft, -(fu - ft), ru - rt, -(ru - rt)}
      /\ \A z \in {fu - ft, -(fu - ft), ru - rt, -(ru - rt)} : z <= Distance(u, t)
      /\ Distance(s, t) \in {fs - ft, -(fs - ft), rs - rt, -(rs - rt)}
      /\ \A z \in {fs - ft, -(fs - ft), rs - rt, -(rs - rt)} : z <= Distance(s, t)
  BY DistanceIs
<1>3. CASE s = t
  <2>1. ~Diagonal(s, t) BY <1>3 DEF Diagonal
  <2>2. Line[s][t] = {} BY <1>3, <2>1 DEF Line
  <2> QED BY <1>1, <1>2, <1>3, <2>2 DEF OnWay, Amid
<1>4. CASE s # t /\ fs = ft
  <2>2. rs # rt BY <1>1, <1>4
  <2>3. ~Diagonal(s, t) BY <1>1, <1>4, <2>2 DEF Diagonal, Gap
  <2>1. u \in Line[s][t] <=> fu = fs BY <1>4, <2>2, <2>3 DEF Line
  <2> QED BY <1>1, <1>2, <1>d, <1>4, <2>1, <2>2, SMTT(60) DEF OnWay, Amid
<1>5. CASE s # t /\ fs # ft /\ rs = rt
  <2>3. ~Diagonal(s, t) BY <1>1, <1>5 DEF Diagonal, Gap
  <2>1. u \in Line[s][t] <=> ru = rs BY <1>5, <2>3 DEF Line
  <2> QED BY <1>1, <1>2, <1>d, <1>5, <2>1, SMTT(60) DEF OnWay, Amid
<1>6. CASE fs # ft /\ rs # rt /\ ~Diagonal(s, t)
  <2>1. Line[s][t] = {} BY <1>6 DEF Line
  <2>2. s # t BY <1>6
  <2> QED BY <1>1, <1>2, <1>6, <2>1, <2>2, SMTT(60) DEF OnWay, Amid, Diagonal, Gap
<1>7. CASE fs # ft /\ rs # rt /\ Diagonal(s, t)
  <2>1. s # t BY <1>7
  <2>2. u \in Line[s][t] <=>
          \/ u = s \/ u = t
          \/ Diagonal(s, u) /\ Diagonal(t, u) /\ (fu - fs) * (rt - rs) = (ru - rs) * (ft - fs)
    BY <1>7, <2>1 DEF Line
  <2>3. rt - rs = ft - fs \/ rt - rs = fs - ft
    BY <1>1, <1>7 DEF Diagonal, Gap
  <2>4. ASSUME Diagonal(s, u), Diagonal(t, u), Distance(s, u) + Distance(u, t) = Distance(s, t)
        PROVE  OnWay(s, u, t)
    BY <1>1, <1>d, <1>7, <2>3, <2>4, SMTT(60) DEF OnWay, Amid, Diagonal, Gap
  <2>5. ASSUME OnWay(s, u, t)
        PROVE  /\ Diagonal(s, u) /\ Diagonal(t, u) /\ u # s /\ u # t
               /\ Distance(s, u) + Distance(u, t) = Distance(s, t)
               /\ \/ fu - fs = ru - rs /\ ft - fs = rt - rs
                  \/ fu - fs = rs - ru /\ ft - fs = rs - rt
    BY <1>1, <1>d, <1>7, <2>3, <2>5, SMTT(60) DEF OnWay, Amid, Diagonal, Gap
  <2>6. ASSUME OnWay(s, u, t)
        PROVE  (fu - fs) * (rt - rs) = (ru - rs) * (ft - fs)
    <3> DEFINE p == fu - fs
               q == ft - fs
    <3>1. p \in Int /\ q \in Int BY <1>1
    <3>2. CASE ru - rs = p /\ rt - rs = q
      <4>1. ft - fs = q /\ fu - fs = p OBVIOUS
      <4> HIDE DEF p, q
      <4> QED BY <3>1, <3>2, <4>1
    <3>3. CASE ru - rs = -p /\ rt - rs = -q
      <4>1. ft - fs = q /\ fu - fs = p OBVIOUS
      <4>2. (-p) * q = p * (-q)
        <5> HIDE DEF p, q
        <5> QED BY <3>1
      <4> HIDE DEF p, q
      <4> QED BY <3>3, <4>1, <4>2
    <3>4. (ru - rs = p /\ rt - rs = q) \/ (ru - rs = -p /\ rt - rs = -q)
      BY <1>1, <2>5, <2>6
    <3> QED BY <3>2, <3>3, <3>4
  <2> QED BY <1>2, <2>2, <2>4, <2>5, <2>6
<1> HIDE DEF fs, ft, fu, rs, rt, ru
<1> QED BY <1>3, <1>4, <1>5, <1>6, <1>7

(* Of two pieces that look at a square across a third one, one stands in    *)
(* the way of the other.                                                    *)
LEMMA OneBlocksTheOther ==
    ASSUME NEW a \in Squares, NEW d \in Squares, NEW k \in Squares, NEW u \in Squares, a # d,
           u \in Between[a][k], u \in Between[d][k]
    PROVE  a \in Between[d][k] \/ d \in Between[a][k]
<1>1. OnWay(a, u, k) /\ OnWay(d, u, k) BY BetweenIs
<1>2. /\ File(a) \in 0..7 /\ File(d) \in 0..7 /\ File(k) \in 0..7 /\ File(u) \in 0..7
      /\ Rank(a) \in 0..7 /\ Rank(d) \in 0..7 /\ Rank(k) \in 0..7 /\ Rank(u) \in 0..7
      /\ File(a) # File(d) \/ Rank(a) # Rank(d)
  BY SquareIs
<1>3. OnWay(d, a, k) \/ OnWay(a, d, k)
  BY <1>1, <1>2, SMTT(60) DEF OnWay, Amid
<1> QED BY <1>3, BetweenIs

-----------------------------------------------------------------------------
(* Valid positions: the rules keep them so.                                 *)

(* What a legal move is.                                                    *)
LEMMA MoveIs ==
    ASSUME NEW b, NEW m \in LegalMoves(b)
    PROVE  /\ m.from \in Own(b, b.turn) /\ m.to \in Targets(b, m.from)
           /\ m.promo \in Promotions(b, m.from, m.to) /\ Safe(b, m)
BY DEF LegalMoves

(* The king is where it stands.                                             *)
LEMMA KingIs ==
    ASSUME NEW b, NEW c, NEW k, IsKingOf(b, c, k)
    PROVE  KingOf(b, c) = k
BY DEF IsKingOf, KingOf

(* Each side has one opponent.                                              *)
LEMMA OthersAre ==
    ASSUME NEW c \in Colors
    PROVE  Other(c) \in Colors /\ Other(c) # c /\ Other(Other(c)) = c /\ \A d \in Colors : d # c => d = Other(c)
BY DEF Other, Colors

(* A pawn takes aslant, and steps ahead to empty squares, two from its own  *)
(* rank.                                                                    *)
LEMMA PawnStepsAre ==
    ASSUME NEW b, IsPosition(b), NEW s \in DOMAIN b.at, b.at[s].type = "pawn", NEW t \in Targets(b, s)
    PROVE  LET c == b.at[s].color
           IN  /\ t \in Squares
               /\ \/ t \in Reach["pawn"][c][s] /\ (t = b.ep \/ t \in Own(b, Other(c)))
                  \/ File(t) = File(s) /\ t \notin DOMAIN b.at
               /\ Gap(Rank(s), Rank(t)) = 2 =>
                    \E u \in Squares \ DOMAIN b.at :
                       /\ Ahead(c, s, u) /\ Ahead(c, u, t) /\ File(t) = File(s) /\ File(u) = File(s)
                       /\ Gap(Rank(s), HomeRank(c)) = 1
<1> DEFINE c == b.at[s].color
           one == {u \in Squares : Ahead(c, s, u) /\ File(u) = File(s)} \ DOMAIN b.at
<1>1. s \in Squares /\ c \in Colors
  BY DEF IsPosition
<1>2. t \in PawnSteps(b, s)
  BY DEF Targets
<1>3. Reach["pawn"][c][s] = {u \in Squares \ {s} : Ahead(c, s, u) /\ Gap(File(s), File(u)) = 1}
  BY <1>1 DEF Reach, Types
<1>4. \A u \in Squares : Ahead(c, s, u) => Gap(Rank(s), Rank(u)) = 1
  <2> SUFFICES ASSUME NEW u \in Squares, Ahead(c, s, u) PROVE Gap(Rank(s), Rank(u)) = 1
    OBVIOUS
  <2>1. Rank(s) \in Int /\ Rank(u) \in Int BY <1>1, SquareIs
  <2> QED BY <2>1 DEF Ahead, Gap
<1>5. CASE t \in one
  BY <1>4, <1>5
<1>6. CASE t \in Reach["pawn"][c][s] /\ (t = b.ep \/ t \in Own(b, Other(c)))
  BY <1>3, <1>4, <1>6
<1>7. CASE /\ Gap(Rank(s), HomeRank(c)) = 1
           /\ t \in {x \in Squares : \E u \in one : Ahead(c, u, x) /\ File(x) = File(s)} \ DOMAIN b.at
  BY <1>7
<1> QED BY <1>2, <1>5, <1>6, <1>7 DEF PawnSteps

(* En passant takes the pawn that has just gone past.                       *)
LEMMA EnPassantIs ==
    ASSUME NEW b, IsPosition(b), EnPassantFits(b), NEW m \in LegalMoves(b), IsEnPassant(b, m)
    PROVE  \E s \in Own(b, Other(b.turn)) :
             HasPassed(b, s) /\ Taken(b, m) = {s} /\ m.to = b.ep /\ m.to \in Squares \ DOMAIN b.at
<1>1. /\ m.from \in Own(b, b.turn) /\ m.to \in Targets(b, m.from) /\ m \in AnyMove
  BY MoveIs, LegalMovesAre
<1>2. m.from \in Squares /\ m.to \in Squares /\ m.from \in DOMAIN b.at /\ b.at[m.from].color = b.turn
  BY <1>1 DEF AnyMove, Own
<1>3. m.to = b.ep /\ b.at[m.from].type = "pawn" /\ File(m.from) # File(m.to)
  BY DEF IsEnPassant
<1>4. Ahead(b.turn, m.from, m.to)
  <2>1. m.to \in Reach["pawn"][b.turn][m.from]
    BY <1>1, <1>2, <1>3, PawnStepsAre
  <2> QED BY <1>2, <2>1 DEF Reach, Types, IsPosition
<1>5. b.ep # NoSquare
  BY <1>2, <1>3 DEF NoSquare, Squares
<1>6. PICK s \in Own(b, Other(b.turn)) : HasPassed(b, s)
  BY <1>5 DEF EnPassantFits
<1>7. s \in Squares /\ b.at[s].color = Other(b.turn) /\ b.turn \in Colors
  BY <1>6 DEF Own, IsPosition
<1>8. 8 * Rank(m.from) + File(m.to) = s
  <2>1. File(s) = File(m.to) /\ Ahead(Other(b.turn), m.to, s)
    BY <1>3, <1>6, <1>7 DEF HasPassed
  <2>2. /\ Rank(s) \in Int /\ Rank(m.from) \in Int /\ Rank(m.to) \in Int /\ File(s) \in Int
        /\ s = 8 * Rank(s) + File(s)
    BY <1>2, <1>7, SquareIs
  <2>3. Rank(s) = Rank(m.from)
    BY <1>4, <1>7, <2>1, <2>2 DEF Ahead, Other, Colors
  <2> QED BY <2>1, <2>2, <2>3
<1> QED BY <1>2, <1>3, <1>5, <1>6, <1>8 DEF Taken, EnPassantFits

(* Castling goes where nothing stands.                                      *)
LEMMA CastlesOntoNothing ==
    ASSUME NEW b, IsPosition(b), NEW s \in Squares, NEW t \in Castlings(b, s)
    PROVE  t \notin DOMAIN b.at
<1> DEFINE r == RookFrom([from |-> s, to |-> t])
<1>1. /\ t \in {2, 6, 58, 62} /\ Rank(t) = Rank(s) /\ Distance(s, t) = 2
      /\ Between[s][r] \cap DOMAIN b.at = {}
  BY DEF Castlings, IsPosition
<1>2. <<s, t>> \in {<<4, 6>>, <<0, 2>>, <<4, 2>>, <<56, 58>>, <<60, 58>>, <<60, 62>>}
  BY <1>1 DEF Rank, Distance, Gap, File, Squares
<1>3. <<s, t, r>> \in {<<4, 6, 7>>, <<0, 2, 3>>, <<4, 2, 0>>,
                       <<56, 58, 59>>, <<60, 58, 56>>, <<60, 62, 63>>}
  BY <1>2 DEF RookFrom
<1>4. r \in Squares /\ t \in Squares /\ Rank(r) = Rank(s) /\ Rank(t) = Rank(s) /\ Amid(File(s), File(t), File(r))
  BY <1>3 DEF Squares, Rank, File, Amid
<1> HIDE DEF r
<1>5. t \in Between[s][r]
  BY <1>4, BetweenIs DEF OnWay
<1> QED BY <1>1, <1>5

(* A move to a square that is not en passant takes what stands there, and   *)
(* nothing of its own.                                                      *)
LEMMA NothingOwnIsTaken ==
    ASSUME NEW b, IsPosition(b), EnPassantFits(b), NEW m \in LegalMoves(b)
    PROVE  Taken(b, m) \subseteq Own(b, Other(b.turn)) /\ m.to \notin Own(b, b.turn)
<1>1. /\ m.from \in Own(b, b.turn) /\ m.to \in Targets(b, m.from) /\ m \in AnyMove
      /\ IsCastling(b, m) => m.to \in Castlings(b, m.from)
  BY MoveIs, LegalMovesAre
<1>2. m.from \in DOMAIN b.at /\ b.at[m.from].color = b.turn /\ b.turn \in Colors
  BY <1>1 DEF Own, IsPosition
<1>3. CASE IsEnPassant(b, m)
  <2>1. PICK s \in Own(b, Other(b.turn)) : Taken(b, m) = {s} /\ m.to \notin DOMAIN b.at
    BY <1>3, EnPassantIs
  <2> QED BY <2>1 DEF Own
<1>4. CASE ~IsEnPassant(b, m)
  <2>1. Taken(b, m) = {m.to} \cap DOMAIN b.at
    BY <1>4 DEF Taken
  <2>2. m.to \notin Own(b, b.turn)
    <3>1. CASE b.at[m.from].type = "pawn"
      <4>1. \/ m.to = b.ep \/ m.to \in Own(b, Other(b.turn)) \/ m.to \notin DOMAIN b.at
        BY <1>1, <1>2, <3>1, PawnStepsAre
      <4>2. CASE m.to = b.ep
        <5>1. m.to # NoSquare BY <1>1 DEF AnyMove, Squares, NoSquare
        <5> QED BY <4>2, <5>1 DEF EnPassantFits, Own
      <4> QED BY <1>2, <4>1, <4>2, OthersAre DEF Own
    <3>2. CASE b.at[m.from].type # "pawn" /\ ~(b.at[m.from].type = "king" /\ m.to \in Castlings(b, m.from))
      BY <1>1, <3>2 DEF Targets
    <3>3. CASE b.at[m.from].type = "king" /\ m.to \in Castlings(b, m.from)
      BY <1>1, <3>3, CastlesOntoNothing DEF Own, AnyMove
    <3> QED BY <3>1, <3>2, <3>3
  <2>3. \A s \in DOMAIN b.at : s \notin Own(b, b.turn) => s \in Own(b, Other(b.turn))
    BY <1>2, OthersAre DEF Own, IsPosition
  <2> QED BY <2>1, <2>2, <2>3
<1> QED BY <1>3, <1>4

(* What stands where after a move: the piece that moved, the rook of a      *)
(* castling, and what was there and neither moved nor was taken.            *)
Moved(b, m) == {m.from} \cup IF IsCastling(b, m) THEN {RookFrom(m)} ELSE {}
Remains(b, m) == (DOMAIN b.at) \ (Taken(b, m) \cup Moved(b, m))

(* What a move leaves where it was, and what it puts down.                  *)
LEMMA PushLeaves ==
    ASSUME NEW b, IsPosition(b), EnPassantFits(b), NEW m \in LegalMoves(b)
    PROVE  LET after == Push(b, m)
           IN  /\ after.turn = Other(b.turn)
               /\ DOMAIN after.at =
                    Remains(b, m) \cup {m.to} \cup (IF IsCastling(b, m) THEN {RookTo(m)} ELSE {})
               /\ \A s \in Remains(b, m) : s # m.to /\ after.at[s] = b.at[s]
               /\ after.at[m.to].color = b.turn
               /\ after.at[m.to].type = IF m.promo = "none" THEN b.at[m.from].type ELSE m.promo
               /\ IsCastling(b, m) =>
                    RookTo(m) # m.to /\ after.at[RookTo(m)] = b.at[RookFrom(m)]
<1> DEFINE mover == b.at[m.from]
           rook == IF IsCastling(b, m) THEN {RookTo(m)} ELSE {}
           gone == Taken(b, m) \cup {m.from} \cup (IF rook = {} THEN {} ELSE {RookFrom(m)})
           here == ((DOMAIN b.at) \ gone) \cup {m.to} \cup rook
           at == [s \in here |->
                    IF s = m.to
                      THEN IF m.promo = "none" THEN mover ELSE [mover EXCEPT !.type = m.promo]
                    ELSE IF s \in rook THEN b.at[RookFrom(m)] ELSE b.at[s]]
<1>1. Push(b, m).at = at /\ Push(b, m).turn = Other(b.turn)
  BY DEF Push
<1>2. (DOMAIN b.at) \ gone = Remains(b, m)
  BY DEF Remains, Moved
<1>3. /\ m \in AnyMove /\ m.from \in DOMAIN b.at /\ mover \in [type : Types, color : Colors]
      /\ mover.color = b.turn
  BY LegalMovesAre DEF IsPosition, Own
<1>4. m.promo # "none" =>
        [mover EXCEPT !.type = m.promo].type = m.promo /\ [mover EXCEPT !.type = m.promo].color = b.turn
  BY <1>3
<1>5. IsCastling(b, m) =>
        RookTo(m) \notin DOMAIN b.at /\ RookTo(m) # m.to
  BY CastlingIs
<1>6. m.to \in DOMAIN b.at => m.to \in Taken(b, m)
  <2>1. CASE IsEnPassant(b, m)
    BY <2>1, EnPassantIs
  <2>2. CASE ~IsEnPassant(b, m)
    BY <2>2 DEF Taken
  <2> QED BY <2>1, <2>2
<1>7. \A s \in Remains(b, m) : s # m.to /\ s \notin rook /\ s \in here
  BY <1>2, <1>5, <1>6 DEF Remains
<1>8. \A s \in Remains(b, m) : at[s] = b.at[s]
  <2> HIDE DEF here, rook
  <2> QED BY <1>7
<1>9. m.to \in here /\ at[m.to] = IF m.promo = "none" THEN mover ELSE [mover EXCEPT !.type = m.promo]
  OBVIOUS
<1>10. IsCastling(b, m) => at[RookTo(m)] = b.at[RookFrom(m)]
  BY <1>5
<1>11. DOMAIN at = Remains(b, m) \cup {m.to} \cup rook
  BY <1>2
<1>12. at[m.to].color = b.turn /\ at[m.to].type = IF m.promo = "none" THEN mover.type ELSE m.promo
  <2> HIDE DEF at
  <2> QED BY <1>3, <1>4, <1>9
<1> HIDE DEF at, here
<1> QED BY <1>1, <1>5, <1>7, <1>8, <1>10, <1>11, <1>12

(* A square that a piece attacks may be reached; a side that has moved does *)
(* not leave its king to be taken.                                          *)
LEMMA NoKingIsTaken ==
    ASSUME NEW b, IsPosition(b), IsValid(b), NEW m \in LegalMoves(b), NEW k,
           IsKingOf(b, Other(b.turn), k)
    PROVE  k \notin Taken(b, m)
<1>1. /\ m.from \in Own(b, b.turn) /\ m.to \in Targets(b, m.from) /\ m \in AnyMove
      /\ m.from \in DOMAIN b.at /\ m.from \in Squares
      /\ k \in Own(b, Other(b.turn)) /\ b.at[k].type = "king" /\ EnPassantFits(b)
  BY MoveIs, LegalMovesAre DEF AnyMove, Own, IsKingOf, IsValid
<1>2. k \notin Attacks(b, m.from)
  <2>1. KingOf(b, Other(b.turn)) = k
    BY KingIs
  <2>2. ~Attacked(b, b.turn, k)
    BY <2>1 DEF IsValid, LeavesSafe
  <2> QED BY <1>1, <2>2 DEF Attacked
<1>3. CASE IsEnPassant(b, m)
  BY <1>1, <1>3, EnPassantIs DEF HasPassed
<1>4. CASE ~IsEnPassant(b, m)
  <2> SUFFICES ASSUME k = m.to PROVE FALSE
    BY <1>4 DEF Taken
  <2>1. m.to \in DOMAIN b.at
    BY <1>1 DEF Own
  <2>2. CASE b.at[m.from].type = "pawn"
    <3>1. /\ b.at[m.from].color = b.turn
          /\ m.to \in Reach["pawn"][b.turn][m.from]
      BY <1>1, <2>1, <2>2, PawnStepsAre DEF Own
    <3> QED BY <1>2, <2>2, <3>1 DEF Attacks, Sliders
  <2>3. CASE b.at[m.from].type # "pawn" /\ m.to \notin Castlings(b, m.from)
    BY <1>1, <1>2, <2>3 DEF Targets
  <2>4. CASE m.to \in Castlings(b, m.from)
    BY <1>1, <2>1, <2>4, CastlesOntoNothing
  <2> QED BY <2>2, <2>3, <2>4
<1> QED BY <1>3, <1>4

(* Each side keeps its king through a move.                                 *)
LEMMA KingAfter ==
    ASSUME NEW b, IsPosition(b), IsValid(b), NEW m \in LegalMoves(b), NEW c \in Colors, NEW k,
           IsKingOf(b, c, k)
    PROVE  IsKingOf(Push(b, m), c, IF k = m.from THEN m.to ELSE k)
<1> DEFINE after == Push(b, m)
           new == IF k = m.from THEN m.to ELSE k
<1>1. /\ m.from \in Own(b, b.turn) /\ m.promo \in Promotions(b, m.from, m.to) /\ m.from # m.to
      /\ m.from \in DOMAIN b.at /\ b.at[m.from].color = b.turn /\ b.turn \in Colors
      /\ EnPassantFits(b)
      /\ k \in DOMAIN b.at /\ b.at[k].color = c /\ b.at[k].type = "king"
  BY MoveIs, LegalMovesAre DEF Own, IsKingOf, IsValid, IsPosition
<1>2. /\ DOMAIN after.at =
            Remains(b, m) \cup {m.to} \cup (IF IsCastling(b, m) THEN {RookTo(m)} ELSE {})
      /\ \A s \in Remains(b, m) : s # m.to /\ after.at[s] = b.at[s]
      /\ after.at[m.to].color = b.turn
      /\ after.at[m.to].type = IF m.promo = "none" THEN b.at[m.from].type ELSE m.promo
      /\ IsCastling(b, m) =>
           RookTo(m) # m.to /\ after.at[RookTo(m)] = b.at[RookFrom(m)]
  BY <1>1, PushLeaves
<1>3. after.at[m.to].type = "king" <=> b.at[m.from].type = "king"
  BY <1>1, <1>2 DEF Promotions
<1>4. IsCastling(b, m) =>
        /\ RookFrom(m) \in DOMAIN b.at /\ RookFrom(m) # m.from /\ RookTo(m) \notin DOMAIN b.at
        /\ b.at[RookFrom(m)].color = b.turn /\ b.at[m.from].type = "king"
  BY CastlingIs DEF Own, IsCastling
<1>5. \A s \in DOMAIN b.at : b.at[s].color = c => (b.at[s].type = "king" <=> s = k)
  BY DEF IsKingOf, Own
<1>6. k # m.from => k \in Remains(b, m)
  <2> SUFFICES ASSUME k # m.from PROVE k \in Remains(b, m)
    OBVIOUS
  <2>1. k \notin Taken(b, m)
    <3>1. CASE c = b.turn
      BY <1>1, <3>1, NothingOwnIsTaken, OthersAre DEF Own
    <3>2. CASE c # b.turn
      BY <1>1, <3>2, NoKingIsTaken, OthersAre
    <3> QED BY <3>1, <3>2
  <2>2. IsCastling(b, m) => RookFrom(m) # k
    BY <1>1, <1>4, <1>5
  <2> QED BY <1>1, <2>1, <2>2 DEF Remains, Moved
<1>7. new \in DOMAIN after.at /\ after.at[new].color = c /\ after.at[new].type = "king"
  BY <1>1, <1>2, <1>3, <1>6
<1>8. ASSUME NEW s \in DOMAIN after.at, after.at[s].color = c, after.at[s].type = "king"
      PROVE  s = new
  <2>1. CASE s = m.to
    BY <1>1, <1>2, <1>3, <1>5, <1>8, <2>1
  <2>2. CASE s \in Remains(b, m)
    BY <1>1, <1>2, <1>5, <1>8, <2>2 DEF Remains, Moved
  <2>3. CASE IsCastling(b, m) /\ s = RookTo(m)
    BY <1>1, <1>2, <1>4, <1>5, <1>8, <2>3
  <2> QED BY <1>2, <2>1, <2>2, <2>3
<1> HIDE DEF after, new
<1> QED BY <1>7, <1>8 DEF IsKingOf, Own, after, new

(* A pawn that goes two squares goes past one that is empty.                *)
LEMMA TwoStepsPass ==
    ASSUME NEW b, IsPosition(b), EnPassantFits(b), NEW m \in LegalMoves(b)
    PROVE  EnPassantFits(Push(b, m))
<1> DEFINE after == Push(b, m)
           c == b.turn
<1> SUFFICES ASSUME after.ep # NoSquare PROVE EnPassantFits(after)
  BY DEF EnPassantFits
<1>1. /\ b.at[m.from].type = "pawn" /\ Gap(Rank(m.from), Rank(m.to)) = 2
      /\ after.ep = (m.from + m.to) \div 2
  BY DEF Push
<1>2. /\ m.from \in DOMAIN b.at /\ b.at[m.from].color = c /\ c \in Colors
      /\ m.from \in Squares /\ m.to \in Squares
      /\ m.to \in Targets(b, m.from) /\ m.promo \in Promotions(b, m.from, m.to)
  BY MoveIs, LegalMovesAre DEF Own, IsPosition, AnyMove
<1>3. PICK u \in Squares \ DOMAIN b.at :
        /\ Ahead(c, m.from, u) /\ Ahead(c, u, m.to) /\ File(m.to) = File(m.from) /\ File(u) = File(m.from)
        /\ Gap(Rank(m.from), HomeRank(c)) = 1
  BY <1>1, <1>2, PawnStepsAre
<1>4. /\ Rank(m.from) \in 0..7 /\ Rank(u) \in 0..7 /\ Rank(m.to) \in 0..7 /\ File(u) \in 0..7
      /\ m.from = 8 * Rank(m.from) + File(m.from) /\ m.to = 8 * Rank(m.to) + File(m.to)
      /\ u = 8 * Rank(u) + File(u)
  BY <1>2, <1>3, SquareIs
<1>5. after.ep = u
  <2>1. Rank(m.from) + Rank(m.to) = 2 * Rank(u)
    BY <1>3, <1>4 DEF Ahead
  <2>2. m.from + m.to = 2 * u
    BY <1>3, <1>4, <2>1
  <2> QED BY <1>1, <1>4, <2>2
<1>6. Rank(m.to) \notin {0, 7}
  BY <1>2, <1>3, <1>4 DEF Ahead, Gap, HomeRank, Colors
<1>7. m.promo = "none" /\ ~IsCastling(b, m)
  BY <1>1, <1>2, <1>6 DEF Promotions, IsCastling
<1>8. /\ DOMAIN after.at = Remains(b, m) \cup {m.to}
      /\ after.at[m.to].color = c /\ after.at[m.to].type = "pawn" /\ after.turn = Other(c)
  BY <1>1, <1>7, PushLeaves
<1>9. u # m.to
  BY <1>3, <1>4 DEF Ahead
<1>10. u \in Squares \ DOMAIN after.at
  BY <1>3, <1>8, <1>9 DEF Remains
<1>11. Other(Other(c)) = c
  BY <1>2, OthersAre
<1>12. HasPassed(after, m.to) /\ m.to \in Own(after, Other(after.turn))
  BY <1>3, <1>5, <1>8, <1>11 DEF HasPassed, Own
<1> HIDE DEF after
<1> QED BY <1>5, <1>10, <1>12 DEF EnPassantFits

(* The rules keep a position valid.                                         *)
LEMMA PushIsValid ==
    ASSUME NEW b, IsPosition(b), IsValid(b), NEW m \in LegalMoves(b)
    PROVE  IsPosition(Push(b, m)) /\ IsValid(Push(b, m))
<1>1. m.to \in Squares
  BY LegalMovesAre DEF AnyMove
<1>2. ASSUME NEW c \in Colors
      PROVE  \E k \in Squares : IsKingOf(Push(b, m), c, k)
  <2>1. PICK k \in Squares : IsKingOf(b, c, k)
    BY DEF IsValid
  <2>2. IsKingOf(Push(b, m), c, IF k = m.from THEN m.to ELSE k)
    BY <2>1, KingAfter
  <2> QED BY <1>1, <2>1, <2>2
<1>3. LeavesSafe(Push(b, m))
  BY MoveIs DEF Safe
<1>4. EnPassantFits(Push(b, m))
  BY TwoStepsPass DEF IsValid
<1> QED BY <1>2, <1>3, <1>4, PushIsPosition DEF IsValid

-----------------------------------------------------------------------------
(* Tactics.                                                                 *)

(* A piece that is left where it is looks at the same squares unless         *)
(* something stands between now.                                            *)
LEMMA StillAttacks ==
    ASSUME NEW b, NEW x, NEW s, NEW t, t \in Attacks(b, s), x.at[s] = b.at[s],
           Between[s][t] \cap DOMAIN x.at = {}
    PROVE  t \in Attacks(x, s)
BY DEF Attacks

(* A king in check moves, or the piece that checks is taken, or a slider's  *)
(* way to the king is barred by the piece that moved.                       *)
LEMMA ChecksAreMet ==
    ASSUME NEW b, IsPosition(b), IsValid(b), NEW r \in LegalMoves(b), b.at[r.from].type # "king",
           NEW k, IsKingOf(b, b.turn, k), NEW a \in Checkers(b)
    PROVE  \/ Taken(b, r) = {a}
           \/ r.to \in Between[a][k]
<1> DEFINE after == Push(b, r)
           c == b.turn
<1> SUFFICES ASSUME a \notin Taken(b, r), r.to \notin Between[a][k] PROVE FALSE
  BY DEF Taken
<1>1. /\ r.from \in Own(b, c) /\ Safe(b, r) /\ EnPassantFits(b) /\ c \in Colors
      /\ k \in DOMAIN b.at /\ b.at[k].type = "king"
  BY MoveIs DEF IsValid, IsPosition, IsKingOf, Own
<1>2. a \in Own(b, Other(c)) /\ k \in Attacks(b, a)
  BY KingIs DEF Checkers, Attackers
<1>3. IsKingOf(after, c, k)
  BY <1>1, KingAfter
<1>4. Other(c) # c /\ ~IsCastling(b, r)
  BY <1>1, OthersAre DEF IsCastling
<1>5. a \in Remains(b, r)
  BY <1>1, <1>2, <1>4 DEF Remains, Moved, Own
<1>6. /\ DOMAIN after.at = Remains(b, r) \cup {r.to} /\ after.at[a] = b.at[a] /\ after.turn = Other(c)
  BY <1>1, <1>4, <1>5, PushLeaves
<1>7. k \in Attacks(after, a)
  <2>1. CASE b.at[a].type \notin Sliders
    BY <1>2, <1>6, <2>1 DEF Attacks
  <2>2. CASE Between[a][k] \cap DOMAIN b.at = {}
    <3>1. Between[a][k] \cap DOMAIN after.at = {}
      BY <1>6, <2>2 DEF Remains
    <3> HIDE DEF after
    <3> QED BY <1>2, <1>6, <3>1, StillAttacks
  <2> QED BY <1>2, <2>1, <2>2 DEF Attacks
<1>8. a \in Own(after, after.turn)
  BY <1>2, <1>5, <1>6 DEF Own
<1>9. KingOf(after, Other(after.turn)) = k
  BY <1>1, <1>3, <1>6, KingIs, OthersAre
<1> QED BY <1>1, <1>7, <1>8, <1>9 DEF Safe, LeavesSafe, Attacked

(* No square is between a pawn, a knight or a king and what it attacks.     *)
NothingBetween(s, t) == \A u \in Squares : u \notin Between[s][t]

(* Pawns, knights and kings look next to them.                              *)
LEMMA CloseBy ==
    ASSUME NEW s \in Squares, NEW t \in Squares, NEW c \in Colors, NEW type \in {"pawn", "knight", "king"},
           t \in Reach[type][c][s]
    PROVE  NothingBetween(s, t)
<1> SUFFICES ASSUME NEW u \in Squares, u \in Between[s][t] PROVE FALSE
  BY DEF NothingBetween
<1>1. OnWay(s, u, t)
  BY BetweenIs
<1>2. /\ File(s) \in 0..7 /\ File(t) \in 0..7 /\ File(u) \in 0..7
      /\ Rank(s) \in 0..7 /\ Rank(t) \in 0..7 /\ Rank(u) \in 0..7
  BY SquareIs
<1>3. CASE type = "pawn"
  <2>1. Ahead(c, s, t) /\ Gap(File(s), File(t)) = 1
    BY <1>3 DEF Reach, Types
  <2> QED BY <1>1, <1>2, <2>1, SMTT(60) DEF OnWay, Amid, Ahead, Gap
<1>4. CASE type = "king"
  <2>1. Distance(s, t) = 1
    BY <1>4 DEF Reach, Types
  <2>2. \A z \in {File(s) - File(t), -(File(s) - File(t)), Rank(s) - Rank(t), -(Rank(s) - Rank(t))} : z <= 1
    BY <2>1, DistanceIs
  <2> QED BY <1>1, <1>2, <2>2, SMTT(60) DEF OnWay, Amid
<1>5. CASE type = "knight"
  <2>1. {Gap(File(s), File(t)), Gap(Rank(s), Rank(t))} = {1, 2}
    BY <1>5 DEF Reach, Types, Hop
  <2>2. \/ Gap(File(s), File(t)) = 1 /\ Gap(Rank(s), Rank(t)) = 2
        \/ Gap(File(s), File(t)) = 2 /\ Gap(Rank(s), Rank(t)) = 1
    BY <2>1
  <2> QED BY <1>1, <1>2, <2>2, SMTT(60) DEF OnWay, Amid, Gap
<1> QED BY <1>3, <1>4, <1>5

(* After a double check only the king moves.                                *)
LEMMA OnlyTheKingMoves ==
    ASSUME NEW b, IsPosition(b), IsValid(b), NEW r \in LegalMoves(b),
           NEW a \in Checkers(b), NEW d \in Checkers(b), a # d
    PROVE  b.at[r.from].type = "king"
<1> SUFFICES ASSUME b.at[r.from].type # "king" PROVE FALSE
  OBVIOUS
<1> DEFINE c == b.turn
<1>1. c \in Colors /\ EnPassantFits(b) /\ r.to \in Squares
  BY LegalMovesAre DEF IsPosition, IsValid, AnyMove
<1>2. PICK k \in Squares : IsKingOf(b, c, k)
  BY <1>1 DEF IsValid
<1>3. /\ \A s \in Checkers(b) : s \in DOMAIN b.at /\ s \in Squares /\ k \in Attacks(b, s)
                               /\ s \in Own(b, Other(c))
  BY <1>2, KingIs DEF Checkers, Attackers, Own, IsPosition
<1>4. \A s \in Checkers(b) : Taken(b, r) = {s} \/ r.to \in Between[s][k]
  BY <1>2, ChecksAreMet
\* What is barred was a slider's way, with nothing on it.
<1>5. \A s, t \in Checkers(b) : r.to \in Between[t][k] => s \notin Between[t][k]
  <2> SUFFICES ASSUME NEW s \in Checkers(b), NEW t \in Checkers(b),
                      r.to \in Between[t][k], s \in Between[t][k]
               PROVE  FALSE
    OBVIOUS
  <2>1. b.at[t].type \notin Sliders
    BY <1>3 DEF Attacks
  <2>2. k \in Reach[b.at[t].type][b.at[t].color][t] /\ b.at[t].type \in {"pawn", "knight", "king"}
        /\ b.at[t].color \in Colors
    BY <1>3, <2>1 DEF Attacks, Sliders, IsPosition, Types
  <2>3. NothingBetween(t, k)
    BY <1>2, <1>3, <2>2, CloseBy
  <2> QED BY <1>3, <2>3 DEF NothingBetween
<1>6. ASSUME NEW s \in Checkers(b), NEW t \in Checkers(b), s # t, Taken(b, r) = {s}
      PROVE  FALSE
  <2>1. r.to \in Between[t][k]
    BY <1>4, <1>6
  <2>2. CASE IsEnPassant(b, r)
    <3>1. HasPassed(b, s) /\ r.to = b.ep
      BY <1>1, <1>6, <2>2, EnPassantIs
    <3>2. /\ b.at[s].type = "pawn" /\ File(s) = File(r.to) /\ Ahead(b.at[s].color, r.to, s)
          /\ b.at[s].color \in Colors
      BY <1>3, <3>1, SMTT(30) DEF HasPassed, IsPosition
    <3>3. Ahead(b.at[s].color, s, k) /\ Gap(File(s), File(k)) = 1
      BY <1>3, <3>2 DEF Attacks, Reach, Types
    <3>4. OnWay(t, r.to, k)
      BY <1>1, <1>2, <1>3, <2>1, BetweenIs
    <3>5. /\ File(s) \in 0..7 /\ File(t) \in 0..7 /\ File(k) \in 0..7 /\ File(r.to) \in 0..7
          /\ Rank(s) \in 0..7 /\ Rank(t) \in 0..7 /\ Rank(k) \in 0..7 /\ Rank(r.to) \in 0..7
      BY <1>1, <1>2, <1>3, SquareIs
    <3>6. Rank(k) - Rank(r.to) = 2 \/ Rank(r.to) - Rank(k) = 2
      BY <3>2, <3>3, <3>5 DEF Ahead
    <3>7. File(k) - File(r.to) = 1 \/ File(r.to) - File(k) = 1
      BY <3>2, <3>3, <3>5 DEF Gap
    <3> QED BY <3>4, <3>5, <3>6, <3>7, SMTT(60) DEF OnWay, Amid
  <2>3. CASE ~IsEnPassant(b, r)
    <3>1. r.to = s
      BY <1>6, <2>3 DEF Taken
    <3> QED BY <1>5, <2>1, <3>1
  <2> QED BY <2>2, <2>3
<1>7. CASE Taken(b, r) = {a} \/ Taken(b, r) = {d}
  BY <1>6, <1>7
<1>8. CASE r.to \in Between[a][k] /\ r.to \in Between[d][k]
  <2>1. a \in Between[d][k] \/ d \in Between[a][k]
    BY <1>1, <1>2, <1>3, <1>8, OneBlocksTheOther
  <2> QED BY <1>5, <1>8, <2>1
<1> QED BY <1>4, <1>7, <1>8

(* A king in check moves nowhere when every square beside it is attacked:   *)
(* the king does not screen the square it goes to.                          *)
LEMMA NowhereToGo ==
    ASSUME NEW b, IsPosition(b), IsValid(b), InCheck(b), Escapes(b) = {}, NEW r \in LegalMoves(b)
    PROVE  b.at[r.from].type # "king"
<1> SUFFICES ASSUME b.at[r.from].type = "king" PROVE FALSE
  OBVIOUS
<1> DEFINE after == Push(b, r)
           c == b.turn
           k == r.from
<1>1. /\ k \in Own(b, c) /\ k \in DOMAIN b.at /\ r.to \in Targets(b, k) /\ Safe(b, r) /\ EnPassantFits(b)
      /\ c \in Colors
  BY MoveIs DEF IsValid, IsPosition, Own
<1>2. IsKingOf(b, c, k) /\ KingOf(b, c) = k
  <2>1. PICK j \in Squares : IsKingOf(b, c, j)
    BY <1>1 DEF IsValid
  <2>2. j = k
    BY <1>1, <2>1 DEF IsKingOf
  <2> QED BY <2>1, <2>2, KingIs
<1>3. r.to \in Attacks(b, k) \ Own(b, c)
  <2>1. Castlings(b, k) = {}
    BY DEF Castlings
  <2> QED BY <1>1, <2>1 DEF Targets
<1>4. PICK s \in Own(b, Other(c)) : r.to \in Attacks(b, s)
  BY <1>2, <1>3 DEF Escapes, Attacked
<1>5. ~IsCastling(b, r) /\ ~IsEnPassant(b, r)
  BY <1>1, <1>3, AttacksAre DEF IsCastling, IsEnPassant
<1>6. s # r.to /\ s # k /\ s \in DOMAIN b.at
  BY <1>1, <1>4, AttacksAre, OthersAre DEF Own
<1>7. s \in Remains(b, r)
  BY <1>5, <1>6 DEF Remains, Taken, Moved
<1>8. /\ DOMAIN after.at = Remains(b, r) \cup {r.to} /\ after.at[s] = b.at[s] /\ after.turn = Other(c)
  BY <1>1, <1>5, <1>7, PushLeaves, SMTT(30)
<1>9. r.to \in Attacks(after, s)
  <2>1. CASE b.at[s].type \notin Sliders
    BY <1>4, <1>8, <2>1 DEF Attacks
  <2>2. CASE Between[s][r.to] \cap DOMAIN b.at = {}
    <3>1. r.to \notin Between[s][r.to]
      <4>1. s \in Squares /\ r.to \in Squares
        BY <1>6, LegalMovesAre DEF IsPosition, AnyMove
      <4> QED BY <4>1 DEF Between
    <3>2. Between[s][r.to] \cap DOMAIN after.at = {}
      BY <1>8, <2>2, <3>1 DEF Remains
    <3> HIDE DEF after
    <3> QED BY <1>4, <1>8, <3>2, StillAttacks
  <2> QED BY <1>4, <2>1, <2>2 DEF Attacks
<1>10. s \in Own(after, after.turn)
  BY <1>4, <1>7, <1>8 DEF Own
<1>11. KingOf(after, Other(after.turn)) = r.to
  <2>1. IsKingOf(after, c, r.to)
    BY <1>1, <1>2, KingAfter
  <2> QED BY <1>1, <1>8, <2>1, KingIs, OthersAre
<1> QED BY <1>1, <1>9, <1>10, <1>11 DEF Safe, LeavesSafe, Attacked

(* What a move leaves alone stands where it stood.                          *)
LEMMA OthersStay ==
    ASSUME NEW b, IsPosition(b), IsValid(b), NEW m \in LegalMoves(b)
    PROVE  /\ DOMAIN Push(b, m).at =
                Remains(b, m) \cup {m.to} \cup (IF IsCastling(b, m) THEN {RookTo(m)} ELSE {})
           /\ \A x \in Remains(b, m) : Push(b, m).at[x] = b.at[x]
           /\ Push(b, m).turn = Other(b.turn)
<1>1. EnPassantFits(b)
  BY DEF IsValid
<1> QED BY <1>1, PushLeaves

(* A check that is called discovered comes from a piece that has not moved. *)
LEMMA DiscoveredChecks ==
    ASSUME NEW b, IsPosition(b), IsValid(b), NEW m \in LegalMoves(b),
           NEW t \in Discovered(b, Push(b, m), m), t.pattern = "discovered check"
    PROVE  Checkers(Push(b, m)) \ {m.to} # {}
<1> DEFINE after == Push(b, m)
<1>1. IsPosition(after) /\ IsValid(after) /\ b.turn \in Colors /\ EnPassantFits(b)
  BY PushIsValid DEF IsPosition, IsValid
<1>0. /\ DOMAIN after.at =
          Remains(b, m) \cup {m.to} \cup (IF IsCastling(b, m) THEN {RookTo(m)} ELSE {})
      /\ \A x \in Remains(b, m) : after.at[x] = b.at[x]
      /\ after.turn = Other(b.turn)
  BY OthersStay
<1>2. PICK a \in Discoverers(b, after, m) :
        t = DiscoveryOf(after, m, a, Lowest(Revealed(b, after, m, a)))
  BY DEF Discovered, TheLowest
<1> DEFINE seen == Revealed(b, after, m, a)
           s == Lowest(seen)
<1>3. /\ a \in Own(b, b.turn) /\ a # m.to /\ seen # {}
  BY <1>2 DEF Discoverers
<1>4. /\ a \in DOMAIN after.at
      /\ seen \subseteq Attacks(after, a) \cap Own(after, after.turn)
  BY <1>3 DEF Revealed
<1>5. s \in seen
  <2>1. seen \in SUBSET Nat
    BY <1>1, <1>4, SquaresAre DEF Own, IsPosition
  <2> HIDE DEF seen
  <2>2. \E x \in seen : \A y \in seen : x <= y
    BY <1>3, <2>1, LowestIs
  <2> QED BY <2>2 DEF Lowest
<1>6. after.at[s].type = "king"
  <2> HIDE DEF seen, after
  <2>1. t.pattern = IF after.at[s].type = "king" THEN "discovered check" ELSE "discovered attack"
    BY <1>2 DEF DiscoveryOf, Motif, seen
  <2> QED BY <2>1
<1>7. a \in Own(after, Other(after.turn))
  <2>1. IsCastling(b, m) => RookTo(m) # a
    BY <1>3, CastlingIs DEF Own
  <2>2. a \in Remains(b, m)
    BY <1>0, <1>3, <1>4, <2>1
  <2> QED BY <1>0, <1>1, <1>3, <1>4, <2>2, OthersAre DEF Own
<1>8. KingOf(after, after.turn) = s
  <2>1. PICK k \in Squares : IsKingOf(after, after.turn, k)
    BY <1>1 DEF IsValid, IsPosition
  <2>2. s = k
    BY <1>4, <1>5, <1>6, <2>1 DEF IsKingOf
  <2> HIDE DEF after, s
  <2> QED BY <2>1, <2>2, KingIs
<1>9. a \in Checkers(after)
  <2>1. s \in Attacks(after, a)
    BY <1>4, <1>5
  <2> HIDE DEF after, s
  <2> QED BY <1>7, <1>8, <2>1 DEF Checkers, Attackers
<1> QED BY <1>3, <1>9

(* A fork is not met by moving one of its targets: another stays.           *)
LEMMA ForksHold ==
    ASSUME NEW b, IsPosition(b), IsValid(b), NEW m \in LegalMoves(b),
           NEW t \in Fork(b, Push(b, m), m), NEW r \in LegalMoves(Push(b, m)),
           r.from \in t.squares
    PROVE  \E s \in t.squares \ {m.to, r.from} : s \in Own(Push(Push(b, m), r), Push(b, m).turn)
<1> DEFINE targets == ForkTargets(b, Push(b, m), m)
<1>1. PICK after : after = Push(b, m)
  OBVIOUS
<1>2. IsPosition(after) /\ IsValid(after) /\ b.turn \in Colors /\ EnPassantFits(b) /\ EnPassantFits(after)
  BY <1>1, PushIsValid DEF IsPosition, IsValid
<1>3. /\ after.turn = Other(b.turn) /\ m.to \in DOMAIN after.at /\ after.at[m.to].color = b.turn
  BY <1>1, <1>2, PushLeaves
<1>4. after.turn \in Colors /\ Other(after.turn) = b.turn /\ b.turn # after.turn
  BY <1>2, <1>3, OthersAre
<1>5. r \in LegalMoves(after) /\ r.from \in Own(after, after.turn) /\ r.from \in DOMAIN after.at
      /\ after.at[r.from].color = after.turn /\ r.to \in Squares
  BY <1>1, <1>2, LegalMovesAre DEF Own, AnyMove
<1>6. /\ t.squares = {m.to} \cup targets /\ ~(Cardinality(targets) < 2)
  BY DEF Fork, ForkOf, Motif
<1>7. targets \subseteq Attacks(after, m.to) \cap Own(after, after.turn)
  BY <1>1 DEF ForkTargets
<1> HIDE DEF targets
<1>8. r.from # m.to /\ r.from \in targets
  BY <1>3, <1>4, <1>5, <1>6
<1>9. PICK s \in targets : s # r.from
  <2> SUFFICES ASSUME targets \subseteq {r.from} PROVE FALSE
    OBVIOUS
  <2>1. targets = {r.from}
    BY <1>8
  <2>2. Cardinality(targets) = 1
    BY <2>1, FS_Singleton
  <2> QED BY <1>6, <2>2
<1>10. s \in Own(after, after.turn) /\ s # m.to /\ s \in DOMAIN after.at /\ after.at[s].color = after.turn
  BY <1>3, <1>4, <1>7 DEF Own
<1>11. ~IsCastling(after, r)
  <2> SUFFICES ASSUME IsCastling(after, r) PROVE FALSE
    OBVIOUS
  <2>1. after.at[r.from].type = "king" /\ r.to \in Castlings(after, r.from)
    BY <1>2, <1>5, LegalMovesAre DEF IsCastling
  <2>2. ~InCheck(after)
    BY <2>1 DEF Castlings
  <2>3. PICK k \in Squares : IsKingOf(after, after.turn, k)
    BY <1>2, <1>4 DEF IsValid
  <2>4. KingOf(after, after.turn) = r.from
    BY <1>5, <2>1, <2>3, KingIs DEF IsKingOf
  <2>5. m.to \in Checkers(after)
    BY <1>3, <1>4, <1>7, <1>8, <2>4 DEF Checkers, Attackers, Own
  <2> QED BY <2>2, <2>5 DEF InCheck
<1>12. s \in Remains(after, r)
  <2>1. s \notin Taken(after, r)
    BY <1>2, <1>4, <1>5, <1>10, NothingOwnIsTaken DEF Own
  <2> QED BY <1>9, <1>10, <1>11, <2>1 DEF Remains, Moved
<1>13. s \in DOMAIN Push(after, r).at /\ Push(after, r).at[s] = after.at[s]
  BY <1>2, <1>5, <1>12, PushLeaves
<1>14. s \in Own(Push(after, r), after.turn)
  BY <1>10, <1>13 DEF Own
<1> QED BY <1>1, <1>6, <1>9, <1>10, <1>14

(* The tactics of a move are real.                                          *)
LEMMA MovesAreReal ==
    ASSUME NEW b, IsPosition(b), IsValid(b), NEW m \in LegalMoves(b)
    PROVE  RealAfter(b, Push(b, m), m, LegalMoves(Push(b, m)))
<1>1. PICK after : after = Push(b, m)
  OBVIOUS
<1>2. IsPosition(after) /\ IsValid(after)
  BY <1>1, PushIsValid
<1> DEFINE replies == LegalMoves(after)
           kingMoves == {r \in replies : after.at[r.from].type = "king"}
<1>3. ASSUME DoubleCheck(after) # {}
      PROVE  replies = kingMoves
  <2>1. Cardinality(Checkers(after)) >= 2
    BY <1>3 DEF DoubleCheck
  <2>2. \E a, d \in Checkers(after) : a # d
    <3> SUFFICES ASSUME \A a, d \in Checkers(after) : a = d PROVE FALSE
      OBVIOUS
    <3>1. CASE Checkers(after) = {}
      BY <2>1, <3>1, FS_EmptySet
    <3>2. CASE Checkers(after) # {}
      <4>1. PICK a : Checkers(after) = {a}
        BY <3>2
      <4>2. Cardinality(Checkers(after)) = 1
        BY <4>1, FS_Singleton
      <4> QED BY <2>1, <4>2
    <3> QED BY <3>1, <3>2
  <2> QED BY <1>2, <2>2, OnlyTheKingMoves
<1>4. ASSUME BackRank(b, after, m) # {}
      PROVE  kingMoves = {}
  <2>1. InCheck(after) /\ Escapes(after) = {}
    BY <1>4 DEF BackRank
  <2> QED BY <1>2, <2>1, NowhereToGo
<1>5. \A t \in Discovered(b, after, m) :
        t.pattern = "discovered check" => Checkers(after) \ {m.to} # {}
  BY <1>1, DiscoveredChecks
<1>6. \A t \in Fork(b, after, m) : \A r \in replies :
        r.to # m.to /\ r.from \in t.squares
          => \E s \in t.squares \ {m.to, r.from} : s \in Own(Push(after, r), after.turn)
  BY <1>1, ForksHold
<1> HIDE DEF replies
<1>7. RealAfter(b, after, m, replies)
  BY <1>3, <1>4, <1>5, <1>6 DEF RealAfter
<1> QED BY <1>1, <1>7 DEF replies

(* A tactic that is named of a legal move in any valid position exists by   *)
(* the rules of the game (analysis/tactics.py).                             *)
THEOREM NamedTacticsAreReal == Spec => []TacticsAreReal
<1>1. CoachInv => TacticsAreReal
  <2> SUFFICES ASSUME CoachInv, NEW p \in Plies PROVE Real[rows[p].lesson]
    BY DEF TacticsAreReal
  <2>1. PICK n \in Lessons : n = rows[p].lesson
    BY DEF CoachInv, CoachTyped
  <2>2. PICK b : b = LessonOf[n].board
    OBVIOUS
  <2>3. IsPosition(b) /\ IsValid(b)
    BY <2>2, LessonsAssumption DEF IsLesson
  <2>4. \A m \in LegalMoves(b) : RealAfter(b, Push(b, m), m, LegalMoves(Push(b, m)))
    BY <2>3, MovesAreReal
  <2>5. Real[n] = \A m \in LegalMoves(LessonOf[n].board) :
          RealAfter(LessonOf[n].board, Push(LessonOf[n].board, m), m, LegalMoves(Push(LessonOf[n].board, m)))
    BY DEF Real
  <2> QED BY <2>1, <2>2, <2>4, <2>5
<1> QED BY <1>1, CoachStands, PTL

-----------------------------------------------------------------------------
(* Pieces, counted by type along a line.                                    *)

OfType(b, k) == {s \in DOMAIN b.at : b.at[s].type = k}
Promoted(line, k, n) == {i \in 1..n : line[i].promo = k}

(* The pieces of a type, counted by side.                                   *)
LEMMA OfTypeIs ==
    ASSUME NEW b, IsPosition(b), NEW c \in Colors, NEW k
    PROVE  /\ IsFiniteSet(OfType(b, k)) /\ Cardinality(OfType(b, k)) \in Nat
           /\ Count(b, c, k) + Count(b, Other(c), k) = Cardinality(OfType(b, k))
<1> DEFINE mine == {s \in Own(b, c) : b.at[s].type = k}
           theirs == {s \in Own(b, Other(c)) : b.at[s].type = k}
<1>1. OfType(b, k) \subseteq Squares
  BY DEF OfType, IsPosition
<1>2. mine \cup theirs = OfType(b, k) /\ mine \cap theirs = {}
  BY OthersAre DEF OfType, Own, IsPosition
<1>3. mine \subseteq Squares /\ theirs \subseteq Squares
  BY <1>1, <1>2
<1>4. IsFiniteSet(OfType(b, k)) /\ IsFiniteSet(mine) /\ IsFiniteSet(theirs)
  BY <1>1, <1>3, SquaresAre, FS_Subset
<1>5. Count(b, c, k) = Cardinality(mine) /\ Count(b, Other(c), k) = Cardinality(theirs)
  BY DEF Count
<1> HIDE DEF mine, theirs
<1>6. Cardinality(OfType(b, k)) \in Nat /\ Cardinality(mine) \in Nat /\ Cardinality(theirs) \in Nat
  BY <1>4, FS_CardinalityType
<1>7. Cardinality(mine \cup theirs) = Cardinality(mine) + Cardinality(theirs) - Cardinality({})
  BY <1>2, <1>4, FS_Union
<1>8. Cardinality({}) = 0
  BY FS_EmptySet
<1> QED BY <1>2, <1>4, <1>5, <1>6, <1>7, <1>8

(* Pieces of a type only become more by promotion, and fewer by being taken. *)
LEMMA MoveKeepsPieces ==
    ASSUME NEW b, IsPosition(b), IsValid(b), NEW m \in LegalMoves(b), NEW k \in Types
    PROVE  LET more == IF m.promo = k THEN 1 ELSE 0
               less == IF m.to \in OfType(b, k) THEN 1 ELSE 0
           IN  Cardinality(OfType(Push(b, m), k)) <= Cardinality(OfType(b, k)) + more - less
<1> DEFINE new == IF m.promo = k THEN {m.to} ELSE {}
           f(s) == IF s = m.to THEN m.from ELSE IF IsCastling(b, m) /\ s = RookTo(m) THEN RookFrom(m) ELSE s
<1>1. PICK after : after = Push(b, m)
  OBVIOUS
<1> DEFINE S == OfType(after, k) \ new
           T == OfType(b, k) \ {m.to}
           g == [s \in S |-> f(s)]
<1>2. IsPosition(after) /\ EnPassantFits(b) /\ b.turn \in Colors
  BY <1>1, PushIsValid DEF IsValid, IsPosition
<1>3. EnPassantFits(b)
  BY <1>2
<1>4. /\ DOMAIN after.at =
            Remains(b, m) \cup {m.to} \cup (IF IsCastling(b, m) THEN {RookTo(m)} ELSE {})
      /\ \A s \in Remains(b, m) : s # m.to /\ after.at[s] = b.at[s]
      /\ after.at[m.to].type = IF m.promo = "none" THEN b.at[m.from].type ELSE m.promo
      /\ IsCastling(b, m) =>
           RookTo(m) # m.to /\ after.at[RookTo(m)] = b.at[RookFrom(m)]
  BY <1>1, <1>3, PushLeaves
<1>5. m.from \in DOMAIN b.at /\ m.from # m.to
  BY LegalMovesAre DEF Own
<1>6. IsCastling(b, m) =>
        /\ RookFrom(m) \in DOMAIN b.at /\ RookFrom(m) # m.from /\ RookTo(m) \notin DOMAIN b.at
        /\ RookFrom(m) # m.to
  BY CastlingIs DEF Own
<1>7. \A s \in Remains(b, m) :
        s \in DOMAIN b.at /\ s # m.from /\ (IsCastling(b, m) => s # RookFrom(m))
  BY DEF Remains, Moved
<1>8. k # "none"
  BY DEF Types
<1>9. \A s \in S : f(s) \in T
  BY <1>4, <1>5, <1>6, <1>7, <1>8 DEF OfType
<1>10. \A s, t \in S : f(s) = f(t) => s = t
  BY <1>4, <1>5, <1>6, <1>7 DEF OfType
<1>11. IsFiniteSet(OfType(b, k)) /\ IsFiniteSet(OfType(after, k))
       /\ Cardinality(OfType(b, k)) \in Nat /\ Cardinality(OfType(after, k)) \in Nat
  BY <1>2, OfTypeIs
<1>12. new # {} => new = {m.to} /\ m.to \in OfType(after, k) /\ m.promo = k
  BY <1>4, <1>8 DEF OfType
<1>13. Cardinality(S) = Cardinality(OfType(after, k)) - (IF m.promo = k THEN 1 ELSE 0)
  <2>1. CASE m.promo = k
    <3>1. S = OfType(after, k) \ {m.to} /\ m.to \in OfType(after, k)
      BY <1>12, <2>1
    <3> HIDE DEF S
    <3> QED BY <1>11, <2>1, <3>1, FS_RemoveElement
  <2>2. CASE m.promo # k
    <3>1. S = OfType(after, k)
      BY <2>2
    <3> HIDE DEF S
    <3> QED BY <1>11, <2>2, <3>1
  <2> QED BY <2>1, <2>2
<1>14. /\ IsFiniteSet(T)
       /\ Cardinality(T) = Cardinality(OfType(b, k)) - (IF m.to \in OfType(b, k) THEN 1 ELSE 0)
  <2>1. Cardinality(T) = IF m.to \in OfType(b, k) THEN Cardinality(OfType(b, k)) - 1
                         ELSE Cardinality(OfType(b, k))
    BY <1>11, FS_RemoveElement
  <2>2. IsFiniteSet(T)
    BY <1>11, FS_RemoveElement
  <2> HIDE DEF T
  <2> QED BY <1>11, <2>1, <2>2
<1>15. g \in Injection(S, T)
  <2> HIDE DEF S, T, f
  <2>1. g \in [S -> T] /\ \A s, t \in S : g[s] = g[t] => s = t
    BY <1>9, <1>10
  <2> HIDE DEF g
  <2> QED BY <2>1 DEF Injection, IsInjective
<1>16. Cardinality(S) <= Cardinality(T)
  <2> HIDE DEF S, T, g
  <2> QED BY <1>14, <1>15, FS_Injection
<1> HIDE DEF S, T, g
<1> QED BY <1>1, <1>11, <1>13, <1>14, <1>16

(* Every position of a line is valid.                                       *)
LEMMA LinesAreValid ==
    ASSUME NEW b, IsPosition(b), IsValid(b), NEW line \in Seq(AnyMove), LegalLine(b, line)
    PROVE  \A i \in 0..Len(line) : IsPosition(Boards(b, line)[i]) /\ IsValid(Boards(b, line)[i])
<1> DEFINE n == Len(line)
           Bad == {i \in 0..n : ~IsValid(Boards(b, line)[i])}
<1>1. n \in Nat /\ DOMAIN line = 1..n
  BY LenProperties
<1>2. /\ Boards(b, line)[0] = b
      /\ \A i \in 1..n : Boards(b, line)[i] = Push(Boards(b, line)[i - 1], line[i])
  BY <1>1, BoardsAre
<1>3. \A i \in 0..n : IsPosition(Boards(b, line)[i])
  BY LinesArePositions
<1>4. Bad = {}
  <2> SUFFICES ASSUME Bad # {} PROVE FALSE
    OBVIOUS
  <2>1. Bad \in SUBSET Nat
    BY <1>1
  <2> HIDE DEF Bad
  <2>2. PICK k \in Bad : \A i \in Bad : k <= i
    BY <2>1, LowestIs
  <2> USE DEF Bad
  <2>3. k \in 1..n /\ k - 1 \in 0..n /\ k - 1 \notin Bad
    BY <1>1, <1>2, <2>2
  <2>4. IsValid(Boards(b, line)[k - 1]) /\ IsPosition(Boards(b, line)[k - 1])
    BY <1>3, <2>3
  <2>5. line[k] \in LegalMoves(Boards(b, line)[k - 1])
    BY <1>1, <2>3 DEF LegalLine
  <2>6. IsValid(Boards(b, line)[k])
    BY <1>2, <2>3, <2>4, <2>5, PushIsValid
  <2> QED BY <2>2, <2>6
<1> QED BY <1>3, <1>4

(* Promotions, counted along a line.                                        *)
LEMMA PromotedIs ==
    ASSUME NEW line, NEW k, NEW n \in Nat
    PROVE  /\ Cardinality(Promoted(line, k, n)) \in Nat
           /\ n > 0 => Cardinality(Promoted(line, k, n)) =
                Cardinality(Promoted(line, k, n - 1)) + IF line[n].promo = k THEN 1 ELSE 0
<1>1. ASSUME NEW i \in Nat
      PROVE  IsFiniteSet(Promoted(line, k, i)) /\ Cardinality(Promoted(line, k, i)) \in Nat
  <2>1. IsFiniteSet(1..i) /\ Promoted(line, k, i) \subseteq 1..i
    BY FS_Interval DEF Promoted
  <2>2. IsFiniteSet(Promoted(line, k, i))
    BY <2>1, FS_Subset
  <2> QED BY <2>2, FS_CardinalityType
<1>2. ASSUME n > 0
      PROVE  Cardinality(Promoted(line, k, n)) =
               Cardinality(Promoted(line, k, n - 1)) + IF line[n].promo = k THEN 1 ELSE 0
  <2>1. n - 1 \in Nat /\ n \notin Promoted(line, k, n - 1)
    BY <1>2 DEF Promoted
  <2>2. IsFiniteSet(Promoted(line, k, n - 1)) /\ Cardinality(Promoted(line, k, n - 1)) \in Nat
    BY <1>1, <2>1
  <2>3. CASE line[n].promo = k
    <3>1. Promoted(line, k, n) = Promoted(line, k, n - 1) \cup {n}
      BY <1>2, <2>3 DEF Promoted
    <3> QED BY <2>1, <2>2, <2>3, <3>1, FS_AddElement
  <2>4. CASE line[n].promo # k
    <3>1. Promoted(line, k, n) = Promoted(line, k, n - 1)
      BY <1>2, <2>4 DEF Promoted
    <3> QED BY <2>2, <2>4, <3>1
  <2> QED BY <2>3, <2>4
<1> QED BY <1>1, <1>2

(* One step: what it adds (d) and what it takes away (t).                   *)
LEMMA StepsAdd ==
    ASSUME NEW a \in Nat, NEW b \in Nat, NEW s \in Nat, NEW g \in Nat, NEW h \in Nat,
           NEW d \in {0, 1}, NEW t \in {0, 1}, b <= a + d - t, h = g + d
    PROVE  /\ a <= s + g => b <= s + h /\ (t = 1 => b <= s + h - 1)
           /\ a <= s + g - 1 => b <= s + h - 1
OBVIOUS

(* Sizes that grow by no more than is told, and once by less, end below.    *)
LEMMA OneLess ==
    ASSUME NEW n \in Nat, NEW j \in 1..n, NEW size \in [0..n -> Nat], NEW grown \in [0..n -> Nat],
           \A i \in 1..n : \E d, t \in {0, 1} :
              size[i] <= size[i - 1] + d - t /\ grown[i] = grown[i - 1] + d /\ (i = j => t = 1)
    PROVE  size[n] < size[0] + grown[n]
<1> DEFINE bound(i) == IF i >= j THEN size[0] + grown[i] - 1 ELSE size[0] + grown[i]
           Bad == {i \in 0..n : ~(size[i] <= bound(i))}
<1>1. Bad = {}
  <2> SUFFICES ASSUME Bad # {} PROVE FALSE
    OBVIOUS
  <2>1. Bad \in SUBSET Nat
    OBVIOUS
  <2> HIDE DEF Bad
  <2>2. PICK i \in Bad : \A x \in Bad : i <= x
    BY <2>1, LowestIs
  <2>3. i \in 0..n /\ ~(size[i] <= bound(i))
    BY <2>2 DEF Bad
  <2>4. /\ size[i] \in Nat /\ size[0] \in Nat /\ grown[i] \in Nat
    BY <2>3
  <2>5. i # 0
    BY <2>3, <2>4
  <2>6. i \in 1..n /\ i - 1 \in 0..n /\ i - 1 \in Nat
    BY <2>3, <2>5
  <2>7. i - 1 \notin Bad
    <3> HIDE DEF bound
    <3> QED BY <2>2, <2>6
  <2>8. size[i - 1] <= bound(i - 1)
    <3> HIDE DEF bound
    <3> QED BY <2>6, <2>7 DEF Bad
  <2>9. PICK d, t \in {0, 1} :
          size[i] <= size[i - 1] + d - t /\ grown[i] = grown[i - 1] + d /\ (i = j => t = 1)
    BY <2>6
  <2>10. size[i - 1] \in Nat /\ grown[i - 1] \in Nat
    BY <2>6
  <2>11. /\ size[i - 1] <= size[0] + grown[i - 1] =>
              size[i] <= size[0] + grown[i] /\ (t = 1 => size[i] <= size[0] + grown[i] - 1)
         /\ size[i - 1] <= size[0] + grown[i - 1] - 1 => size[i] <= size[0] + grown[i] - 1
    <3>1. \E a, c, o, g, h \in Nat :
            a = size[i - 1] /\ c = size[i] /\ o = size[0] /\ g = grown[i - 1] /\ h = grown[i]
      BY <2>4, <2>10
    <3>2. PICK a, c, o, g, h \in Nat :
            a = size[i - 1] /\ c = size[i] /\ o = size[0] /\ g = grown[i - 1] /\ h = grown[i]
      BY <3>1
    <3>3. c <= a + d - t /\ h = g + d
      BY <2>9, <3>2
    <3>4. /\ a <= o + g => c <= o + h /\ (t = 1 => c <= o + h - 1)
          /\ a <= o + g - 1 => c <= o + h - 1
      BY <3>3, StepsAdd
    <3> QED BY <3>2, <3>4
  <2>12. CASE i = j
    BY <2>3, <2>6, <2>8, <2>9, <2>11, <2>12
  <2>13. CASE i > j
    <3>1. i - 1 >= j /\ i >= j
      BY <2>6, <2>13
    <3> QED BY <2>3, <2>8, <2>11, <3>1
  <2>14. CASE i < j
    <3>1. ~(i - 1 >= j) /\ ~(i >= j)
      BY <2>6, <2>14
    <3> QED BY <2>3, <2>8, <2>11, <3>1
  <2> QED BY <2>6, <2>12, <2>13, <2>14
<1>2. size[n] <= bound(n)
  BY <1>1
<1> QED BY <1>2

(* Through a line there are never more pieces of a type than were there and *)
(* have promoted, and fewer once one has been taken.                        *)
LEMMA LineKeepsPieces ==
    ASSUME NEW b, IsPosition(b), IsValid(b), NEW line \in Seq(AnyMove), LegalLine(b, line), NEW k \in Types,
           NEW j \in DOMAIN line, line[j].to \in OfType(Boards(b, line)[j - 1], k)
    PROVE  Cardinality(OfType(Boards(b, line)[Len(line)], k))
             < Cardinality(OfType(b, k)) + Cardinality(Promoted(line, k, Len(line)))
<1>1. PICK n \in Nat : n = Len(line) /\ DOMAIN line = 1..n
  BY LenProperties
<1>2. PICK at : at = Boards(b, line)
  OBVIOUS
<1>3. /\ at[0] = b
      /\ \A i \in 1..n : at[i] = Push(at[i - 1], line[i]) /\ line[i] \in LegalMoves(at[i - 1])
  <2>1. Len(line) \in Nat
    BY <1>1
  <2>2. /\ at[0] = b
        /\ \A i \in 1..n : at[i] = Push(at[i - 1], line[i])
    BY <1>1, <1>2, <2>1, BoardsAre
  <2>3. \A i \in 1..n : line[i] \in LegalMoves(at[i - 1])
    BY <1>1, <1>2 DEF LegalLine
  <2> QED BY <2>2, <2>3
<1>4. \A i \in 0..n : IsPosition(at[i]) /\ IsValid(at[i])
  BY <1>1, <1>2, LinesAreValid
<1> DEFINE size == [i \in 0..n |-> Cardinality(OfType(at[i], k))]
           grown == [i \in 0..n |-> Cardinality(Promoted(line, k, i))]
<1>5. size \in [0..n -> Nat]
  <2> SUFFICES ASSUME NEW i \in 0..n PROVE Cardinality(OfType(at[i], k)) \in Nat
    OBVIOUS
  <2>1. IsPosition(at[i]) /\ at[i].turn \in Colors
    BY <1>4 DEF IsPosition
  <2> QED BY <2>1, OfTypeIs
<1>6. grown \in [0..n -> Nat]
  BY PromotedIs
<1>7. ASSUME NEW i \in 1..n
      PROVE  \E d, t \in {0, 1} :
               size[i] <= size[i - 1] + d - t /\ grown[i] = grown[i - 1] + d /\ (i = j => t = 1)
  <2> DEFINE d == IF line[i].promo = k THEN 1 ELSE 0
             t == IF line[i].to \in OfType(at[i - 1], k) THEN 1 ELSE 0
  <2>1. i - 1 \in 0..n /\ i \in Nat /\ i > 0 /\ i \in 0..n
    OBVIOUS
  <2>2. Cardinality(OfType(Push(at[i - 1], line[i]), k)) <= Cardinality(OfType(at[i - 1], k)) + d - t
    BY <1>3, <1>4, <2>1, MoveKeepsPieces
  <2>3. Cardinality(Promoted(line, k, i)) = Cardinality(Promoted(line, k, i - 1)) + d
    BY <2>1, PromotedIs
  <2>4. i = j => t = 1
    BY <1>2
  <2>5. size[i] <= size[i - 1] + d - t /\ grown[i] = grown[i - 1] + d
    BY <1>3, <2>1, <2>2, <2>3
  <2>6. d \in {0, 1} /\ t \in {0, 1}
    OBVIOUS
  <2> HIDE DEF d, t, size, grown
  <2> QED BY <2>4, <2>5, <2>6
<1>8. size[n] < size[0] + grown[n]
  <2> HIDE DEF size, grown
  <2> QED BY <1>1, <1>5, <1>6, <1>7, OneLess
<1>9. /\ size[n] = Cardinality(OfType(at[n], k)) /\ size[0] = Cardinality(OfType(at[0], k))
      /\ grown[n] = Cardinality(Promoted(line, k, n))
  OBVIOUS
<1> HIDE DEF size, grown
<1> QED BY <1>1, <1>2, <1>3, <1>8, <1>9

-----------------------------------------------------------------------------
(* What is said by rules: the kinds of messages.                            *)

LEMMA KindsAre ==
    /\ \A kind : Says(kind).kind = kind
    /\ \A kind, piece : SaysOf(kind, piece).kind = kind /\ SaysOf(kind, piece).piece = piece
    /\ \A kind, b, s : SaysAt(kind, b, s).kind = kind
BY DEF Says, SaysOf, SaysAt

IsSaid(x, kind) ==
    x = Says(kind) \/ (\E p : x = SaysOf(kind, p)) \/ (\E b, s : x = SaysAt(kind, b, s))
AreSaid(X, kinds) == \A x \in X : \E kind \in kinds : IsSaid(x, kind)

(* A message is of the kind that it is made of.                             *)
LEMMA SaidAre ==
    ASSUME NEW x, NEW kind, IsSaid(x, kind)
    PROVE  x.kind = kind
<1>1. CASE x = Says(kind)
  BY <1>1, KindsAre
<1>2. ASSUME NEW p, x = SaysOf(kind, p) PROVE x.kind = kind
  BY <1>2, KindsAre
<1>3. ASSUME NEW b, NEW s, x = SaysAt(kind, b, s) PROVE x.kind = kind
  BY <1>3, KindsAre
<1> QED BY <1>1, <1>2, <1>3 DEF IsSaid

(* First takes the first of the sets that says anything.                    *)
LEMMA FirstIs ==
    ASSUME NEW n \in Nat, NEW s, DOMAIN s = 1..n
    PROVE  /\ \A x \in First(s) : \E i \in 1..n : x \in s[i]
           /\ n > 0 /\ s[1] # {} => First(s) = s[1]
<1> DEFINE said == {i \in DOMAIN s : s[i] # {}}
<1>1. CASE said = {}
  BY <1>1 DEF First
<1>2. CASE said # {}
  <2>1. said \in SUBSET Nat
    OBVIOUS
  <2> DEFINE i == CHOOSE x \in said : \A j \in said : x <= j
  <2>2. i \in said /\ \A j \in said : i <= j
    <3> HIDE DEF said
    <3>1. \E x \in said : \A j \in said : x <= j
      BY <1>2, <2>1, LowestIs
    <3> QED BY <3>1
  <2>3. First(s) = s[i]
    BY <1>2 DEF First
  <2>4. n > 0 /\ s[1] # {} => i = 1
    <3> HIDE DEF i
    <3> QED BY <2>2
  <2> HIDE DEF i
  <2> QED BY <2>2, <2>3, <2>4
<1> QED BY <1>1, <1>2

(* What is said of the blunder, other than a missed mate.                   *)
LEMMA BlundersSay ==
    ASSUME NEW l
    PROVE  /\ (\A x \in MovedHangs(l) : x.kind = "hanging piece") /\ AreSaid(ExposesPiece(l), {"exposed piece"})
           /\ AreSaid(IgnoresThreat(l), {"ignored threat"}) /\ AreSaid(BadCapture(l), {"bad capture"})
           /\ AreSaid(LosesPawns(l), {"loss"})
<1>1. AreSaid(ExposesPiece(l), {"exposed piece"})
  BY DEF ExposesPiece, AreSaid, IsSaid
<1>2. AreSaid(IgnoresThreat(l), {"ignored threat"})
  BY DEF IgnoresThreat, AreSaid, IsSaid
<1>3. AreSaid(BadCapture(l), {"bad capture"})
  BY DEF BadCapture, AreSaid, IsSaid
<1>4. AreSaid(LosesPawns(l), {"loss"})
  BY DEF LosesPawns, AreSaid, IsSaid
<1>5. \A x \in MovedHangs(l) : x.kind = "hanging piece"
  BY DEF MovedHangs, SaysAt, SaysOf, Says
<1> QED BY <1>1, <1>2, <1>3, <1>4, <1>5

(* A missed mate is told when the better move mates, and only then.         *)
LEMMA MissedMateIs ==
    ASSUME NEW l
    PROVE  Says("missed mate") \in ExplainBlunder(l) <=> \E m \in l.best : GivesMate(l.board, m)
<1> DEFINE s == <<MissedMate(l), MovedHangs(l), ExposesPiece(l), IgnoresThreat(l), BadCapture(l), LosesPawns(l)>>
<1>1. DOMAIN s = 1..6 /\ 6 \in Nat /\ 6 > 0
  OBVIOUS
<1>2. /\ s[1] = MissedMate(l) /\ s[2] = MovedHangs(l) /\ s[3] = ExposesPiece(l)
      /\ s[4] = IgnoresThreat(l) /\ s[5] = BadCapture(l) /\ s[6] = LosesPawns(l)
  OBVIOUS
<1>3. ExplainBlunder(l) = First(s)
  BY DEF ExplainBlunder
<1>4. PICK x : x = Says("missed mate")
  OBVIOUS
<1>5. x.kind = "missed mate"
  BY <1>4, KindsAre
<1> HIDE DEF s
<1>6. CASE \E m \in l.best : GivesMate(l.board, m)
  <2>1. MissedMate(l) = {x}
    BY <1>4, <1>6 DEF MissedMate
  <2>2. s[1] # {}
    BY <1>2, <2>1
  <2>3. First(s) = s[1]
    BY <1>1, <2>2, FirstIs
  <2> QED BY <1>2, <1>3, <1>4, <1>6, <2>1, <2>3
<1>7. CASE ~\E m \in l.best : GivesMate(l.board, m)
  <2>1. ASSUME x \in ExplainBlunder(l) PROVE FALSE
    <3>1. PICK i \in 1..6 : x \in s[i]
      BY <1>1, <1>3, <2>1, FirstIs
    <3>2. x \notin MissedMate(l)
      BY <1>7 DEF MissedMate
    <3>3. \A X, kind : AreSaid(X, {kind}) /\ kind # "missed mate" => x \notin X
      BY <1>5, SaidAre DEF AreSaid
    <3>4. /\ x \notin MovedHangs(l) /\ x \notin ExposesPiece(l) /\ x \notin IgnoresThreat(l)
          /\ x \notin BadCapture(l) /\ x \notin LosesPawns(l)
      BY <1>5, <3>3, BlundersSay
    <3>5. i = 1 \/ i = 2 \/ i = 3 \/ i = 4 \/ i = 5 \/ i = 6
      OBVIOUS
    <3> QED BY <1>2, <3>1, <3>2, <3>4, <3>5
  <2> QED BY <1>4, <1>7, <2>1
<1> QED BY <1>6, <1>7

Wins == {"wins by combination", "wins by pattern", "line wins piece"}
OfLines == {"line mates"} \cup Wins
OfPositions ==
    {"capture with check", "check", "check wins hanging", "check with pattern", "discovers",
     "takes hanging", "pattern", "saves piece", "wins piece", "threatens mate",
     "threatens capture with check", "creates threat", "attacks piece", "avoids loss", "is best"}

(* What is said of the position says nothing of the line.                   *)
LEMMA StaticKinds ==
    ASSUME NEW l, NEW m, NEW after
    PROVE  AreSaid(Static(l, m, after), OfPositions)
<1>1. CASE InCheck(after)
  <2>1. Static(l, m, after) = OfCheck(l, m, after)
    BY <1>1 DEF Static
  <2>2. AreSaid(OfCheck(l, m, after), OfPositions)
    BY DEF OfCheck, AreSaid, IsSaid, OfPositions
  <2> QED BY <2>1, <2>2
<1>2. CASE ~InCheck(after)
  <2> DEFINE threats == Threatens(after, NewlyAttacked(l, after), PushNull(after))
             s == <<OfPattern(l, m), Retreats(l, m, after), Captures(l, m), threats, AvoidsLoss(l)>>
  <2>1. DOMAIN s = 1..5 /\ 5 \in Nat
    OBVIOUS
  <2>2. /\ s[1] = OfPattern(l, m) /\ s[2] = Retreats(l, m, after) /\ s[3] = Captures(l, m)
        /\ s[4] = threats /\ s[5] = AvoidsLoss(l)
    OBVIOUS
  <2>3. Static(l, m, after) = First(s)
    BY <1>2 DEF Static
  <2>4. AreSaid(OfPattern(l, m), OfPositions)
    <3>1. CASE l.pattern = "none"
      BY <3>1 DEF OfPattern, AreSaid, IsSaid, OfPositions
    <3>2. CASE l.pattern \in {"discovered attack", "discovered check"}
      BY <3>2 DEF OfPattern, AreSaid, IsSaid, OfPositions
    <3>3. CASE l.pattern = "hanging piece"
      BY <3>3 DEF OfPattern, AreSaid, IsSaid, OfPositions
    <3>4. CASE l.pattern \notin {"none", "discovered attack", "discovered check", "hanging piece"}
      BY <3>4 DEF OfPattern, AreSaid, IsSaid, OfPositions
    <3> QED BY <3>1, <3>2, <3>3, <3>4
  <2>5. AreSaid(Retreats(l, m, after), OfPositions)
    BY DEF Retreats, AreSaid, IsSaid, OfPositions
  <2>6. AreSaid(Captures(l, m), OfPositions)
    BY DEF Captures, AreSaid, IsSaid, OfPositions
  <2>7. AreSaid(threats, OfPositions)
    <3>1. ASSUME NEW null, NEW move, NEW sign
          PROVE  AreSaid(Threat(null, move, sign), OfPositions)
      <4>1. \/ Threat(null, move, sign) = {} \/ Threat(null, move, sign) = {Says("threatens mate")}
            \/ \E p : Threat(null, move, sign) = {SaysOf("threatens capture with check", p)}
            \/ \E p : Threat(null, move, sign) = {SaysOf("creates threat", p)}
        BY DEF Threat
      <4> QED BY <4>1 DEF AreSaid, IsSaid, OfPositions
    <3>2. AreSaid(NullThreats(PushNull(after)), OfPositions)
      BY <3>1 DEF NullThreats, AreSaid
    <3>3. \A S : OneOf(S) \subseteq S
      BY DEF OneOf
    <3>4. \/ threats \subseteq NullThreats(PushNull(after))
          \/ \E p : threats = {SaysOf("attacks piece", p)}
      BY <3>3 DEF Threatens
    <3> HIDE DEF threats
    <3> QED BY <3>2, <3>4 DEF AreSaid, IsSaid, OfPositions
  <2>8. AreSaid(AvoidsLoss(l), OfPositions)
    <3>1. AvoidsLoss(l) = {Says("avoids loss")} \/ AvoidsLoss(l) = {Says("is best")}
      BY DEF AvoidsLoss
    <3> QED BY <3>1 DEF AreSaid, IsSaid, OfPositions
  <2>9. \A i \in 1..5 : i = 1 \/ i = 2 \/ i = 3 \/ i = 4 \/ i = 5
    OBVIOUS
  <2> HIDE DEF threats, s
  <2>10. \A x \in First(s) : \E i \in 1..5 : x \in s[i]
    BY <2>1, FirstIs
  <2> QED BY <2>2, <2>3, <2>4, <2>5, <2>6, <2>7, <2>8, <2>9, <2>10 DEF AreSaid
<1> QED BY <1>1, <1>2

(* What is told of the line.                                                *)
LEMMA FromLineIs ==
    ASSUME NEW l, NEW m, NEW w, NEW x \in FromLine(l, m, w), Len(l.bestLine) \in Nat
    PROVE  /\ x.kind = "line mates" =>
                w.mates /\ Len(l.bestLine) >= 2 /\ x.moves = Len(l.bestLine) \div 2 + 1
           /\ x.kind \in Wins => w.gain >= 1 /\ w.won # "none" /\ x.piece = w.won
<1>1. ~(Len(l.bestLine) < 2)
  BY DEF FromLine
<1>2. CASE w.mates
  <2>1. x = MateInLine(l.bestLine)
    BY <1>1, <1>2 DEF FromLine
  <2>2. MateInLine(l.bestLine) = [Says("line mates") EXCEPT !.moves = Len(l.bestLine) \div 2 + 1]
    <3>1. \A len \in Nat : ~(len < 2) => ~(len \div 2 + 1 <= 1)
      OBVIOUS
    <3>2. ~(Len(l.bestLine) \div 2 + 1 <= 1)
      BY <1>1, <3>1
    <3> QED BY <3>2 DEF MateInLine
  <2>3. x.kind = "line mates" /\ x.moves = Len(l.bestLine) \div 2 + 1
    BY <2>1, <2>2 DEF Says
  <2>4. x.kind \notin Wins
    BY <2>3 DEF Wins
  <2>5. Len(l.bestLine) >= 2
    BY <1>1
  <2> QED BY <1>2, <2>3, <2>4, <2>5
<1>3. CASE ~w.mates /\ ~(w.gain >= 1 /\ w.won # "none")
  <2>1. x.kind = "combination"
    BY <1>1, <1>3, KindsAre DEF FromLine
  <2> QED BY <2>1 DEF Wins
<1>4. CASE ~w.mates /\ w.gain >= 1 /\ w.won # "none"
  <2>1. \E kind \in Wins : x = SaysOf(kind, w.won)
    BY <1>1, <1>4 DEF FromLine, Wins
  <2>2. x.kind \in Wins /\ x.piece = w.won
    BY <2>1, KindsAre
  <2> QED BY <1>4, <2>2 DEF Wins
<1> QED BY <1>2, <1>3, <1>4

(* What is said of the line comes from the line.                            *)
LEMMA ComparisonIs ==
    ASSUME NEW l, NEW x \in ExplainBest(l), x.kind \in OfLines, Len(l.bestLine) \in Nat
    PROVE  \E m \in l.best : x \in FromLine(l, m, Walk(Boards(l.board, l.bestLine), l.bestLine))
<1>1. PICK m \in l.best :
        x \in IF GivesMate(l.board, m) THEN {Says("checkmate")}
              ELSE First(<<FromLine(l, m, Walk(Boards(l.board, l.bestLine), l.bestLine)),
                           Static(l, m, Push(l.board, m))>>)
  BY DEF ExplainBest
<1>2. x # Says("checkmate")
  <2>1. Says("checkmate").kind = "checkmate"
    BY KindsAre
  <2> QED BY <2>1 DEF OfLines, Wins
<1> DEFINE s == <<FromLine(l, m, Walk(Boards(l.board, l.bestLine), l.bestLine)),
                  Static(l, m, Push(l.board, m))>>
<1>3. x \in First(s)
  BY <1>1, <1>2
<1>4. DOMAIN s = 1..2 /\ 2 \in Nat
  OBVIOUS
<1>5. /\ s[1] = FromLine(l, m, Walk(Boards(l.board, l.bestLine), l.bestLine))
      /\ s[2] = Static(l, m, Push(l.board, m))
  OBVIOUS
<1> HIDE DEF s
<1>6. PICK i \in 1..2 : x \in s[i]
  BY <1>3, <1>4, FirstIs
<1>7. x \notin Static(l, m, Push(l.board, m))
  BY StaticKinds, SaidAre DEF AreSaid, OfPositions, OfLines, Wins
<1>8. i = 1 \/ i = 2
  OBVIOUS
<1> QED BY <1>5, <1>6, <1>7, <1>8

-----------------------------------------------------------------------------
(* The piece that a line wins.                                              *)

(* The best of finitely many values, and the first to have it.              *)
LEMMA BestOf ==
    ASSUME NEW S \in SUBSET Nat, S # {}, NEW f \in [S -> 0..9]
    PROVE  \E i \in S : \A j \in S : f[i] > f[j] \/ (f[i] = f[j] /\ i <= j)
<1> DEFINE V == {9 - f[i] : i \in S}
<1>1. V \in SUBSET Nat /\ V # {}
  <2>1. \A i \in S : 9 - f[i] \in Nat
    <3> SUFFICES ASSUME NEW i \in S PROVE 9 - f[i] \in Nat
      OBVIOUS
    <3>1. f[i] \in 0..9
      OBVIOUS
    <3> QED BY <3>1
  <2> QED BY <2>1
<1> HIDE DEF V
<1>2. PICK v \in V : \A u \in V : v <= u
  BY <1>1, LowestIs
<1> DEFINE T == {i \in S : 9 - f[i] = v}
<1>3. T \in SUBSET Nat /\ T # {}
  BY <1>2 DEF V
<1> HIDE DEF T
<1>4. PICK i \in T : \A j \in T : i <= j
  BY <1>3, LowestIs
<1>5. i \in S /\ 9 - f[i] = v
  BY <1>4 DEF T
<1>6. ASSUME NEW j \in S
      PROVE  f[i] > f[j] \/ (f[i] = f[j] /\ i <= j)
  <2>1. v <= 9 - f[j]
    BY <1>2 DEF V
  <2>2. f[j] \in 0..9 /\ f[i] \in 0..9
    BY <1>5
  <2>3. CASE f[i] = f[j]
    <3>1. j \in T
      BY <1>5, <2>3 DEF T
    <3> QED BY <1>4, <2>3, <3>1
  <2> QED BY <1>5, <2>1, <2>2, <2>3
<1> QED BY <1>5, <1>6

(* The piece that is told to be won was taken.                              *)
LEMMA WonIs ==
    ASSUME NEW b, IsPosition(b), IsValid(b), NEW line \in Seq(AnyMove), LegalLine(b, line),
           Walk(Boards(b, line), line).won # "none"
    PROVE  \E j \in DOMAIN line :
             /\ line[j].to \in DOMAIN Boards(b, line)[j - 1].at
             /\ Walk(Boards(b, line), line).won = Boards(b, line)[j - 1].at[line[j].to].type
<1>1. PICK at : at = Boards(b, line)
  OBVIOUS
<1>2. PICK n \in Nat : n = Len(line) /\ DOMAIN line = 1..n
  BY LenProperties
<1> DEFINE mine == Takes(at, line, at[0].turn)
           worth == [i \in mine |-> Worth[TakenAt(at, line, i)]]
           i == CHOOSE i \in mine : \A j \in mine :
                  Worth[TakenAt(at, line, i)] > Worth[TakenAt(at, line, j)]
                    \/ (Worth[TakenAt(at, line, i)] = Worth[TakenAt(at, line, j)] /\ i <= j)
<1>3. Walk(at, line).won = IF mine = {} THEN "none" ELSE TakenAt(at, line, i)
  BY DEF Walk
<1>4. mine # {}
  <2> HIDE DEF mine, i
  <2> QED BY <1>1, <1>3
<1>5. mine \in SUBSET Nat /\ \A j \in mine : j \in DOMAIN line /\ line[j].to \in DOMAIN at[j - 1].at
  BY <1>2 DEF Takes
<1>6. worth \in [mine -> 0..9]
  <2> SUFFICES ASSUME NEW j \in mine PROVE Worth[TakenAt(at, line, j)] \in 0..9
    OBVIOUS
  <2>1. j - 1 \in 0..n
    BY <1>2, <1>5
  <2>2. IsPosition(at[j - 1])
    BY <1>1, <1>2, <2>1, LinesArePositions
  <2>3. TakenAt(at, line, j) \in Types
    <3>1. line[j].to \in DOMAIN at[j - 1].at
      BY <1>5
    <3> HIDE DEF mine
    <3> QED BY <2>2, <3>1 DEF IsPosition, TakenAt
  <2> HIDE DEF mine
  <2> QED BY <2>3 DEF Worth, Types
<1>7. \E x \in mine : \A j \in mine : worth[x] > worth[j] \/ (worth[x] = worth[j] /\ x <= j)
  <2> HIDE DEF mine, worth
  <2> QED BY <1>4, <1>5, <1>6, BestOf
<1>8. i \in mine
  <2>1. \E x \in mine : \A j \in mine :
           Worth[TakenAt(at, line, x)] > Worth[TakenAt(at, line, j)]
             \/ (Worth[TakenAt(at, line, x)] = Worth[TakenAt(at, line, j)] /\ x <= j)
    <3> HIDE DEF mine
    <3> QED BY <1>7
  <2> HIDE DEF mine
  <2> QED BY <2>1
<1>9. Walk(at, line).won = TakenAt(at, line, i)
  <2> HIDE DEF mine, i
  <2> QED BY <1>3, <1>4
<1> HIDE DEF i, mine
<1> QED BY <1>1, <1>5, <1>8, <1>9 DEF TakenAt

-----------------------------------------------------------------------------
(* Whose moves a mate takes, and what the texts tell.                       *)

(* The sides move in turn.                                                  *)
LEMMA TurnsAlternate ==
    ASSUME NEW b, IsPosition(b), NEW line \in Seq(AnyMove), LegalLine(b, line)
    PROVE  \A i \in 0..Len(line) :
             Boards(b, line)[i].turn = IF i % 2 = 0 THEN b.turn ELSE Other(b.turn)
<1>1. PICK n \in Nat : n = Len(line) /\ DOMAIN line = 1..n
  BY LenProperties
<1>2. PICK at : at = Boards(b, line)
  OBVIOUS
<1>3. at[0] = b /\ \A i \in 1..n : at[i] = Push(at[i - 1], line[i])
  <2>1. Len(line) \in Nat
    BY <1>1
  <2> QED BY <1>1, <1>2, <2>1, BoardsAre
<1>4. \A i \in 1..n : at[i].turn = Other(at[i - 1].turn)
  <2>1. \A p, m : Push(p, m).turn = Other(p.turn)
    BY DEF Push
  <2> QED BY <1>3, <2>1
<1>5. b.turn \in Colors /\ Other(Other(b.turn)) = b.turn
  BY OthersAre DEF IsPosition
<1> DEFINE Bad == {i \in 0..n : at[i].turn # IF i % 2 = 0 THEN b.turn ELSE Other(b.turn)}
<1>6. Bad = {}
  <2> SUFFICES ASSUME Bad # {} PROVE FALSE
    OBVIOUS
  <2>1. Bad \in SUBSET Nat
    OBVIOUS
  <2> HIDE DEF Bad
  <2>2. PICK k \in Bad : \A i \in Bad : k <= i
    BY <2>1, LowestIs
  <2>3. k \in 0..n /\ at[k].turn # IF k % 2 = 0 THEN b.turn ELSE Other(b.turn)
    BY <2>2 DEF Bad
  <2>4. k # 0
    BY <1>3, <2>3
  <2>5. k \in 1..n /\ k - 1 \in 0..n /\ k - 1 \notin Bad
    BY <2>2, <2>3, <2>4
  <2>6. at[k - 1].turn = IF (k - 1) % 2 = 0 THEN b.turn ELSE Other(b.turn)
    BY <2>5 DEF Bad
  <2>7. (k - 1) % 2 = 0 <=> k % 2 # 0
    BY <2>5
  <2> QED BY <1>4, <1>5, <2>3, <2>5, <2>6, <2>7
<1> QED BY <1>1, <1>2, <1>6

(* Every other move of an odd line is the side that begins.                 *)
LEMMA OddNumbers ==
    ASSUME NEW n \in Nat, n % 2 = 1
    PROVE  Cardinality({i \in 1..n : (i - 1) % 2 = 0}) = n \div 2 + 1
<1>1. PICK h \in Nat : n = 2 * h + 1 /\ n \div 2 = h
  OBVIOUS
<1> DEFINE S == 1..(h + 1)
           T == {i \in 1..n : (i - 1) % 2 = 0}
           f == [i \in S |-> 2 * i - 1]
<1>2. f \in [S -> T]
  <2> SUFFICES ASSUME NEW i \in S PROVE 2 * i - 1 \in T
    OBVIOUS
  <2>1. 2 * i - 1 \in 1..n
    BY <1>1
  <2>2. (2 * i - 1 - 1) % 2 = 0
    OBVIOUS
  <2> QED BY <2>1, <2>2
<1>3. \A x, y \in S : f[x] = f[y] => x = y
  OBVIOUS
<1>4. \A y \in T : \E x \in S : f[x] = y
  <2> SUFFICES ASSUME NEW y \in T PROVE \E x \in S : f[x] = y
    OBVIOUS
  <2>1. PICK x \in Nat : y = 2 * x + 1
    <3>1. y \in Nat /\ y >= 1 /\ (y - 1) % 2 = 0
      OBVIOUS
    <3> HIDE DEF T, S, f
    <3>2. y - 1 = 2 * ((y - 1) \div 2) /\ (y - 1) \div 2 \in Nat
      BY <3>1
    <3>3. y = 2 * ((y - 1) \div 2) + 1
      BY <3>1, <3>2
    <3> QED BY <3>2, <3>3
  <2>2. x + 1 \in S /\ f[x + 1] = y
    BY <1>1, <2>1
  <2> QED BY <2>2
<1>5. IsFiniteSet(S) /\ Cardinality(S) = h + 1
  <2>1. 1 \in Int /\ h + 1 \in Int /\ ~(1 > h + 1) /\ (h + 1) - 1 + 1 = h + 1
    OBVIOUS
  <2> QED BY <2>1, FS_Interval
<1>6. Cardinality(T) = Cardinality(S)
  <2> HIDE DEF S, T, f
  <2> QED BY <1>2, <1>3, <1>4, <1>5, SameSize
<1> QED BY <1>1, <1>5, <1>6

(* The balance of a position is a number.                                   *)
LEMMA BalanceIs ==
    ASSUME NEW b, IsPosition(b), NEW c \in Colors
    PROVE  Balance(b, c) \in Int
<1>1. \A d, k : Count(b, d, k) \in Nat
  <2> SUFFICES ASSUME NEW d, NEW k PROVE Count(b, d, k) \in Nat
    OBVIOUS
  <2>1. {s \in Own(b, d) : b.at[s].type = k} \subseteq Squares
    BY DEF Own, IsPosition
  <2>2. IsFiniteSet({s \in Own(b, d) : b.at[s].type = k})
    BY <2>1, SquaresAre, FS_Subset
  <2> QED BY <2>2, FS_CardinalityType DEF Count
<1>2. \A d : Material(b, d) \in Int
  BY <1>1 DEF Material
<1> QED BY <1>2 DEF Balance

(* A line ends with the mate in it.                                         *)
LEMMA MateEnds ==
    ASSUME NEW b, NEW line \in Seq(AnyMove), LegalLine(b, line), NEW i \in DOMAIN line,
           IsCheckmate(Boards(b, line)[i])
    PROVE  i = Len(line)
<1>1. PICK n \in Nat : n = Len(line) /\ DOMAIN line = 1..n
  BY LenProperties
<1> SUFFICES ASSUME i # n PROVE FALSE
  BY <1>1
<1>2. i + 1 \in DOMAIN line /\ (i + 1) - 1 = i
  BY <1>1
<1>3. line[i + 1] \in LegalMoves(Boards(b, line)[(i + 1) - 1])
  BY <1>2 DEF LegalLine
<1> QED BY <1>2, <1>3 DEF IsCheckmate

(* A mate that is told of the line ends it; when the player mates, it is in *)
(* so many of his moves.                                                    *)
LEMMA LineMates ==
    ASSUME NEW l, IsLesson(l), Walk(Boards(l.board, l.bestLine), l.bestLine).mates
    PROVE  LET at == Boards(l.board, l.bestLine)
               n == Len(l.bestLine)
           IN  /\ IsCheckmate(at[n])
               /\ at[n].turn # l.board.turn =>
                    Cardinality({i \in DOMAIN l.bestLine : at[i - 1].turn = l.board.turn}) = n \div 2 + 1
<1>1. PICK b, line : b = l.board /\ line = l.bestLine
  OBVIOUS
<1>2. PICK at : at = Boards(b, line)
  OBVIOUS
<1>3. /\ IsPosition(b) /\ line \in Seq(AnyMove) /\ LegalLine(b, line)
  BY <1>1, <1>2 DEF IsLesson
<1>4. PICK n \in Nat : n = Len(line) /\ DOMAIN line = 1..n
  BY <1>3, LenProperties
<1>5. PICK i \in DOMAIN line : IsCheckmate(at[i])
  BY <1>1, <1>2 DEF Walk
<1>6. i = n
  BY <1>2, <1>3, <1>4, <1>5, MateEnds
<1>7. IsCheckmate(at[n])
  BY <1>5, <1>6
<1> SUFFICES ASSUME at[n].turn # b.turn
             PROVE  Cardinality({k \in 1..n : at[k - 1].turn = b.turn}) = n \div 2 + 1
  BY <1>1, <1>2, <1>4, <1>7
<1>8. \A k \in 0..n : at[k].turn = IF k % 2 = 0 THEN b.turn ELSE Other(b.turn)
  BY <1>2, <1>3, <1>4, TurnsAlternate
<1>9. n % 2 = 1
  <2>1. n % 2 # 0
    BY <1>8
  <2> QED BY <2>1
<1>10. Other(b.turn) # b.turn
  BY <1>3, OthersAre DEF IsPosition
<1>11. {k \in 1..n : at[k - 1].turn = b.turn} = {k \in 1..n : (k - 1) % 2 = 0}
  <2>1. \A k \in 1..n : k - 1 \in 0..n
    OBVIOUS
  <2> QED BY <1>8, <1>10, <2>1
<1>12. Cardinality({k \in 1..n : at[k - 1].turn = b.turn}) = n \div 2 + 1
  BY <1>9, <1>11, OddNumbers
<1> QED BY <1>12

(* A piece that is told to be won by the line is gone at its end, unless    *)
(* another has promoted, and the player is better off.                      *)
LEMMA LineWins ==
    ASSUME NEW l, IsLesson(l), NEW w, w = Walk(Boards(l.board, l.bestLine), l.bestLine),
           w.gain >= 1, w.won # "none"
    PROVE  LET end == Boards(l.board, l.bestLine)[Len(l.bestLine)]
               me == l.board.turn
           IN  /\ Balance(end, me) > Balance(l.board, me)
               /\ Count(end, end.turn, w.won) + Count(end, Other(end.turn), w.won)
                    < Count(l.board, me, w.won) + Count(l.board, Other(me), w.won)
                        + Cardinality({i \in DOMAIN l.bestLine : l.bestLine[i].promo = w.won})
<1>1. PICK b, line : b = l.board /\ line = l.bestLine
  OBVIOUS
<1>2. PICK at : at = Boards(b, line)
  OBVIOUS
<1>3. /\ IsPosition(b) /\ IsValid(b) /\ line \in Seq(AnyMove) /\ LegalLine(b, line)
      /\ b.turn \in Colors
  BY <1>1 DEF IsLesson, IsPosition
<1>4. PICK n \in Nat : n = Len(line) /\ DOMAIN line = 1..n
  BY <1>3, LenProperties
<1>5. IsPosition(at[n]) /\ at[n].turn \in Colors
  <2>1. n \in 0..n
    OBVIOUS
  <2> QED BY <1>2, <1>3, <1>4, <2>1, LinesArePositions DEF IsPosition
<1>6. at[0] = b
  BY <1>2, <1>4, BoardsAre
<1>7. Balance(at[n], b.turn) > Balance(b, b.turn)
  <2>1. w.gain = Balance(at[n], b.turn) - Balance(b, b.turn)
    BY <1>1, <1>2, <1>4, <1>6 DEF Walk
  <2>2. Balance(at[n], b.turn) \in Int /\ Balance(b, b.turn) \in Int
    BY <1>3, <1>5, BalanceIs
  <2> QED BY <2>1, <2>2
<1>8. PICK j \in DOMAIN line :
        line[j].to \in DOMAIN at[j - 1].at /\ w.won = at[j - 1].at[line[j].to].type
  BY <1>1, <1>2, <1>3, WonIs
<1>9. w.won \in Types
  <2>1. j - 1 \in 0..n
    BY <1>4
  <2>2. IsPosition(at[j - 1])
    BY <1>2, <1>3, <1>4, <2>1, LinesArePositions
  <2> QED BY <1>8, <2>2 DEF IsPosition
<1>10. line[j].to \in OfType(at[j - 1], w.won)
  BY <1>8 DEF OfType
<1>11. Cardinality(OfType(at[n], w.won)) < Cardinality(OfType(b, w.won)) + Cardinality(Promoted(line, w.won, n))
  BY <1>2, <1>3, <1>4, <1>9, <1>10, LineKeepsPieces
<1>12. /\ Count(at[n], at[n].turn, w.won) + Count(at[n], Other(at[n].turn), w.won)
            = Cardinality(OfType(at[n], w.won))
       /\ Count(b, b.turn, w.won) + Count(b, Other(b.turn), w.won) = Cardinality(OfType(b, w.won))
  BY <1>3, <1>5, OfTypeIs
<1>13. Promoted(line, w.won, n) = {i \in DOMAIN line : line[i].promo = w.won}
  BY <1>4 DEF Promoted
<1> QED BY <1>1, <1>2, <1>4, <1>7, <1>11, <1>12, <1>13

(* What the prompt tells of the reply, checks and captures happens.         *)
LEMMA ToldHappens ==
    ASSUME NEW l, IsLesson(l)
    PROVE  LET told == PromptOf(l, FactsOf(l)).told
               happens == HappensIn(l, LineSteps(l))
           IN  /\ "reply" \in told <=> PromptOf(l, FactsOf(l)).hints[2] # "none: invent nothing"
               /\ told \cap {"check", "checks"} # {} => "check" \in happens
               /\ told \cap {"capture", "captures"} # {} => "capture" \in happens
<1>1. PICK f : f = FactsOf(l)
  OBVIOUS
<1>2. PICK happens : happens = HappensIn(l, LineSteps(l))
  OBVIOUS
<1>3. PromptOf(l, f).told = Told(f) /\ PromptOf(l, f).hints[2] = RefutationHint(l.refutation)
  BY DEF PromptOf
<1>4. f.reply = Reply(l)
  BY <1>1, FactsAre
<1>5. "reply" \in Told(f) <=> f.reply.type # "none"
  BY DEF Told
<1>6. /\ "check" \in Told(f) => f.reply.check
      /\ "capture" \in Told(f) => f.reply.capture
      /\ "checks" \in Told(f) => f.lineChecks > 0
      /\ "captures" \in Told(f) => f.lineCaptures > 0
  BY DEF Told
<1>7. Reply(l).type # "none" <=> l.refutation # <<>>
  <2>1. CASE l.refutation = <<>>
    BY <2>1 DEF Reply, NoReply
  <2>2. CASE l.refutation # <<>>
    <3>1. Reply(l).type = ReplyType(After(l), l.refutation[1])
      BY <2>2 DEF Reply, ReplyOf
    <3> QED BY <2>2, <3>1 DEF ReplyType
  <2> QED BY <2>1, <2>2
<1>8. RefutationHint(l.refutation) # "none: invent nothing" <=> l.refutation # <<>>
  <2>1. CASE l.refutation = <<>>
    <3>1. Len(l.refutation) # 1 /\ Len(l.refutation) \notin {2, 3}
      BY <2>1
    <3> QED BY <2>1, <3>1 DEF RefutationHint
  <2>2. CASE l.refutation # <<>>
    BY <2>2 DEF RefutationHint
  <2> QED BY <2>1, <2>2
<1>9. PICK x \in Lines(l) : x = <<After(l), l.refutation>>
  BY DEF Lines
<1>10. /\ f.lineChecks > 0 => "check" \in happens
       /\ f.lineCaptures > 0 => "capture" \in happens
  <2>1. f.lineChecks = LineStats(x[1], x[2]).checks /\ f.lineCaptures = LineStats(x[1], x[2]).captures
    BY <1>1, <1>9, FactsAre
  <2> QED BY <1>2, <2>1, CountedHappens
<1>11. /\ f.reply.check => "check" \in happens
       /\ f.reply.capture => "capture" \in happens
  BY <1>2, <1>4, ReplyHappens
<1>12. "reply" \in Told(f) <=> RefutationHint(l.refutation) # "none: invent nothing"
  BY <1>4, <1>5, <1>7, <1>8
<1>13. /\ Told(f) \cap {"check", "checks"} # {} => "check" \in happens
       /\ Told(f) \cap {"capture", "captures"} # {} => "capture" \in happens
  BY <1>6, <1>10, <1>11
<1> QED BY <1>1, <1>2, <1>3, <1>12, <1>13

(* What is worked out of a lesson is so.                                    *)
LEMMA LessonsAreTrue ==
    ASSUME NEW l, IsLesson(l)
    PROVE  TrueOf(l, KnownOf(l), HappensIn(l, LineSteps(l)), Boards(l.board, l.bestLine))
<1>1. PICK known : known = KnownOf(l)
  OBVIOUS
<1>2. PICK at : at = Boards(l.board, l.bestLine)
  OBVIOUS
<1>3. PICK happens : happens = HappensIn(l, LineSteps(l))
  OBVIOUS
<1> DEFINE end == at[Len(l.bestLine)]
           me == l.board.turn
           told == known.prompt.told
<1>4. known.prompt = PromptOf(l, FactsOf(l)) /\ known.explained = Explain(l)
  BY <1>1 DEF KnownOf, KnownFrom
<1>5. known.explained.consequence = ExplainBlunder(l) /\ known.explained.comparison = ExplainBest(l)
  BY <1>4 DEF Explain
<1>6. /\ "reply" \in told <=> known.prompt.hints[2] # "none: invent nothing"
      /\ told \cap {"check", "checks"} # {} => "check" \in happens
      /\ told \cap {"capture", "captures"} # {} => "capture" \in happens
  BY <1>3, <1>4, ToldHappens
<1>7. Says("missed mate") \in known.explained.consequence <=> \E m \in l.best : GivesMate(l.board, m)
  BY <1>5, MissedMateIs
<1>8. Len(l.bestLine) \in Nat
  BY LenProperties DEF IsLesson
<1>9. ASSUME NEW x \in known.explained.comparison, x.kind = "line mates"
      PROVE  /\ IsCheckmate(end)
             /\ end.turn # me => x.moves = Cardinality({i \in DOMAIN l.bestLine : at[i - 1].turn = me})
  <2>1. PICK m \in l.best : x \in FromLine(l, m, Walk(at, l.bestLine))
    BY <1>2, <1>5, <1>8, <1>9, ComparisonIs DEF OfLines
  <2>2. Walk(at, l.bestLine).mates /\ x.moves = Len(l.bestLine) \div 2 + 1
    BY <1>8, <1>9, <2>1, FromLineIs
  <2> QED BY <1>2, <2>2, LineMates
<1>10. ASSUME NEW x \in known.explained.comparison, x.kind \in Wins
       PROVE  /\ Balance(end, me) > Balance(l.board, me)
              /\ Count(end, end.turn, x.piece) + Count(end, Other(end.turn), x.piece)
                   < Count(l.board, me, x.piece) + Count(l.board, Other(me), x.piece)
                       + Cardinality({i \in DOMAIN l.bestLine : l.bestLine[i].promo = x.piece})
  <2>1. PICK w : w = Walk(at, l.bestLine)
    OBVIOUS
  <2>2. PICK m \in l.best : x \in FromLine(l, m, w)
    BY <1>2, <1>5, <1>8, <1>10, <2>1, ComparisonIs DEF OfLines
  <2>3. w.gain >= 1 /\ w.won # "none" /\ x.piece = w.won
    BY <1>8, <1>10, <2>2, FromLineIs
  <2> QED BY <1>2, <2>1, <2>3, LineWins
<1>11. TrueOf(l, known, happens, at)
  <2> HIDE DEF Wins
  <2>1. Wins = {"wins by combination", "wins by pattern", "line wins piece"}
    BY DEF Wins
  <2> QED BY <1>6, <1>7, <1>9, <1>10, <2>1 DEF TrueOf
<1> QED BY <1>1, <1>2, <1>3, <1>11

(* What the prompt tells of checks and captures happens on the board, and   *)
(* what is said by rules of mates and of pieces won is so, for any lessons. *)
THEOREM ExplanationsStayTrue == Spec => []ExplanationsAreTrue
<1>1. CoachInv => ExplanationsAreTrue
  <2> SUFFICES ASSUME CoachInv, NEW p \in Plies, NEW n \in Shows(rows[p].lesson) PROVE True[n]
    BY DEF ExplanationsAreTrue
  <2>1. rows[p].lesson \in Lessons
    BY DEF CoachInv, CoachTyped
  <2>2. n \in Lessons
    BY <2>1, LessonsAssumption DEF Shows
  <2>3. PICK l : l = LessonOf[n]
    OBVIOUS
  <2>4. IsLesson(l)
    BY <2>2, <2>3, LessonsAssumption
  <2>5. Known[n] = KnownOf(l) /\ Happens[n] = HappensIn(l, LineSteps(l))
    BY <2>2, <2>3, KnownIs DEF Happens
  <2>6. TrueOf(l, KnownOf(l), HappensIn(l, LineSteps(l)), Boards(l.board, l.bestLine))
    BY <2>4, LessonsAreTrue
  <2>7. True[n] = TrueOf(LessonOf[n], Known[n], Happens[n], Boards(LessonOf[n].board, LessonOf[n].bestLine))
    BY <2>2 DEF True
  <2> QED BY <2>3, <2>5, <2>6, <2>7
<1> QED BY <1>1, CoachStands, PTL
=============================================================================
