------------------------------ MODULE Library ------------------------------
(***************************************************************************)
(* The library of one user: the profiles on a platform that are tracked,   *)
(* their ratings, and the games imported for them (repositories/profile.py,*)
(* web/api/profiles.py and its helpers, background/jobs/import_games.py,   *)
(* sync_games.py and stats_sync.py, repositories/game_repository.py).  The *)
(* platform goes on having games played while the jobs fetch them, as      *)
(* module GameFetch tells; nothing here relates two platforms.             *)
(*                                                                         *)
(* Foreign keys are off on these connections, and a profile gets the id    *)
(* after the highest there is: ids are used again.  A transaction is one   *)
(* step, since write_transaction holds the lock of the file throughout.    *)
(***************************************************************************)
EXTENDS GameFetch

CONSTANTS
    Ids,       \* 1..n; bound: profiles at once
    Names,     \* user names on the platform
    Players,   \* the one or two of Names that play a game
    Quotas,    \* values of sync_max_games that are asked for
    Default,   \* the general sync_max_games
    Mixes,     \* bound: what one behaviour draws from: jobs, operations, who asks
    Jobs,      \* bound: jobs in progress at once
    Requests   \* bound: HTTP requests in progress at once

Nobody == "-"

ASSUME LibraryAssumption ==
    /\ Cardinality(Ids) \in Nat /\ Ids = 1..Cardinality(Ids) /\ Nobody \notin Names
    /\ Players \in [Games -> SUBSET Names]
    /\ Quotas \subseteq Nat /\ Default \in Nat \ {0}

VARIABLES
    mix,      \* the jobs, operations and requests of this behaviour
    profile,  \* profile and profile_preferences, by id
    ratings,  \* profile_stats: the name whose numbers the rows hold
    game,     \* game_index_cache: username and profile_id (0: NULL) of each row
    played,   \* the games the platform shows
    job,      \* the jobs in progress
    fetch,    \* and how far each has got with its fetch
    req,      \* the requests in progress
    called,   \* history: the names the profile of an id has had
    overrun,  \* history: ids whose profile was deleted under a job
    excused   \* history: games that a fetch had a reason to pass over (Excuse), and
              \* deleted games

history == <<called, overrun, excused>>
work == <<job, fetch>>
vars == <<mix, profile, ratings, game, played, work, req, history>>

Gone == [name |-> "-", max |-> 0]
NoRow == [name |-> Nobody, pid |-> 0]
Tracked == {i \in Ids : profile[i] # Gone}
Named(n) == {i \in Tracked : profile[i].name = n}
JobIdle == [kind |-> "none", at |-> "idle", pid |-> 0, name |-> Nobody, since |-> Always]
ReqIdle == [op |-> "none", at |-> "idle", pid |-> 0, name |-> Nobody, max |-> 0]

Init ==
    /\ mix \in Mixes
    /\ \E n \in Names : profile = [i \in Ids |-> IF i = 1 THEN [name |-> n, max |-> 0] ELSE Gone]
    /\ ratings = [i \in Ids |-> Nobody]
    /\ game = [g \in Games |-> NoRow] /\ played = {}
    /\ job = [j \in Jobs |-> JobIdle] /\ fetch = [j \in Jobs |-> Fresh(0)]
    /\ req = [r \in Requests |-> ReqIdle]
    /\ called = [i \in Ids |-> {profile[i].name} \ {Nobody}] /\ overrun = {} /\ excused = {}

\* A game ends, and the platform shows it: on lichess, which tells nothing of
\* the ends, in any order.
OnChesscom == "chesscom" \in mix
Play(g) ==
    /\ g \notin played /\ "play" \in mix
    /\ OnChesscom => \A h \in Games \ played : End[g] <= End[h]
    /\ played' = played \cup {g}
    /\ UNCHANGED <<profile, ratings, game, work, req, history>>

(* Profiles.                                                                *)

ReqGoto(r, at) == req' = [req EXCEPT ![r].at = at]
ReqEnds(r) == req' = [req EXCEPT ![r] = ReqIdle]

\* create_profile: a duplicate is refused before the platform is asked.
CreateFind(r) ==
    /\ req[r] = ReqIdle /\ {r, "create"} \subseteq mix
    /\ \E n \in Names :
        /\ Named(n) = {}
        /\ req' = [req EXCEPT ![r] = [ReqIdle EXCEPT !.op = "create", !.at = "ask", !.name = n]]
    /\ UNCHANGED <<profile, ratings, game, played, work, history>>

\* ensure_upstream_username_exists raises 502, 503 or 422, or does not.
CreateAsk(r) ==
    /\ req[r].op = "create" /\ req[r].at = "ask"
    /\ ReqEnds(r) \/ ReqGoto(r, "insert")
    /\ UNCHANGED <<profile, ratings, game, played, work, history>>

\* The INSERT gives the id after the highest; a name that was taken meanwhile
\* raises IntegrityError.
NewId == IF Tracked = {} THEN 1 ELSE Max(Tracked) + 1
CreateInsert(r) ==
    /\ req[r].op = "create" /\ req[r].at = "insert"
    /\ LET n == req[r].name
       IN  IF Named(n) # {} THEN UNCHANGED <<profile, called>>
           ELSE /\ NewId \in Ids
                /\ profile' = [profile EXCEPT ![NewId] = [name |-> n, max |-> 0]]
                /\ called' = [called EXCEPT ![NewId] = {n}]
    /\ ReqEnds(r)
    /\ UNCHANGED <<ratings, game, played, work, overrun, excused>>

\* update_profile: the profile is read, and a new name is looked for among the
\* others; the platform's answer to it decides nothing.  Nobody: no new name.
PatchRead(r) ==
    /\ req[r] = ReqIdle /\ {r, "patch"} \subseteq mix
    /\ \E i \in Tracked, n \in Names \cup {Nobody}, q \in Quotas :
        /\ Named(n) \subseteq {i}
        /\ req' = [req EXCEPT ![r] = [op |-> "patch", at |-> "write", pid |-> i, name |-> n, max |-> q]]
    /\ UNCHANGED <<profile, ratings, game, played, work, history>>

\* update: not found, or taken meanwhile, or renamed.
PatchWrite(r) ==
    /\ req[r].op = "patch" /\ req[r].at = "write"
    /\ LET i == req[r].pid
           n == req[r].name
       IN  IF i \notin Tracked \/ ~(Named(n) \subseteq {i})
           THEN ReqEnds(r) /\ UNCHANGED <<profile, called>>
           ELSE /\ profile' = [profile EXCEPT ![i].name = IF n = Nobody THEN @ ELSE n]
                /\ called' = [called EXCEPT ![i] = @ \cup ({n} \ {Nobody})]
                /\ ReqGoto(r, "preferences")
    /\ UNCHANGED <<ratings, game, played, work, overrun, excused>>

\* update_preferences; 0 clears the profile's own number.
PatchPreferences(r) ==
    /\ req[r].op = "patch" /\ req[r].at = "preferences"
    /\ IF req[r].pid \notin Tracked THEN UNCHANGED profile
       ELSE profile' = [profile EXCEPT ![req[r].pid].max = req[r].max]
    /\ ReqEnds(r)
    /\ UNCHANGED <<ratings, game, played, work, history>>

\* Faulty: the schema's CASCADE is trusted.
PurgedByCascade(i) == UNCHANGED ratings
\* _purge_profile_rows: no CASCADE does this.
Purged(i) == ratings' = [ratings EXCEPT ![i] = Nobody]

\* delete: the games are detached, or deleted with all that hangs on them.
Delete(i) ==
    /\ i \in Tracked /\ "delete" \in mix
    /\ \E detach \in BOOLEAN :
         LET of == {g \in Games : game[g] # NoRow /\ game[g].pid = i}
         IN  /\ game' = [g \in Games |-> IF g \notin of THEN game[g]
                                         ELSE IF detach THEN [game[g] EXCEPT !.pid = 0] ELSE NoRow]
             /\ excused' = IF detach THEN excused ELSE excused \cup of
    /\ profile' = [profile EXCEPT ![i] = Gone]
    /\ Purged(i)
    /\ overrun' = IF \E j \in Jobs : job[j].pid = i /\ job[j].at # "read" THEN overrun \cup {i} ELSE overrun
    /\ UNCHANGED <<played, work, req, called>>

(* Jobs: import, sync, and the refresh of the ratings.                      *)

JobEnds(j) == job' = [job EXCEPT ![j] = JobIdle] /\ fetch' = [fetch EXCEPT ![j] = Fresh(0)]
JobGoto(j, at) == job' = [job EXCEPT ![j].at = at]
MaxOf(i) == IF profile[i].max = 0 THEN Default ELSE profile[i].max

\* A manual import, the scheduler's sync or its refresh of a profile, or an
\* import by name from the page for bulk imports, which belongs to no profile.
\* (auto_sync_enabled only tells whether the scheduler may: it always may here.)
Start(j) ==
    /\ job[j] = JobIdle /\ j \in mix
    /\ \E kind \in {"import", "sync", "stats", "bulk"} \cap mix :
        \/ /\ kind # "bulk" /\ UNCHANGED fetch
           /\ \E i \in Tracked :
                job' = [job EXCEPT ![j] = [JobIdle EXCEPT !.kind = kind, !.at = "read", !.pid = i]]
        \/ /\ kind = "bulk" /\ fetch' = [fetch EXCEPT ![j] = Fresh(Default)]
           /\ \E n \in Names :
                job' = [job EXCEPT ![j] = [JobIdle EXCEPT !.kind = kind, !.at = "fetch", !.name = n]]
    /\ UNCHANGED <<profile, ratings, game, played, req, history>>

ReadProfile(j) ==
    /\ job[j].at = "read"
    /\ LET i == job[j].pid
       IN  IF i \notin Tracked THEN JobEnds(j)
           ELSE /\ job' = [job EXCEPT ![j].name = profile[i].name,
                                      ![j].at = IF job[j].kind = "sync" THEN "since" ELSE "fetch"]
                /\ fetch' = [fetch EXCEPT ![j] = Fresh(MaxOf(i))]
    /\ UNCHANGED <<profile, ratings, game, played, req, history>>

\* Faulty: the latest game of the platform, whose ever it is.
LatestOfAll(n) ==
    LET times == {InPgn(At[g]) : g \in {h \in Games : game[h] # NoRow}}
    IN  IF times = {} THEN Always ELSE Max(times)
\* get_latest_game_time, by name.
Latest(n) ==
    LET times == {InPgn(At[g]) : g \in {h \in Games : game[h].name = n}}
    IN  IF times = {} THEN Always ELSE Max(times)
ReadSince(j) ==
    /\ job[j].at = "since"
    /\ job' = [job EXCEPT ![j].since = Latest(job[j].name), ![j].at = "fetch"]
    /\ UNCHANGED <<fetch, profile, ratings, game, played, req, history>>

\* A sync begins where the latest stored game of the name was begun; what it
\* reaches is counted by the beginning of a game on lichess, by its end on
\* chess.com.
Of(n) == {g \in Games : n \in Players[g]}
Reached(g) == IF OnChesscom THEN End[g] ELSE InPgn(At[g])

\* Some games are added (_try_add_game, tick_remaining).  Those that no later sync
\* will reach are noted if the quota is used up or there is another excuse.
Add(j, some, until, months, excuse) ==
    LET got  == fetch[j].got \cup some
        left == fetch[j].left - Cardinality(some)
        lost == {g \in Of(job[j].name) \ got : \E h \in got : InPgn(At[h]) > Reached(g)}
    IN  fetch' = [fetch EXCEPT ![j] =
            [got |-> got, left |-> left, until |-> until, months |-> months,
             skip |-> fetch[j].skip \cup {g \in lost : left = 0 \/ g \in excuse}]]

\* A page of lichess passes over games that are not over yet, and those of a second
\* of which it shows others.
Excuse(page, until) ==
    {g \in Games : /\ NextUntil(page) < At[g] /\ At[g] <= until
                   /\ g \notin played \/ \E h \in page : InPgn(At[h]) = InPgn(At[g])}

FetchPage(j) ==
    /\ job[j].at = "fetch" /\ job[j].kind # "stats" /\ ~OnChesscom
    /\ LET f == fetch[j]
           offered == {g \in played \cap Of(job[j].name) : job[j].since <= At[g] /\ At[g] <= f.until}
       IN  \E page \in Newest(offered, At, Min({Batch, f.left})) :
             /\ Add(j, page, NextUntil(page), {}, Excuse(page, f.until))
             /\ JobGoto(j, IF page = {} \/ fetch'[j].left = 0 THEN "store" ELSE "fetch")
    /\ UNCHANGED <<profile, ratings, game, played, req, history>>

\* chess.com tells which months have games of the player.
FetchArchives(j) ==
    /\ job[j].at = "fetch" /\ job[j].kind # "stats" /\ OnChesscom
    /\ LET months == {MonthOf(End[g]) : g \in played \cap Of(job[j].name)}
       IN  fetch' = [fetch EXCEPT ![j].months = ArchivesSince(months, job[j].since)]
    /\ JobGoto(j, IF fetch'[j].months = {} THEN "store" ELSE "archive")
    /\ UNCHANGED <<profile, ratings, game, played, req, history>>

\* An archive is read backwards (_passes_initial_filter, _process_archive).
FetchArchive(j) ==
    /\ job[j].at = "archive"
    /\ LET f == fetch[j]
           month == Max(f.months)
           offered == {g \in played \cap Of(job[j].name) : MonthOf(End[g]) = month /\ job[j].since <= End[g]}
       IN  \E some \in Newest(offered, End, f.left) :
             /\ Add(j, some, f.until, f.months \ {month}, {})
             /\ JobGoto(j, IF fetch'[j].months = {} \/ fetch'[j].left = 0 THEN "store" ELSE "archive")
    /\ UNCHANGED <<profile, ratings, game, played, req, history>>

FetchRatings(j) ==
    /\ job[j].at = "fetch" /\ job[j].kind = "stats"
    /\ JobGoto(j, "store")
    /\ UNCHANGED <<fetch, profile, ratings, game, played, req, history>>
\* After four attempts, or at once for another status; what was fetched is lost.
FetchFails(j) ==
    /\ job[j].at \in {"fetch", "archive"} /\ JobEnds(j)
    /\ UNCHANGED <<profile, ratings, game, played, req, history>>

\* insert_games: a game that is there stays as it is, and is not counted.
Store(j) ==
    /\ job[j].at = "store" /\ job[j].kind # "stats"
    /\ game' = [g \in Games |-> IF g \in fetch[j].got /\ game[g] = NoRow
                                THEN [name |-> job[j].name, pid |-> job[j].pid] ELSE game[g]]
    /\ excused' = excused \cup fetch[j].skip
    /\ JobEnds(j)
    /\ UNCHANGED <<profile, ratings, played, req, called, overrun>>
\* upsert_stats raises when the profile is gone.
StoreRatings(j) ==
    /\ job[j].at = "store" /\ job[j].kind = "stats"
    /\ ratings' = IF job[j].pid \in Tracked THEN [ratings EXCEPT ![job[j].pid] = job[j].name] ELSE ratings
    /\ JobEnds(j)
    /\ UNCHANGED <<profile, game, played, req, history>>

Work(j) ==
    \/ ReadProfile(j) \/ ReadSince(j) \/ FetchPage(j) \/ FetchArchives(j) \/ FetchArchive(j)
    \/ FetchRatings(j) \/ Store(j) \/ StoreRatings(j)
Serve(r) == CreateFind(r) \/ CreateAsk(r) \/ CreateInsert(r) \/ PatchRead(r) \/ PatchWrite(r) \/ PatchPreferences(r)
Next ==
    /\ mix' = mix
    /\ \/ \E g \in Games : Play(g)
       \/ \E j \in Jobs : Start(j) \/ Work(j) \/ FetchFails(j)
       \/ \E r \in Requests : Serve(r)
       \/ \E i \in Ids : Delete(i)

Spec == Init /\ [][Next]_vars
-----------------------------------------------------------------------------
\* Whatever is renamed, deleted and made anew while jobs run, a game and a
\* rating that carry a profile's id were fetched for a name this profile has
\* had.  Only an id whose profile was deleted under a running job may be found
\* on rows that are not its own, and be given to a new profile with them
\* (insert_games and upsert_stats take the id the job began with).
TagsAreTrue ==
    \A i \in Ids \ overrun :
        /\ ratings[i] # Nobody => i \in Tracked /\ ratings[i] \in called[i]
        /\ \A g \in Games : game[g] # NoRow /\ game[g].pid = i =>
              i \in Tracked /\ game[g].name \in called[i]

\* The games of a name have no hole: a missing one that no sync will reach any
\* more was left out by a quota, or deleted or, on lichess only, was still going
\* on when one begun later was fetched, or was begun in a second that a page of
\* the fetch cut in two (SyncGamesJob, both fetch loops).
NoHole ==
    \A n \in Names, g \in played \ excused :
        n \in Players[g] /\ game[g] = NoRow => Latest(n) <= Reached(g)
=============================================================================
