----------------------------- MODULE GameFetch -----------------------------
(***************************************************************************)
(* What the two platforms answer when the games of a player are asked for, *)
(* and how far a fetch has got (fetchers/lichess.py, fetchers/chesscom.py, *)
(* fetchers/_state.py): page by page or archive by archive, from the       *)
(* newest game to the oldest, until a quota is used up.                    *)
(***************************************************************************)
EXTENDS Integers, FiniteSets, FiniteSetsExt

CONSTANTS
    Games,     \* bound: games that are ever played
    At, End,   \* when each of them is begun and is over, in ticks
    Unbounded, \* stands for until is None: no game is begun later
    Second,    \* ticks (milliseconds) in a second
    Month,     \* ticks in a month: chess.com has an archive for each
    Batch      \* games on a page of lichess (batch_size)

ASSUME FetchAssumption ==
    /\ {Second, Month, Batch} \subseteq Nat \ {0} /\ Unbounded \in Nat
    /\ IsFiniteSet(Games) /\ At \in [Games -> 1..Unbounded] /\ End \in [Games -> Nat]
    /\ \A g \in Games : At[g] <= End[g]

\* What the PGN tells of a time.
InPgn(t) == t - (t % Second)
MonthOf(t) == t \div Month

\* since is None: games are begun from 1 on.
Always == 0

\* FetchState, and where the next request goes: what was fetched, what is left of
\* the quota, when the next page ends, which archives are still to be read.
\* skip is history: the games that were passed over for a reason.
Fresh(quota) == [got |-> {}, left |-> quota, until |-> Unbounded, months |-> {}, skip |-> {}]

\* What a request for n games out of some may bring: the newest, in any order
\* among those of one time.
Newest(some, time, n) ==
    {p \in SUBSET some :
        /\ Cardinality(p) <= n /\ (p # some => Cardinality(p) = n)
        /\ \A g \in p, h \in some \ p : time[g] >= time[h]}

\* The next page ends a millisecond before the second of the oldest game seen
\* (_min_optional); after an empty page there is none.
NextUntil(page) == IF page = {} THEN -1 ELSE Min({InPgn(At[g]) : g \in page}) - 1

\* Faulty: the month of the latest game is taken for done.
ArchivesAfter(months, since) == {m \in months : m > MonthOf(since)}
\* _filter_archives_since.
ArchivesSince(months, since) == {m \in months : m >= MonthOf(since)}
=============================================================================
