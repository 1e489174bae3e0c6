---------------------------- MODULE ResponseCache ---------------------------
(***************************************************************************)
(* The cache of one user's aggregate responses (cache/backend.py,          *)
(* cache/decorator.py) and the invalidator that empties it of a tag when   *)
(* an event says its data has changed (cache/invalidation.py).  The data   *)
(* is changed by operations that differ in what they change and in what    *)
(* they announce, and when.                                                *)
(*                                                                         *)
(* Of an answer only one thing is kept: whether the data of its tag has    *)
(* changed since it was computed.  Its age is counted in parts of the time *)
(* to live.                                                                *)
(***************************************************************************)
EXTENDS Naturals, Sequences

CONSTANTS
    Cached,    \* cached requests
    TagOf,     \* the tag each is cached under
    Readers,   \* requests in progress
    Kinds,     \* the operations of this instance
    TTL,       \* an entry older than this has expired
    MaxOps     \* bound: operations begun

\* What an operation changes.  Analysis finds traps too; a profile is deleted
\* with its games.
Changes ==
    [analyze         |-> {"stats", "traps"},
     import          |-> {"stats", "elo_rating"},
     backfill_traps  |-> {"traps"},
     delete_all_data |-> {"stats", "traps", "training", "elo_rating"},
     delete_profile  |-> {"stats", "elo_rating"},
     submit_move     |-> {"training"}]

\* What it announces when it is through: complete_job announces the statistics
\* of any job, and the ratings of a job of the games.
Announces ==
    [analyze         |-> <<"stats">>,
     import          |-> <<"stats", "elo_rating">>,
     backfill_traps  |-> <<"stats", "traps">>,
     delete_all_data |-> <<"stats", "elo_rating">>,
     delete_profile  |-> <<"elo_rating">>,
     submit_move     |-> <<"training">>]

\* Those that can fail half way: the others are one transaction.
Jobs == {"analyze", "import", "backfill_traps", "delete_all_data"}

ASSUME ResponseCacheAssumption ==
    /\ Kinds \subseteq DOMAIN Changes
    /\ TagOf \in [Cached -> UNION {Changes[k] : k \in DOMAIN Changes}]
    /\ TTL \in Nat /\ MaxOps \in Nat

Tags == {TagOf[k] : k \in Cached}
Miss == [old |-> FALSE, age |-> TTL + 2]  \* no entry
AtRest == [key |-> "none"]

VARIABLES
    store,     \* InMemoryCacheBackend._store
    tag_index, \* its _tag_index
    reader,    \* what each request is doing
    underway,  \* operations begun and not through
    wrote,     \* the tags each has changed so far
    ops,       \* operations begun
    news,      \* the invalidator's queue on the bus
    late,      \* history: keys whose entry was computed before an invalidation
    silent     \* history: tags changed with no event to come

cache == <<store, tag_index>>
work  == <<underway, wrote, ops>>
past  == <<late, silent>>
cacheVars == <<cache, reader, work, news, past>>

Announced(o) == {Announces[o][n] : n \in DOMAIN Announces[o]}
Live(k) == store[k].age <= TTL

CacheInit ==
    /\ store = [k \in Cached |-> Miss] /\ tag_index = [t \in Tags |-> {}]
    /\ reader = [r \in Readers |-> AtRest]
    /\ underway = {} /\ wrote = [o \in Kinds |-> {}] /\ ops = 0
    /\ news = <<>>
    /\ late = {} /\ silent = {}
-----------------------------------------------------------------------------
(* The backend.  Its methods never wait.                                    *)

\* An entry that has expired stays until the next request for it.
RemoveKey(k) ==
    /\ store' = [store EXCEPT ![k] = Miss]
    /\ tag_index' = [t \in Tags |-> tag_index[t] \ {k}]

\* set: the key goes out of the index it may be in, then in again.
RemoveThenIndex(k) ==
    tag_index' = [t \in Tags |-> IF t = TagOf[k] THEN tag_index[t] \cup {k} ELSE tag_index[t] \ {k}]

InvalidateTags(ts) ==
    LET gone == UNION {tag_index[t] : t \in ts}
    IN /\ store' = [k \in Cached |-> IF k \in gone THEN Miss ELSE store[k]]
       /\ tag_index' = [t \in Tags |-> IF t \in ts THEN {} ELSE tag_index[t]]

\* What was read before an invalidation is not undone by it.
Overtaken(ts) ==
    /\ reader' = [r \in Readers |->
                    IF reader[r] # AtRest /\ TagOf[reader[r].key] \in ts
                      THEN [reader[r] EXCEPT !.late = reader[r].step = "read"]
                      ELSE reader[r]]
    /\ late' = {k \in late : TagOf[k] \notin ts}
    /\ silent' = silent \ ts
-----------------------------------------------------------------------------
(* A cached request: get, compute, set.                                     *)

\* A hit answers and leaves the entry as it is; the faulty variant renews it.
Renews(k) == store' = [store EXCEPT ![k].age = 0] /\ UNCHANGED tag_index
LeavesIt(k) == UNCHANGED cache

Hit(k) ==
    /\ Live(k)
    /\ LeavesIt(k)
    /\ UNCHANGED <<reader, work, news, past>>

GetMisses(r, k) ==
    /\ reader[r] = AtRest
    /\ ~Live(k)
    /\ RemoveKey(k)
    /\ reader' = [reader EXCEPT ![r] = [key |-> k, step |-> "asked", old |-> FALSE, late |-> FALSE]]
    /\ late' = late \ {k}
    /\ UNCHANGED <<work, news, silent>>

Compute(r) ==
    /\ reader[r] # AtRest /\ reader[r].step = "asked"
    /\ reader' = [reader EXCEPT ![r].step = "read"]
    /\ UNCHANGED <<cache, work, news, past>>

\* An exception goes through, and nothing is cached.
ComputeRaises(r) ==
    /\ reader[r] # AtRest /\ reader[r].step = "asked"
    /\ reader' = [reader EXCEPT ![r] = AtRest]
    /\ UNCHANGED <<cache, work, news, past>>

Set(r) ==
    /\ reader[r] # AtRest /\ reader[r].step = "read"
    /\ LET k == reader[r].key
       IN /\ store' = [store EXCEPT ![k] = [old |-> reader[r].old, age |-> 0]]
          /\ RemoveThenIndex(k)
          /\ late' = IF reader[r].late THEN late \cup {k} ELSE late \ {k}
    /\ reader' = [reader EXCEPT ![r] = AtRest]
    /\ UNCHANGED <<work, news, silent>>

Tick ==
    /\ \E k \in Cached : Live(k)
    /\ store' = [k \in Cached |-> IF Live(k) THEN [store[k] EXCEPT !.age = @ + 1] ELSE store[k]]
    /\ UNCHANGED <<tag_index, reader, work, news, past>>
-----------------------------------------------------------------------------
(* The invalidator, and the operations.                                     *)

Invalidate ==
    /\ news # <<>>
    /\ LET ts == {Head(news)} \cap Tags IN InvalidateTags(ts) /\ Overtaken(ts)
    /\ news' = Tail(news)
    /\ UNCHANGED work

\* POST /api/cache/clear.
Clear ==
    /\ InvalidateTags(Tags)
    /\ Overtaken(Tags)
    /\ UNCHANGED <<work, news>>

\* The wipe of all data clears the cache when it is asked for: it runs later.
Begin(o) ==
    /\ o \notin underway /\ ops < MaxOps
    /\ underway' = underway \cup {o} /\ ops' = ops + 1
    /\ IF o = "delete_all_data"
         THEN InvalidateTags(Tags) /\ Overtaken(Tags)
         ELSE UNCHANGED <<cache, reader, past>>
    /\ UNCHANGED <<wrote, news>>

\* One of its commits: what was computed before it is old.
Write(o, t) ==
    /\ o \in underway
    /\ t \in Changes[o] \cap Tags
    /\ wrote' = [wrote EXCEPT ![o] = @ \cup {t}]
    /\ store' = [k \in Cached |-> IF TagOf[k] = t /\ store[k] # Miss
                                 THEN [store[k] EXCEPT !.old = TRUE] ELSE store[k]]
    /\ reader' = [r \in Readers |->
                    IF reader[r] # AtRest /\ TagOf[reader[r].key] = t
                      THEN [reader[r] EXCEPT !.old = reader[r].step = "read"]
                      ELSE reader[r]]
    /\ silent' = IF t \in Announced(o) THEN silent ELSE silent \cup {t}
    /\ UNCHANGED <<tag_index, underway, ops, news, late>>

Ends(o) ==
    /\ underway' = underway \ {o}
    /\ wrote' = [wrote EXCEPT ![o] = {}]

\* The events of complete_job, or of the handler.  The faulty variant forgets
\* those that come after the first.
FirstOf(o) == news' = Append(news, Head(Announces[o]))
AllOf(o) == news' = news \o Announces[o]

\* complete_job announces only when the row of the job is still there: it may
\* have been deleted meanwhile, by its endpoint or by the wipe.
Complete(o) ==
    /\ o \in underway
    /\ Ends(o)
    /\ \/ AllOf(o) /\ UNCHANGED silent
       \/ o \in Jobs /\ silent' = silent \cup wrote[o] /\ UNCHANGED news
    /\ UNCHANGED <<cache, reader, ops, late>>

\* run_with_lifecycle sets the row to failed, which announces nothing.
Fail(o) ==
    /\ o \in Jobs \cap underway
    /\ Ends(o)
    /\ silent' = silent \cup wrote[o]
    /\ UNCHANGED <<cache, reader, ops, news, late>>
-----------------------------------------------------------------------------
Request(r) ==
    \/ Compute(r) \/ ComputeRaises(r) \/ Set(r)

CacheNext ==
    \/ \E k \in Cached : Hit(k) \/ \E r \in Readers : GetMisses(r, k)
    \/ \E r \in Readers : Request(r)
    \/ \E o \in Kinds : Begin(o) \/ Complete(o) \/ Fail(o) \/ \E t \in Tags : Write(o, t)
    \/ Invalidate \/ Clear \/ Tick

CacheSpec == CacheInit /\ [][CacheNext]_cacheVars

\* Time passes, the consumer of the queue is a task of the event loop, and a
\* query returns or raises.  Nobody has to ask or to change anything.
FairCacheSpec ==
    /\ CacheSpec
    /\ WF_cacheVars(Tick) /\ WF_cacheVars(Invalidate)
    /\ \A r \in Readers : WF_cacheVars(Request(r))
-----------------------------------------------------------------------------
(* Properties.                                                              *)

Entries == [old : BOOLEAN, age : 0..TTL + 1] \cup {Miss}
Requests == [key : Cached, step : {"asked", "read"}, old : BOOLEAN, late : BOOLEAN]

\* Types, and: an entry is in the index of its tag, or nothing would reach it
\* but its age, and the index holds no key that has no entry.
CacheTypeOK ==
    /\ store \in [Cached -> Entries]
    /\ reader \in [Readers -> Requests \cup {AtRest}]
    /\ underway \subseteq Kinds /\ wrote \in [Kinds -> SUBSET Tags] /\ ops \in 0..MaxOps
    /\ news \in Seq(UNION {Changes[o] : o \in DOMAIN Changes})
    /\ late \subseteq Cached /\ silent \subseteq Tags
    /\ tag_index = [t \in Tags |-> {k \in Cached : TagOf[k] = t /\ store[k] # Miss}]

\* An answer from the cache is older than the data only while an operation that
\* will announce the change is under way, or its event is in the queue; or the
\* answer was computed from before an invalidation and put in after it; or the
\* change came from an operation that does not announce it, or that failed, or
\* from a job whose row was deleted before it completed.
Stale(k) == Live(k) /\ store[k].old
WillHear(t) ==
    \/ \E o \in underway : t \in wrote[o] \cap Announced(o)
    \/ \E n \in DOMAIN news : news[n] = t
StaleIsExplained ==
    \A k \in Cached : Stale(k) => WillHear(TagOf[k]) \/ k \in late \/ TagOf[k] \in silent

\* "The TTL is only a backstop", but it is one: when no operation is begun any
\* more and those under way have ended, what the cache answers becomes what the
\* data says and stays so, however often the stale answer is asked for meanwhile.
BecomesFresh == <>[](underway = {}) => <>[](\A k \in Cached : ~Stale(k))
=============================================================================
