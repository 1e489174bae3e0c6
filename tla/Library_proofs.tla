--------------------------- MODULE Library_proofs ---------------------------
(***************************************************************************)
(* What is proved of Library, for any names, games, platforms, ids and     *)
(* numbers of jobs and requests.                                           *)
(*                                                                         *)
(* A job goes on with the id and the name it read first.  So it is known   *)
(* of each job under way that its profile is still there and has had this  *)
(* name, or that the profile was deleted under it (JobsKnow); and an id    *)
(* that is given again carries no row, unless it was overrun (NewIds).     *)
(*                                                                         *)
(* No hole: of each fetch it is known that what it has not brought it may  *)
(* still bring, or leaves within reach of all it has brought (FetchFits),  *)
(* and of the library that all its games reach what is missing (Whole).    *)
(***************************************************************************)
EXTENDS Library, WellFoundedInduction, FiniteSetTheorems, TLAPS

Maxes == Quotas \cup {0}
Someone == Names \cup {Nobody}
JobFields == {"kind", "at", "pid", "name", "since"}
Stages == {"idle", "read", "since", "fetch", "archive", "store"}
UnderWay(j) == job[j].at \in {"since", "fetch", "archive", "store"}

RowsTyped ==
    /\ profile \in [Ids -> [name : Someone, max : Maxes]]
    /\ \A i \in Ids : profile[i].name = Nobody => profile[i] = Gone
    /\ ratings \in [Ids -> Someone]
    /\ game \in [Games -> [name : Someone, pid : Ids \cup {0}]]
    /\ called \in [Ids -> SUBSET Names]
    /\ overrun \subseteq Ids

JobsTyped ==
    /\ job = [j \in Jobs |-> job[j]]
    /\ \A j \in Jobs : /\ DOMAIN job[j] = JobFields
                       /\ job[j].pid \in Ids \cup {0} /\ job[j].name \in Someone
                       /\ job[j].at \in Stages
                       /\ job[j].at = "read" => job[j].pid \in Ids

ReqsTyped ==
    /\ req \in [Requests -> [op : {"none", "create", "patch"}, pid : Ids \cup {0}, name : Someone,
                             at : {"idle", "ask", "insert", "write", "preferences"}, max : Maxes]]
    /\ \A r \in Requests : /\ req[r].op = "create" => req[r].name \in Names
                           /\ req[r].op = "patch" => req[r].pid \in Ids

Typed == RowsTyped /\ JobsTyped /\ ReqsTyped

\* A profile has the name it was given last among those it has had.
OwnNames == \A i \in Tracked : profile[i].name \in called[i]

\* The profile of a job is there and has had the name the job fetches for, or
\* was deleted since the job read it.
JobsKnow ==
    \A j \in Jobs : UnderWay(j) /\ job[j].pid \in Ids \ overrun =>
        job[j].pid \in Tracked /\ job[j].name \in called[job[j].pid]

IInv == Typed /\ OwnNames /\ JobsKnow /\ TagsAreTrue

-----------------------------------------------------------------------------
(* The lowest and the highest of a set of numbers.                          *)

LEMMA Least ==
  ASSUME NEW S \in SUBSET Nat, S # {}
  PROVE  Min(S) \in S /\ \A i \in S : Min(S) <= i
<1>1. PICK m \in S : \A i \in S : ~ (<<i, m>> \in OpToRel(<, Nat))
  BY NatLessThanWellFounded, WFMin
<1>2. \A i \in S : ~ (i < m)
  BY <1>1 DEF OpToRel
<1>3. \A i \in S : m <= i
  BY <1>2
<1> QED  BY <1>3 DEF Min

\* By the size of the set: what is highest without one of its members is, or that
\* member is.
LEMMA Greatest ==
  ASSUME NEW S \in SUBSET Nat, S # {}, IsFiniteSet(S)
  PROVE  Max(S) \in S /\ \A i \in S : i <= Max(S)
<1> DEFINE Has(T) == \E m \in T : \A i \in T : i <= m
           Bad == {T \in SUBSET S : T # {} /\ ~Has(T)}
           Sizes == {Cardinality(T) : T \in Bad}
<1>1. \A T \in SUBSET S : IsFiniteSet(T) /\ Cardinality(T) \in Nat
  BY FS_Subset, FS_CardinalityType
<1>2. Bad = {}
  <2> SUFFICES ASSUME Bad # {} PROVE FALSE
    OBVIOUS
  <2>1. Sizes \in SUBSET Nat /\ Sizes # {}
    BY <1>1
  <2>2. PICK T \in Bad : \A U \in Bad : Cardinality(T) <= Cardinality(U)
    <3>1. Min(Sizes) \in Sizes /\ \A i \in Sizes : Min(Sizes) <= i
      <4> HIDE DEF Sizes
      <4> QED  BY <2>1, Least
    <3>2. PICK T \in Bad : Min(Sizes) = Cardinality(T)
      <4> HIDE DEF Bad
      <4> QED  BY <3>1
    <3>3. \A U \in Bad : Cardinality(U) \in Sizes
      <4> HIDE DEF Bad
      <4> QED  OBVIOUS
    <3> HIDE DEF Bad, Sizes
    <3> QED  BY <3>1, <3>2, <3>3
  <2>3. PICK x \in T : TRUE
    BY <2>2
  <2> DEFINE U == T \ {x}
  <2>4. IsFiniteSet(U) /\ Cardinality(U) = Cardinality(T) - 1 /\ Cardinality(T) \in Nat /\ x \in T
    BY <1>1, <2>2, <2>3, FS_RemoveElement
  <2>5. U \notin Bad
    <3>1. U \in Bad => Cardinality(T) <= Cardinality(U)
      <4> HIDE DEF Bad, U
      <4> QED  BY <2>2
    <3> HIDE DEF Bad, U
    <3> QED  BY <2>4, <3>1
  <2>6. x \in Nat /\ U \in SUBSET S /\ T = U \cup {x} /\ \A i \in T : i \in Nat
    BY <2>2, <2>3
  <2>7. CASE U = {}
    BY <2>2, <2>6, <2>7
  <2>8. CASE U # {}
    <3>1. PICK m \in U : \A i \in U : i <= m
      BY <2>5, <2>6, <2>8
    <3>2. Has(T)
      <4>1. CASE m <= x
        <5>1. \A i \in T : i <= x
          BY <2>6, <3>1, <4>1
        <5> QED  BY <2>6, <5>1
      <4>2. CASE x <= m
        BY <2>6, <3>1, <4>2
      <4> QED  BY <2>6, <3>1, <4>1, <4>2
    <3> QED  BY <2>2, <3>2
  <2> QED  BY <2>7, <2>8
<1>3. Has(S)
  BY <1>2
<1> QED  BY <1>3 DEF Max

\* An id that is given is not in use.
LEMMA NewIds == ASSUME Typed PROVE NewId \notin Tracked
<1>1. Tracked \in SUBSET (1..Cardinality(Ids)) /\ Cardinality(Ids) \in Nat
  BY LibraryAssumption DEF Tracked, Typed
<1>2. CASE Tracked = {}
  BY <1>2
<1>3. CASE Tracked # {}
  <2> DEFINE m == Max(Tracked)
  <2>1. m \in Tracked /\ \A i \in Tracked : i <= m
    <3>1. IsFiniteSet(1..Cardinality(Ids))
      BY <1>1, FS_Interval
    <3>2. IsFiniteSet(Tracked)
      BY <1>1, <3>1, FS_Subset
    <3>3. Tracked \in SUBSET Nat
      BY <1>1
    <3> QED  BY <1>3, <3>2, <3>3, Greatest
  <2> HIDE DEF m
  <2>2. m \in Nat
    BY <1>1, <2>1
  <2>3. m + 1 \notin Tracked
    BY <2>1, <2>2
  <2> QED  BY <1>3, <2>3 DEF NewId, m
<1> QED  BY <1>2, <1>3

-----------------------------------------------------------------------------
(* The jobs.                                                                *)

\* A job takes another value, and the rest is as it was.
LEMMA JobMoves ==
  ASSUME IInv, NEW j \in Jobs, NEW v, job' = [job EXCEPT ![j] = v],
         DOMAIN v = JobFields,
         v.pid \in Ids \cup {0}, v.name \in Someone,
         v.at \in Stages,
         v.at = "read" => v.pid \in Ids,
         v.at \in {"since", "fetch", "archive", "store"} /\ v.pid \in Ids \ overrun =>
             v.pid \in Tracked /\ v.name \in called[v.pid],
         UNCHANGED <<profile, called, overrun>>
  PROVE  JobsTyped' /\ JobsKnow'
<1>1. job'[j] = v /\ (\A k \in Jobs \ {j} : job'[k] = job[k]) /\ job' = [k \in Jobs |-> job'[k]]
  BY DEF IInv, Typed, JobsTyped
<1>3. JobsTyped'
  BY <1>1 DEF IInv, Typed, JobsTyped
<1>4. Tracked' = Tracked
  BY DEF Tracked
<1>5. JobsKnow'
  BY <1>1, <1>4 DEF IInv, JobsKnow, UnderWay
<1> QED  BY <1>3, <1>5

\* The other facts stand when the rows of the profiles and games do.
LEMMA RowsStand ==
  ASSUME IInv, UNCHANGED <<profile, ratings, game, called, overrun>>
  PROVE  RowsTyped' /\ OwnNames' /\ TagsAreTrue'
<1>1. Tracked' = Tracked
  BY DEF Tracked
<1> QED  BY <1>1 DEF IInv, Typed, RowsTyped, OwnNames, TagsAreTrue

LEMMA IdleJob ==
  ASSUME IInv, NEW j \in Jobs, JobEnds(j), UNCHANGED <<profile, called, overrun>>
  PROVE  JobsTyped' /\ JobsKnow'
<1>1. Nobody \in Someone
  BY DEF Someone
<1>2. /\ DOMAIN JobIdle = JobFields
      /\ JobIdle.at = "idle" /\ JobIdle.pid = 0 /\ JobIdle.name = Nobody
  BY DEF JobIdle, JobFields
<1> QED  BY <1>1, <1>2, JobMoves DEF JobEnds, Stages

LEMMA StartMoves ==
  ASSUME IInv, NEW j \in Jobs, Start(j)
  PROVE  IInv'
<1>1. JobsTyped' /\ JobsKnow'
  <2>1. ASSUME NEW kind, NEW i \in Tracked,
               job' = [job EXCEPT ![j] = [JobIdle EXCEPT !.kind = kind, !.at = "read", !.pid = i]]
        PROVE  JobsTyped' /\ JobsKnow'
    <3> DEFINE v == [JobIdle EXCEPT !.kind = kind, !.at = "read", !.pid = i]
    <3>1. DOMAIN v = JobFields /\ v.at = "read" /\ v.pid = i /\ v.name = Nobody
      BY DEF JobIdle, JobFields
    <3>2. i \in Ids /\ Nobody \in Someone
      BY DEF Tracked, Someone
    <3>3. UNCHANGED <<profile, called, overrun>> /\ job' = [job EXCEPT ![j] = v]
      BY <2>1 DEF Start, history
    <3> HIDE DEF v
    <3> QED  BY <3>1, <3>2, <3>3, JobMoves DEF Stages
  <2>2. ASSUME NEW kind, NEW n \in Names,
               job' = [job EXCEPT ![j] =
                         [JobIdle EXCEPT !.kind = kind, !.at = "fetch", !.name = n]]
        PROVE  JobsTyped' /\ JobsKnow'
    <3> DEFINE v == [JobIdle EXCEPT !.kind = kind, !.at = "fetch", !.name = n]
    <3>1. DOMAIN v = JobFields /\ v.at = "fetch" /\ v.pid = 0 /\ v.name = n
      BY DEF JobIdle, JobFields
    <3>2. 0 \notin Ids /\ n \in Someone
      BY LibraryAssumption DEF Someone
    <3>3. UNCHANGED <<profile, called, overrun>> /\ job' = [job EXCEPT ![j] = v]
      BY <2>2 DEF Start, history
    <3> HIDE DEF v
    <3> QED  BY <3>1, <3>2, <3>3, JobMoves DEF Stages
  <2> QED  BY <2>1, <2>2 DEF Start
<1>2. UNCHANGED <<profile, ratings, game, req, history>>
  BY DEF Start
<1> QED  BY <1>1, <1>2, RowsStand DEF IInv, Typed, ReqsTyped, history

LEMMA ReadMoves ==
  ASSUME IInv, NEW j \in Jobs, ReadProfile(j)
  PROVE  IInv'
<1>0. UNCHANGED <<profile, ratings, game, req, called, overrun>>
  BY DEF ReadProfile, history
<1>1. JobsTyped' /\ JobsKnow'
  <2> DEFINE i == job[j].pid
             at == IF job[j].kind = "sync" THEN "since" ELSE "fetch"
             v == [job[j] EXCEPT !.name = profile[i].name, !.at = at]
  <2>1. CASE i \notin Tracked
    BY <1>0, <2>1, IdleJob DEF ReadProfile
  <2>2. CASE i \in Tracked
    <3>1. DOMAIN job[j] = JobFields /\ job = [k \in Jobs |-> job[k]]
      BY DEF IInv, Typed, JobsTyped
    <3>2. job' = [job EXCEPT ![j].name = profile[i].name, ![j].at = at]
      BY <2>2 DEF ReadProfile
    <3>3. job' = [job EXCEPT ![j] = v]
      BY <3>1, <3>2
    <3> HIDE DEF at
    <3>6. DOMAIN v = JobFields /\ v.at = at /\ v.pid = i /\ v.name = profile[i].name
      BY <3>1 DEF JobFields
    <3>4. i \in Ids /\ profile[i].name \in Someone /\ profile[i].name \in called[i]
      BY <2>2 DEF Tracked, IInv, OwnNames, Typed, RowsTyped
    <3>5. at \in {"since", "fetch"}
      BY DEF at
    <3> HIDE DEF v
    <3> QED  BY <1>0, <2>2, <3>3, <3>4, <3>5, <3>6, JobMoves DEF Stages
  <2> QED  BY <2>1, <2>2
<1> QED  BY <1>0, <1>1, RowsStand DEF IInv, Typed, ReqsTyped

GoesOn(j) == ReadSince(j) \/ FetchPage(j) \/ FetchArchives(j) \/ FetchArchive(j) \/ FetchRatings(j)

\* The job goes on with the id and the name it has.
LEMMA GoOnMoves ==
  ASSUME IInv, NEW j \in Jobs, GoesOn(j)
  PROVE  IInv'
<1>0. UNCHANGED <<profile, ratings, game, req, called, overrun>> /\ UnderWay(j)
  BY DEF GoesOn, ReadSince, FetchPage, FetchArchives, FetchArchive, FetchRatings, history, UnderWay
<1>1. /\ DOMAIN job[j] = JobFields /\ job = [k \in Jobs |-> job[k]]
      /\ job[j].pid \in Ids \cup {0} /\ job[j].name \in Someone
      /\ job[j].pid \in Ids \ overrun => job[j].pid \in Tracked /\ job[j].name \in called[job[j].pid]
  BY <1>0 DEF IInv, Typed, JobsTyped, JobsKnow
<1>2. PICK v : /\ job' = [job EXCEPT ![j] = v] /\ DOMAIN v = JobFields
               /\ v.pid = job[j].pid /\ v.name = job[j].name /\ v.at \in {"fetch", "archive", "store"}
  <2>1. CASE ReadSince(j)
    <3> DEFINE v == [job[j] EXCEPT !.since = Latest(job[j].name), !.at = "fetch"]
    <3>1. job' = [job EXCEPT ![j] = v]
      BY <1>1, <2>1 DEF ReadSince
    <3>2. DOMAIN v = JobFields /\ v.pid = job[j].pid /\ v.name = job[j].name /\ v.at = "fetch"
      BY <1>1 DEF JobFields
    <3> QED  BY <3>1, <3>2
  <2>2. CASE FetchPage(j) \/ FetchArchives(j) \/ FetchArchive(j) \/ FetchRatings(j)
    <3>1. PICK at \in {"fetch", "archive", "store"} : JobGoto(j, at)
      BY <2>2 DEF FetchPage, FetchArchives, FetchArchive, FetchRatings
    <3> DEFINE v == [job[j] EXCEPT !.at = at]
    <3>2. job' = [job EXCEPT ![j] = v]
      BY <1>1, <3>1 DEF JobGoto
    <3>3. DOMAIN v = JobFields /\ v.pid = job[j].pid /\ v.name = job[j].name /\ v.at = at
      BY <1>1 DEF JobFields
    <3> QED  BY <3>2, <3>3
  <2> QED  BY <2>1, <2>2 DEF GoesOn
<1>4. JobsTyped' /\ JobsKnow'
  BY <1>0, <1>1, <1>2, JobMoves DEF Stages
<1> QED  BY <1>0, <1>4, RowsStand DEF IInv, Typed, ReqsTyped

\* What a job stores carries an id and a name that belong together, or an id
\* that was overrun.
LEMMA StoreMoves ==
  ASSUME IInv, NEW j \in Jobs, Store(j) \/ StoreRatings(j) \/ FetchFails(j)
  PROVE  IInv'
<1>0. /\ UNCHANGED <<profile, req, called, overrun>> /\ JobEnds(j)
      /\ Tracked' = Tracked
  BY DEF Store, StoreRatings, FetchFails, history, Tracked
<1>1. JobsTyped' /\ JobsKnow'
  BY <1>0, IdleJob
<1>2. OwnNames'
  BY <1>0 DEF IInv, OwnNames
<1>3. /\ job[j].pid \in Ids \cup {0} /\ job[j].name \in Someone
      /\ \A i \in Ids \ overrun :
            UnderWay(j) /\ job[j].pid = i => i \in Tracked /\ job[j].name \in called[i]
  BY DEF IInv, Typed, JobsTyped, JobsKnow
<1>4. RowsTyped' /\ TagsAreTrue'
  <2>1. CASE FetchFails(j)
    BY <2>1, RowsStand DEF FetchFails, history
  <2>2. CASE Store(j)
    <3>1. /\ UnderWay(j) /\ ratings' = ratings
          /\ \A g \in Games : game'[g] = game[g] \/ game'[g] = [name |-> job[j].name, pid |-> job[j].pid]
          /\ DOMAIN game' = Games /\ game' = [g \in Games |-> game'[g]]
      BY <2>2 DEF Store, UnderWay
    <3>2. RowsTyped'
      BY <1>0, <1>3, <3>1 DEF IInv, Typed, RowsTyped
    <3>3. TagsAreTrue'
      BY <1>0, <1>3, <3>1 DEF IInv, TagsAreTrue
    <3> QED  BY <3>2, <3>3
  <2>3. CASE StoreRatings(j)
    <3>1. UnderWay(j) /\ game' = game
      BY <2>3 DEF StoreRatings, UnderWay
    <3>2. \/ ratings' = ratings
          \/ /\ job[j].pid \in Tracked /\ job[j].pid \in Ids
             /\ ratings' = [ratings EXCEPT ![job[j].pid] = job[j].name]
      BY <2>3 DEF StoreRatings, Tracked
    <3>3. RowsTyped'
      BY <1>0, <1>3, <3>1, <3>2 DEF IInv, Typed, RowsTyped
    <3>4. TagsAreTrue'
      BY <1>0, <1>3, <3>1, <3>2 DEF IInv, Typed, RowsTyped, TagsAreTrue
    <3> QED  BY <3>3, <3>4
  <2> QED  BY <2>1, <2>2, <2>3
<1> QED  BY <1>0, <1>1, <1>2, <1>4 DEF IInv, Typed, ReqsTyped

-----------------------------------------------------------------------------
(* The requests.                                                            *)

ReqType == [op : {"none", "create", "patch"}, pid : Ids \cup {0}, name : Someone,
            at : {"idle", "ask", "insert", "write", "preferences"}, max : Maxes]

LEMMA ReqMoves ==
  ASSUME ReqsTyped, NEW r \in Requests
  PROVE  /\ ReqEnds(r) => ReqsTyped'
         /\ \A at \in {"idle", "ask", "insert", "write", "preferences"} : ReqGoto(r, at) => ReqsTyped'
         /\ \A v \in ReqType : /\ v.op = "create" => v.name \in Names
                               /\ v.op = "patch" => v.pid \in Ids
                               /\ req' = [req EXCEPT ![r] = v]
                               => ReqsTyped'
<1>1. ReqIdle \in ReqType /\ ReqIdle.op = "none"
  BY DEF ReqIdle, ReqType, Someone, Maxes
<1>2. ASSUME ReqEnds(r) PROVE ReqsTyped'
  BY <1>1, <1>2 DEF ReqEnds, ReqsTyped, ReqType
<1>3. ASSUME NEW at \in {"idle", "ask", "insert", "write", "preferences"}, ReqGoto(r, at)
      PROVE  ReqsTyped'
  BY <1>3 DEF ReqGoto, ReqsTyped
<1>4. ASSUME NEW v \in ReqType, v.op = "create" => v.name \in Names, v.op = "patch" => v.pid \in Ids,
             req' = [req EXCEPT ![r] = v]
      PROVE  ReqsTyped'
  BY <1>4 DEF ReqsTyped, ReqType
<1> QED  BY <1>2, <1>3, <1>4

\* The jobs are what they were, and so is what they know of a profile that stays.
LEMMA JobsStand ==
  ASSUME IInv, UNCHANGED job, overrun \subseteq overrun',
         \A i \in Ids \ overrun' : i \in Tracked => i \in Tracked' /\ called[i] \subseteq called'[i]
  PROVE  JobsTyped' /\ JobsKnow'
<1>1. \A j \in Jobs : UnderWay(j)' <=> UnderWay(j)
  BY DEF UnderWay
<1> QED  BY <1>1 DEF IInv, Typed, JobsTyped, JobsKnow

LEMMA AskMoves ==
  ASSUME IInv, NEW r \in Requests, CreateFind(r) \/ CreateAsk(r) \/ PatchRead(r)
  PROVE  IInv'
<1>0. UNCHANGED <<profile, ratings, game, job, called, overrun>> /\ Tracked' = Tracked
  BY DEF CreateFind, CreateAsk, PatchRead, history, work, Tracked
<1>1. ReqsTyped
  BY DEF IInv, Typed
<1>2. ReqsTyped'
  <2>1. CASE CreateFind(r)
    <3>1. PICK n \in Names : req' = [req EXCEPT ![r] = [ReqIdle EXCEPT !.op = "create", !.at = "ask",
                                                                      !.name = n]]
      BY <2>1 DEF CreateFind
    <3> DEFINE v == [ReqIdle EXCEPT !.op = "create", !.at = "ask", !.name = n]
    <3>2. ReqIdle \in ReqType
      BY DEF ReqIdle, ReqType, Someone, Maxes
    <3>3. v \in ReqType /\ v.op = "create" /\ v.name \in Names
      BY <3>2 DEF ReqType, Someone
    <3> HIDE DEF v
    <3> QED  BY <1>1, <3>1, <3>3, ReqMoves DEF v
  <2>2. CASE CreateAsk(r)
    BY <1>1, <2>2, ReqMoves DEF CreateAsk
  <2>3. CASE PatchRead(r)
    <3>1. PICK i \in Tracked, n \in Names \cup {Nobody}, q \in Quotas :
            req' = [req EXCEPT ![r] = [op |-> "patch", at |-> "write", pid |-> i, name |-> n, max |-> q]]
      BY <2>3 DEF PatchRead
    <3> DEFINE v == [op |-> "patch", at |-> "write", pid |-> i, name |-> n, max |-> q]
    <3>2. v \in ReqType /\ v.op = "patch" /\ v.pid \in Ids
      BY DEF ReqType, Someone, Maxes, Tracked
    <3> QED  BY <1>1, <3>1, <3>2, ReqMoves
  <2> QED  BY <2>1, <2>2, <2>3
<1>3. JobsTyped' /\ JobsKnow'
  BY <1>0, JobsStand
<1> QED  BY <1>0, <1>2, <1>3, RowsStand DEF IInv, Typed

LEMMA InsertMoves ==
  ASSUME IInv, NEW r \in Requests, CreateInsert(r)
  PROVE  IInv'
<1> DEFINE n == req[r].name
           i == NewId
<1>0. ReqsTyped' /\ UNCHANGED <<ratings, game, job, overrun>>
  BY ReqMoves DEF CreateInsert, work, IInv, Typed
<1>1. CASE Named(n) # {}
  <2>1. UNCHANGED <<profile, called>> /\ Tracked' = Tracked
    BY <1>1 DEF CreateInsert, Tracked
  <2> QED  BY <1>0, <2>1, JobsStand, RowsStand DEF IInv, Typed
<1>2. CASE Named(n) = {}
  <2>1. /\ i \in Ids /\ i \notin Tracked /\ n \in Names
        /\ profile' = [profile EXCEPT ![i] = [name |-> n, max |-> 0]]
        /\ called' = [called EXCEPT ![i] = {n}]
    BY <1>2, NewIds DEF CreateInsert, IInv, Typed, ReqsTyped
  <2> HIDE DEF i, n
  <2>2. profile'[i] = [name |-> n, max |-> 0] /\ called'[i] = {n} /\ profile'[i] # Gone
    BY <2>1, LibraryAssumption DEF IInv, Typed, RowsTyped, Gone, Nobody
  <2>3. \A k \in Ids \ {i} : profile'[k] = profile[k] /\ called'[k] = called[k]
    BY <2>1 DEF IInv, Typed, RowsTyped
  <2>4. Tracked' = Tracked \cup {i}
    BY <2>1, <2>2, <2>3 DEF Tracked
  <2>5. RowsTyped'
    <3>1. [name |-> n, max |-> 0] \in [name : Someone, max : Maxes]
      BY <2>1 DEF Someone, Maxes
    <3>2. profile' \in [Ids -> [name : Someone, max : Maxes]] /\ called' \in [Ids -> SUBSET Names]
      BY <2>1, <3>1 DEF IInv, Typed, RowsTyped
    <3>3. \A k \in Ids : profile'[k].name = Nobody => profile'[k] = Gone
      BY <2>1, <2>2, <2>3, LibraryAssumption DEF IInv, Typed, RowsTyped
    <3> QED  BY <1>0, <3>2, <3>3 DEF IInv, Typed, RowsTyped
  <2>6. OwnNames'
    BY <2>1, <2>2, <2>3, <2>4 DEF IInv, OwnNames, Tracked
  <2>7. JobsTyped' /\ JobsKnow'
    BY <1>0, <2>1, <2>3, <2>4, JobsStand DEF Tracked
  <2>8. TagsAreTrue'
    BY <1>0, <2>1, <2>3, <2>4 DEF IInv, TagsAreTrue
  <2> QED  BY <1>0, <2>5, <2>6, <2>7, <2>8 DEF IInv, Typed
<1> QED  BY <1>1, <1>2

LEMMA PatchMoves ==
  ASSUME IInv, NEW r \in Requests, PatchWrite(r) \/ PatchPreferences(r)
  PROVE  IInv'
<1> DEFINE i == req[r].pid
           n == req[r].name
<1>0. /\ UNCHANGED <<ratings, game, job, overrun>>
      /\ n \in Someone /\ i \in Ids \cup {0} /\ req[r].max \in Maxes
  BY DEF PatchWrite, PatchPreferences, history, work, IInv, Typed, ReqsTyped
<1>1. ReqsTyped'
  <2>1. ReqsTyped
    BY DEF IInv, Typed
  <2> QED  BY <2>1, ReqMoves DEF PatchWrite, PatchPreferences
<1>2. CASE UNCHANGED <<profile, called>>
  <2>1. Tracked' = Tracked
    BY <1>2 DEF Tracked
  <2> QED  BY <1>0, <1>1, <1>2, <2>1, JobsStand, RowsStand DEF IInv, Typed
\* The profile keeps its id, and the names it has had.
<1>3. ASSUME i \in Tracked, NEW m \in Names, NEW q \in Maxes,
             profile' = [profile EXCEPT ![i] = [name |-> m, max |-> q]],
             called' = [called EXCEPT ![i] = @ \cup {m}]
      PROVE  IInv'
  <2>1. /\ i \in Ids /\ profile'[i] = [name |-> m, max |-> q] /\ profile'[i] # Gone
        /\ called'[i] = called[i] \cup {m}
    BY <1>3, LibraryAssumption DEF IInv, Typed, RowsTyped, Tracked, Gone, Nobody
  <2>2. \A k \in Ids \ {i} : profile'[k] = profile[k] /\ called'[k] = called[k]
    BY <1>3 DEF IInv, Typed, RowsTyped
  <2>3. Tracked' = Tracked
    BY <1>3, <2>1, <2>2 DEF Tracked
  <2> HIDE DEF i
  <2>4. RowsTyped'
    <3>1. [name |-> m, max |-> q] \in [name : Someone, max : Maxes]
      BY DEF Someone
    <3>2. profile' \in [Ids -> [name : Someone, max : Maxes]] /\ called' \in [Ids -> SUBSET Names]
      BY <1>3, <3>1 DEF IInv, Typed, RowsTyped
    <3>3. \A k \in Ids : profile'[k].name = Nobody => profile'[k] = Gone
      BY <1>3, <2>1, <2>2, LibraryAssumption DEF IInv, Typed, RowsTyped
    <3> QED  BY <1>0, <3>2, <3>3 DEF IInv, Typed, RowsTyped
  <2>5. \A k \in Ids : called[k] \subseteq called'[k]
    BY <2>1, <2>2
  <2>6. OwnNames'
    BY <2>1, <2>2, <2>3 DEF IInv, OwnNames, Tracked
  <2>7. JobsTyped' /\ JobsKnow'
    BY <1>0, <2>3, <2>5, JobsStand
  <2>8. TagsAreTrue'
    BY <1>0, <2>3, <2>5 DEF IInv, TagsAreTrue
  <2> QED  BY <1>1, <2>4, <2>6, <2>7, <2>8 DEF IInv, Typed
<1>4. i \in Tracked => /\ profile[i] = [name |-> profile[i].name, max |-> profile[i].max]
                       /\ profile[i].name \in Names /\ profile[i].max \in Maxes
                       /\ profile[i].name \in called[i] /\ i \in Ids
  BY DEF IInv, Typed, RowsTyped, OwnNames, Tracked, Someone
<1>5. CASE PatchWrite(r) /\ ~UNCHANGED <<profile, called>>
  <2> DEFINE m == IF n = Nobody THEN profile[i].name ELSE n
  <2>1. /\ i \in Tracked
        /\ profile' = [profile EXCEPT ![i].name = IF n = Nobody THEN @ ELSE n]
        /\ called' = [called EXCEPT ![i] = @ \cup ({n} \ {Nobody})]
    BY <1>5 DEF PatchWrite
  <2>2. m \in Names
    BY <1>0, <1>4, <2>1 DEF Someone
  <2>3. profile' = [profile EXCEPT ![i] = [name |-> m, max |-> profile[i].max]]
    <3> DEFINE p == profile[i]
    <3>1. [p EXCEPT !.name = IF n = Nobody THEN @ ELSE n] = [name |-> m, max |-> p.max]
      BY <1>4, <2>1
    <3>2. profile' = [profile EXCEPT ![i] = [p EXCEPT !.name = IF n = Nobody THEN @ ELSE n]]
      BY <2>1, <1>4
    <3> QED  BY <3>1, <3>2, Zenon
  <2>4. called[i] \cup ({n} \ {Nobody}) = called[i] \cup {m}
    BY <1>4, <2>1
  <2>5. called' = [called EXCEPT ![i] = @ \cup {m}]
    BY <2>1, <2>4
  <2> HIDE DEF i, m
  <2> QED  BY <1>3, <1>4, <2>1, <2>2, <2>3, <2>5
<1>6. CASE PatchPreferences(r) /\ ~UNCHANGED <<profile, called>>
  <2>1. i \in Tracked /\ profile' = [profile EXCEPT ![i].max = req[r].max] /\ called' = called
    BY <1>6 DEF PatchPreferences, history
  <2>2. profile' = [profile EXCEPT ![i] = [name |-> profile[i].name, max |-> req[r].max]]
    <3> DEFINE p == profile[i]
    <3>1. [p EXCEPT !.max = req[r].max] = [name |-> p.name, max |-> req[r].max]
      BY <1>4, <2>1
    <3>2. profile' = [profile EXCEPT ![i] = [p EXCEPT !.max = req[r].max]]
      BY <2>1, <1>4
    <3> QED  BY <3>1, <3>2, Zenon
  <2>3. called' = [called EXCEPT ![i] = @ \cup {profile[i].name}]
    BY <1>4, <2>1 DEF IInv, Typed, RowsTyped
  <2> HIDE DEF i
  <2> QED  BY <1>0, <1>3, <1>4, <2>1, <2>2, <2>3
<1> QED  BY <1>2, <1>5, <1>6

-----------------------------------------------------------------------------
(* The deletion of a profile.                                               *)

\* The rows of the profile go, or lose its id; a job that goes on with it is
\* recorded.
LEMMA DeleteMoves ==
  ASSUME IInv, NEW i \in Ids, Delete(i)
  PROVE  IInv'
<1>0. UNCHANGED <<job, req, called>> /\ i \in Tracked
  BY DEF Delete, work
<1>1. /\ profile' = [profile EXCEPT ![i] = Gone] /\ ratings' = [ratings EXCEPT ![i] = Nobody]
      /\ overrun \subseteq overrun' /\ overrun' \subseteq overrun \cup {i}
      /\ i \notin overrun' => \A j \in Jobs : job[j].pid = i => job[j].at = "read"
  BY DEF Delete, Purged
<1>2. /\ profile'[i] = Gone /\ ratings'[i] = Nobody
      /\ \A k \in Ids \ {i} : profile'[k] = profile[k] /\ ratings'[k] = ratings[k]
  BY <1>1 DEF IInv, Typed, RowsTyped
<1>3. Tracked' = Tracked \ {i}
  BY <1>2 DEF Tracked
<1>4. /\ \A g \in Games : \/ game'[g] = game[g] /\ (game[g] = NoRow \/ game[g].pid # i)
                          \/ game'[g] = [game[g] EXCEPT !.pid = 0]
                          \/ game'[g] = NoRow
      /\ game' = [g \in Games |-> game'[g]]
  BY DEF Delete
<1>5. 0 \notin Ids /\ NoRow.pid = 0 /\ NoRow \in [name : Someone, pid : Ids \cup {0}]
  BY LibraryAssumption DEF NoRow, Someone
<1>6. RowsTyped'
  <2>1. Gone \in [name : Someone, max : Maxes] /\ Nobody \in Someone
    BY DEF Gone, Someone, Maxes, Nobody
  <2>2. profile' \in [Ids -> [name : Someone, max : Maxes]] /\ ratings' \in [Ids -> Someone]
    BY <1>1, <2>1 DEF IInv, Typed, RowsTyped
  <2>3. \A g \in Games : game'[g] \in [name : Someone, pid : Ids \cup {0}]
    BY <1>4, <1>5 DEF IInv, Typed, RowsTyped
  <2>4. \A k \in Ids : profile'[k].name = Nobody => profile'[k] = Gone
    BY <1>2 DEF IInv, Typed, RowsTyped
  <2> QED  BY <1>0, <1>1, <1>4, <2>2, <2>3, <2>4 DEF IInv, Typed, RowsTyped
<1>7. OwnNames'
  BY <1>0, <1>2, <1>3 DEF IInv, OwnNames, Tracked
<1>8. JobsTyped' /\ JobsKnow'
  <2>1. JobsTyped'
    BY <1>0 DEF IInv, Typed, JobsTyped
  <2>2. \A j \in Jobs : UnderWay(j)' <=> UnderWay(j)
    BY <1>0 DEF UnderWay
  <2>3. ASSUME NEW j \in Jobs, UnderWay(j), job[j].pid \in Ids \ overrun'
        PROVE  job[j].pid \in Tracked' /\ job[j].name \in called[job[j].pid]
    BY <1>1, <1>3, <2>3 DEF IInv, JobsKnow, UnderWay
  <2> QED  BY <1>0, <2>1, <2>2, <2>3 DEF JobsKnow
<1>9. TagsAreTrue'
  <2>1. \A k \in Ids \ overrun', g \in Games : game'[g] # NoRow /\ game'[g].pid = k =>
          k # i /\ game[g] # NoRow /\ game[g].pid = k /\ game'[g].name = game[g].name
    BY <1>4, <1>5 DEF IInv, Typed, RowsTyped
  <2>2. \A k \in Ids \ overrun' : ratings'[k] # Nobody => k # i /\ ratings[k] = ratings'[k]
    BY <1>2
  <2> QED  BY <1>0, <1>1, <1>3, <2>1, <2>2 DEF IInv, TagsAreTrue
<1>10. ReqsTyped'
  BY <1>0 DEF IInv, Typed, ReqsTyped
<1> QED  BY <1>6, <1>7, <1>8, <1>9, <1>10 DEF IInv, Typed

-----------------------------------------------------------------------------
LEMMA IInvInit == Init => IInv
<1> SUFFICES ASSUME Init PROVE IInv
  OBVIOUS
<1>1. PICK n \in Names : profile = [i \in Ids |-> IF i = 1 THEN [name |-> n, max |-> 0] ELSE Gone]
  BY DEF Init
<1>2. /\ Nobody \in Someone /\ n \in Someone /\ 0 \in Maxes /\ n # Nobody
      /\ Gone = [name |-> Nobody, max |-> 0]
  BY LibraryAssumption DEF Someone, Maxes, Gone, Nobody
<1>3. /\ \A i \in Ids : called[i] = {profile[i].name} \ {Nobody}
      /\ called = [i \in Ids |-> called[i]]
  BY DEF Init
<1>4. RowsTyped
  <2>1. profile \in [Ids -> [name : Someone, max : Maxes]]
    BY <1>1, <1>2
  <2>2. \A i \in Ids : profile[i].name = Nobody => profile[i] = Gone
    BY <1>1, <1>2
  <2>3. called \in [Ids -> SUBSET Names]
    BY <1>1, <1>2, <1>3
  <2>4. NoRow \in [name : Someone, pid : Ids \cup {0}]
    BY <1>2 DEF NoRow
  <2> QED  BY <1>2, <2>1, <2>2, <2>3, <2>4 DEF Init, RowsTyped
<1>5. JobsTyped
  <2>1. /\ DOMAIN JobIdle = JobFields
        /\ JobIdle.at = "idle" /\ JobIdle.pid = 0 /\ JobIdle.name = Nobody
    BY DEF JobIdle, JobFields
  <2> QED  BY <1>2, <2>1 DEF Init, JobsTyped, Stages
<1>6. ReqsTyped
  <2>1. ReqIdle \in ReqType /\ ReqIdle.op = "none"
    BY <1>2 DEF ReqIdle, ReqType
  <2> QED  BY <2>1 DEF Init, ReqsTyped, ReqType
<1>7. OwnNames
  BY <1>1, <1>2, <1>3 DEF OwnNames, Tracked
<1>8. JobsKnow
  BY DEF Init, JobsKnow, UnderWay, JobIdle
<1>9. TagsAreTrue
  BY DEF Init, TagsAreTrue
<1> QED  BY <1>4, <1>5, <1>6, <1>7, <1>8, <1>9 DEF IInv, Typed

LEMMA IInvNext == IInv /\ [Next]_vars => IInv'
<1> SUFFICES ASSUME IInv, [Next]_vars PROVE IInv'
  OBVIOUS
<1>1. CASE (\E g \in Games : Play(g)) \/ UNCHANGED vars
  <2>1. UNCHANGED <<profile, ratings, game, job, req, called, overrun>> /\ Tracked' = Tracked
    BY <1>1 DEF Play, vars, history, work, Tracked
  <2> QED  BY <2>1, JobsStand, RowsStand DEF IInv, Typed, ReqsTyped
<1> QED  BY <1>1, StartMoves, ReadMoves, GoOnMoves, StoreMoves, AskMoves, InsertMoves, PatchMoves,
            DeleteMoves DEF Next, Work, Serve, GoesOn

\* Whatever is renamed, deleted and made anew under the jobs, the id on a game or
\* on ratings is that of a profile that has had their name, unless the id was
\* overrun by a job (insert_games, upsert_stats, _purge_profile_rows).
THEOREM TagsStayTrue == Spec => []TagsAreTrue
<1>1. IInv => TagsAreTrue
  BY DEF IInv
<1> QED  BY <1>1, IInvInit, IInvNext, PTL DEF Spec
-----------------------------------------------------------------------------
(* Times.                                                                   *)

LEMMA Units ==
    /\ Second \in Nat \ {0} /\ Month \in Nat \ {0} /\ Batch \in Nat \ {0} /\ Unbounded \in Nat
    /\ \A g \in Games : At[g] \in Nat /\ End[g] \in Nat /\ At[g] <= End[g] /\ At[g] <= Unbounded
  BY FetchAssumption

LEMMA Cuts ==
  ASSUME NEW d \in Nat \ {0}, NEW a \in Nat, NEW b \in Nat, a <= b
  PROVE  /\ a \div d \in Nat /\ a % d \in 0..(d - 1) /\ a = d * (a \div d) + (a % d)
         /\ a \div d <= b \div d /\ d * (a \div d) <= d * (b \div d)
<1>1. /\ a \div d \in Int /\ a % d \in 0..(d - 1) /\ a = d * (a \div d) + (a % d)
      /\ b \div d \in Int /\ b % d \in 0..(d - 1) /\ b = d * (b \div d) + (b % d)
  OBVIOUS
<1> DEFINE p == a \div d
           q == b \div d
           x == a % d
           y == b % d
<1>2. /\ p \in Int /\ q \in Int /\ x \in 0..(d - 1) /\ y \in 0..(d - 1)
      /\ d * p + x <= d * q + y /\ 0 <= d * p + x
  BY <1>1
<1>3. p <= q
  <2>1. ASSUME q + 1 <= p PROVE FALSE
    <3> HIDE DEF p, q, x, y
    <3>1. d * (q + 1) <= d * p
      BY <1>2, <2>1
    <3>2. d * (q + 1) = d * q + d
      BY <1>2
    <3> QED  BY <1>2, <3>1, <3>2
  <2> HIDE DEF p, q
  <2> QED  BY <1>2, <2>1
<1>4. p \in Nat /\ d * p <= d * q
  <2>1. ASSUME p + 1 <= 0 PROVE FALSE
    <3> HIDE DEF p, q, x, y
    <3>1. d * (p + 1) <= d * 0
      BY <1>2, <2>1
    <3>2. d * (p + 1) = d * p + d
      BY <1>2
    <3> QED  BY <1>2, <3>1, <3>2
  <2>2. p \in Nat
    <3> HIDE DEF p
    <3> QED  BY <1>2, <2>1
  <2> HIDE DEF p, q
  <2> QED  BY <1>2, <1>3, <2>2
<1> QED  BY <1>1, <1>3, <1>4

\* A time in the PGN is the beginning of its second.
LEMMA Seconds ==
  ASSUME NEW a \in Nat, NEW b \in Nat
  PROVE  /\ InPgn(a) \in Nat /\ InPgn(a) <= a
         /\ a <= b => InPgn(a) <= InPgn(b)
         /\ InPgn(a) <= b /\ b <= a => InPgn(b) = InPgn(a)
<1>0. Second \in Nat \ {0}
  BY Units
<1>1. ASSUME NEW c \in Nat
      PROVE  /\ InPgn(c) = Second * (c \div Second) /\ c \div Second \in Nat
             /\ InPgn(c) \in Nat /\ InPgn(c) <= c
  <2>1. /\ c \div Second \in Nat /\ c % Second \in 0..(Second - 1)
        /\ c = Second * (c \div Second) + (c % Second)
    <3>1. c <= c
      OBVIOUS
    <3> QED  BY <1>0, <3>1, Cuts
  <2> DEFINE q == c \div Second
             r == c % Second
  <2>2. q \in Nat /\ r \in Nat /\ c = Second * q + r /\ InPgn(c) = c - r
    BY <1>0, <2>1 DEF InPgn
  <2>3. Second * q \in Nat
    BY <1>0, <2>2
  <2> HIDE DEF q, r
  <2> QED  BY <2>2, <2>3 DEF q
<1>2. ASSUME NEW c \in Nat, NEW e \in Nat, c <= e PROVE InPgn(c) <= InPgn(e)
  <2>1. Second * (c \div Second) <= Second * (e \div Second)
    BY <1>0, <1>2, Cuts
  <2> QED  BY <1>1, <2>1
<1>3. InPgn(InPgn(a)) = InPgn(a)
  <2>1. PICK q \in Nat : InPgn(a) = Second * q
    BY <1>1
  <2>2. (Second * q) % Second = 0
    BY <1>0
  <2>3. InPgn(a) % Second = 0 /\ InPgn(a) \in Nat
    BY <1>1, <2>1, <2>2
  <2>4. InPgn(InPgn(a)) = InPgn(a) - (InPgn(a) % Second)
    BY DEF InPgn
  <2> HIDE DEF InPgn
  <2> QED  BY <2>3, <2>4
<1>4. ASSUME InPgn(a) <= b, b <= a PROVE InPgn(b) = InPgn(a)
  <2>1. InPgn(InPgn(a)) <= InPgn(b) /\ InPgn(b) <= InPgn(a)
    BY <1>1, <1>2, <1>4
  <2> QED  BY <1>1, <1>3, <2>1
<1>5. a <= b => InPgn(a) <= InPgn(b)
  BY <1>2
<1> QED  BY <1>1, <1>4, <1>5

LEMMA Months ==
  ASSUME NEW a \in Nat, NEW b \in Nat, a <= b
  PROVE  MonthOf(a) \in Nat /\ MonthOf(a) <= MonthOf(b)
  BY Units, Cuts DEF MonthOf
-----------------------------------------------------------------------------
(* The newest and the oldest.                                               *)

\* An answer without a game says that there is none; one that is not all there is
\* has used the quota.
LEMMA Answers ==
  ASSUME NEW some \in SUBSET Games, NEW time, NEW n \in Nat, NEW page \in Newest(some, time, n)
  PROVE  /\ page \subseteq some /\ Cardinality(page) \in Nat
         /\ Cardinality(page) <= n
         /\ page # some => Cardinality(page) = n
         /\ page = {} /\ n > 0 => some = {}
         /\ \A g \in some \ page, h \in page : time[h] >= time[g]
<1>1. /\ page \subseteq some /\ Cardinality(page) <= n
      /\ page # some => Cardinality(page) = n
      /\ \A g \in some \ page, h \in page : time[h] >= time[g]
  BY DEF Newest
<1>2. Cardinality(page) \in Nat
  BY <1>1, FetchAssumption, FS_Subset, FS_CardinalityType
<1>3. Cardinality({}) = 0
  BY FS_EmptySet
<1> QED  BY <1>1, <1>2, <1>3

\* The time a sync begins at is that of a game the name has in the library.
LEMMA Latests ==
  ASSUME NEW n \in Names
  PROVE  /\ Latest(n) \in Nat
         /\ Latest(n) = Always \/ \E h \in Games : game[h].name = n /\ Latest(n) = InPgn(At[h])
<1> DEFINE of == {h \in Games : game[h].name = n}
           times == {InPgn(At[g]) : g \in of}
<1>1. times \in SUBSET Nat
  BY Units, Seconds
<1>2. IsFiniteSet(times)
  <2>1. IsFiniteSet(of)
    BY FetchAssumption, FS_Subset
  <2>2. [g \in of |-> InPgn(At[g])] \in Surjection(of, times)
    BY DEF Surjection
  <2> HIDE DEF of, times
  <2> QED  BY <2>1, <2>2, FS_Surjection
<1>3. CASE times = {}
  BY <1>3 DEF Latest, Always
<1>4. CASE times # {}
  <2>1. Max(times) \in times
    <3> HIDE DEF times
    <3> QED  BY <1>1, <1>2, <1>4, Greatest
  <2>2. Latest(n) = Max(times)
    BY <1>4 DEF Latest
  <2> QED  BY <1>1, <2>1, <2>2
<1> QED  BY <1>3, <1>4

\* The next page ends before the second of every game of this one.
LEMMA NextPages ==
  ASSUME NEW page \in SUBSET Games
  PROVE  /\ NextUntil(page) \in Int /\ NextUntil(page) >= -1
         /\ page = {} => NextUntil(page) = -1
         /\ page # {} => \E h \in page : NextUntil(page) = InPgn(At[h]) - 1
<1> DEFINE times == {InPgn(At[g]) : g \in page}
<1>1. CASE page = {}
  BY <1>1 DEF NextUntil
<1>2. CASE page # {}
  <2>1. times \in SUBSET Nat /\ times # {}
    BY <1>2, Units, Seconds
  <2>2. Min(times) \in times
    <3> HIDE DEF times
    <3> QED  BY <2>1, Least
  <2>3. NextUntil(page) = Min(times) - 1
    BY <1>2 DEF NextUntil
  <2>4. PICK h \in page : Min(times) = InPgn(At[h])
    <3> HIDE DEF Min
    <3> QED  BY <2>2
  <2>5. InPgn(At[h]) \in Nat
    BY <2>4, Units, Seconds
  <2> HIDE DEF times
  <2> QED  BY <1>2, <2>3, <2>4, <2>5
<1> QED  BY <1>1, <1>2
-----------------------------------------------------------------------------
(* No hole.                                                                 *)

Fetches(j) == UnderWay(j) /\ job[j].kind # "stats"
Missing(g) == game[g] = NoRow /\ g \notin excused
\* A sync that begins at h reaches g.
Reaches(h, g) == InPgn(At[h]) <= Reached(g)

\* The platform of chess.com shows the games in the order in which they end.
InOrder == OnChesscom => \A x \in played, y \in Games \ played : End[x] <= End[y]

\* What no sync reaches was passed over for a reason: of all games, those to come
\* included.
Whole == \A g \in Games : Missing(g) =>
            \A n \in Players[g], h \in Games : game[h].name = n => Reaches(h, g)

FetchTyped(j) ==
    /\ DOMAIN fetch[j] = {"got", "left", "until", "months", "skip"}
    /\ fetch[j].got \subseteq played
    /\ fetch[j].left \in Nat /\ fetch[j].until \in Int /\ fetch[j].until >= -1
    /\ fetch[j].months \subseteq Nat /\ IsFiniteSet(fetch[j].months)
    /\ job[j].since \in Nat
    /\ job[j].at \in {"read", "since"} => job[j].since = Always
    /\ UnderWay(j) => job[j].name \in Names
    /\ Fetches(j) /\ job[j].at # "store" => fetch[j].left > 0
    /\ job[j].at = "archive" => OnChesscom /\ job[j].kind # "stats" /\ fetch[j].months # {}
    /\ job[j].at = "since" => fetch[j].until = Unbounded
    /\ job[j].at = "since" \/ (job[j].at = "fetch" /\ OnChesscom) => fetch[j].got = {}

\* A fetch begins where it reaches what is missing.
SinceFits(j) ==
    Fetches(j) => \A g \in Of(job[j].name) : Missing(g) => job[j].since <= Reached(g)

\* What a fetch has not brought yet it may still bring, or all it has brought
\* leaves it within reach.
ToCome(j, g) ==
    \/ job[j].at \in {"since", "fetch"} /\ ~OnChesscom /\ At[g] <= fetch[j].until
    \/ job[j].at = "archive" /\ MonthOf(End[g]) \in fetch[j].months
WithinReach(j, g) ==
    /\ \A h \in fetch[j].got : Reaches(h, g)
    /\ job[j].at = "archive" => \A m \in fetch[j].months : m <= MonthOf(End[g])
FetchFits(j) ==
    Fetches(j) => \A g \in Of(job[j].name) :
        Missing(g) /\ g \notin fetch[j].got /\ g \notin fetch[j].skip
        => ToCome(j, g) \/ WithinReach(j, g)

JobFits(j) == FetchTyped(j) /\ SinceFits(j) /\ FetchFits(j)

HInv ==
    /\ played \subseteq Games /\ fetch = [j \in Jobs |-> fetch[j]]
    /\ \A g \in Games : game[g] # NoRow => game[g].name \in Names
    /\ InOrder /\ Whole
    /\ \A j \in Jobs : JobFits(j)

LEMMA Reach == \A g \in Games : Reached(g) \in Nat /\ InPgn(At[g]) \in Nat /\ InPgn(At[g]) <= Reached(g)
<1> TAKE g \in Games
<1>1. At[g] \in Nat /\ End[g] \in Nat /\ At[g] <= End[g]
  BY Units
<1>2. InPgn(At[g]) \in Nat /\ InPgn(At[g]) <= At[g]
  BY <1>1, Seconds
<1> QED  BY <1>1, <1>2 DEF Reached

\* A job that does nothing, while no more games are missing.
LEMMA FitsStill ==
  ASSUME NEW j \in Jobs, JobFits(j), job'[j] = job[j], fetch'[j] = fetch[j], mix' = mix,
         played \subseteq played', \A g \in Games : Missing(g)' => Missing(g)
  PROVE  JobFits(j)'
<1>1. /\ UnderWay(j)' = UnderWay(j) /\ Fetches(j)' = Fetches(j) /\ OnChesscom' = OnChesscom
      /\ \A g \in Games : Reached(g)' = Reached(g)
  BY DEF UnderWay, Fetches, OnChesscom, Reached
<1>2. FetchTyped(j)'
  BY <1>1 DEF JobFits, FetchTyped
<1>3. SinceFits(j)'
  BY <1>1 DEF JobFits, SinceFits, Of
<1>4. \A g \in Games : /\ ToCome(j, g) => ToCome(j, g)'
                       /\ WithinReach(j, g) => WithinReach(j, g)'
  <2> TAKE g \in Games
  <2>1. Reached(g)' = Reached(g)
    BY <1>1
  <2> QED  BY <1>1, <2>1 DEF ToCome, WithinReach, Reaches
<1>5. FetchFits(j)'
  BY <1>1, <1>4 DEF JobFits, FetchFits, Of
<1> QED  BY <1>2, <1>3, <1>5 DEF JobFits

\* A job whose fetch has not begun.
LEMMA FitsFresh ==
  ASSUME NEW j \in Jobs, NEW q \in Nat, fetch'[j] = Fresh(q), job'[j].since = Always, mix' = mix,
         UnderWay(j)' => job'[j].at \in {"since", "fetch"} /\ job'[j].name \in Names /\ q > 0
  PROVE  JobFits(j)'
<1>1. /\ DOMAIN fetch'[j] = {"got", "left", "until", "months", "skip"}
      /\ fetch'[j].got = {} /\ fetch'[j].left = q /\ fetch'[j].until = Unbounded
      /\ fetch'[j].months = {} /\ fetch'[j].skip = {} /\ job'[j].since = 0
  BY DEF Fresh, Always
<1>2. FetchTyped(j)'
  <2>1. IsFiniteSet({}) /\ Unbounded \in Nat
    BY Units, FS_EmptySet
  <2>2. job'[j].at = "archive" => UnderWay(j)'
    BY DEF UnderWay
  <2> QED  BY <1>1, <2>1, <2>2 DEF FetchTyped, Fetches
<1>3. SinceFits(j)'
  <2>1. \A g \in Games : Reached(g)' \in Nat
    BY Units, Reach DEF Reached, OnChesscom
  <2> QED  BY <1>1, <2>1 DEF SinceFits, Of
<1>4. FetchFits(j)'
  <2>1. ASSUME NEW g \in Games, Fetches(j)' PROVE WithinReach(j, g)'
    BY <1>1, <2>1 DEF WithinReach, Fetches
  <2> QED  BY <2>1 DEF FetchFits, Of
<1> QED  BY <1>2, <1>3, <1>4 DEF JobFits

\* The library stays as it is.
LEMMA HoleStands ==
  ASSUME HInv, UNCHANGED <<mix, game, played, excused>>,
         fetch' = [j \in Jobs |-> fetch'[j]], \A j \in Jobs : JobFits(j)'
  PROVE  HInv'
<1>1. \A g \in Games : (Missing(g)' <=> Missing(g)) /\ Reached(g)' = Reached(g)
  BY DEF Missing, Reached, OnChesscom
<1>2. Whole'
  BY <1>1 DEF HInv, Whole, Reaches
<1> QED  BY <1>2 DEF HInv, InOrder, OnChesscom

\* One job moves.
LEMMA HoleOneJob ==
  ASSUME IInv, HInv, NEW j \in Jobs, UNCHANGED <<mix, game, played, excused>>, JobFits(j)',
         job' = [job EXCEPT ![j] = job'[j]], fetch' = [fetch EXCEPT ![j] = fetch'[j]]
  PROVE  HInv'
<1>1. /\ \A k \in Jobs \ {j} : job'[k] = job[k] /\ fetch'[k] = fetch[k]
      /\ fetch' = [k \in Jobs |-> fetch'[k]]
  BY DEF IInv, Typed, JobsTyped, HInv
<1>2. \A g \in Games : Missing(g)' => Missing(g)
  BY DEF Missing
<1>3. \A k \in Jobs : JobFits(k)'
  BY <1>1, <1>2, FitsStill DEF HInv
<1> QED  BY <1>1, <1>3, HoleStands

LEMMA IdleFits ==
  ASSUME IInv, HInv, NEW j \in Jobs, JobEnds(j), UNCHANGED mix
  PROVE  /\ JobFits(j)' /\ \A k \in Jobs \ {j} : job'[k] = job[k] /\ fetch'[k] = fetch[k]
         /\ job' = [job EXCEPT ![j] = job'[j]] /\ fetch' = [fetch EXCEPT ![j] = fetch'[j]]
<1>1. /\ job' = [job EXCEPT ![j] = JobIdle] /\ fetch' = [fetch EXCEPT ![j] = Fresh(0)]
      /\ job = [k \in Jobs |-> job[k]] /\ fetch = [k \in Jobs |-> fetch[k]]
  BY DEF JobEnds, IInv, Typed, JobsTyped, HInv
<1>2. /\ job'[j] = JobIdle /\ fetch'[j] = Fresh(0)
      /\ \A k \in Jobs \ {j} : job'[k] = job[k] /\ fetch'[k] = fetch[k]
  BY <1>1
<1>3. JobFits(j)'
  BY <1>2, FitsFresh DEF JobIdle, UnderWay
<1> QED  BY <1>1, <1>2, <1>3

LEMMA Quota == Default \in Nat /\ Default > 0 /\ \A m \in Maxes : m \in Nat
<1>1. Default \in Nat \ {0} /\ Quotas \subseteq Nat
  BY LibraryAssumption
<1> QED  BY <1>1 DEF Maxes

LEMMA StartHole ==
  ASSUME IInv, HInv, NEW j \in Jobs, Start(j), UNCHANGED mix
  PROVE  HInv'
<1>1. UNCHANGED <<mix, game, played, excused>>
  BY DEF Start, history
<1>2. job = [k \in Jobs |-> job[k]] /\ fetch = [k \in Jobs |-> fetch[k]]
  BY DEF IInv, Typed, JobsTyped, HInv
<1>3. ASSUME NEW kind, NEW i, fetch' = fetch,
             job' = [job EXCEPT ![j] = [JobIdle EXCEPT !.kind = kind, !.at = "read", !.pid = i]]
      PROVE  HInv'
  <2>1. job'[j].at = "read" /\ job'[j].since = Always /\ fetch'[j] = fetch[j]
        /\ job' = [job EXCEPT ![j] = job'[j]] /\ fetch' = [fetch EXCEPT ![j] = fetch'[j]]
    BY <1>2, <1>3 DEF JobIdle
  <2>2. ~UnderWay(j)'
    BY <2>1 DEF UnderWay
  <2>3. JobFits(j)'
    BY <1>1, <2>1, <2>2 DEF HInv, JobFits, FetchTyped, SinceFits, FetchFits, Fetches, Always
  <2> QED  BY <1>1, <2>1, <2>3, HoleOneJob
<1>4. ASSUME NEW kind, NEW n \in Names, fetch' = [fetch EXCEPT ![j] = Fresh(Default)],
             job' = [job EXCEPT ![j] = [JobIdle EXCEPT !.kind = kind, !.at = "fetch", !.name = n]]
      PROVE  HInv'
  <2>1. /\ job'[j].at = "fetch" /\ job'[j].since = Always /\ job'[j].name = n
        /\ fetch'[j] = Fresh(Default)
        /\ job' = [job EXCEPT ![j] = job'[j]] /\ fetch' = [fetch EXCEPT ![j] = fetch'[j]]
    BY <1>2, <1>4 DEF JobIdle
  <2>2. Default \in Nat /\ Default > 0
    BY Quota
  <2>3. JobFits(j)'
    BY <1>1, <2>1, <2>2, FitsFresh
  <2> QED  BY <1>1, <2>1, <2>3, HoleOneJob
<1> QED  BY <1>3, <1>4 DEF Start

LEMMA ReadHole ==
  ASSUME IInv, HInv, NEW j \in Jobs, ReadProfile(j), UNCHANGED mix
  PROVE  HInv'
<1>1. UNCHANGED <<mix, game, played, excused>>
  BY DEF ReadProfile, history
<1> DEFINE i == job[j].pid
<1>2. /\ job = [k \in Jobs |-> job[k]] /\ fetch = [k \in Jobs |-> fetch[k]]
      /\ DOMAIN job[j] = JobFields /\ job[j].since = Always
  BY DEF ReadProfile, IInv, Typed, JobsTyped, HInv, JobFits, FetchTyped
<1>3. CASE i \notin Tracked
  <2>1. JobEnds(j)
    BY <1>3 DEF ReadProfile
  <2> QED  BY <1>1, <2>1, IdleFits, HoleOneJob
<1>4. CASE i \in Tracked
  <2>1. PICK at \in {"since", "fetch"} :
          job' = [job EXCEPT ![j].name = profile[i].name, ![j].at = at]
    BY <1>4 DEF ReadProfile
  <2>2. fetch' = [fetch EXCEPT ![j] = Fresh(MaxOf(i))]
    BY <1>4 DEF ReadProfile
  <2>3. MaxOf(i) \in Nat /\ MaxOf(i) > 0 /\ profile[i].name \in Names
    <3>0. i \in Ids /\ profile[i] # Gone
      BY <1>4 DEF Tracked
    <3> HIDE DEF i
    <3>1. /\ profile[i].name \in Someone /\ profile[i].max \in Maxes
          /\ profile[i].name # Nobody
      BY <3>0 DEF IInv, Typed, RowsTyped
    <3>2. profile[i].max \in Nat /\ Default \in Nat /\ Default > 0
      BY <3>1, Quota
    <3> QED  BY <3>1, <3>2 DEF MaxOf, Someone
  <2>4. /\ job'[j].at = at /\ job'[j].name = profile[i].name /\ job'[j].since = job[j].since
        /\ fetch'[j] = Fresh(MaxOf(i))
        /\ job' = [job EXCEPT ![j] = job'[j]] /\ fetch' = [fetch EXCEPT ![j] = fetch'[j]]
    BY <1>2, <2>1, <2>2 DEF JobFields
  <2>5. JobFits(j)'
    BY <1>1, <1>2, <2>3, <2>4, FitsFresh DEF HInv, JobFits, FetchTyped
  <2> QED  BY <1>1, <2>4, <2>5, HoleOneJob
<1> QED  BY <1>3, <1>4

\* A job at its next stage is the same job.
LEMMA Goto ==
  ASSUME IInv, NEW j \in Jobs, NEW at, JobGoto(j, at)
  PROVE  /\ job'[j].at = at /\ job'[j].kind = job[j].kind /\ job'[j].name = job[j].name
         /\ job'[j].since = job[j].since /\ job' = [job EXCEPT ![j] = job'[j]]
<1>1. job = [k \in Jobs |-> job[k]] /\ DOMAIN job[j] = JobFields
  BY DEF IInv, Typed, JobsTyped
<1> QED  BY <1>1 DEF JobGoto, JobFields

LEMMA SinceHole ==
  ASSUME IInv, HInv, NEW j \in Jobs, ReadSince(j), UNCHANGED mix
  PROVE  HInv'
<1>1. UNCHANGED <<mix, game, played, excused>> /\ fetch'[j] = fetch[j]
  BY DEF ReadSince, history
<1> DEFINE n == job[j].name
<1>2. /\ job = [k \in Jobs |-> job[k]] /\ fetch = [k \in Jobs |-> fetch[k]]
      /\ DOMAIN job[j] = JobFields
  BY DEF IInv, Typed, JobsTyped, HInv
<1>3. /\ job'[j].at = "fetch" /\ job'[j].kind = job[j].kind /\ job'[j].name = n
      /\ job'[j].since = Latest(n)
      /\ job' = [job EXCEPT ![j] = job'[j]] /\ fetch' = [fetch EXCEPT ![j] = fetch'[j]]
  BY <1>2 DEF ReadSince, JobFields
<1>4. /\ FetchTyped(j) /\ UnderWay(j) /\ UnderWay(j)' /\ (Fetches(j)' <=> Fetches(j))
      /\ n \in Names /\ fetch[j].got = {} /\ job[j].at = "since"
  BY <1>3 DEF HInv, JobFits, FetchTyped, ReadSince, UnderWay, Fetches
<1>5. /\ Latest(n) \in Nat
      /\ Latest(n) = Always \/ \E h \in Games : game[h].name = n /\ Latest(n) = InPgn(At[h])
  BY <1>4, Latests
<1> HIDE DEF n
<1>6. FetchTyped(j)'
  BY <1>1, <1>3, <1>4, <1>5 DEF FetchTyped, OnChesscom
<1>7. SinceFits(j)'
  <2>1. ASSUME NEW g \in Games, n \in Players[g], Missing(g) PROVE Latest(n) <= Reached(g)
    BY <1>5, <2>1, Reach DEF HInv, Whole, Reaches, Always
  <2>2. \A g \in Games : Missing(g)' = Missing(g) /\ Reached(g)' = Reached(g)
    BY <1>1 DEF Missing, Reached, OnChesscom
  <2> QED  BY <1>3, <2>1, <2>2 DEF SinceFits, Of
<1>8. FetchFits(j)'
  <2>1. \A g \in Games : WithinReach(j, g)'
    BY <1>1, <1>3, <1>4 DEF WithinReach
  <2> QED  BY <2>1 DEF FetchFits, Of
<1> QED  BY <1>1, <1>3, <1>6, <1>7, <1>8, HoleOneJob DEF JobFits

LEMMA RatingsHole ==
  ASSUME IInv, HInv, NEW j \in Jobs, FetchRatings(j), UNCHANGED mix
  PROVE  HInv'
<1>1. UNCHANGED <<mix, game, played, excused>> /\ fetch' = fetch
      /\ JobGoto(j, "store") /\ job[j].kind = "stats" /\ fetch = [k \in Jobs |-> fetch[k]]
  BY DEF FetchRatings, history, HInv
<1>2. /\ job'[j].at = "store" /\ job'[j].kind = "stats" /\ job'[j].name = job[j].name
      /\ job'[j].since = job[j].since /\ job' = [job EXCEPT ![j] = job'[j]]
  BY <1>1, Goto
<1>3. ~Fetches(j)' /\ UnderWay(j)
  BY <1>2 DEF Fetches, FetchRatings, UnderWay
<1>4. FetchTyped(j)'
  BY <1>1, <1>2, <1>3 DEF HInv, JobFits, FetchTyped
<1>5. JobFits(j)'
  BY <1>3, <1>4 DEF JobFits, SinceFits, FetchFits
<1> QED  BY <1>1, <1>2, <1>5, HoleOneJob

\* What is fetched then, and that a game the fetch passes over for no reason is
\* within reach of all it has brought.
LEMMA Adds ==
  ASSUME HInv, NEW j \in Jobs, NEW some \in SUBSET played, NEW until, NEW months, NEW excuse,
         Cardinality(some) \in Nat, Add(j, some, until, months, excuse)
  PROVE  /\ DOMAIN fetch'[j] = {"got", "left", "until", "months", "skip"}
         /\ fetch'[j].got = fetch[j].got \cup some
         /\ fetch'[j].left = fetch[j].left - Cardinality(some)
         /\ fetch'[j].until = until /\ fetch'[j].months = months
         /\ fetch' = [fetch EXCEPT ![j] = fetch'[j]]
         /\ fetch[j].skip \subseteq fetch'[j].skip
         /\ \A g \in Of(job[j].name) :
              /\ g \notin fetch'[j].got /\ g \notin fetch'[j].skip
              /\ fetch'[j].left = 0 \/ g \in excuse
              => \A h \in fetch'[j].got : Reaches(h, g)
<1>1. fetch = [k \in Jobs |-> fetch[k]]
  BY DEF HInv
<1> DEFINE got  == fetch[j].got \cup some
           left == fetch[j].left - Cardinality(some)
           lost == {g \in Of(job[j].name) \ got : \E h \in got : InPgn(At[h]) > Reached(g)}
           skip == fetch[j].skip \cup {g \in lost : left = 0 \/ g \in excuse}
<1>2. fetch' = [fetch EXCEPT ![j] = [got |-> got, left |-> left, until |-> until,
                                     months |-> months, skip |-> skip]]
  BY DEF Add
<1>3. /\ DOMAIN fetch'[j] = {"got", "left", "until", "months", "skip"}
      /\ fetch'[j].got = got /\ fetch'[j].left = left /\ fetch'[j].until = until
      /\ fetch'[j].months = months /\ fetch'[j].skip = skip
      /\ fetch' = [fetch EXCEPT ![j] = fetch'[j]]
  BY <1>1, <1>2
<1>4. got \subseteq Games
  BY DEF HInv, JobFits, FetchTyped
<1>5. ASSUME NEW g \in Of(job[j].name), g \notin got, g \notin skip, left = 0 \/ g \in excuse,
             NEW h \in got
      PROVE  Reaches(h, g)
  <2>1. g \in Games /\ h \in Games /\ ~(InPgn(At[h]) > Reached(g))
    BY <1>4, <1>5 DEF Of
  <2> QED  BY <2>1, Reach DEF Reaches
<1> QED  BY <1>3, <1>5

\* lichess: a page brings the newest games, so that what it passes over is older
\* than the next page's end, or shares a second with a game of it, or is not over.
LEMMA PageHole ==
  ASSUME IInv, HInv, NEW j \in Jobs, FetchPage(j), UNCHANGED mix
  PROVE  HInv'
<1>1. UNCHANGED <<mix, game, played, excused>>
  BY DEF FetchPage, history
<1> DEFINE n == job[j].name
           f == fetch[j]
           offered == {g \in played \cap Of(n) : job[j].since <= At[g] /\ At[g] <= f.until}
           quota == Min({Batch, f.left})
<1>2. PICK page \in Newest(offered, At, quota) :
        /\ Add(j, page, NextUntil(page), {}, Excuse(page, f.until))
        /\ JobGoto(j, IF page = {} \/ fetch'[j].left = 0 THEN "store" ELSE "fetch")
  BY DEF FetchPage
<1>3. /\ FetchTyped(j) /\ SinceFits(j) /\ FetchFits(j) /\ Fetches(j) /\ ~OnChesscom
      /\ job[j].at = "fetch" /\ f.left > 0 /\ f.left \in Nat /\ played \subseteq Games
      /\ job[j].since \in Nat /\ f.until \in Int /\ n \in Names /\ f.got \subseteq played
  BY DEF HInv, JobFits, FetchTyped, FetchPage, Fetches, UnderWay
<1>4. quota \in Nat /\ quota > 0 /\ quota <= f.left
  <2>1. {Batch, f.left} \in SUBSET Nat /\ {Batch, f.left} # {} /\ Batch > 0
    BY <1>3, Units
  <2>2. quota \in {Batch, f.left} /\ \A i \in {Batch, f.left} : quota <= i
    BY <2>1, Least
  <2> HIDE DEF quota, f
  <2> QED  BY <1>3, <2>1, <2>2
<1>5. offered \in SUBSET Games
  BY <1>3
<1>6. /\ page \subseteq offered /\ Cardinality(page) \in Nat /\ Cardinality(page) <= quota
      /\ page = {} => offered = {}
      /\ \A g \in offered \ page, h \in page : At[h] >= At[g]
  <2> HIDE DEF offered, quota
  <2>1. page \in Newest(offered, At, quota) /\ quota \in Nat
    BY <1>4
  <2> HIDE <1>2
  <2>2. /\ page \subseteq offered /\ Cardinality(page) \in Nat
        /\ Cardinality(page) <= quota
        /\ page = {} /\ quota > 0 => offered = {}
        /\ \A g \in offered \ page, h \in page : At[h] >= At[g]
    BY <1>5, <2>1, Answers
  <2> QED  BY <1>4, <2>2
<1>7. /\ page \in SUBSET Games /\ page \in SUBSET played
  BY <1>3, <1>6
<1>8. /\ DOMAIN fetch'[j] = {"got", "left", "until", "months", "skip"}
      /\ fetch'[j].got = f.got \cup page /\ fetch'[j].left = f.left - Cardinality(page)
      /\ fetch'[j].until = NextUntil(page) /\ fetch'[j].months = {}
      /\ fetch' = [fetch EXCEPT ![j] = fetch'[j]] /\ f.skip \subseteq fetch'[j].skip
      /\ \A g \in Of(n) :
           /\ g \notin fetch'[j].got /\ g \notin fetch'[j].skip
           /\ fetch'[j].left = 0 \/ g \in Excuse(page, f.until)
           => \A h \in fetch'[j].got : Reaches(h, g)
  BY <1>2, <1>6, <1>7, Adds
<1>9. /\ job'[j].kind = job[j].kind /\ job'[j].name = n /\ job'[j].since = job[j].since
      /\ job' = [job EXCEPT ![j] = job'[j]]
      /\ job'[j].at = IF page = {} \/ fetch'[j].left = 0 THEN "store" ELSE "fetch"
  BY <1>2, Goto
<1>10. NextUntil(page) \in Int /\ NextUntil(page) >= -1 /\ (page = {} => NextUntil(page) = -1)
       /\ (page # {} => \E h \in page : NextUntil(page) = InPgn(At[h]) - 1)
  BY <1>7, NextPages
<1> HIDE DEF n, f, offered, quota
<1>11. /\ Fetches(j)' /\ ~OnChesscom'
       /\ \A g \in Games : Missing(g)' = Missing(g) /\ Reached(g)' = Reached(g)
       /\ \A g \in Games : Reached(g) = InPgn(At[g])
  BY <1>1, <1>3, <1>9 DEF Fetches, UnderWay, OnChesscom, Missing, Reached
<1>12. FetchTyped(j)'
  <2>1. fetch'[j].left \in Nat
    BY <1>3, <1>4, <1>6, <1>8
  <2>2. fetch'[j].got \subseteq played
    BY <1>3, <1>7, <1>8
  <2>3. job'[j].at = "fetch" => fetch'[j].left > 0
    BY <1>9, <2>1
  <2>4. job'[j].at \in {"fetch", "store"} /\ IsFiniteSet({})
    BY <1>9, FS_EmptySet
  <2> QED  BY <1>1, <1>3, <1>8, <1>9, <1>10, <1>11, <2>1, <2>2, <2>3, <2>4
           DEF FetchTyped, UnderWay, Fetches
<1>13. SinceFits(j)'
  BY <1>3, <1>9, <1>11 DEF SinceFits, Of, n
<1>14. ASSUME NEW g \in Of(n), Missing(g), g \notin fetch'[j].got, g \notin fetch'[j].skip
       PROVE  \/ job'[j].at = "fetch" /\ At[g] <= NextUntil(page)
              \/ \A h \in fetch'[j].got : Reaches(h, g)
  <2>1. g \in Games /\ At[g] \in Nat /\ InPgn(At[g]) \in Nat /\ InPgn(At[g]) <= At[g]
    BY Units, Seconds DEF Of
  <2>2. job[j].since <= At[g]
    <3>1. job[j].since <= Reached(g)
      BY <1>3, <1>14 DEF SinceFits, n
    <3> QED  BY <1>3, <1>11, <2>1, <3>1
  <2>3. \A h \in page : h \in Games /\ At[h] \in Nat /\ InPgn(At[h]) \in Nat /\ At[h] <= f.until
    BY <1>6, <1>7, Units, Seconds DEF offered
  <2>4. CASE g \in Excuse(page, f.until) \/ fetch'[j].left = 0
    BY <1>8, <1>14, <2>4
  <2>5. CASE ~(At[g] <= f.until)
    <3>1. \A h \in f.got : Reaches(h, g)
      BY <1>3, <1>8, <1>14, <2>5 DEF FetchFits, ToCome, WithinReach, f, n
    <3>2. \A h \in page : Reaches(h, g)
      <4> TAKE h \in page
      <4>1. At[h] <= At[g]
        BY <1>3, <2>1, <2>3, <2>5
      <4> QED  BY <1>11, <2>1, <2>3, <4>1, Seconds DEF Reaches
    <3> QED  BY <1>8, <3>1, <3>2
  <2>6. CASE At[g] <= f.until /\ fetch'[j].left # 0 /\ g \notin Excuse(page, f.until)
    <3>1. CASE page = {}
      <4>1. g \in played
        BY <1>10, <2>1, <2>6, <3>1 DEF Excuse
      <4> QED  BY <1>6, <1>14, <2>2, <2>6, <3>1, <4>1 DEF offered
    <3>2. CASE page # {} /\ At[g] <= NextUntil(page)
      BY <1>9, <2>6, <3>2
    <3>3. CASE page # {} /\ NextUntil(page) < At[g]
      <4>1. g \in played /\ \A h \in page : InPgn(At[h]) # InPgn(At[g])
        BY <2>1, <2>6, <3>3 DEF Excuse
      <4>2. g \in offered \ page
        BY <1>8, <1>14, <2>2, <2>6, <4>1 DEF offered
      <4>3. PICK h \in page : NextUntil(page) = InPgn(At[h]) - 1
        BY <1>10, <3>3
      <4>4. InPgn(At[h]) <= At[g] /\ At[g] <= At[h]
        BY <1>6, <2>1, <2>3, <3>3, <4>2, <4>3
      <4> QED  BY <2>1, <2>3, <4>1, <4>4, Seconds
    <3> QED  BY <1>10, <2>1, <2>6, <3>1, <3>2, <3>3
  <2> QED  BY <2>4, <2>5, <2>6
<1>15. FetchFits(j)'
  <2>1. ASSUME NEW g \in Of(n), Missing(g), g \notin fetch'[j].got, g \notin fetch'[j].skip
        PROVE  ToCome(j, g)' \/ WithinReach(j, g)'
    <3>1. g \in Games /\ Reached(g)' = Reached(g) /\ job'[j].at # "archive"
      BY <1>9, <1>11 DEF Of
    <3>2. CASE job'[j].at = "fetch" /\ At[g] <= NextUntil(page)
      BY <1>8, <1>11, <3>2 DEF ToCome
    <3>3. CASE \A h \in fetch'[j].got : Reaches(h, g)
      BY <3>1, <3>3 DEF WithinReach, Reaches
    <3> QED  BY <1>14, <2>1, <3>2, <3>3
  <2>2. job'[j].name = n /\ \A g \in Of(n) : Missing(g)' = Missing(g)
    BY <1>9, <1>11 DEF Of
  <2> QED  BY <2>1, <2>2 DEF FetchFits, Of
<1> QED  BY <1>1, <1>8, <1>9, <1>12, <1>13, <1>15, HoleOneJob DEF JobFits

\* chess.com: a game whose month is not listed was over before the sync begins,
\* or is not over yet.
LEMMA ArchivesHole ==
  ASSUME IInv, HInv, NEW j \in Jobs, FetchArchives(j), UNCHANGED mix
  PROVE  HInv'
<1>1. UNCHANGED <<mix, game, played, excused>>
  BY DEF FetchArchives, history
<1> DEFINE n == job[j].name
           f == fetch[j]
           all == {MonthOf(End[g]) : g \in played \cap Of(n)}
           months == ArchivesSince(all, job[j].since)
<1>2. /\ fetch' = [fetch EXCEPT ![j].months = months]
      /\ JobGoto(j, IF fetch'[j].months = {} THEN "store" ELSE "archive")
  BY DEF FetchArchives
<1>3. /\ FetchTyped(j) /\ SinceFits(j) /\ Fetches(j) /\ OnChesscom /\ InOrder
      /\ job[j].at = "fetch" /\ played \subseteq Games /\ job[j].since \in Nat /\ n \in Names
      /\ f.got = {} /\ f.left > 0 /\ fetch = [k \in Jobs |-> fetch[k]]
  BY DEF HInv, JobFits, FetchTyped, FetchArchives, Fetches, UnderWay
<1>4. /\ DOMAIN fetch'[j] = DOMAIN f
      /\ fetch'[j].got = {} /\ fetch'[j].left = f.left /\ fetch'[j].until = f.until
      /\ fetch'[j].months = months /\ fetch' = [fetch EXCEPT ![j] = fetch'[j]]
  BY <1>2, <1>3 DEF FetchTyped
<1>5. /\ job'[j].kind = job[j].kind /\ job'[j].name = n /\ job'[j].since = job[j].since
      /\ job' = [job EXCEPT ![j] = job'[j]]
      /\ job'[j].at = IF fetch'[j].months = {} THEN "store" ELSE "archive"
  BY <1>2, Goto
<1>6. all \subseteq Nat /\ IsFiniteSet(all)
  <2> DEFINE of == played \cap Of(n)
  <2>1. of \subseteq Games /\ IsFiniteSet(of)
    BY <1>3, FetchAssumption, FS_Subset
  <2>2. [g \in of |-> MonthOf(End[g])] \in Surjection(of, all)
    BY DEF Surjection
  <2>3. IsFiniteSet(all)
    <3> HIDE DEF of, all
    <3> QED  BY <2>1, <2>2, FS_Surjection
  <2>4. \A g \in Games : MonthOf(End[g]) \in Nat
    <3> TAKE g \in Games
    <3>1. End[g] \in Nat /\ End[g] <= End[g]
      BY Units
    <3> QED  BY <3>1, Months
  <2> QED  BY <2>1, <2>3, <2>4
<1>7. months \subseteq Nat /\ IsFiniteSet(months)
  <2>1. months \subseteq all
    BY DEF ArchivesSince
  <2> HIDE DEF months, all
  <2> QED  BY <1>6, <2>1, FS_Subset
<1> HIDE DEF n, f, months
<1>8. /\ Fetches(j)' /\ OnChesscom'
      /\ \A g \in Games : Missing(g)' = Missing(g) /\ Reached(g)' = Reached(g)
      /\ \A g \in Games : Reached(g) = End[g]
  BY <1>1, <1>3, <1>5 DEF Fetches, UnderWay, OnChesscom, Missing, Reached
<1>9. FetchTyped(j)'
  <2>1. /\ job'[j].at \in {"store", "archive"} /\ (job'[j].at = "archive" => months # {})
        /\ job'[j].kind # "stats"
    BY <1>3, <1>4, <1>5 DEF Fetches
  <2> QED  BY <1>1, <1>3, <1>4, <1>5, <1>7, <1>8, <2>1 DEF FetchTyped, f
<1>10. SinceFits(j)'
  BY <1>3, <1>5, <1>8 DEF SinceFits, Of, n
<1>11. ASSUME NEW g \in Of(n), Missing(g), MonthOf(End[g]) \notin months, NEW m \in months
       PROVE  m <= MonthOf(End[g])
  <2>1. g \in Games /\ End[g] \in Nat
    BY Units DEF Of
  <2>2. g \notin played
    <3> SUFFICES ASSUME g \in played PROVE FALSE
      OBVIOUS
    <3>1. MonthOf(End[g]) \in all
      OBVIOUS
    <3>2. job[j].since <= End[g]
      BY <1>3, <1>8, <1>11, <2>1 DEF SinceFits, n
    <3>3. /\ MonthOf(job[j].since) \in Nat /\ MonthOf(End[g]) \in Nat
          /\ MonthOf(job[j].since) <= MonthOf(End[g])
      BY <1>3, <1>6, <2>1, <3>1, <3>2, Months
    <3> QED  BY <1>11, <3>1, <3>3 DEF months, ArchivesSince
  <2>3. PICK x \in played : m = MonthOf(End[x])
    BY <1>11 DEF months, ArchivesSince
  <2>4. x \in Games /\ End[x] \in Nat /\ End[x] <= End[g]
    BY <1>3, <2>1, <2>2, Units DEF InOrder
  <2> QED  BY <2>1, <2>3, <2>4, Months
<1>12. FetchFits(j)'
  <2>1. ASSUME NEW g \in Of(n), Missing(g) PROVE ToCome(j, g)' \/ WithinReach(j, g)'
    <3>1. CASE MonthOf(End[g]) \in months
      <4>1. job'[j].at = "archive"
        BY <1>4, <1>5, <3>1
      <4> QED  BY <1>4, <3>1, <4>1 DEF ToCome
    <3>2. CASE MonthOf(End[g]) \notin months
      BY <1>4, <1>11, <2>1, <3>2 DEF WithinReach
    <3> QED  BY <3>1, <3>2
  <2>2. job'[j].name = n /\ \A g \in Of(n) : Missing(g)' = Missing(g)
    BY <1>5, <1>8 DEF Of
  <2> QED  BY <2>1, <2>2 DEF FetchFits, Of
<1> QED  BY <1>1, <1>4, <1>5, <1>9, <1>10, <1>12, HoleOneJob DEF JobFits

\* An archive is read whole, or the quota is used up; a game that ends later ends
\* after all that was read.
LEMMA ArchiveHole ==
  ASSUME IInv, HInv, NEW j \in Jobs, FetchArchive(j), UNCHANGED mix
  PROVE  HInv'
<1>1. UNCHANGED <<mix, game, played, excused>>
  BY DEF FetchArchive, history
<1> DEFINE n == job[j].name
           f == fetch[j]
           month == Max(f.months)
           offered == {g \in played \cap Of(n) : MonthOf(End[g]) = month /\ job[j].since <= End[g]}
           rest == f.months \ {month}
<1>2. PICK some \in Newest(offered, End, f.left) :
        /\ Add(j, some, f.until, rest, {})
        /\ JobGoto(j, IF fetch'[j].months = {} \/ fetch'[j].left = 0 THEN "store" ELSE "archive")
  BY DEF FetchArchive
<1>3. /\ FetchTyped(j) /\ SinceFits(j) /\ FetchFits(j) /\ Fetches(j) /\ OnChesscom /\ InOrder
      /\ job[j].at = "archive" /\ f.left \in Nat /\ played \subseteq Games /\ job[j].since \in Nat
      /\ f.until \in Int /\ f.until >= -1 /\ n \in Names /\ f.got \subseteq played
      /\ f.months \in SUBSET Nat /\ f.months # {} /\ IsFiniteSet(f.months)
  BY DEF HInv, JobFits, FetchTyped, FetchArchive, Fetches, UnderWay
<1>4. month \in f.months /\ \A m \in f.months : m <= month
  <2> HIDE DEF f
  <2> QED  BY <1>3, Greatest
<1>5. offered \in SUBSET Games
  BY <1>3
<1>6. /\ some \subseteq offered /\ Cardinality(some) \in Nat /\ Cardinality(some) <= f.left
      /\ some # offered => Cardinality(some) = f.left
  <2> DEFINE quota == f.left
  <2>1. some \in Newest(offered, End, quota) /\ quota \in Nat
    BY <1>3
  <2> HIDE DEF offered, quota
  <2>2. /\ some \subseteq offered /\ Cardinality(some) \in Nat
        /\ Cardinality(some) <= quota
        /\ some # offered => Cardinality(some) = quota
    BY <1>5, <2>1, Answers
  <2> QED  BY <2>2 DEF quota
<1>7. some \in SUBSET Games /\ some \in SUBSET played
  BY <1>3, <1>6
<1>8. /\ DOMAIN fetch'[j] = {"got", "left", "until", "months", "skip"}
      /\ fetch'[j].got = f.got \cup some /\ fetch'[j].left = f.left - Cardinality(some)
      /\ fetch'[j].until = f.until /\ fetch'[j].months = rest
      /\ fetch' = [fetch EXCEPT ![j] = fetch'[j]] /\ f.skip \subseteq fetch'[j].skip
      /\ \A g \in Of(n) :
           /\ g \notin fetch'[j].got /\ g \notin fetch'[j].skip
           /\ fetch'[j].left = 0
           => \A h \in fetch'[j].got : Reaches(h, g)
  BY <1>2, <1>6, <1>7, Adds
<1>9. /\ job'[j].kind = job[j].kind /\ job'[j].name = n /\ job'[j].since = job[j].since
      /\ job' = [job EXCEPT ![j] = job'[j]]
      /\ job'[j].at = IF fetch'[j].months = {} \/ fetch'[j].left = 0 THEN "store" ELSE "archive"
  BY <1>2, Goto
<1> HIDE DEF n, f, offered, month
<1>10. /\ Fetches(j)' /\ OnChesscom'
       /\ \A g \in Games : Missing(g)' = Missing(g) /\ Reached(g)' = Reached(g)
       /\ \A g \in Games : Reached(g) = End[g]
  BY <1>1, <1>3, <1>9 DEF Fetches, UnderWay, OnChesscom, Missing, Reached
<1>11. FetchTyped(j)'
  <2>1. fetch'[j].left \in Nat
    BY <1>3, <1>6, <1>8
  <2>2. fetch'[j].got \subseteq played
    BY <1>3, <1>7, <1>8
  <2>3. job'[j].at = "archive" => fetch'[j].left > 0 /\ fetch'[j].months # {}
    BY <1>9, <2>1
  <2>4. rest \subseteq Nat /\ IsFiniteSet(rest) /\ job'[j].at \in {"archive", "store"}
    BY <1>3, <1>9, FS_Subset
  <2>5. job'[j].kind # "stats"
    BY <1>3, <1>9 DEF Fetches
  <2> QED  BY <1>1, <1>3, <1>8, <1>9, <1>10, <2>1, <2>2, <2>3, <2>4, <2>5 DEF FetchTyped, Fetches
<1>12. SinceFits(j)'
  BY <1>3, <1>9, <1>10 DEF SinceFits, Of, n
<1>13. \A h \in some :
         h \in Games /\ MonthOf(End[h]) = month /\ End[h] \in Nat /\ InPgn(At[h]) <= End[h]
  <2> TAKE h \in some
  <2>1. h \in Games /\ MonthOf(End[h]) = month
    BY <1>6, <1>7 DEF offered
  <2>2. At[h] \in Nat /\ End[h] \in Nat /\ At[h] <= End[h]
    BY <2>1, Units
  <2>3. InPgn(At[h]) \in Nat /\ InPgn(At[h]) <= At[h]
    BY <2>2, Seconds
  <2> QED  BY <2>1, <2>2, <2>3
<1>14. ASSUME NEW g \in Of(n), Missing(g), g \notin fetch'[j].got, g \notin fetch'[j].skip
       PROVE  ToCome(j, g)' \/ WithinReach(j, g)'
  <2>1. g \in Games /\ End[g] \in Nat /\ MonthOf(End[g]) \in Nat /\ g \notin some
        /\ g \notin f.got /\ g \notin f.skip
    <3>1. g \in Games /\ End[g] \in Nat
      BY Units DEF Of
    <3>2. End[g] <= End[g]
      BY <3>1
    <3> QED  BY <1>8, <1>14, <3>1, <3>2, Months
  <2>2. (\A h \in fetch'[j].got : Reaches(h, g)) /\ (\A m \in rest : m <= MonthOf(End[g]))
        => WithinReach(j, g)'
    <3>1. \A h \in fetch'[j].got : Reaches(h, g) => Reaches(h, g)'
      BY <1>10, <2>1 DEF Reaches
    <3> QED  BY <1>8, <3>1 DEF WithinReach
  <2>3. CASE fetch'[j].left = 0
    <3>1. job'[j].at = "store"
      BY <1>9, <2>3
    <3>2. \A h \in fetch'[j].got : Reaches(h, g)
      BY <1>8, <1>14, <2>3
    <3> QED  BY <1>10, <2>1, <3>1, <3>2 DEF WithinReach, Reaches
  <2>4. CASE fetch'[j].left # 0 /\ MonthOf(End[g]) \in rest
    <3>1. job'[j].at = "archive"
      BY <1>8, <1>9, <2>4
    <3> QED  BY <1>8, <2>4, <3>1 DEF ToCome
  <2>5. CASE fetch'[j].left # 0 /\ MonthOf(End[g]) = month
    <3>1. some = offered
      BY <1>3, <1>6, <1>8, <2>5
    <3>2. job[j].since <= End[g]
      BY <1>3, <1>10, <1>14, <2>1 DEF SinceFits, n
    <3>3. g \notin played
      BY <1>14, <2>1, <2>5, <3>1, <3>2 DEF offered
    <3>4. ASSUME NEW h \in fetch'[j].got PROVE Reaches(h, g)
      <4>1. h \in played /\ h \in Games
        BY <1>3, <1>7, <1>8
      <4>2. End[h] <= End[g]
        BY <1>3, <2>1, <3>3, <4>1 DEF InOrder
      <4>3. InPgn(At[h]) <= Reached(h) /\ InPgn(At[h]) \in Nat /\ Reached(h) = End[h] /\ End[h] \in Nat
        BY <1>10, <4>1, Reach, Units
      <4> QED  BY <1>10, <2>1, <4>2, <4>3 DEF Reaches
    <3>5. \A m \in rest : m <= MonthOf(End[g])
      BY <1>4, <2>5
    <3> QED  BY <2>2, <3>4, <3>5
  <2>6. CASE MonthOf(End[g]) \notin f.months
    <3>1. WithinReach(j, g) /\ month <= MonthOf(End[g]) /\ \A m \in rest : m <= MonthOf(End[g])
      BY <1>3, <1>4, <1>14, <2>1, <2>6 DEF FetchFits, ToCome, WithinReach, f, n
    <3>2. ASSUME NEW h \in some PROVE Reaches(h, g)
      <4>1. End[h] \in Nat /\ InPgn(At[h]) \in Nat /\ InPgn(At[h]) <= End[h] /\ MonthOf(End[h]) = month
        BY <1>7, <1>13, Reach
      <4>2. ~(End[g] <= End[h])
        <5> SUFFICES ASSUME End[g] <= End[h] PROVE FALSE
          OBVIOUS
        <5>1. MonthOf(End[g]) <= month
          BY <2>1, <4>1, Months
        <5>2. MonthOf(End[g]) = month
          BY <1>3, <1>4, <2>1, <3>1, <5>1 DEF f
        <5> QED  BY <1>4, <2>6, <5>2
      <4> QED  BY <1>10, <2>1, <4>1, <4>2 DEF Reaches
    <3> QED  BY <1>8, <2>2, <3>1, <3>2 DEF WithinReach, f
  <2> QED  BY <2>3, <2>4, <2>5, <2>6
<1>15. FetchFits(j)'
  <2>1. job'[j].name = n /\ \A g \in Of(n) : Missing(g)' = Missing(g)
    BY <1>9, <1>10 DEF Of
  <2> QED  BY <1>14, <2>1 DEF FetchFits, Of
<1> QED  BY <1>1, <1>8, <1>9, <1>11, <1>12, <1>15, HoleOneJob DEF JobFits

\* What was fetched comes to the library, and what was passed over for a reason is
\* noted; all that is still missing is within reach of all of it.
LEMMA StoreHole ==
  ASSUME IInv, HInv, NEW j \in Jobs, Store(j) \/ StoreRatings(j) \/ FetchFails(j), UNCHANGED mix
  PROVE  HInv'
<1>1. UNCHANGED <<mix, played>> /\ JobEnds(j)
  BY DEF Store, StoreRatings, FetchFails, history
<1>2. /\ JobFits(j)' /\ \A k \in Jobs \ {j} : job'[k] = job[k] /\ fetch'[k] = fetch[k]
      /\ job' = [job EXCEPT ![j] = job'[j]] /\ fetch' = [fetch EXCEPT ![j] = fetch'[j]]
  BY <1>1, IdleFits
<1>3. CASE StoreRatings(j) \/ FetchFails(j)
  <2>1. UNCHANGED <<game, excused>>
    BY <1>3 DEF StoreRatings, FetchFails, history
  <2> QED  BY <1>1, <1>2, <2>1, HoleOneJob
<1>4. CASE Store(j)
  <2> DEFINE n == job[j].name
  <2>1. /\ game' = [g \in Games |-> IF g \in fetch[j].got /\ game[g] = NoRow
                                    THEN [name |-> n, pid |-> job[j].pid] ELSE game[g]]
        /\ excused' = excused \cup fetch[j].skip /\ Fetches(j) /\ job[j].at = "store"
    BY <1>4 DEF Store, Fetches, UnderWay
  <2>2. FetchFits(j) /\ n \in Names /\ Nobody \notin Names
    BY <2>1, LibraryAssumption DEF HInv, JobFits, FetchTyped, Fetches
  <2> HIDE DEF n
  <2>3. [name |-> n, pid |-> job[j].pid] # NoRow
    BY <2>2 DEF NoRow
  <2>4. \A g \in Games : Missing(g)' => /\ Missing(g) /\ g \notin fetch[j].got
                                        /\ g \notin fetch[j].skip
    BY <2>1, <2>3 DEF Missing
  <2>5. \A k \in Jobs : JobFits(k)'
    BY <1>1, <1>2, <2>4, FitsStill DEF HInv
  <2>6. Whole'
    <3> SUFFICES ASSUME NEW g \in Games, Missing(g)', NEW m \in Players[g], NEW h \in Games,
                        game'[h].name = m
                 PROVE  Reaches(h, g)'
      BY DEF Whole
    <3>1. Missing(g) /\ g \notin fetch[j].got /\ g \notin fetch[j].skip
      BY <2>4
    <3>2. Reaches(h, g)' <=> Reaches(h, g)
      BY <1>1 DEF Reaches, Reached, OnChesscom
    <3>3. CASE game[h].name = m
      BY <3>1, <3>2, <3>3 DEF HInv, Whole
    <3>4. CASE game[h].name # m
      <4>1. m = n /\ h \in fetch[j].got
        BY <2>1, <3>4
      <4>2. g \in Of(n)
        BY <4>1 DEF Of
      <4>3. WithinReach(j, g)
        BY <2>1, <2>2, <3>1, <4>2 DEF FetchFits, ToCome, n
      <4> QED  BY <3>2, <4>1, <4>3 DEF WithinReach
    <3> QED  BY <3>3, <3>4
  <2>7. \A g \in Games : game'[g] # NoRow => game'[g].name \in Names
    BY <2>1, <2>2 DEF HInv
  <2>8. InOrder' /\ played' \subseteq Games /\ fetch' = [k \in Jobs |-> fetch'[k]]
    BY <1>1, <1>2 DEF HInv, InOrder, OnChesscom
  <2> QED  BY <2>5, <2>6, <2>7, <2>8 DEF HInv
<1> QED  BY <1>3, <1>4

LEMMA PlayHole ==
  ASSUME IInv, HInv, NEW g \in Games, Play(g), UNCHANGED mix
  PROVE  HInv'
<1>1. UNCHANGED <<mix, game, job, fetch, excused>> /\ played' = played \cup {g}
      /\ (OnChesscom => \A h \in Games \ played : End[g] <= End[h])
  BY DEF Play, history, work
<1>2. \A k \in Games : (Missing(k)' <=> Missing(k)) /\ Reached(k)' = Reached(k)
  BY <1>1 DEF Missing, Reached, OnChesscom
<1>3. \A j \in Jobs : JobFits(j)'
  BY <1>1, <1>2, FitsStill DEF HInv
<1>4. Whole'
  BY <1>1, <1>2 DEF HInv, Whole, Reaches
<1>5. InOrder'
  BY <1>1 DEF HInv, InOrder, OnChesscom
<1> QED  BY <1>1, <1>3, <1>4, <1>5 DEF HInv

LEMMA ServeHole ==
  ASSUME IInv, HInv, NEW r \in Requests, Serve(r), UNCHANGED mix
  PROVE  HInv'
<1>1. UNCHANGED <<mix, game, played, job, fetch, excused>>
  BY DEF Serve, CreateFind, CreateAsk, CreateInsert, PatchRead, PatchWrite, PatchPreferences,
         history, work
<1>2. \A k \in Games : Missing(k)' => Missing(k)
  BY <1>1 DEF Missing
<1>3. \A j \in Jobs : JobFits(j)'
  BY <1>1, <1>2, FitsStill DEF HInv
<1> QED  BY <1>1, <1>3, HoleStands DEF HInv

\* A game that goes is noted, and one that loses its id keeps its name.
LEMMA DeleteHole ==
  ASSUME IInv, HInv, NEW i \in Ids, Delete(i), UNCHANGED mix
  PROVE  HInv'
<1>1. UNCHANGED <<mix, job, fetch, played>>
  BY DEF Delete, work
<1>2. /\ \A g \in Games : \/ game'[g] = game[g]
                          \/ game[g] # NoRow /\ game'[g] = [game[g] EXCEPT !.pid = 0]
                          \/ game'[g] = NoRow /\ g \in excused'
      /\ excused \subseteq excused'
  BY DEF Delete
<1>3. \A g \in Games : DOMAIN game[g] = {"name", "pid"}
  BY DEF IInv, Typed, RowsTyped
<1>4. \A g \in Games : (game'[g] = NoRow /\ g \in excused') \/ game'[g].name = game[g].name
  BY <1>2, <1>3
<1>5. Nobody \notin Names /\ NoRow.name = Nobody
  BY LibraryAssumption DEF NoRow
<1>6. \A g \in Games : Missing(g)' => Missing(g)
  <2> TAKE g \in Games
  <2>1. game[g] # NoRow => game[g].name \in Names
    BY DEF HInv
  <2> QED  BY <1>2, <1>4, <1>5, <2>1 DEF Missing
<1>7. \A j \in Jobs : JobFits(j)'
  BY <1>1, <1>6, FitsStill DEF HInv
<1>8. Whole'
  <2>1. ASSUME NEW g \in Games, Missing(g)', NEW n \in Players[g], NEW h \in Games,
               game'[h].name = n
        PROVE  Reaches(h, g)'
    <3>1. n \in Names
      BY LibraryAssumption
    <3>2. game[h].name = n
      BY <1>4, <1>5, <2>1, <3>1
    <3>3. Reaches(h, g)
      BY <1>6, <2>1, <3>2 DEF HInv, Whole
    <3> QED  BY <1>1, <3>3 DEF Reaches, Reached, OnChesscom
  <2> QED  BY <2>1 DEF Whole
<1>9. \A g \in Games : game'[g] # NoRow => game'[g].name \in Names
  BY <1>2, <1>4 DEF HInv
<1>10. InOrder'
  BY <1>1 DEF HInv, InOrder, OnChesscom
<1> QED  BY <1>1, <1>7, <1>8, <1>9, <1>10 DEF HInv

LEMMA HInvInit == Init => HInv
<1> SUFFICES ASSUME Init PROVE HInv
  OBVIOUS
<1>1. /\ played = {} /\ \A g \in Games : game[g] = NoRow
      /\ \A j \in Jobs : job[j] = JobIdle /\ fetch[j] = Fresh(0)
      /\ fetch = [j \in Jobs |-> fetch[j]]
  BY DEF Init
<1>2. InOrder
  BY <1>1 DEF InOrder
<1>3. Whole
  <2>1. ASSUME NEW g \in Games, NEW n \in Players[g] PROVE n # NoRow.name
    BY LibraryAssumption DEF NoRow
  <2> QED  BY <1>1, <2>1 DEF Whole
<1>4. ASSUME NEW j \in Jobs PROVE JobFits(j)
  <2>1. ~UnderWay(j) /\ ~Fetches(j)
    BY <1>1 DEF UnderWay, Fetches, JobIdle
  <2>2. FetchTyped(j)
    BY <1>1, <2>1, Units, FS_EmptySet DEF FetchTyped, Fresh, JobIdle, Always
  <2> QED  BY <2>1, <2>2 DEF JobFits, SinceFits, FetchFits
<1> QED  BY <1>1, <1>2, <1>3, <1>4 DEF HInv

LEMMA HInvNext == IInv /\ HInv /\ [Next]_vars => HInv'
<1> SUFFICES ASSUME IInv, HInv, [Next]_vars PROVE HInv'
  OBVIOUS
<1>1. CASE UNCHANGED vars
  <2>1. UNCHANGED <<mix, game, played, job, fetch, excused>>
    BY <1>1 DEF vars, history, work
  <2>2. \A g \in Games : Missing(g)' => Missing(g)
    BY <2>1 DEF Missing
  <2>3. \A j \in Jobs : JobFits(j)'
    BY <2>1, <2>2, FitsStill DEF HInv
  <2> QED  BY <2>1, <2>3, HoleStands DEF HInv
<1>2. CASE Next
  BY <1>2, StartHole, ReadHole, SinceHole, PageHole, ArchivesHole, ArchiveHole, RatingsHole, StoreHole,
     PlayHole, ServeHole, DeleteHole DEF Next, Work
<1> QED  BY <1>1, <1>2

\* A game of a name that is missing and that no later sync reaches was left out by
\* a quota, or deleted, or on lichess was still going on or shared its second with
\* one on another page: for all games, times, quotas and jobs (SyncGamesJob,
\* get_latest_game_time, both fetch loops).
THEOREM NoHoleEver == Spec => []NoHole
<1>1. ASSUME IInv, HInv PROVE NoHole
  <2> SUFFICES ASSUME NEW n \in Names, NEW g \in played \ excused, n \in Players[g], game[g] = NoRow
               PROVE  Latest(n) <= Reached(g)
    BY DEF NoHole
  <2>1. g \in Games /\ Missing(g)
    BY <1>1 DEF HInv, Missing
  <2> QED  BY <1>1, <2>1, Latests, Reach DEF HInv, Whole, Reaches, Always
<1>2. Init => IInv /\ HInv
  BY IInvInit, HInvInit
<1>3. IInv /\ HInv /\ [Next]_vars => IInv' /\ HInv'
  BY IInvNext, HInvNext
<1> QED  BY <1>1, <1>2, <1>3, PTL DEF Spec
=============================================================================
