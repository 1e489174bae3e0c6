--------------------------- MODULE Accounts_proofs ---------------------------
(***************************************************************************)
(* What is proved of Accounts, for any users, requests, tokens, cap and    *)
(* mixture of operations.                                                  *)
(*                                                                         *)
(* What is committed is whole only because the sign-up that is inside its  *)
(* transaction is alone there, and because the connection shows what is    *)
(* committed and this one account (Pending): so the count and the invite   *)
(* it read are still those the commit meets.  The id of a sign-up is new   *)
(* (RequestsAreSound), hence no session and no command of the operator is  *)
(* about it when its credential is written.  Directories stand because a   *)
(* name an operator's command was given is one the tables have used, and   *)
(* ids are not used twice; the gate is fresh because whoever marks the     *)
(* setup forgets what was read before (DInv).                              *)
(***************************************************************************)
EXTENDS Accounts, FiniteSetTheorems, TLAPS

\* Of a version of the tables: nothing in it is without what it hangs on.
Whole(d) ==
    /\ d \in Tables
    /\ IsFiniteSet(d.users) /\ Cardinality(d.users) <= MaxUsers
    /\ d.users \subseteq d.used
    /\ \A u \in Users : u \in d.users <=> d.cred[u] # NoCredential
    /\ \A t \in Tokens : d.sess[t] # NoSession => d.sess[t].user \in d.users

\* The sign-up inside its transaction, and what it has written so far.
Pending ==
    lock # Nobody =>
        LET u == req[lock].user
        IN  /\ u \in Users \ db.used
            /\ conn.users = db.users \cup {u} /\ conn.used = db.used \cup {u}
            /\ conn.sess = db.sess
            /\ conn.cred = IF req[lock].at = "commit" THEN [db.cred EXCEPT ![u] = 0] ELSE db.cred
            /\ db.users = {} => db.invite
            /\ conn.invite <=> db.invite /\ db.users # {}
            /\ Cardinality(conn.users) <= MaxUsers

Inside == {"identity", "commit"}
Early == {"session", "bump", "user", "expire", "begin"}
Asked(r) ==
    /\ req[r].op \in {"signup", "login"} => req[r].user \in Users
    /\ req[r].at = "lookup" => req[r].op = "login"
    /\ req[r].at \in Inside \cup {"begin"} => req[r].op = "signup"
    /\ req[r].at \in Inside <=> lock = r
    /\ req[r].op = "signup" /\ req[r].at \in Early => req[r].user \notin conn.used
    /\ req[r].at = "session" => req[r].tok \in Tokens
    /\ req[r].at = "fill" => req[r].seen \in {"new", "done"}
Apart == \A p, r \in Requests :
             p # r /\ req[p].op = "signup" /\ req[r].op = "signup" => req[p].user # req[r].user
RequestsAreSound == (\A r \in Requests : Asked(r)) /\ Apart

\* A password is only reset as often as the bound allows.
ResetIsBounded ==
    cli.op = "password" =>
        /\ cli.user \in db.used
        /\ cli.user \in db.users => db.cred[cli.user] < MaxPasswords

IInv == /\ TypeOK /\ Whole(db) /\ NothingLeftOpen /\ Pending
        /\ RequestsAreSound /\ ResetIsBounded /\ RotationEndsSessions

-----------------------------------------------------------------------------
(* The rows.                                                                *)

LEMMA NoSessionIsTyped == NoSession \in Session
<1>1. NoCredential \in Nat
  BY AccountsAssumption DEF NoCredential
<1> QED  BY <1>1 DEF NoSession, Session

\* Sessions that go leave the tables whole.
LEMMA WithoutSessionsIsWhole ==
  ASSUME NEW d, Whole(d), NEW gone
  PROVE  LET e == WithoutSessions(d, gone)
         IN  /\ Whole(e) /\ e.users = d.users /\ e.used = d.used /\ e.cred = d.cred
             /\ e.invite = d.invite
             /\ \A t \in Tokens : e.sess[t] = IF t \in gone THEN NoSession ELSE d.sess[t]
<1> DEFINE e == WithoutSessions(d, gone)
<1>1. e \in Tables /\ e = [d EXCEPT !.sess = [t \in Tokens |-> IF t \in gone THEN NoSession ELSE d.sess[t]]]
  BY NoSessionIsTyped DEF WithoutSessions, Whole, Tables
<1>2. /\ e.users = d.users /\ e.used = d.used /\ e.cred = d.cred /\ e.invite = d.invite
      /\ \A t \in Tokens : e.sess[t] = IF t \in gone THEN NoSession ELSE d.sess[t]
  BY <1>1 DEF Whole, Tables
<1>3. Whole(e)
  BY <1>1, <1>2 DEF Whole
<1> QED  BY <1>2, <1>3

\* An account that goes takes its credential and its sessions along.
LEMMA WithoutUserIsWhole ==
  ASSUME NEW d, Whole(d), NEW u
  PROVE  LET e == WithoutUser(d, u)
         IN  /\ Whole(e) /\ e.users = d.users \ {u} /\ e.used = d.used
             /\ \A v \in Users \ {u} : e.cred[v] = d.cred[v]
             /\ \A t \in Tokens : e.sess[t] # NoSession => e.sess[t] = d.sess[t] /\ d.sess[t].user # u
<1> DEFINE c == WithoutSessions(d, SessionsOf(d, u))
           e == WithoutUser(d, u)
<1>1. /\ Whole(c) /\ c.users = d.users /\ c.used = d.used /\ c.cred = d.cred
      /\ \A t \in Tokens : c.sess[t] = IF t \in SessionsOf(d, u) THEN NoSession ELSE d.sess[t]
  BY WithoutSessionsIsWhole
<1>2. NoCredential \in 0..NoCredential
  BY AccountsAssumption DEF NoCredential
<1> HIDE DEF c
<1>3. e = [c EXCEPT !.users = @ \ {u}, !.cred[u] = NoCredential]
  BY DEF WithoutUser, c
<1>4. c \in Tables
  BY <1>1 DEF Whole
<1>5. /\ e \in Tables /\ e.users = d.users \ {u} /\ e.used = d.used /\ e.sess = c.sess
      /\ e.cred = [d.cred EXCEPT ![u] = NoCredential]
  BY <1>1, <1>2, <1>3, <1>4, ZenonT(30) DEF Tables
<1> HIDE DEF e
<1>6. IsFiniteSet(e.users) /\ Cardinality(e.users) <= MaxUsers
  <2>1. e.users \subseteq d.users /\ IsFiniteSet(d.users) /\ Cardinality(d.users) <= MaxUsers
    BY <1>5 DEF Whole
  <2>2. IsFiniteSet(e.users) /\ Cardinality(e.users) <= Cardinality(d.users)
    BY <2>1, FS_Subset
  <2>3. Cardinality(e.users) \in Nat /\ Cardinality(d.users) \in Nat
    BY <2>1, <2>2, FS_CardinalityType
  <2> QED  BY <2>1, <2>2, <2>3, AccountsAssumption
<1>7. d.cred \in [Users -> 0..NoCredential]
  BY DEF Whole, Tables
<1>8. \A v \in Users : e.cred[v] = IF v = u THEN NoCredential ELSE d.cred[v]
  BY <1>5, <1>7
<1>9. \A t \in Tokens : e.sess[t] # NoSession => e.sess[t] = d.sess[t] /\ d.sess[t].user # u
  BY <1>1, <1>5 DEF SessionsOf
<1>10. \A v \in Users : v \in e.users <=> e.cred[v] # NoCredential
  BY <1>5, <1>8 DEF Whole
<1>11. Whole(e)
  BY <1>5, <1>6, <1>9, <1>10 DEF Whole
<1> QED  BY <1>5, <1>8, <1>9, <1>11 DEF e

-----------------------------------------------------------------------------
(* The requests.                                                            *)

\* A request that moves, and stays what it is.
LEMMA MoveKeepsRequests ==
  ASSUME IInv, UNCHANGED lock, conn'.used = conn.used,
         NEW r \in Requests, req[r].at \notin Inside,
         NEW new \in Request, req' = [req EXCEPT ![r] = new],
         new.op = req[r].op, new.user = req[r].user,
         new.at \notin Inside \cup {"fill", "session"},
         new.at \in Early => req[r].at \in Early,
         new.at = "begin" => req[r].op = "signup",
         new.at = "lookup" => req[r].op = "login"
  PROVE  req' \in [Requests -> Request] /\ RequestsAreSound'
         /\ (\A p \in Requests \ {r} : req'[p] = req[p])
<1>1. req \in [Requests -> Request] /\ \A p \in Requests : Asked(p)
  BY DEF IInv, TypeOK, RequestsAreSound
<1>2. /\ req' \in [Requests -> Request] /\ req'[r] = new
      /\ \A p \in Requests \ {r} : req'[p] = req[p]
  BY <1>1
<1>3. ASSUME NEW p \in Requests PROVE Asked(p)'
  <2>1. CASE p = r
    BY <1>1, <1>2, <2>1 DEF Asked, Inside, Early
  <2>2. CASE p # r
    BY <1>1, <1>2, <2>2 DEF Asked
  <2> QED  BY <2>1, <2>2
<1>4. Apart'
  <2>1. \A p \in Requests : req'[p].op = req[p].op /\ req'[p].user = req[p].user
    BY <1>2
  <2> QED  BY <2>1 DEF IInv, RequestsAreSound, Apart
<1> QED  BY <1>2, <1>3, <1>4 DEF RequestsAreSound

LEMMA GotoKeepsRequests ==
  ASSUME IInv, UNCHANGED lock, conn'.used = conn.used,
         NEW r \in Requests, req[r].at \notin Inside,
         NEW at, Goto(r, at),
         at \in {"user", "expire", "begin", "materialize", "lookup", "who", "revoke", "session_row",
                 "act", "hook", "forget"},
         at \in Early => req[r].at \in Early,
         at = "begin" => req[r].op = "signup",
         at = "lookup" => req[r].op = "login"
  PROVE  req' \in [Requests -> Request] /\ RequestsAreSound'
         /\ (\A p \in Requests \ {r} : req'[p] = req[p])
<1> DEFINE new == [req[r] EXCEPT !.at = at]
<1>1. req \in [Requests -> Request] /\ req[r] \in Request
  BY DEF IInv, TypeOK
<1>2. /\ new.at = at /\ new.op = req[r].op /\ new.user = req[r].user /\ new \in Request
      /\ req' = [req EXCEPT ![r] = new]
  BY <1>1 DEF Request, Goto
<1> HIDE DEF new
<1>3. new.at \notin Inside \cup {"fill", "session"}
  BY <1>2 DEF Inside
<1> QED  BY <1>2, <1>3, MoveKeepsRequests

LEMMA IdleIsTyped == Idle \in Request /\ Idle.op = "none" /\ Idle.at = "idle"
<1>1. 0 \in 0..NoCredential
  BY AccountsAssumption DEF NoCredential
<1> QED  BY <1>1 DEF Idle, Request

LEMMA EndKeepsRequests ==
  ASSUME IInv, UNCHANGED lock, conn'.used = conn.used,
         NEW r \in Requests, req[r].at \notin Inside, Ends(r)
  PROVE  req' \in [Requests -> Request] /\ RequestsAreSound'
         /\ (\A p \in Requests \ {r} : req'[p] = req[p])
<1>1. req \in [Requests -> Request] /\ \A p \in Requests : Asked(p)
  BY DEF IInv, TypeOK, RequestsAreSound
<1>2. /\ req' \in [Requests -> Request] /\ req'[r].op = "none" /\ req'[r].at = "idle"
      /\ \A p \in Requests \ {r} : req'[p] = req[p]
  BY <1>1, IdleIsTyped DEF Ends
<1>3. ASSUME NEW p \in Requests PROVE Asked(p)'
  <2>1. CASE p = r
    BY <1>1, <1>2, <2>1 DEF Asked, Inside, Early
  <2>2. CASE p # r
    BY <1>1, <1>2, <2>2 DEF Asked
  <2> QED  BY <2>1, <2>2
<1>4. Apart'
  BY <1>2 DEF IInv, RequestsAreSound, Apart
<1> QED  BY <1>2, <1>3, <1>4 DEF RequestsAreSound

\* A request of another kind may change in everything but that.
LEMMA OtherKeepsRequests ==
  ASSUME IInv, UNCHANGED lock, conn'.used = conn.used,
         NEW r \in Requests, req[r].at \notin Inside,
         NEW new \in Request, req' = [req EXCEPT ![r] = new],
         new.op \notin {"signup", "login"}, new.at \notin Inside \cup {"begin", "session", "lookup"},
         new.at = "fill" => new.seen \in {"new", "done"}
  PROVE  req' \in [Requests -> Request] /\ RequestsAreSound'
         /\ (\A p \in Requests \ {r} : req'[p] = req[p])
<1>1. req \in [Requests -> Request] /\ \A p \in Requests : Asked(p)
  BY DEF IInv, TypeOK, RequestsAreSound
<1>2. /\ req' \in [Requests -> Request] /\ req'[r] = new
      /\ \A p \in Requests \ {r} : req'[p] = req[p]
  BY <1>1
<1>3. ASSUME NEW p \in Requests PROVE Asked(p)'
  <2>1. CASE p = r
    BY <1>1, <1>2, <2>1 DEF Asked
  <2>2. CASE p # r
    BY <1>1, <1>2, <2>2 DEF Asked
  <2> QED  BY <2>1, <2>2
<1>4. Apart'
  BY <1>2 DEF IInv, RequestsAreSound, Apart
<1> QED  BY <1>2, <1>3, <1>4 DEF RequestsAreSound

LEMMA ResolvedKeepsRequests ==
  ASSUME IInv, UNCHANGED lock, conn'.used = conn.used,
         NEW r \in Requests, req[r].at \in Early, NEW u \in Users \cup {Nobody}, Resolved(r, u)
  PROVE  req' \in [Requests -> Request] /\ RequestsAreSound'
         /\ (\A p \in Requests \ {r} : req'[p] = req[p])
<1>1. req[r] \in Request /\ req[r].at \notin Inside
  BY DEF IInv, TypeOK, Early, Inside
<1>2. CASE req[r].op = "signup"
  <2>1. Goto(r, "begin")
    BY <1>1, <1>2 DEF Resolved, Admitted
  <2> QED  BY <1>1, <1>2, <2>1, GotoKeepsRequests DEF Inside, Early
<1>3. CASE req[r].op = "login"
  <2>1. Goto(r, "lookup")
    BY <1>1, <1>3 DEF Resolved, Admitted
  <2> QED  BY <1>1, <1>3, <2>1, GotoKeepsRequests DEF Inside, Early
<1>4. CASE req[r].op \notin {"signup", "login"} /\ u = Nobody
  BY <1>1, <1>4, EndKeepsRequests DEF Resolved
<1>5. CASE req[r].op \notin {"signup", "login"} /\ u # Nobody
  <2> DEFINE new == [req[r] EXCEPT !.at = "act", !.user = u]
  <2>1. /\ req' = [req EXCEPT ![r] = new] /\ new \in Request
        /\ new.op = req[r].op /\ new.at = "act"
    BY <1>1, <1>5 DEF Resolved, Request, IInv, TypeOK
  <2> HIDE DEF new
  <2> QED  BY <1>1, <1>5, <2>1, OtherKeepsRequests DEF Inside
<1> QED  BY <1>2, <1>3, <1>4, <1>5

-----------------------------------------------------------------------------
(* The steps, by what they change.                                          *)

Directories == dir' \in [Users -> {"none", "bare", "new", "done"}]
               /\ gate' \in [Users -> {"miss", "new", "done"}]

\* A step that writes no row.
LEMMA ReadStepKeepsIInv ==
  ASSUME IInv, UNCHANGED <<db, conn, lock>>, Directories, NEW r \in Requests,
         req' \in [Requests -> Request], RequestsAreSound',
         req[r].at \notin Inside, \A p \in Requests \ {r} : req'[p] = req[p],
         cli' \in Command, ResetIsBounded', RotationEndsSessions'
  PROVE  IInv'
<1>1. lock # r
  BY DEF IInv, RequestsAreSound, Asked
<1>2. lock # Nobody => req'[lock] = req[lock]
  BY <1>1 DEF IInv, TypeOK
<1>3. TypeOK' /\ Whole(db)'
  BY DEF IInv, TypeOK, Whole, Directories
<1>4. NothingLeftOpen' /\ Pending'
  BY <1>2 DEF IInv, NothingLeftOpen, Pending
<1> QED  BY <1>3, <1>4 DEF IInv

\* A write of one statement.
LEMMA WriteStepKeepsIInv ==
  ASSUME IInv, NEW d, Write(d), Whole(d), UNCHANGED lock, Directories,
         req' \in [Requests -> Request], RequestsAreSound',
         cli' \in Command, ResetIsBounded', RotationEndsSessions'
  PROVE  IInv'
<1>1. lock = Nobody /\ lock' = Nobody /\ db' = d /\ conn' = d
  BY DEF Write
<1>2. TypeOK' /\ Whole(db')
  BY <1>1 DEF IInv, TypeOK, Whole, Directories
<1>3. NothingLeftOpen' /\ Pending'
  BY <1>1 DEF NothingLeftOpen, Pending
<1> QED  BY <1>2, <1>3 DEF IInv, Whole

\* Writes of sessions, by a request: what they may do to them.
LEMMA SessionsKeepRotation ==
  ASSUME IInv, UNCHANGED cli, db'.cred = db.cred, db'.users = db.users, db'.used = db.used,
         \A t \in Tokens : db'.sess[t] \in {NoSession, db.sess[t]}
  PROVE  RotationEndsSessions' /\ ResetIsBounded'
<1>1. ASSUME NEW t \in Tokens, db'.sess[t] # NoSession, db'.sess[t].pw # db.cred[db'.sess[t].user]
      PROVE  db'.sess[t].late \/ db'.sess[t].user \in cli.cut \/ (cli.op = "revoke" /\ cli.user = db'.sess[t].user)
  <2>1. db'.sess[t] = db.sess[t]
    BY <1>1
  <2> QED  BY <1>1, <2>1 DEF IInv, RotationEndsSessions
<1>2. RotationEndsSessions'
  BY <1>1 DEF RotationEndsSessions
<1>3. ResetIsBounded'
  BY DEF IInv, ResetIsBounded
<1> QED  BY <1>2, <1>3

-----------------------------------------------------------------------------
(* From the cookie to the user.                                             *)

\* What the other variables do when a request only reads.
LEMMA NothingElseMoves ==
  ASSUME IInv, UNCHANGED <<db, cli>>
  PROVE  cli' \in Command /\ ResetIsBounded' /\ RotationEndsSessions'
  BY DEF IInv, TypeOK, ResetIsBounded, RotationEndsSessions

LEMMA ArriveKeepsIInv ==
  ASSUME IInv, NEW r \in Requests, Arrive(r)
  PROVE  IInv'
<1>1. PICK op \in Kinds \cap mix, u \in Users, t \in Tokens \cup {NoToken} :
        /\ op = "signup" => u \notin conn.used /\ \A p \in Requests : req[p].user # u
        /\ op \notin {"signup", "login"} => t # NoToken /\ u = CHOOSE v \in Users : TRUE
        /\ req' = [req EXCEPT ![r] = [Idle EXCEPT !.op = op, !.tok = t,
                       !.user = IF op \in {"signup", "login"} THEN u ELSE Nobody,
                       !.at = IF t = NoToken THEN Admitted(op) ELSE "session"]]
  BY DEF Arrive
<1> DEFINE new == [Idle EXCEPT !.op = op, !.tok = t,
                       !.user = IF op \in {"signup", "login"} THEN u ELSE Nobody,
                       !.at = IF t = NoToken THEN Admitted(op) ELSE "session"]
<1>2. /\ new \in Request /\ new.op = op
      /\ new.user = IF op \in {"signup", "login"} THEN u ELSE Nobody
      /\ new.at = IF t = NoToken THEN Admitted(op) ELSE "session"
      /\ new.tok = t
  BY IdleIsTyped, ZenonT(30) DEF Request, Admitted
<1>3. req[r] = Idle /\ req' = [req EXCEPT ![r] = new] /\ UNCHANGED <<db, conn, lock, cli, dir, gate>>
  BY <1>1 DEF Arrive, tables
<1> HIDE DEF new
<1>4. req \in [Requests -> Request] /\ \A p \in Requests : Asked(p)
  BY DEF IInv, TypeOK, RequestsAreSound
<1>5. /\ req' \in [Requests -> Request] /\ req'[r] = new
      /\ \A p \in Requests \ {r} : req'[p] = req[p]
  BY <1>2, <1>3, <1>4
<1>6. req[r].at \notin Inside /\ lock # r
  BY <1>3, <1>4, IdleIsTyped DEF Asked, Inside
<1>7. ASSUME NEW p \in Requests PROVE Asked(p)'
  <2>1. CASE p = r
    <3>1. op = "signup" => u \notin conn.used
      BY <1>1
    <3>2. /\ new.at \in {"session", "begin", "lookup", "act"}
          /\ new.at = "begin" => op = "signup"
          /\ new.at = "lookup" => op = "login"
          /\ new.at = "session" => new.tok \in Tokens
      BY <1>2 DEF Admitted
    <3>3. op \in {"signup", "login"} => new.user \in Users
      BY <1>2
    <3> QED  BY <1>2, <1>3, <1>5, <1>6, <2>1, <3>1, <3>2, <3>3 DEF Asked, Inside
  <2>2. CASE p # r
    BY <1>3, <1>4, <1>5, <2>2 DEF Asked
  <2> QED  BY <2>1, <2>2
<1>8. Apart'
  <2>1. Apart /\ (op = "signup" => new.user = u /\ \A p \in Requests : req[p].user # u)
    BY <1>1, <1>2 DEF IInv, RequestsAreSound
  <2> QED  BY <1>2, <1>5, <2>1 DEF Apart
<1>9. RequestsAreSound' /\ Directories
  BY <1>3, <1>7, <1>8 DEF RequestsAreSound, Directories, IInv, TypeOK
<1> QED  BY <1>3, <1>5, <1>6, <1>9, NothingElseMoves, ReadStepKeepsIInv

LEMMA LoadSessionKeepsIInv ==
  ASSUME IInv, NEW r \in Requests, LoadSession(r)
  PROVE  IInv'
<1>1. /\ req[r].at = "session" /\ UNCHANGED <<db, conn, lock, cli, dir, gate>>
      /\ req[r].at \notin Inside /\ Directories
  BY DEF LoadSession, tables, Inside, Directories, IInv, TypeOK
<1>2. CASE Resolved(r, Nobody)
  BY <1>1, <1>2, ResolvedKeepsRequests, NothingElseMoves, ReadStepKeepsIInv DEF Early
<1>3. ASSUME NEW at \in {"expire", "bump", "user"}, conn.sess[req[r].tok] # NoSession,
             req' = [req EXCEPT ![r].at = at, ![r].who = conn.sess[req[r].tok].user]
      PROVE  IInv'
  <2> DEFINE who == conn.sess[req[r].tok].user
             new == [req[r] EXCEPT !.at = at, !.who = who]
  <2>1. req \in [Requests -> Request] /\ req[r] \in Request /\ req[r].tok \in Tokens
    BY <1>1 DEF IInv, TypeOK, RequestsAreSound, Asked
  <2>2. who \in Users \cup {Nobody}
    BY <2>1 DEF IInv, TypeOK, Tables, Session
  <2> HIDE DEF who
  <2>3. /\ new \in Request /\ new.at = at /\ new.op = req[r].op /\ new.user = req[r].user
    BY <2>1, <2>2 DEF Request
  <2>4. req' = [req EXCEPT ![r] = new]
    BY <1>3, <2>1 DEF who
  <2> HIDE DEF new
  <2>5. new.at \notin Inside \cup {"fill", "session", "begin", "lookup"} /\ req[r].at \in Early
    BY <1>1, <2>3 DEF Inside, Early
  <2>6. req' \in [Requests -> Request] /\ RequestsAreSound'
        /\ (\A p \in Requests \ {r} : req'[p] = req[p])
    BY <1>1, <2>3, <2>4, <2>5, MoveKeepsRequests
  <2> QED  BY <1>1, <2>6, NothingElseMoves, ReadStepKeepsIInv
<1> QED  BY <1>1, <1>2, <1>3 DEF LoadSession

\* Writing the same rows again.
LEMMA SameRows ==
  ASSUME IInv, UNCHANGED cli, Write(db)
  PROVE  /\ Whole(db) /\ conn' = db /\ conn'.used = conn.used
         /\ RotationEndsSessions' /\ ResetIsBounded'
<1>1. db' = db /\ conn' = db /\ lock = Nobody
  BY DEF Write
<1>2. conn = db
  BY <1>1 DEF IInv, NothingLeftOpen
<1> QED  BY <1>1, <1>2 DEF IInv, RotationEndsSessions, ResetIsBounded

LEMMA BumpLastSeenKeepsIInv ==
  ASSUME IInv, NEW r \in Requests, BumpLastSeen(r)
  PROVE  IInv'
<1>1. /\ req[r].at = "bump" /\ Write(db) /\ Goto(r, "user") /\ UNCHANGED <<lock, cli, dir, gate>>
      /\ req[r].at \notin Inside /\ req[r].at \in Early /\ Directories /\ cli' \in Command
  BY DEF BumpLastSeen, Inside, Early, Directories, IInv, TypeOK
<1>2. /\ Whole(db) /\ conn' = db /\ conn'.used = conn.used
      /\ RotationEndsSessions' /\ ResetIsBounded'
  BY <1>1, SameRows
<1>3. req' \in [Requests -> Request] /\ RequestsAreSound'
  BY <1>1, <1>2, GotoKeepsRequests
<1> QED  BY <1>1, <1>2, <1>3, WriteStepKeepsIInv

LEMMA FindUserKeepsIInv ==
  ASSUME IInv, NEW r \in Requests, FindUser(r)
  PROVE  IInv'
<1>1. /\ req[r].at = "user" /\ UNCHANGED <<db, conn, lock, cli, dir, gate>>
      /\ req[r].at \notin Inside /\ req[r].at \in Early /\ Directories
  BY DEF FindUser, tables, Inside, Early, Directories, IInv, TypeOK
<1>2. CASE Resolved(r, req[r].who)
  <2>1. req[r].who \in Users \cup {Nobody}
    BY DEF IInv, TypeOK, Request
  <2> QED  BY <1>1, <1>2, <2>1, ResolvedKeepsRequests, NothingElseMoves, ReadStepKeepsIInv
<1>3. CASE Goto(r, "expire")
  BY <1>1, <1>3, GotoKeepsRequests, NothingElseMoves, ReadStepKeepsIInv
<1> QED  BY <1>2, <1>3 DEF FindUser

\* Sessions that are deleted.
LEMMA DeletedSessions ==
  ASSUME IInv, UNCHANGED cli, NEW gone, Write(WithoutSessions(db, gone))
  PROVE  /\ Whole(WithoutSessions(db, gone)) /\ conn'.used = conn.used
         /\ RotationEndsSessions' /\ ResetIsBounded'
<1> DEFINE d == WithoutSessions(db, gone)
<1>1. /\ Whole(d) /\ d.users = db.users /\ d.used = db.used /\ d.cred = db.cred
      /\ \A t \in Tokens : d.sess[t] = IF t \in gone THEN NoSession ELSE db.sess[t]
  BY WithoutSessionsIsWhole DEF IInv
<1>2. db' = d /\ conn' = d /\ conn = db
  BY DEF Write, IInv, NothingLeftOpen
<1> HIDE DEF d
<1>3. \A t \in Tokens : db'.sess[t] \in {NoSession, db.sess[t]}
  BY <1>1, <1>2
<1>4. RotationEndsSessions' /\ ResetIsBounded'
  BY <1>1, <1>2, <1>3, SessionsKeepRotation
<1> QED  BY <1>1, <1>2, <1>4 DEF d

LEMMA DeleteSessionKeepsIInv ==
  ASSUME IInv, NEW r \in Requests, DeleteSession(r)
  PROVE  IInv'
<1>1. /\ req[r].at = "expire" /\ Write(WithoutSessions(db, {req[r].tok})) /\ Resolved(r, Nobody)
      /\ UNCHANGED <<lock, cli, dir, gate>>
      /\ req[r].at \in Early /\ Directories /\ cli' \in Command
  BY DEF DeleteSession, Early, Directories, IInv, TypeOK
<1>2. /\ Whole(WithoutSessions(db, {req[r].tok})) /\ conn'.used = conn.used
      /\ RotationEndsSessions' /\ ResetIsBounded'
  BY <1>1, DeletedSessions
<1>3. req' \in [Requests -> Request] /\ RequestsAreSound'
  BY <1>1, <1>2, ResolvedKeepsRequests
<1> QED  BY <1>1, <1>2, <1>3, WriteStepKeepsIInv

-----------------------------------------------------------------------------
(* Signing up.                                                              *)

\* Of the other requests nothing is to be shown but what a sign-up changes.
LEMMA OthersStaySound ==
  ASSUME IInv, NEW r \in Requests, NEW new \in Request, req' = [req EXCEPT ![r] = new],
         new.op \in {"none", req[r].op}, new.user = req[r].user \/ new.op = "none",
         Asked(r)', \A p \in Requests \ {r} : (lock' = p) <=> (lock = p),
         conn'.used \subseteq conn.used \cup {req[r].user}, req[r].op = "signup"
  PROVE  req' \in [Requests -> Request] /\ RequestsAreSound'
<1>1. req \in [Requests -> Request] /\ (\A p \in Requests : Asked(p)) /\ Apart
  BY DEF IInv, TypeOK, RequestsAreSound
<1>2. /\ req' \in [Requests -> Request] /\ req'[r] = new
      /\ \A p \in Requests \ {r} : req'[p] = req[p]
  BY <1>1
<1>3. ASSUME NEW p \in Requests \ {r} PROVE Asked(p)'
  <2>1. Asked(p) /\ req'[p] = req[p] /\ (lock' = p <=> lock = p)
    BY <1>1, <1>2
  <2>2. req[p].op = "signup" => req[p].user # req[r].user
    BY <1>1 DEF Apart
  <2> QED  BY <2>1, <2>2 DEF Asked
<1>4. Apart'
  BY <1>1, <1>2 DEF Apart
<1> QED  BY <1>2, <1>3, <1>4 DEF RequestsAreSound

LEMMA BeginSignupKeepsIInv ==
  ASSUME IInv, NEW r \in Requests, BeginSignup(r)
  PROVE  IInv'
<1> DEFINE u == req[r].user
           count == Cardinality(conn.users)
<1>1. /\ req[r].at = "begin" /\ lock = Nobody /\ UNCHANGED <<cli, dir, gate>>
      /\ req[r].at \notin Inside /\ Directories
  BY DEF BeginSignup, Inside, Directories, IInv, TypeOK
<1>2. /\ conn = db /\ Whole(db) /\ req[r].op = "signup" /\ u \in Users /\ u \notin conn.used
      /\ req \in [Requests -> Request] /\ r # Nobody /\ cli' \in Command
  BY <1>1, AccountsAssumption DEF IInv, TypeOK, NothingLeftOpen, RequestsAreSound, Asked, Inside, Early
<1>3. CASE Ends(r) /\ UNCHANGED <<tables, lock>>
  BY <1>1, <1>3, EndKeepsRequests, NothingElseMoves, ReadStepKeepsIInv DEF tables
<1>4. ASSUME count < MaxUsers, count = 0 => conn.invite,
             conn' = [WithUser(conn, u) EXCEPT !.invite = @ /\ count > 0],
             lock' = r, Goto(r, "identity"), UNCHANGED db
      PROVE  IInv'
  <2>1. IsFiniteSet(db.users) /\ count \in Nat /\ (count = 0 <=> db.users = {})
    BY <1>2, FS_CardinalityType, FS_EmptySet DEF Whole
  <2>2. /\ conn'.users = db.users \cup {u} /\ conn'.used = db.used \cup {u}
        /\ conn'.cred = db.cred /\ conn'.sess = db.sess
        /\ conn'.invite = (db.invite /\ count > 0)
        /\ conn' \in Tables
    BY <1>2, <1>4 DEF WithUser, Tables, Whole
  <2>3. u \notin db.users /\ u \notin db.used
    BY <1>2 DEF Whole
  <2>4. Cardinality(conn'.users) <= MaxUsers
    <3>0. Cardinality(db.users \cup {u}) = Cardinality(db.users) + 1
      BY <2>1, <2>3, FS_AddElement
    <3>1. Cardinality(conn'.users) = count + 1
      BY <1>2, <2>2, <3>0
    <3> QED  BY <1>4, <2>1, <3>1, AccountsAssumption
  <2>5. count > 0 <=> db.users # {}
    BY <2>1
  <2> DEFINE new == [req[r] EXCEPT !.at = "identity"]
  <2>6. /\ new \in Request /\ new.at = "identity" /\ new.op = "signup" /\ new.user = u
        /\ req' = [req EXCEPT ![r] = new] /\ req'[r] = new
    BY <1>2, <1>4 DEF Goto, Request
  <2> HIDE DEF new
  <2>7. Asked(r)'
    BY <1>2, <1>4, <2>6 DEF Asked, Inside, Early
  <2>8. req' \in [Requests -> Request] /\ RequestsAreSound'
    <3>1. \A p \in Requests \ {r} : (lock' = p) <=> (lock = p)
      BY <1>1, <1>4, AccountsAssumption
    <3> QED  BY <1>1, <1>2, <1>4, <2>2, <2>6, <2>7, <3>1, OthersStaySound
  <2>9. TypeOK' /\ NothingLeftOpen' /\ Whole(db)'
    BY <1>1, <1>2, <1>4, <2>2, <2>6, <2>8 DEF IInv, TypeOK, Directories, NothingLeftOpen, Whole
  <2>10. Pending'
    BY <1>2, <1>4, <2>2, <2>3, <2>4, <2>5, <2>1, <2>6 DEF Pending
  <2>11. ResetIsBounded' /\ RotationEndsSessions'
    BY <1>1, <1>4, NothingElseMoves
  <2> QED  BY <2>8, <2>9, <2>10, <2>11 DEF IInv
<1> QED  BY <1>3, <1>4 DEF BeginSignup

LEMMA InsertIdentityKeepsIInv ==
  ASSUME IInv, NEW r \in Requests, InsertIdentity(r)
  PROVE  IInv'
<1> DEFINE u == req[r].user
<1>1. /\ req[r].at = "identity" /\ conn' = [conn EXCEPT !.cred[u] = 0] /\ Goto(r, "commit")
      /\ UNCHANGED <<db, lock, cli, dir, gate>> /\ Directories
  BY DEF InsertIdentity, Directories, IInv, TypeOK
<1>2. /\ lock = r /\ r # Nobody /\ req[r].op = "signup" /\ req \in [Requests -> Request]
      /\ conn \in Tables /\ cli' \in Command
  BY <1>1, AccountsAssumption DEF IInv, TypeOK, RequestsAreSound, Asked, Inside
<1>3. /\ u \in Users \ db.used /\ conn.users = db.users \cup {u} /\ conn.used = db.used \cup {u}
      /\ conn.sess = db.sess /\ conn.cred = db.cred /\ (db.users = {} => db.invite)
      /\ (conn.invite <=> db.invite /\ db.users # {}) /\ Cardinality(conn.users) <= MaxUsers
  BY <1>1, <1>2 DEF IInv, Pending
<1>4. 0 \in 0..NoCredential
  BY AccountsAssumption DEF NoCredential
<1>5. /\ conn' \in Tables /\ conn'.users = conn.users /\ conn'.used = conn.used
      /\ conn'.sess = conn.sess /\ conn'.invite = conn.invite
      /\ conn'.cred = [conn.cred EXCEPT ![u] = 0]
  BY <1>1, <1>2, <1>4 DEF Tables
<1> DEFINE new == [req[r] EXCEPT !.at = "commit"]
<1>6. /\ new \in Request /\ new.at = "commit" /\ new.op = "signup" /\ new.user = u
      /\ req' = [req EXCEPT ![r] = new] /\ req'[r] = new
  BY <1>1, <1>2 DEF Goto, Request
<1> HIDE DEF new
<1>7. Asked(r)'
  BY <1>1, <1>2, <1>3, <1>6 DEF Asked, Inside, Early
<1>8. req' \in [Requests -> Request] /\ RequestsAreSound'
  BY <1>1, <1>2, <1>5, <1>6, <1>7, OthersStaySound
<1>9. TypeOK' /\ NothingLeftOpen' /\ Whole(db)'
  BY <1>1, <1>2, <1>5, <1>6, <1>8 DEF IInv, TypeOK, Directories, NothingLeftOpen, Whole
<1>10. Pending'
  BY <1>1, <1>2, <1>3, <1>5, <1>6 DEF Pending
<1>11. ResetIsBounded' /\ RotationEndsSessions'
  BY <1>1, NothingElseMoves
<1> QED  BY <1>8, <1>9, <1>10, <1>11 DEF IInv

\* What the commit makes of the tables.
LEMMA CommittedIsWhole ==
  ASSUME IInv, NEW r \in Requests, lock = r, req[r].at = "commit"
  PROVE  /\ Whole(conn) /\ req[r].user \in Users \ db.used
         /\ conn.users = db.users \cup {req[r].user} /\ conn.used = db.used \cup {req[r].user}
         /\ conn.sess = db.sess /\ conn.cred = [db.cred EXCEPT ![req[r].user] = 0]
         /\ (db.users = {} => db.invite /\ ~conn.invite)
<1> DEFINE u == req[r].user
<1>1. /\ u \in Users \ db.used /\ conn.users = db.users \cup {u} /\ conn.used = db.used \cup {u}
      /\ conn.sess = db.sess /\ conn.cred = [db.cred EXCEPT ![u] = 0] /\ (db.users = {} => db.invite)
      /\ (conn.invite <=> db.invite /\ db.users # {}) /\ Cardinality(conn.users) <= MaxUsers
  BY AccountsAssumption DEF IInv, Pending
<1>2. Whole(db) /\ conn \in Tables /\ db \in Tables
  BY DEF IInv, TypeOK
<1>3. IsFiniteSet(conn.users)
  BY <1>1, <1>2, FS_AddElement DEF Whole
<1>4. 0 # NoCredential
  BY AccountsAssumption DEF NoCredential
<1>5. db.cred \in [Users -> 0..NoCredential]
  BY <1>2 DEF Tables
<1>6. \A v \in Users : conn.cred[v] = IF v = u THEN 0 ELSE db.cred[v]
  BY <1>1, <1>5
<1>7. \A v \in Users : v \in conn.users <=> conn.cred[v] # NoCredential
  BY <1>1, <1>2, <1>4, <1>6 DEF Whole
<1>8. Whole(conn)
  BY <1>1, <1>2, <1>3, <1>7 DEF Whole
<1> QED  BY <1>1, <1>8

LEMMA CommitKeepsIInv ==
  ASSUME IInv, NEW r \in Requests, Commit(r)
  PROVE  IInv'
<1> DEFINE u == req[r].user
<1>1. /\ req[r].at = "commit" /\ db' = conn /\ conn' = conn /\ lock' = Nobody
      /\ cli' = [cli EXCEPT !.came = IF cli.op = "prune" THEN @ \cup {u} ELSE @]
      /\ Goto(r, "materialize") /\ UNCHANGED <<dir, gate>> /\ Directories
  BY DEF Commit, Directories, IInv, TypeOK
<1>2. /\ lock = r /\ r # Nobody /\ req[r].op = "signup" /\ req \in [Requests -> Request]
      /\ cli \in Command /\ conn \in Tables
  BY <1>1, AccountsAssumption DEF IInv, TypeOK, RequestsAreSound, Asked, Inside
<1>3. /\ Whole(conn) /\ u \in Users \ db.used /\ conn.users = db.users \cup {u}
      /\ conn.used = db.used \cup {u} /\ conn.sess = db.sess /\ conn.cred = [db.cred EXCEPT ![u] = 0]
  BY <1>1, <1>2, CommittedIsWhole
<1>4. cli' \in Command /\ cli'.op = cli.op /\ cli'.user = cli.user /\ cli'.cut = cli.cut
  BY <1>1, <1>2, <1>3 DEF Command
<1> DEFINE new == [req[r] EXCEPT !.at = "materialize"]
<1>5. /\ new \in Request /\ new.at = "materialize" /\ new.op = "signup" /\ new.user = u
      /\ req' = [req EXCEPT ![r] = new] /\ req'[r] = new
  BY <1>1, <1>2 DEF Goto, Request
<1> HIDE DEF new
<1>6. Asked(r)'
  BY <1>1, <1>2, <1>3, <1>5 DEF Asked, Inside, Early
<1>7. \A p \in Requests \ {r} : (lock' = p) <=> (lock = p)
  BY <1>1, <1>2, AccountsAssumption
<1>8. req' \in [Requests -> Request] /\ RequestsAreSound'
  BY <1>1, <1>2, <1>5, <1>6, <1>7, OthersStaySound
<1>9. TypeOK' /\ NothingLeftOpen' /\ Whole(db') /\ Pending'
  BY <1>1, <1>2, <1>3, <1>4, <1>8 DEF TypeOK, Directories, NothingLeftOpen, Pending
<1>10. \A v \in Users : v # u => db'.cred[v] = db.cred[v]
  BY <1>1, <1>3
<1>11. \A t \in Tokens : db.sess[t] # NoSession => db.sess[t].user \in Users \ {u}
  BY <1>3 DEF IInv, Whole, Tables
<1>12. RotationEndsSessions'
  <2> SUFFICES ASSUME NEW t \in Tokens, db'.sess[t] # NoSession,
                      db'.sess[t].pw # db'.cred[db'.sess[t].user]
               PROVE  db'.sess[t].late \/ db'.sess[t].user \in cli'.cut \/ (cli'.op = "revoke" /\ cli'.user = db'.sess[t].user)
    BY DEF RotationEndsSessions
  <2>1. db'.sess[t] = db.sess[t]
    BY <1>1, <1>3
  <2>2. db.sess[t].pw # db.cred[db.sess[t].user]
    BY <1>10, <1>11, <2>1
  <2> QED  BY <1>4, <2>1, <2>2 DEF IInv, RotationEndsSessions
<1>13. ResetIsBounded'
  <2> SUFFICES ASSUME cli'.op = "password"
               PROVE  cli'.user \in db'.used /\ (cli'.user \in db'.users => db'.cred[cli'.user] < MaxPasswords)
    BY DEF ResetIsBounded
  <2>1. cli.user \in db.used /\ (cli.user \in db.users => db.cred[cli.user] < MaxPasswords)
    BY <1>4 DEF IInv, ResetIsBounded
  <2>2. cli.user \in Users \ {u}
    BY <1>2, <1>3, <2>1 DEF IInv, Whole, Tables
  <2> QED  BY <1>1, <1>3, <1>4, <1>10, <2>1, <2>2
<1> QED  BY <1>1, <1>8, <1>9, <1>12, <1>13 DEF IInv, Whole

LEMMA RollbackKeepsIInv ==
  ASSUME IInv, NEW r \in Requests, Rollback(r)
  PROVE  IInv'
<1>1. /\ req[r].at \in Inside /\ conn' = db /\ lock' = Nobody /\ Ends(r)
      /\ UNCHANGED <<db, cli, dir, gate>> /\ Directories
  BY DEF Rollback, Inside, Directories, IInv, TypeOK
<1>2. /\ lock = r /\ r # Nobody /\ req[r].op = "signup" /\ req \in [Requests -> Request]
      /\ cli' \in Command /\ db \in Tables
  BY <1>1, AccountsAssumption DEF IInv, TypeOK, RequestsAreSound, Asked
<1>3. conn.used = db.used \cup {req[r].user}
  BY <1>1, <1>2 DEF IInv, Pending
<1>4. req' = [req EXCEPT ![r] = Idle] /\ req'[r] = Idle
  BY <1>1, <1>2 DEF Ends
<1>5. Asked(r)'
  BY <1>1, <1>2, <1>4, IdleIsTyped DEF Asked, Inside, Early
<1>6. \A p \in Requests \ {r} : (lock' = p) <=> (lock = p)
  BY <1>1, <1>2, AccountsAssumption
<1>7. req' \in [Requests -> Request] /\ RequestsAreSound'
  BY <1>1, <1>2, <1>3, <1>4, <1>5, <1>6, IdleIsTyped, OthersStaySound
<1>8. TypeOK' /\ NothingLeftOpen' /\ Whole(db)' /\ Pending'
  BY <1>1, <1>2, <1>7 DEF IInv, TypeOK, Directories, NothingLeftOpen, Pending, Whole
<1>9. ResetIsBounded' /\ RotationEndsSessions'
  BY <1>1, NothingElseMoves
<1> QED  BY <1>7, <1>8, <1>9 DEF IInv

\* The row is committed; nothing is written by what follows.
LEMMA MaterializeKeepsIInv ==
  ASSUME IInv, NEW r \in Requests, Materialize(r)
  PROVE  IInv'
<1>1. /\ req[r].at = "materialize" /\ req[r].at \notin Inside
      /\ UNCHANGED <<db, conn, lock, cli, gate>>
  BY DEF Materialize, tables, Inside
<1>2. Directories
  BY <1>1 DEF Materialize, Opened, Directories, IInv, TypeOK
<1>3. CASE Goto(r, "revoke")
  BY <1>1, <1>2, <1>3, GotoKeepsRequests, NothingElseMoves, ReadStepKeepsIInv DEF Early
<1>4. CASE Ends(r)
  BY <1>1, <1>2, <1>4, EndKeepsRequests, NothingElseMoves, ReadStepKeepsIInv
<1> QED  BY <1>3, <1>4 DEF Materialize

-----------------------------------------------------------------------------
(* Logging in, and the new session both routes end with.                    *)

LEMMA CheckPasswordKeepsIInv ==
  ASSUME IInv, NEW r \in Requests, CheckPassword(r)
  PROVE  IInv'
<1>1. /\ req[r].at = "lookup" /\ req[r].at \notin Inside /\ Directories
      /\ UNCHANGED <<db, conn, lock, cli, dir, gate>>
  BY DEF CheckPassword, tables, Inside, Directories, IInv, TypeOK
<1>2. CASE Ends(r)
  BY <1>1, <1>2, EndKeepsRequests, NothingElseMoves, ReadStepKeepsIInv
<1>3. ASSUME req' = [req EXCEPT ![r].at = "who", ![r].pw = conn.cred[req[r].user]]
      PROVE  IInv'
  <2> DEFINE pw == conn.cred[req[r].user]
             new == [req[r] EXCEPT !.at = "who", !.pw = pw]
  <2>1. req[r] \in Request /\ req[r].user \in Users /\ req \in [Requests -> Request]
    BY <1>1 DEF IInv, TypeOK, RequestsAreSound, Asked
  <2>2. pw \in 0..NoCredential
    BY <2>1 DEF IInv, TypeOK, Tables
  <2> HIDE DEF pw
  <2>3. new \in Request /\ new.at = "who" /\ new.op = req[r].op /\ new.user = req[r].user
    BY <2>1, <2>2 DEF Request
  <2>4. req' = [req EXCEPT ![r] = new]
    BY <1>3, <2>1 DEF pw
  <2> HIDE DEF new
  <2>5. new.at \notin Inside \cup {"fill", "session", "begin", "lookup"} \cup Early
    BY <2>3 DEF Inside, Early
  <2>6. req' \in [Requests -> Request] /\ RequestsAreSound'
        /\ (\A p \in Requests \ {r} : req'[p] = req[p])
    BY <1>1, <2>3, <2>4, <2>5, MoveKeepsRequests
  <2> QED  BY <1>1, <2>6, NothingElseMoves, ReadStepKeepsIInv
<1> QED  BY <1>2, <1>3 DEF CheckPassword

LEMMA FindLoginKeepsIInv ==
  ASSUME IInv, NEW r \in Requests, FindLogin(r)
  PROVE  IInv'
<1>1. /\ req[r].at = "who" /\ req[r].at \notin Inside /\ Directories
      /\ UNCHANGED <<db, conn, lock, cli, dir, gate>>
  BY DEF FindLogin, tables, Inside, Directories, IInv, TypeOK
<1>2. CASE Ends(r)
  BY <1>1, <1>2, EndKeepsRequests, NothingElseMoves, ReadStepKeepsIInv
<1>3. CASE Goto(r, "revoke")
  BY <1>1, <1>3, GotoKeepsRequests, NothingElseMoves, ReadStepKeepsIInv DEF Early
<1> QED  BY <1>2, <1>3 DEF FindLogin

LEMMA RevokeOldKeepsIInv ==
  ASSUME IInv, NEW r \in Requests, RevokeOld(r)
  PROVE  IInv'
<1>1. /\ req[r].at = "revoke" /\ req[r].at \notin Inside /\ Directories
      /\ Goto(r, "session_row") /\ UNCHANGED <<lock, cli, dir, gate>> /\ cli' \in Command
  BY DEF RevokeOld, Inside, Directories, IInv, TypeOK
<1>2. CASE UNCHANGED tables
  <2>1. UNCHANGED <<db, conn>>
    BY <1>2 DEF tables
  <2> QED  BY <1>1, <2>1, GotoKeepsRequests, NothingElseMoves, ReadStepKeepsIInv DEF Early
<1>3. CASE Write(WithoutSessions(db, {req[r].tok}))
  <2>1. /\ Whole(WithoutSessions(db, {req[r].tok})) /\ conn'.used = conn.used
        /\ RotationEndsSessions' /\ ResetIsBounded'
    BY <1>1, <1>3, DeletedSessions
  <2>2. req' \in [Requests -> Request] /\ RequestsAreSound'
    BY <1>1, <2>1, GotoKeepsRequests DEF Early
  <2> QED  BY <1>1, <1>3, <2>1, <2>2, WriteStepKeepsIInv
<1> QED  BY <1>2, <1>3 DEF RevokeOld

\* A session that is made with an older password is marked as late.
LEMMA NewSession ==
  ASSUME IInv, UNCHANGED cli, NEW u \in db.users, NEW pw \in 0..NoCredential, NEW t \in Tokens,
         Write([db EXCEPT !.sess[t] = [user |-> u, pw |-> pw, late |-> pw # db.cred[u]]])
  PROVE  /\ Whole([db EXCEPT !.sess[t] = [user |-> u, pw |-> pw, late |-> pw # db.cred[u]]])
         /\ conn'.used = conn.used /\ RotationEndsSessions' /\ ResetIsBounded'
<1> DEFINE s == [user |-> u, pw |-> pw, late |-> pw # db.cred[u]]
           d == [db EXCEPT !.sess[t] = s]
<1>1. db \in Tables /\ Whole(db) /\ u \in Users
  BY DEF IInv, TypeOK, Tables
<1>2. s \in Session /\ s.user = u /\ s.pw = pw /\ s.late = (pw # db.cred[u])
  BY <1>1 DEF Session
<1>3. db' = d /\ conn' = d /\ conn = db
  BY DEF Write, IInv, NothingLeftOpen
<1> HIDE DEF s
<1>4. /\ d \in Tables /\ d.users = db.users /\ d.used = db.used /\ d.cred = db.cred
      /\ \A x \in Tokens : d.sess[x] = IF x = t THEN s ELSE db.sess[x]
  BY <1>1, <1>2 DEF Tables
<1> HIDE DEF d
<1>5. Whole(d)
  BY <1>1, <1>2, <1>4 DEF Whole
<1>6. RotationEndsSessions'
  <2> SUFFICES ASSUME NEW x \in Tokens, db'.sess[x] # NoSession,
                      db'.sess[x].pw # db'.cred[db'.sess[x].user]
               PROVE  db'.sess[x].late \/ db'.sess[x].user \in cli'.cut \/ (cli'.op = "revoke" /\ cli'.user = db'.sess[x].user)
    BY DEF RotationEndsSessions
  <2>1. CASE x = t
    BY <1>2, <1>3, <1>4, <2>1
  <2>2. CASE x # t
    BY <1>3, <1>4, <2>2 DEF IInv, RotationEndsSessions
  <2> QED  BY <2>1, <2>2
<1>7. ResetIsBounded'
  BY <1>3, <1>4 DEF IInv, ResetIsBounded
<1> QED  BY <1>3, <1>4, <1>5, <1>6, <1>7 DEF d, s

LEMMA InsertSessionKeepsIInv ==
  ASSUME IInv, NEW r \in Requests, InsertSession(r)
  PROVE  IInv'
<1>1. /\ req[r].at = "session_row" /\ req[r].at \notin Inside /\ Directories
      /\ Ends(r) /\ UNCHANGED <<lock, cli, dir, gate>> /\ cli' \in Command
      /\ req[r].pw \in 0..NoCredential
  BY DEF InsertSession, Inside, Directories, IInv, TypeOK, Request
<1>2. CASE Write(db)
  <2>1. /\ Whole(db) /\ conn' = db /\ conn'.used = conn.used
        /\ RotationEndsSessions' /\ ResetIsBounded'
    BY <1>1, <1>2, SameRows
  <2>2. req' \in [Requests -> Request] /\ RequestsAreSound'
    BY <1>1, <2>1, EndKeepsRequests
  <2> QED  BY <1>1, <1>2, <2>1, <2>2, WriteStepKeepsIInv
<1>3. ASSUME req[r].user \in db.users, NEW t \in Fresh,
             Write([db EXCEPT !.sess[t] = [user |-> req[r].user, pw |-> req[r].pw,
                                           late |-> req[r].pw # db.cred[req[r].user]]])
      PROVE  IInv'
  <2> DEFINE d == [db EXCEPT !.sess[t] = [user |-> req[r].user, pw |-> req[r].pw,
                                          late |-> req[r].pw # db.cred[req[r].user]]]
  <2>1. t \in Tokens
    BY DEF Fresh
  <2>2. Whole(d) /\ conn'.used = conn.used /\ RotationEndsSessions' /\ ResetIsBounded' /\ Write(d)
    BY <1>1, <1>3, <2>1, NewSession
  <2> HIDE DEF d
  <2>3. req' \in [Requests -> Request] /\ RequestsAreSound'
    BY <1>1, <2>2, EndKeepsRequests
  <2> QED  BY <1>1, <2>2, <2>3, WriteStepKeepsIInv
<1> QED  BY <1>2, <1>3 DEF InsertSession

-----------------------------------------------------------------------------
(* The routes behind the session.                                           *)

LEMMA LogoutKeepsIInv ==
  ASSUME IInv, NEW r \in Requests, Logout(r)
  PROVE  IInv'
<1> DEFINE gone == IF req[r].op = "logout" THEN {req[r].tok} ELSE SessionsOf(db, req[r].user)
<1>1. /\ req[r].at = "act" /\ req[r].at \notin Inside /\ Directories /\ Write(WithoutSessions(db, gone))
      /\ Ends(r) /\ UNCHANGED <<lock, cli, dir, gate>> /\ cli' \in Command
  BY DEF Logout, Inside, Directories, IInv, TypeOK
<1> HIDE DEF gone
<1>2. /\ Whole(WithoutSessions(db, gone)) /\ conn'.used = conn.used
      /\ RotationEndsSessions' /\ ResetIsBounded'
  BY <1>1, DeletedSessions
<1>3. req' \in [Requests -> Request] /\ RequestsAreSound'
  BY <1>1, <1>2, EndKeepsRequests
<1> QED  BY <1>1, <1>2, <1>3, WriteStepKeepsIInv

\* An account that is deleted, by its owner or by the operator.
LEMMA DeletedUser ==
  ASSUME IInv, NEW u, Write(WithoutUser(db, u)),
         cli' = cli \/ (cli.op = "row" /\ cli'.op = "rmtree" /\ cli'.cut = cli.cut)
  PROVE  /\ Whole(WithoutUser(db, u)) /\ conn'.used = conn.used
         /\ RotationEndsSessions' /\ ResetIsBounded'
<1> DEFINE d == WithoutUser(db, u)
<1>1. /\ Whole(d) /\ d.users = db.users \ {u} /\ d.used = db.used
      /\ \A v \in Users \ {u} : d.cred[v] = db.cred[v]
      /\ \A t \in Tokens : d.sess[t] # NoSession => d.sess[t] = db.sess[t] /\ db.sess[t].user # u
  BY WithoutUserIsWhole DEF IInv
<1>2. db' = d /\ conn' = d /\ conn = db
  BY DEF Write, IInv, NothingLeftOpen
<1> HIDE DEF d
<1>3. db.users \subseteq Users /\ Whole(db)
  BY DEF IInv, TypeOK, Tables
<1>4. RotationEndsSessions'
  <2> SUFFICES ASSUME NEW t \in Tokens, db'.sess[t] # NoSession,
                      db'.sess[t].pw # db'.cred[db'.sess[t].user]
               PROVE  db'.sess[t].late \/ db'.sess[t].user \in cli'.cut \/ (cli'.op = "revoke" /\ cli'.user = db'.sess[t].user)
    BY DEF RotationEndsSessions
  <2>1. db'.sess[t] = db.sess[t] /\ db.sess[t].user # u
    BY <1>1, <1>2
  <2>2. db.sess[t].user \in Users \ {u}
    BY <1>3, <2>1 DEF Whole
  <2>3. db.sess[t].pw # db.cred[db.sess[t].user]
    BY <1>1, <1>2, <2>1, <2>2
  <2>4. db.sess[t].late \/ db.sess[t].user \in cli.cut \/ (cli.op = "revoke" /\ cli.user = db.sess[t].user)
    BY <2>1, <2>3 DEF IInv, RotationEndsSessions
  <2> QED  BY <2>1, <2>4
<1>5. ResetIsBounded'
  <2> SUFFICES ASSUME cli'.op = "password"
               PROVE  cli'.user \in db'.used /\ (cli'.user \in db'.users => db'.cred[cli'.user] < MaxPasswords)
    BY DEF ResetIsBounded
  <2>1. cli' = cli
    OBVIOUS
  <2> QED  BY <1>1, <1>2, <1>3, <2>1 DEF IInv, ResetIsBounded
<1> QED  BY <1>1, <1>2, <1>4, <1>5 DEF d

LEMMA DeleteRowKeepsIInv ==
  ASSUME IInv, NEW r \in Requests, DeleteRow(r)
  PROVE  IInv'
<1>1. /\ req[r].at = "act" /\ req[r].at \notin Inside /\ Directories /\ Write(WithoutUser(db, req[r].user))
      /\ Goto(r, "hook") /\ UNCHANGED <<lock, cli, dir, gate>> /\ cli' \in Command
  BY DEF DeleteRow, Inside, Directories, IInv, TypeOK
<1>2. /\ Whole(WithoutUser(db, req[r].user)) /\ conn'.used = conn.used
      /\ RotationEndsSessions' /\ ResetIsBounded'
  BY <1>1, DeletedUser
<1>3. req' \in [Requests -> Request] /\ RequestsAreSound'
  BY <1>1, <1>2, GotoKeepsRequests DEF Early
<1> QED  BY <1>1, <1>2, <1>3, WriteStepKeepsIInv

LEMMA AfterDeleteKeepsIInv ==
  ASSUME IInv, NEW r \in Requests, AfterDelete(r)
  PROVE  IInv'
<1>1. /\ req[r].at = "hook" /\ req[r].at \notin Inside /\ Ends(r)
      /\ UNCHANGED <<db, conn, lock, cli>>
  BY DEF AfterDelete, tables, Inside
<1>2. Directories
  BY DEF AfterDelete, RemoveDir, Directories, IInv, TypeOK
<1> QED  BY <1>1, <1>2, EndKeepsRequests, NothingElseMoves, ReadStepKeepsIInv

LEMMA ReadFlagKeepsIInv ==
  ASSUME IInv, NEW r \in Requests, ReadFlag(r)
  PROVE  IInv'
<1>1. /\ req[r].at = "act" /\ req[r].op = "page" /\ req[r].at \notin Inside
      /\ UNCHANGED <<db, conn, lock, cli, gate>>
  BY DEF ReadFlag, tables, Inside
<1>2. Directories
  BY DEF ReadFlag, Opened, Directories, IInv, TypeOK
<1>3. CASE Ends(r)
  BY <1>1, <1>2, <1>3, EndKeepsRequests, NothingElseMoves, ReadStepKeepsIInv
<1>4. ASSUME dir[req[r].user] \in {"new", "done"},
             req' = [req EXCEPT ![r].at = "fill", ![r].seen = dir[req[r].user]]
      PROVE  IInv'
  <2> DEFINE seen == dir[req[r].user]
             new == [req[r] EXCEPT !.at = "fill", !.seen = seen]
  <2>1. req[r] \in Request /\ req \in [Requests -> Request] /\ seen \in {"new", "done"}
    BY <1>4 DEF IInv, TypeOK
  <2>2. req' = [req EXCEPT ![r] = new]
    BY <1>4, <2>1
  <2> HIDE DEF seen
  <2>3. new \in Request /\ new.at = "fill" /\ new.op = "page" /\ new.seen = seen
    BY <1>1, <2>1 DEF Request
  <2> HIDE DEF new
  <2>4. req' \in [Requests -> Request] /\ RequestsAreSound'
        /\ (\A p \in Requests \ {r} : req'[p] = req[p])
    BY <1>1, <2>1, <2>2, <2>3, OtherKeepsRequests DEF Inside
  <2> QED  BY <1>1, <1>2, <2>4, NothingElseMoves, ReadStepKeepsIInv
<1> QED  BY <1>3, <1>4 DEF ReadFlag

LEMMA FillGateKeepsIInv ==
  ASSUME IInv, NEW r \in Requests, FillGate(r)
  PROVE  IInv'
<1>1. /\ req[r].at = "fill" /\ req[r].at \notin Inside /\ Ends(r)
      /\ UNCHANGED <<db, conn, lock, cli, dir>> /\ gate' = [gate EXCEPT ![req[r].user] = req[r].seen]
  BY DEF FillGate, tables, Inside
<1>2. req[r].seen \in {"new", "done"}
  BY <1>1 DEF IInv, RequestsAreSound, Asked
<1>3. Directories
  BY <1>1, <1>2 DEF Directories, IInv, TypeOK
<1> QED  BY <1>1, <1>3, EndKeepsRequests, NothingElseMoves, ReadStepKeepsIInv

LEMMA MarkSetupKeepsIInv ==
  ASSUME IInv, NEW r \in Requests, MarkSetup(r)
  PROVE  IInv'
<1>1. /\ req[r].at = "act" /\ req[r].at \notin Inside /\ UNCHANGED <<db, conn, lock, cli, gate>>
  BY DEF MarkSetup, tables, Inside
<1>2. Directories
  BY DEF MarkSetup, Opened, Directories, IInv, TypeOK
<1>3. CASE Ends(r)
  BY <1>1, <1>2, <1>3, EndKeepsRequests, NothingElseMoves, ReadStepKeepsIInv
<1>4. CASE Goto(r, "forget")
  BY <1>1, <1>2, <1>4, GotoKeepsRequests, NothingElseMoves, ReadStepKeepsIInv DEF Early
<1> QED  BY <1>3, <1>4 DEF MarkSetup

LEMMA ForgetGateKeepsIInv ==
  ASSUME IInv, NEW r \in Requests, ForgetGate(r)
  PROVE  IInv'
<1>1. /\ req[r].at = "forget" /\ req[r].at \notin Inside /\ Ends(r)
      /\ UNCHANGED <<db, conn, lock, cli, dir>>
  BY DEF ForgetGate, tables, Inside
<1>2. Directories
  BY DEF ForgetGate, Directories, IInv, TypeOK
<1> QED  BY <1>1, <1>2, EndKeepsRequests, NothingElseMoves, ReadStepKeepsIInv

-----------------------------------------------------------------------------
(* The operator's commands, and the end of the process.                     *)

\* The requests stand still.
LEMMA StandingRequests ==
  ASSUME IInv, UNCHANGED <<req, lock>>, conn'.used = conn.used
  PROVE  req' \in [Requests -> Request] /\ RequestsAreSound'
<1>1. \A p \in Requests : Asked(p)'
  BY DEF IInv, RequestsAreSound, Asked
<1> QED  BY <1>1 DEF IInv, TypeOK, RequestsAreSound, Apart

\* A command that writes no row: one that has replaced a password and ends here
\* is remembered.
LEMMA CliReadKeepsIInv ==
  ASSUME IInv, UNCHANGED <<db, conn, lock, req>>, Directories, cli' \in Command,
         cli.cut \subseteq cli'.cut, cli.op = "revoke" => cli.user \in cli'.cut, ResetIsBounded'
  PROVE  IInv'
<1>1. req' \in [Requests -> Request] /\ RequestsAreSound'
  BY StandingRequests
<1>2. TypeOK' /\ Whole(db)' /\ NothingLeftOpen' /\ Pending'
  BY <1>1 DEF IInv, TypeOK, Whole, Directories, NothingLeftOpen, Pending
<1>3. RotationEndsSessions'
  BY DEF IInv, RotationEndsSessions
<1> QED  BY <1>1, <1>2, <1>3 DEF IInv

\* A command that writes.
LEMMA CliWriteKeepsIInv ==
  ASSUME IInv, NEW d, Write(d), Whole(d), d.used = db.used, UNCHANGED <<lock, req, dir, gate>>,
         cli' \in Command, ResetIsBounded', RotationEndsSessions'
  PROVE  IInv'
<1>1. conn'.used = conn.used /\ Directories
  BY DEF Write, IInv, NothingLeftOpen, Directories, TypeOK
<1>2. req' \in [Requests -> Request] /\ RequestsAreSound'
  BY <1>1, StandingRequests
<1> QED  BY <1>1, <1>2, WriteStepKeepsIInv

LEMMA DoneIsTyped ==
  ASSUME IInv, NEW cut \in SUBSET (Users \cup {Nobody}), CliEnds(cut)
  PROVE  cli' \in Command /\ ResetIsBounded' /\ cli'.op = "none" /\ cli'.cut = cut
  BY DEF CliEnds, Command, ResetIsBounded

LEMMA CutUsers ==
  ASSUME IInv
  PROVE  /\ cli \in Command /\ cli.user \in Users \cup {Nobody}
         /\ cli.cut \in SUBSET (Users \cup {Nobody})
  BY DEF IInv, TypeOK, Command

LEMMA CliFindKeepsIInv ==
  ASSUME IInv, CliFind
  PROVE  IInv'
<1>1. PICK op \in Commands \cap mix, u \in db.users :
        /\ op = "password" => db.cred[u] < MaxPasswords
        /\ cli' = [cli EXCEPT !.op = op, !.user = u]
  BY DEF CliFind
<1>2. /\ cli.op = "none" /\ UNCHANGED <<db, conn, lock, req, dir, gate>> /\ Directories
      /\ cli \in Command /\ u \in Users /\ u \in db.used
  BY DEF CliFind, tables, Directories, IInv, TypeOK, Tables, Whole
<1>3. cli' \in Command /\ cli'.op = op /\ cli'.user = u /\ cli'.cut = cli.cut
  BY <1>1, <1>2 DEF Command
<1>4. ResetIsBounded'
  BY <1>1, <1>2, <1>3 DEF ResetIsBounded
<1> QED  BY <1>2, <1>3, <1>4, CliReadKeepsIInv

LEMMA CliPasswordKeepsIInv ==
  ASSUME IInv, CliPassword
  PROVE  IInv'
<1> DEFINE u == cli.user
           d == IF u \in db.users THEN [db EXCEPT !.cred[u] = @ + 1] ELSE db
<1>1. /\ cli.op = "password" /\ Write(d) /\ cli' = [cli EXCEPT !.op = "revoke"]
      /\ UNCHANGED <<lock, req, dir, gate>>
  BY DEF CliPassword
<1>2. /\ cli \in Command /\ db \in Tables /\ Whole(db)
  BY DEF IInv, TypeOK
<1>3. cli' \in Command /\ cli'.op = "revoke" /\ cli'.user = u /\ cli'.cut = cli.cut
  BY <1>1, <1>2 DEF Command, Commands
<1>4. u \in db.users => u \in Users /\ db.cred[u] < MaxPasswords /\ db.cred[u] + 1 \in 0..NoCredential
                        /\ db.cred[u] + 1 # NoCredential
  BY <1>1, <1>2, AccountsAssumption DEF IInv, ResetIsBounded, Tables, NoCredential
<1>5. /\ d \in Tables /\ d.users = db.users /\ d.used = db.used /\ d.sess = db.sess
      /\ \A v \in Users : v # u => d.cred[v] = db.cred[v]
      /\ \A v \in Users : d.cred[v] # NoCredential <=> db.cred[v] # NoCredential
  <2>1. CASE u \notin db.users
    BY <1>2, <2>1
  <2>2. CASE u \in db.users
    <3>1. d = [db EXCEPT !.cred[u] = @ + 1] /\ db.cred \in [Users -> 0..NoCredential]
      BY <1>2, <2>2 DEF Tables
    <3> HIDE DEF d
    <3>2. /\ d.cred = [db.cred EXCEPT ![u] = @ + 1] /\ d.users = db.users /\ d.used = db.used
          /\ d.sess = db.sess /\ d.invite = db.invite
          /\ d = [users |-> db.users, cred |-> [db.cred EXCEPT ![u] = @ + 1], invite |-> db.invite,
                  sess |-> db.sess, used |-> db.used]
      BY <1>2, <3>1 DEF Tables
    <3>3. \A v \in Users : d.cred[v] = IF v = u THEN db.cred[u] + 1 ELSE db.cred[v]
      BY <3>1, <3>2
    <3>4. d.cred \in [Users -> 0..NoCredential]
      BY <1>4, <2>2, <3>1, <3>2
    <3>5. d \in Tables
      BY <1>2, <3>2, <3>4 DEF Tables
    <3>6. db.cred[u] # NoCredential
      BY <1>2, <1>4, <2>2 DEF Whole
    <3> QED  BY <1>4, <2>2, <3>2, <3>3, <3>5, <3>6
  <2> QED  BY <2>1, <2>2
<1> HIDE DEF d
<1>6. Whole(d)
  BY <1>2, <1>5 DEF Whole
<1>7. db' = d
  BY <1>1 DEF Write
<1>8. RotationEndsSessions'
  <2> SUFFICES ASSUME NEW t \in Tokens, db'.sess[t] # NoSession,
                      db'.sess[t].pw # db'.cred[db'.sess[t].user]
               PROVE  db'.sess[t].late \/ db'.sess[t].user \in cli'.cut \/ (cli'.op = "revoke" /\ cli'.user = db'.sess[t].user)
    BY DEF RotationEndsSessions
  <2>1. db'.sess[t] = db.sess[t] /\ db.sess[t].user \in Users
    BY <1>2, <1>5, <1>7 DEF Whole, Tables
  <2>2. CASE db.sess[t].user = u
    BY <1>3, <2>1, <2>2
  <2>3. CASE db.sess[t].user # u
    <3>1. db.sess[t].pw # db.cred[db.sess[t].user]
      BY <1>5, <1>7, <2>1, <2>3
    <3> QED  BY <1>1, <1>3, <2>1, <3>1 DEF IInv, RotationEndsSessions
  <2> QED  BY <2>2, <2>3
<1>9. ResetIsBounded'
  BY <1>3 DEF ResetIsBounded
<1> QED  BY <1>1, <1>3, <1>5, <1>6, <1>8, <1>9, CliWriteKeepsIInv

LEMMA CliRevokeKeepsIInv ==
  ASSUME IInv, CliRevoke
  PROVE  IInv'
<1> DEFINE d == WithoutSessions(db, SessionsOf(db, cli.user))
<1>1. /\ cli.op = "revoke" /\ Write(d) /\ CliEnds(cli.cut \ {cli.user})
      /\ UNCHANGED <<lock, req, dir, gate>> /\ cli.cut \ {cli.user} \in SUBSET (Users \cup {Nobody})
  BY CutUsers DEF CliRevoke
<1>2. /\ Whole(d) /\ d.users = db.users /\ d.used = db.used /\ d.cred = db.cred
      /\ \A t \in Tokens : d.sess[t] = IF t \in SessionsOf(db, cli.user) THEN NoSession ELSE db.sess[t]
  BY WithoutSessionsIsWhole DEF IInv
<1> HIDE DEF d
<1>3. db' = d /\ cli' \in Command /\ cli'.cut = cli.cut \ {cli.user} /\ ResetIsBounded'
  BY <1>1, DoneIsTyped DEF Write
<1>4. RotationEndsSessions'
  <2> SUFFICES ASSUME NEW t \in Tokens, db'.sess[t] # NoSession,
                      db'.sess[t].pw # db'.cred[db'.sess[t].user]
               PROVE  db'.sess[t].late \/ db'.sess[t].user \in cli'.cut
    BY DEF RotationEndsSessions
  <2>1. db'.sess[t] = db.sess[t] /\ db.sess[t].user # cli.user
    BY <1>2, <1>3 DEF SessionsOf
  <2> QED  BY <1>2, <1>3, <2>1 DEF IInv, RotationEndsSessions
<1> QED  BY <1>1, <1>2, <1>3, <1>4, CliWriteKeepsIInv

LEMMA CliDiesKeepsIInv ==
  ASSUME IInv, CliDies
  PROVE  IInv'
<1> DEFINE cut == IF cli.op = "revoke" THEN cli.cut \cup {cli.user} ELSE cli.cut
<1>1. CliEnds(cut) /\ UNCHANGED <<db, conn, lock, req, dir, gate>> /\ Directories
  BY DEF CliDies, tables, Directories, IInv, TypeOK
<1>2. /\ cut \in SUBSET (Users \cup {Nobody}) /\ cli.cut \subseteq cut
      /\ cli.op = "revoke" => cli.user \in cut
  BY CutUsers
<1> HIDE DEF cut
<1>3. cli' \in Command /\ ResetIsBounded' /\ cli'.cut = cut
  BY <1>1, <1>2, DoneIsTyped
<1> QED  BY <1>1, <1>2, <1>3, CliReadKeepsIInv

LEMMA CliDeleteRowKeepsIInv ==
  ASSUME IInv, CliDeleteRow
  PROVE  IInv'
<1>1. /\ cli.op = "row" /\ Write(WithoutUser(db, cli.user)) /\ cli' = [cli EXCEPT !.op = "rmtree"]
      /\ UNCHANGED <<lock, req, dir, gate>> /\ cli \in Command
  BY DEF CliDeleteRow, IInv, TypeOK
<1>2. cli' \in Command /\ cli'.op = "rmtree" /\ cli'.cut = cli.cut
  BY <1>1 DEF Command
<1>3. /\ Whole(WithoutUser(db, cli.user)) /\ RotationEndsSessions' /\ ResetIsBounded'
  BY <1>1, <1>2, DeletedUser
<1>4. WithoutUser(db, cli.user).used = db.used
  BY WithoutUserIsWhole DEF IInv
<1> QED  BY <1>1, <1>2, <1>3, <1>4, CliWriteKeepsIInv

LEMMA CliRemoveDirKeepsIInv ==
  ASSUME IInv, CliRemoveDir
  PROVE  IInv'
<1>1. cli.op = "rmtree" /\ CliDone /\ UNCHANGED <<db, conn, lock, req, gate>>
  BY DEF CliRemoveDir, tables
<1>2. Directories
  BY DEF CliRemoveDir, RemoveDir, Directories, IInv, TypeOK
<1>3. cli' \in Command /\ ResetIsBounded' /\ cli'.cut = cli.cut
  BY <1>1, CutUsers, DoneIsTyped DEF CliDone
<1> QED  BY <1>1, <1>2, <1>3, CliReadKeepsIInv

LEMMA CliCountKeepsIInv ==
  ASSUME IInv, CliCount
  PROVE  IInv'
<1>1. /\ cli.op = "none" /\ cli' = [cli EXCEPT !.op = "invite"] /\ cli \in Command
      /\ UNCHANGED <<db, conn, lock, req, dir, gate>> /\ Directories
  BY DEF CliCount, tables, Directories, IInv, TypeOK
<1>2. cli' \in Command /\ ResetIsBounded' /\ cli'.cut = cli.cut
  BY <1>1 DEF Command, ResetIsBounded
<1> QED  BY <1>1, <1>2, CliReadKeepsIInv

LEMMA CliInviteKeepsIInv ==
  ASSUME IInv, CliInvite
  PROVE  IInv'
<1> DEFINE d == [db EXCEPT !.invite = TRUE]
<1>1. cli.op = "invite" /\ Write(d) /\ CliDone /\ UNCHANGED <<lock, req, dir, gate>>
  BY DEF CliInvite
<1>2. /\ d \in Tables /\ d.users = db.users /\ d.used = db.used /\ d.cred = db.cred /\ d.sess = db.sess
  BY DEF IInv, TypeOK, Tables
<1> HIDE DEF d
<1>3. Whole(d) /\ db' = d
  BY <1>1, <1>2 DEF IInv, Whole, Write
<1>4. cli' \in Command /\ ResetIsBounded' /\ cli'.cut = cli.cut
  BY <1>1, CutUsers, DoneIsTyped DEF CliDone
<1>5. RotationEndsSessions'
  BY <1>1, <1>2, <1>3, <1>4 DEF IInv, RotationEndsSessions
<1> QED  BY <1>1, <1>2, <1>3, <1>4, <1>5, CliWriteKeepsIInv

LEMMA CliListKeepsIInv ==
  ASSUME IInv, CliList
  PROVE  IInv'
<1>1. /\ cli.op = "none" /\ cli' = [cli EXCEPT !.op = "prune", !.known = db.users] /\ cli \in Command
      /\ UNCHANGED <<db, conn, lock, req, dir, gate>> /\ Directories /\ db.users \subseteq Users
  BY DEF CliList, tables, Directories, IInv, TypeOK, Tables
<1>2. cli' \in Command /\ ResetIsBounded' /\ cli'.cut = cli.cut
  BY <1>1 DEF Command, ResetIsBounded
<1> QED  BY <1>1, <1>2, CliReadKeepsIInv

LEMMA CliPruneKeepsIInv ==
  ASSUME IInv, CliPrune
  PROVE  IInv'
<1>1. cli.op = "prune" /\ CliDone /\ UNCHANGED <<db, conn, lock, req, gate>>
  BY DEF CliPrune, tables
<1>2. Directories
  BY DEF CliPrune, Directories, IInv, TypeOK
<1>3. cli' \in Command /\ ResetIsBounded' /\ cli'.cut = cli.cut
  BY <1>1, CutUsers, DoneIsTyped DEF CliDone
<1> QED  BY <1>1, <1>2, <1>3, CliReadKeepsIInv

LEMMA RestartKeepsIInv ==
  ASSUME IInv, Restart
  PROVE  IInv'
<1>1. /\ db' = [db EXCEPT !.invite = @ \/ db.users = {}] /\ conn' = db' /\ lock' = Nobody
      /\ req' = [r \in Requests |-> Idle] /\ gate' = [u \in Users |-> "miss"] /\ UNCHANGED <<cli, dir>>
  BY DEF Restart
<1>2. db \in Tables /\ Whole(db) /\ cli' \in Command
  BY <1>1 DEF IInv, TypeOK
<1>3. /\ db' \in Tables /\ db'.users = db.users /\ db'.used = db.used /\ db'.cred = db.cred
      /\ db'.sess = db.sess
  BY <1>1, <1>2 DEF Tables
<1>4. Whole(db')
  BY <1>2, <1>3 DEF Whole
<1>5. req' \in [Requests -> Request] /\ RequestsAreSound'
  <2>1. \A p \in Requests : Asked(p)'
    BY <1>1, IdleIsTyped, AccountsAssumption DEF Asked, Inside, Early
  <2>2. Apart'
    BY <1>1, IdleIsTyped DEF Apart
  <2> QED  BY <1>1, <2>1, <2>2, IdleIsTyped DEF RequestsAreSound
<1>6. TypeOK' /\ NothingLeftOpen' /\ Pending'
  BY <1>1, <1>2, <1>3, <1>5 DEF TypeOK, NothingLeftOpen, Pending, IInv
<1>7. RotationEndsSessions' /\ ResetIsBounded'
  BY <1>1, <1>3, SessionsKeepRotation DEF IInv
<1> QED  BY <1>4, <1>5, <1>6, <1>7 DEF IInv, Whole

-----------------------------------------------------------------------------
(* The specification.                                                       *)

LEMMA InitIInv == Init => IInv
<1> SUFFICES ASSUME Init PROVE IInv
  OBVIOUS
<1>1. NoCredential \in 0..NoCredential /\ NoCredential \in Nat
  BY AccountsAssumption DEF NoCredential
<1>2. /\ db \in Tables /\ db.users = {} /\ db.used = {} /\ conn = db /\ lock = Nobody
      /\ (\A u \in Users : db.cred[u] = NoCredential) /\ (\A t \in Tokens : db.sess[t] = NoSession)
  BY <1>1, NoSessionIsTyped DEF Init, Tables
<1>3. Whole(db)
  BY <1>2, FS_EmptySet, AccountsAssumption DEF Whole
<1>4. \A r \in Requests : req[r] = Idle
  BY DEF Init
<1>5. RequestsAreSound
  BY <1>2, <1>4, IdleIsTyped, AccountsAssumption DEF RequestsAreSound, Asked, Apart, Inside, Early
<1>6. TypeOK
  BY <1>2, IdleIsTyped DEF Init, TypeOK, Command
<1>7. NothingLeftOpen /\ Pending /\ RotationEndsSessions
  BY <1>2 DEF NothingLeftOpen, Pending, RotationEndsSessions
<1>8. ResetIsBounded
  BY DEF Init, ResetIsBounded
<1> QED  BY <1>3, <1>5, <1>6, <1>7, <1>8 DEF IInv

LEMMA NextKeepsIInv ==
  ASSUME IInv, [Next]_vars
  PROVE  IInv'
<1>1. CASE UNCHANGED vars
  <2>1. UNCHANGED <<db, conn, lock, req, cli, dir, gate>>
    BY <1>1 DEF vars
  <2>2. TypeOK' /\ Whole(db)' /\ NothingLeftOpen' /\ Pending'
    BY <2>1 DEF IInv, TypeOK, Whole, NothingLeftOpen, Pending
  <2>3. RequestsAreSound' /\ ResetIsBounded' /\ RotationEndsSessions'
    BY <2>1, NothingElseMoves, StandingRequests
  <2> QED  BY <2>2, <2>3 DEF IInv
<1>2. ASSUME NEW r \in Requests, Arrive(r) PROVE IInv'
  BY <1>2, ArriveKeepsIInv
<1>3. ASSUME NEW r \in Requests, Serve(r) PROVE IInv'
  BY <1>3, LoadSessionKeepsIInv, BumpLastSeenKeepsIInv, FindUserKeepsIInv, DeleteSessionKeepsIInv,
     BeginSignupKeepsIInv, InsertIdentityKeepsIInv, CommitKeepsIInv, RollbackKeepsIInv,
     MaterializeKeepsIInv, CheckPasswordKeepsIInv, FindLoginKeepsIInv, RevokeOldKeepsIInv,
     InsertSessionKeepsIInv, LogoutKeepsIInv, DeleteRowKeepsIInv, AfterDeleteKeepsIInv,
     ReadFlagKeepsIInv, FillGateKeepsIInv, MarkSetupKeepsIInv, ForgetGateKeepsIInv DEF Serve
<1>4. CASE Operator
  BY <1>4, CliFindKeepsIInv, CliPasswordKeepsIInv, CliRevokeKeepsIInv, CliDeleteRowKeepsIInv,
     CliRemoveDirKeepsIInv, CliCountKeepsIInv, CliInviteKeepsIInv, CliListKeepsIInv,
     CliPruneKeepsIInv, CliDiesKeepsIInv DEF Operator
<1> QED  BY <1>1, <1>2, <1>3, <1>4, RestartKeepsIInv DEF Next

LEMMA SpecKeepsIInv == Spec => []IInv
  BY InitIInv, NextKeepsIInv, PTL DEF Spec

\* Whatever sign-ups, log-ins, deletions, the operator's commands and restarts
\* interleave, what is committed in auth.sqlite3 is whole: as many accounts as
\* the cap allows, each with its credential, no session without its account,
\* and no sign-up that failed left open on the connection (AuthDb.transaction).
THEOREM AccountsStayWhole == Spec => [](TypeOK /\ AccountsAreWhole)
<1>1. IInv => TypeOK /\ AccountsAreWhole
  BY DEF IInv, Whole, AccountsAreWhole
<1> QED  BY <1>1, SpecKeepsIInv, PTL

\* A password that is reset ends the sessions of its user, but those of a log-in
\* that was past its check by then (cli/auth.py, change_password).
THEOREM RotationsEndSessions == Spec => []RotationEndsSessions
<1>1. IInv => RotationEndsSessions
  BY DEF IInv
<1> QED  BY <1>1, SpecKeepsIInv, PTL

\* Only a commit brings accounts.
LEMMA OnlyCommitAdds ==
  ASSUME IInv, Next, \A r \in Requests : ~Commit(r)
  PROVE  db'.users \subseteq db.users
<1>1. /\ \A gone : WithoutSessions(db, gone).users = db.users
      /\ \A u : WithoutUser(db, u).users = db.users \ {u}
  BY WithoutSessionsIsWhole, WithoutUserIsWhole DEF IInv
<1>2. db \in Tables
  BY DEF IInv, TypeOK
<1>3. ASSUME NEW r \in Requests, Arrive(r) \/ Serve(r) PROVE db'.users \subseteq db.users
  <2>1. CASE Arrive(r) \/ LoadSession(r) \/ FindUser(r) \/ BeginSignup(r) \/ InsertIdentity(r)
             \/ Rollback(r) \/ Materialize(r) \/ CheckPassword(r) \/ FindLogin(r) \/ AfterDelete(r)
             \/ ReadFlag(r) \/ FillGate(r) \/ MarkSetup(r) \/ ForgetGate(r)
    <3>1. db' = db
      BY <2>1 DEF tables, Arrive, LoadSession, FindUser, BeginSignup, InsertIdentity, Rollback,
           Materialize, CheckPassword, FindLogin, AfterDelete, ReadFlag, FillGate, MarkSetup, ForgetGate
    <3> QED  BY <3>1, SMTT(30)
  <2>2. CASE BumpLastSeen(r) \/ DeleteSession(r) \/ RevokeOld(r) \/ Logout(r) \/ DeleteRow(r)
    BY <2>2, <1>1 DEF tables, BumpLastSeen, DeleteSession, RevokeOld, Logout, DeleteRow, Write
  <2>3. CASE InsertSession(r)
    BY <2>3, <1>2 DEF InsertSession, Write, Tables
  <2> QED  BY <1>3, <2>1, <2>2, <2>3 DEF Serve
<1>4. CASE Operator
  <2>1. CASE CliFind \/ CliRemoveDir \/ CliCount \/ CliList \/ CliPrune \/ CliDies
    BY <2>1 DEF tables, CliFind, CliRemoveDir, CliCount, CliList, CliPrune, CliDies
  <2>2. CASE CliRevoke \/ CliDeleteRow
    BY <2>2, <1>1 DEF CliRevoke, CliDeleteRow, Write
  <2>3. CASE CliPassword \/ CliInvite
    BY <2>3, <1>2 DEF CliPassword, CliInvite, Write, Tables
  <2> QED  BY <1>4, <2>1, <2>2, <2>3 DEF Operator
<1>5. CASE Restart
  BY <1>5, <1>2 DEF Restart, Tables
<1> QED  BY <1>3, <1>4, <1>5 DEF Next

\* The commit that makes the first account makes only this one and takes the
\* invite code along, however many sign-ups carry it (HmacInvitePolicy.consume).
THEOREM TheFirstIsInvited == Spec => FirstByInvite
<1> DEFINE A == db.users = {} /\ db'.users # {} =>
                  Cardinality(db'.users) = 1 /\ db.invite /\ ~db'.invite
<1>1. ASSUME IInv, [Next]_vars PROVE A
  <2> SUFFICES ASSUME db.users = {}, db'.users # {}
               PROVE  Cardinality(db'.users) = 1 /\ db.invite /\ ~db'.invite
    OBVIOUS
  <2>1. Next
    BY <1>1 DEF vars
  <2>2. PICK r \in Requests : Commit(r)
    BY <1>1, <2>1, OnlyCommitAdds
  <2>3. req[r].at = "commit" /\ lock = r /\ db' = conn
    BY <1>1, <2>2 DEF Commit, IInv, RequestsAreSound, Asked, Inside
  <2>4. db'.users = {req[r].user} /\ db.invite /\ ~db'.invite
    BY <1>1, <2>3, CommittedIsWhole
  <2> QED  BY <2>4, FS_Singleton
<1>2. IInv /\ [Next]_vars => [A]_vars
  BY <1>1
<1> QED  BY <1>2, SpecKeepsIInv, PTL DEF Spec, FirstByInvite

-----------------------------------------------------------------------------
(* The directories.  An id is used once: so who is being deleted cannot    *)
(* have signed up again, and a directory that is removed is an old one.    *)

Settled(r) ==
    /\ req[r].at \in {"bump", "user"} => req[r].who \in db.used
    /\ req[r].at \in {"act", "materialize"} => req[r].user \in db.used
    /\ req[r].at = "hook" => req[r].user \in db.used \ db.users
CommandIsSound ==
    /\ cli.op = "row" => cli.user \in db.used
    /\ cli.op = "rmtree" => cli.user \in db.used \ db.users
    /\ cli.op = "prune" => db.users \subseteq cli.known \cup cli.came
DInv == /\ \A r \in Requests : Settled(r)
        /\ CommandIsSound /\ told \subseteq db.used /\ DirectoryStands

LEMMA UsedGrows ==
  ASSUME IInv, Next
  PROVE  db.used \subseteq db'.used /\ db'.users \cap db.used \subseteq db.users
<1>1. ASSUME NEW r \in Requests, Commit(r)
      PROVE  db.used \subseteq db'.used /\ db'.users \cap db.used \subseteq db.users
  <2>1. lock = r /\ req[r].at = "commit" /\ db' = conn
    BY <1>1 DEF Commit, IInv, RequestsAreSound, Asked, Inside
  <2> QED  BY <2>1, CommittedIsWhole
<1>2. /\ \A gone : WithoutSessions(db, gone).used = db.used
      /\ \A u : WithoutUser(db, u).used = db.used
  BY WithoutSessionsIsWhole, WithoutUserIsWhole DEF IInv
<1>3. db \in Tables
  BY DEF IInv, TypeOK
<1>4. ASSUME NEW r \in Requests, (Arrive(r) \/ Serve(r)) /\ ~Commit(r) PROVE db'.used = db.used
  <2>1. CASE Arrive(r) \/ LoadSession(r) \/ FindUser(r) \/ BeginSignup(r) \/ InsertIdentity(r)
             \/ Rollback(r) \/ Materialize(r) \/ CheckPassword(r) \/ FindLogin(r) \/ AfterDelete(r)
             \/ ReadFlag(r) \/ FillGate(r) \/ MarkSetup(r) \/ ForgetGate(r)
    <3>1. db' = db
      BY <2>1 DEF tables, Arrive, LoadSession, FindUser, BeginSignup, InsertIdentity, Rollback,
           Materialize, CheckPassword, FindLogin, AfterDelete, ReadFlag, FillGate, MarkSetup, ForgetGate
    <3> QED  BY <3>1, SMTT(30)
  <2>2. CASE BumpLastSeen(r) \/ DeleteSession(r) \/ RevokeOld(r) \/ Logout(r) \/ DeleteRow(r)
    BY <2>2, <1>2 DEF tables, BumpLastSeen, DeleteSession, RevokeOld, Logout, DeleteRow, Write
  <2>3. CASE InsertSession(r)
    BY <2>3, <1>3 DEF InsertSession, Write, Tables
  <2> QED  BY <1>4, <2>1, <2>2, <2>3 DEF Serve
<1>5. ASSUME Operator \/ Restart PROVE db'.used = db.used
  <2>1. CASE CliFind \/ CliRemoveDir \/ CliCount \/ CliList \/ CliPrune \/ CliDies
    BY <2>1 DEF tables, CliFind, CliRemoveDir, CliCount, CliList, CliPrune, CliDies
  <2>2. CASE CliRevoke \/ CliDeleteRow
    BY <2>2, <1>2 DEF CliRevoke, CliDeleteRow, Write
  <2>3. CASE CliPassword \/ CliInvite
    BY <2>3, <1>3 DEF CliPassword, CliInvite, Write, Tables
  <2>4. CASE Restart
    BY <2>4, <1>3 DEF Restart, Tables
  <2> QED  BY <1>5, <2>1, <2>2, <2>3, <2>4 DEF Operator
<1>6. CASE \A r \in Requests : ~Commit(r)
  <2>1. db'.users \subseteq db.users
    BY <1>6, OnlyCommitAdds
  <2>2. db'.used = db.used
    BY <1>4, <1>5, <1>6 DEF Next
  <2> QED  BY <2>1, <2>2
<1> QED  BY <1>1, <1>6

\* What a request does that is not at rest.
LEMMA ServedIsSettled ==
  ASSUME IInv, DInv, Next, NEW r \in Requests, Serve(r)
  PROVE  \A p \in Requests : Settled(p)'
<1>1. /\ db.used \subseteq db'.used /\ db'.users \cap db.used \subseteq db.users
      /\ req \in [Requests -> Request] /\ Settled(r) /\ Asked(r)
  BY UsedGrows DEF IInv, TypeOK, DInv, RequestsAreSound
<1>2. ASSUME NEW p \in Requests, req'[p] = req[p] PROVE Settled(p)'
  BY <1>1, <1>2 DEF DInv, Settled
<1>3. ASSUME NEW at, Goto(r, at), at \notin {"bump", "user", "act", "materialize", "hook"}
      PROVE  \A p \in Requests : Settled(p)'
  <2>1. req'[r].at = at /\ \A p \in Requests \ {r} : req'[p] = req[p]
    BY <1>1, <1>3 DEF Goto, Request
  <2>2. Settled(r)'
    BY <1>3, <2>1 DEF Settled
  <2> QED  BY <1>2, <2>1, <2>2
<1>4. ASSUME Ends(r) PROVE \A p \in Requests : Settled(p)'
  <2>1. req'[r] = Idle /\ \A p \in Requests \ {r} : req'[p] = req[p]
    BY <1>1, <1>4 DEF Ends
  <2>2. Settled(r)'
    BY <2>1, IdleIsTyped DEF Settled
  <2> QED  BY <1>2, <2>1, <2>2
<1>5. ASSUME NEW u \in Users \cup {Nobody}, u # Nobody => u \in db.used, Resolved(r, u)
      PROVE  \A p \in Requests : Settled(p)'
  <2>1. CASE req[r].op \in {"signup", "login"}
    BY <1>3, <1>5, <2>1 DEF Resolved, Admitted
  <2>2. CASE req[r].op \notin {"signup", "login"} /\ u = Nobody
    BY <1>4, <1>5, <2>2 DEF Resolved
  <2>3. CASE req[r].op \notin {"signup", "login"} /\ u # Nobody
    <3>1. req' = [req EXCEPT ![r].at = "act", ![r].user = u]
      BY <1>5, <2>3 DEF Resolved
    <3>2. req'[r].at = "act" /\ req'[r].user = u /\ \A p \in Requests \ {r} : req'[p] = req[p]
      BY <1>1, <3>1 DEF Request
    <3>3. Settled(r)'
      BY <1>1, <1>5, <2>3, <3>2 DEF Settled
    <3> QED  BY <1>2, <3>2, <3>3
  <2> QED  BY <2>1, <2>2, <2>3
<1>6. CASE LoadSession(r)
  <2>1. CASE Resolved(r, Nobody)
    BY <1>5, <2>1
  <2>2. ASSUME NEW at \in {"expire", "bump", "user"}, conn.sess[req[r].tok] # NoSession,
               req' = [req EXCEPT ![r].at = at, ![r].who = conn.sess[req[r].tok].user]
        PROVE  \A p \in Requests : Settled(p)'
    <3>1. req[r].tok \in Tokens
      BY <1>1, <1>6 DEF LoadSession, Asked
    <3>2. conn.sess = db.sess
      BY DEF IInv, NothingLeftOpen, Pending
    <3>3. conn.sess[req[r].tok].user \in db.used
      BY <2>2, <3>1, <3>2 DEF IInv, Whole
    <3>4. /\ req'[r].at = at /\ req'[r].who = conn.sess[req[r].tok].user
          /\ \A p \in Requests \ {r} : req'[p] = req[p]
      BY <1>1, <2>2 DEF Request
    <3>5. Settled(r)'
      BY <1>1, <3>3, <3>4 DEF Settled
    <3> QED  BY <1>2, <3>4, <3>5
  <2> QED  BY <1>6, <2>1, <2>2 DEF LoadSession
<1>7. CASE BumpLastSeen(r)
  <2>1. req'[r].at = "user" /\ req'[r].who = req[r].who /\ \A p \in Requests \ {r} : req'[p] = req[p]
    BY <1>1, <1>7 DEF BumpLastSeen, Goto, Request
  <2>2. Settled(r)'
    BY <1>1, <1>7, <2>1 DEF Settled, BumpLastSeen
  <2> QED  BY <1>2, <2>1, <2>2
<1>8. CASE FindUser(r) \/ DeleteSession(r)
  <2>1. CASE FindUser(r)
    <3>1. req[r].who \in Users \cup {Nobody} /\ req[r].who \in db.used
      BY <1>1, <2>1 DEF FindUser, Settled, Request
    <3> QED  BY <1>3, <1>5, <2>1, <3>1 DEF FindUser
  <2>2. CASE DeleteSession(r)
    BY <1>5, <2>2 DEF DeleteSession
  <2> QED  BY <1>8, <2>1, <2>2
<1>9. CASE Commit(r)
  <2>1. lock = r /\ req[r].at = "commit" /\ db' = conn
    BY <1>9 DEF Commit, IInv, RequestsAreSound, Asked, Inside
  <2>2. /\ req'[r].at = "materialize" /\ req'[r].user = req[r].user
        /\ \A p \in Requests \ {r} : req'[p] = req[p]
    BY <1>1, <1>9 DEF Commit, Goto, Request
  <2>3. req[r].user \in db'.used
    BY <2>1, CommittedIsWhole
  <2>4. Settled(r)'
    BY <2>2, <2>3 DEF Settled
  <2> QED  BY <1>2, <2>2, <2>4
<1>10. CASE DeleteRow(r)
  <2>1. /\ req'[r].at = "hook" /\ req'[r].user = req[r].user
        /\ \A p \in Requests \ {r} : req'[p] = req[p]
    BY <1>1, <1>10 DEF DeleteRow, Goto, Request
  <2>2. req[r].user \in db'.used \ db'.users
    <3>1. req[r].user \in db.used /\ db' = WithoutUser(db, req[r].user)
      BY <1>1, <1>10 DEF DeleteRow, Settled, Write
    <3> QED  BY <1>1, <3>1, WithoutUserIsWhole DEF IInv
  <2>3. Settled(r)'
    BY <2>1, <2>2 DEF Settled
  <2> QED  BY <1>2, <2>1, <2>3
<1>11. CASE CheckPassword(r) \/ ReadFlag(r)
  <2>1. CASE Ends(r)
    BY <1>4, <2>1
  <2>2. CASE ~Ends(r)
    <3>1. req'[r].at \in {"who", "fill"} /\ \A p \in Requests \ {r} : req'[p] = req[p]
      BY <1>1, <1>11, <2>2 DEF CheckPassword, ReadFlag, Request
    <3>2. Settled(r)'
      BY <3>1 DEF Settled
    <3> QED  BY <1>2, <3>1, <3>2
  <2> QED  BY <2>1, <2>2
<1>12. CASE \/ BeginSignup(r) \/ InsertIdentity(r) \/ Rollback(r) \/ Materialize(r) \/ FindLogin(r)
            \/ RevokeOld(r) \/ InsertSession(r) \/ Logout(r) \/ AfterDelete(r) \/ FillGate(r)
            \/ MarkSetup(r) \/ ForgetGate(r)
  <2>1. \/ Ends(r)
        \/ \E at : Goto(r, at) /\ at \notin {"bump", "user", "act", "materialize", "hook"}
    BY <1>12 DEF BeginSignup, InsertIdentity, Rollback, Materialize, FindLogin, RevokeOld, InsertSession,
         Logout, AfterDelete, FillGate, MarkSetup, ForgetGate
  <2> QED  BY <1>3, <1>4, <2>1
<1> QED  BY <1>6, <1>7, <1>8, <1>9, <1>10, <1>11, <1>12 DEF Serve

LEMMA RequestsStaySettled ==
  ASSUME IInv, DInv, Next
  PROVE  \A p \in Requests : Settled(p)'
<1>1. /\ db.used \subseteq db'.used /\ db'.users \cap db.used \subseteq db.users
      /\ req \in [Requests -> Request]
  BY UsedGrows DEF IInv, TypeOK
<1>2. ASSUME NEW p \in Requests, req'[p] = req[p] PROVE Settled(p)'
  BY <1>1, <1>2 DEF DInv, Settled
<1>3. ASSUME NEW r \in Requests, Arrive(r) PROVE \A p \in Requests : Settled(p)'
  <2>1. /\ req'[r].at \in {"session", "begin", "lookup"}
        /\ \A p \in Requests \ {r} : req'[p] = req[p]
    BY <1>1, <1>3, IdleIsTyped DEF Arrive, Admitted, Idle
  <2>2. Settled(r)'
    BY <2>1 DEF Settled
  <2> QED  BY <1>2, <2>1, <2>2
<1>4. CASE Operator
  <2>1. req' = req
    BY <1>4 DEF Operator, CliFind, CliPassword, CliRevoke, CliDeleteRow, CliRemoveDir, CliCount,
         CliInvite, CliList, CliPrune, CliDies
  <2> QED  BY <1>2, <2>1
<1>5. CASE Restart
  BY <1>5, IdleIsTyped DEF Restart, Settled
<1> QED  BY <1>3, <1>4, <1>5, ServedIsSettled DEF Next

\* The operator's command stands still, but for the accounts that come.
LEMMA CommandStaysSound ==
  ASSUME IInv, DInv, Next
  PROVE  CommandIsSound'
<1>1. /\ db.used \subseteq db'.used /\ db'.users \cap db.used \subseteq db.users
      /\ db \in Tables /\ cli \in Command /\ Whole(db)
  BY UsedGrows DEF IInv, TypeOK
<1>2. CASE UNCHANGED cli /\ db'.users \subseteq db.users
  BY <1>1, <1>2 DEF DInv, CommandIsSound
<1>3. ASSUME NEW r \in Requests, Commit(r) PROVE CommandIsSound'
  <2>1. lock = r /\ req[r].at = "commit" /\ db' = conn
    BY <1>3 DEF Commit, IInv, RequestsAreSound, Asked, Inside
  <2>2. db'.users = db.users \cup {req[r].user} /\ req[r].user \notin db.used
    BY <2>1, CommittedIsWhole
  <2>3. /\ cli'.op = cli.op /\ cli'.user = cli.user /\ cli'.known = cli.known
        /\ cli'.came = IF cli.op = "prune" THEN cli.came \cup {req[r].user} ELSE cli.came
    BY <1>1, <1>3 DEF Commit, Command
  <2> QED  BY <1>1, <2>2, <2>3 DEF DInv, CommandIsSound
<1>4. ASSUME NEW r \in Requests, Arrive(r) \/ Serve(r), \A p \in Requests : ~Commit(p)
      PROVE  CommandIsSound'
  <2>1. UNCHANGED cli
    BY <1>4 DEF Arrive, Serve, LoadSession, BumpLastSeen, FindUser, DeleteSession, BeginSignup,
         InsertIdentity, Rollback, Materialize, CheckPassword, FindLogin, RevokeOld, InsertSession,
         Logout, DeleteRow, AfterDelete, ReadFlag, FillGate, MarkSetup, ForgetGate
  <2> QED  BY <1>2, <1>4, <2>1, OnlyCommitAdds
<1>5. CASE Operator
  <2>1. CASE CliRevoke \/ CliRemoveDir \/ CliInvite \/ CliPrune \/ CliDies
    <3>1. cli'.op = "none"
      BY <2>1 DEF CliRevoke, CliRemoveDir, CliInvite, CliPrune, CliDies, CliDone, CliEnds
    <3> QED  BY <3>1 DEF CommandIsSound
  <2>2. CASE CliPassword \/ CliCount
    <3>1. cli'.op \in {"revoke", "invite"}
      BY <1>1, <2>2 DEF CliPassword, CliCount, Command
    <3> QED  BY <3>1 DEF CommandIsSound
  <2>3. CASE CliFind
    <3>1. cli'.op \in Commands /\ cli'.user \in db.users
      BY <1>1, <2>3 DEF CliFind, Command
    <3>2. cli'.user \in db'.used
      BY <1>1, <3>1 DEF Whole
    <3> QED  BY <3>1, <3>2 DEF CommandIsSound, Commands
  <2>4. CASE CliDeleteRow
    <3>1. /\ cli.op = "row" /\ db' = WithoutUser(db, cli.user) /\ cli'.op = "rmtree"
          /\ cli'.user = cli.user
      BY <1>1, <2>4 DEF CliDeleteRow, Write, Command
    <3>2. cli.user \in db.used /\ db'.users = db.users \ {cli.user}
      BY <1>1, <3>1, WithoutUserIsWhole DEF DInv, CommandIsSound
    <3> QED  BY <1>1, <3>1, <3>2 DEF CommandIsSound
  <2>5. CASE CliList
    <3>1. cli'.op = "prune" /\ cli'.known = db.users /\ db' = db
      BY <1>1, <2>5 DEF CliList, Command, tables
    <3> QED  BY <3>1 DEF CommandIsSound
  <2> QED  BY <1>5, <2>1, <2>2, <2>3, <2>4, <2>5 DEF Operator
<1>6. CASE Restart
  <2>1. UNCHANGED cli /\ db'.users = db.users
    BY <1>1, <1>6 DEF Restart, Tables
  <2> QED  BY <1>2, <2>1
<1> QED  BY <1>3, <1>4, <1>5, <1>6 DEF Next

\* A directory with a schema keeps it as long as its account stands.
LEMMA KeptDirectories ==
  ASSUME IInv, DInv, Next, told' = told, swept \subseteq swept',
         \A u \in (db.users \cap told) \ swept' :
             dir[u] \in {"new", "done"} => dir'[u] \in {"new", "done"}
  PROVE  DirectoryStands'
<1>1. db'.users \cap db.used \subseteq db.users
  BY UsedGrows
<1> QED  BY <1>1 DEF DInv, DirectoryStands

LEMMA DirectoriesStand ==
  ASSUME IInv, DInv, Next
  PROVE  DirectoryStands' /\ told' \subseteq db'.used
<1>1. /\ db.used \subseteq db'.used /\ db'.users \cap db.used \subseteq db.users
      /\ told \subseteq db.used /\ db.users \subseteq Users
      /\ dir \in [Users -> {"none", "bare", "new", "done"}]
  BY UsedGrows DEF IInv, TypeOK, Tables, DInv
<1>2. ASSUME told' = told, swept' = swept,
             \A u \in db.users : dir'[u] = dir[u] \/ dir'[u] = "done" \/ dir[u] \notin {"new", "done"}
      PROVE  DirectoryStands' /\ told' \subseteq db'.used
  BY <1>1, <1>2, KeptDirectories
<1>3. ASSUME NEW u, Opened(u)
      PROVE  \A v \in Users : dir'[v] = dir[v] \/ dir[v] \notin {"new", "done"}
  BY <1>1, <1>3 DEF Opened
<1>4. ASSUME NEW u, RemoveDir(u), u \notin db.users
      PROVE  \A v \in db.users : dir'[v] = dir[v]
  BY <1>1, <1>4 DEF RemoveDir
<1>5. ASSUME NEW r \in Requests, Arrive(r) \/ Serve(r)
      PROVE  DirectoryStands' /\ told' \subseteq db'.used
  <2>1. CASE Materialize(r)
    <3> DEFINE u == req[r].user
    <3>1. u \in db.used /\ req[r].at = "materialize"
      BY <2>1 DEF Materialize, DInv, Settled
    <3>2. CASE /\ dir' = [dir EXCEPT ![u] = "new"] /\ told' = told \cup {u}
      <4>1. swept' = swept
        BY <2>1 DEF Materialize
      <4>2. \A v \in db.users : dir'[v] = IF v = u THEN "new" ELSE dir[v]
        BY <1>1, <3>2
      <4>3. DirectoryStands'
        BY <1>1, <3>1, <3>2, <4>1, <4>2 DEF DirectoryStands, DInv
      <4> QED  BY <1>1, <3>1, <3>2, <4>3
    <3>3. CASE told' = told /\ (Opened(u) \/ UNCHANGED dir)
      <4>1. swept' = swept
        BY <2>1 DEF Materialize
      <4> QED  BY <1>1, <1>2, <1>3, <3>3, <4>1
    <3> QED  BY <2>1, <3>2, <3>3 DEF Materialize
  <2>2. CASE AfterDelete(r)
    <3>1. RemoveDir(req[r].user) /\ req[r].user \notin db.users /\ told' = told /\ swept' = swept
      BY <2>2 DEF AfterDelete, history, DInv, Settled
    <3> QED  BY <1>2, <1>4, <3>1
  <2>3. CASE ReadFlag(r)
    BY <1>1, <1>2, <1>3, <2>3 DEF ReadFlag, history
  <2>4. CASE MarkSetup(r)
    BY <1>1, <1>2, <1>3, <2>4 DEF MarkSetup, history
  <2>5. CASE \/ Arrive(r) \/ LoadSession(r) \/ BumpLastSeen(r) \/ FindUser(r) \/ DeleteSession(r)
             \/ BeginSignup(r) \/ InsertIdentity(r) \/ Commit(r) \/ Rollback(r) \/ CheckPassword(r)
             \/ FindLogin(r) \/ RevokeOld(r) \/ InsertSession(r) \/ Logout(r) \/ DeleteRow(r)
             \/ FillGate(r) \/ ForgetGate(r)
    <3>1. UNCHANGED <<dir, told, swept>>
      BY <2>5 DEF history, Arrive, LoadSession, BumpLastSeen, FindUser, DeleteSession, BeginSignup,
           InsertIdentity, Commit, Rollback, CheckPassword, FindLogin, RevokeOld, InsertSession,
           Logout, DeleteRow, FillGate, ForgetGate
    <3> QED  BY <1>2, <3>1, SMTT(30)
  <2> QED  BY <1>5, <2>1, <2>2, <2>3, <2>4, <2>5 DEF Serve
<1>6. CASE Operator
  <2>1. CASE CliRemoveDir
    <3>1. RemoveDir(cli.user) /\ cli.user \notin db.users /\ told' = told /\ swept' = swept
      BY <2>1 DEF CliRemoveDir, history, DInv, CommandIsSound
    <3> QED  BY <1>2, <1>4, <3>1
  <2>2. CASE CliPrune
    <3>1. CASE UNCHANGED <<dir, swept>>
      BY <1>2, <2>2, <3>1 DEF CliPrune
    <3>2. ASSUME NEW gone \in SUBSET Orphans, swept' = swept \cup (gone \cap cli.came),
                 dir' = [u \in Users |-> IF u \in gone THEN "none" ELSE dir[u]]
          PROVE  DirectoryStands' /\ told' \subseteq db'.used
      <4>1. told' = told /\ db.users \subseteq cli.known \cup cli.came
        BY <2>2 DEF CliPrune, DInv, CommandIsSound
      <4>2. \A u \in (db.users \cap told) \ swept' : u \notin gone
        BY <3>2, <4>1 DEF Orphans
      <4>3. \A u \in (db.users \cap told) \ swept' : dir'[u] = dir[u]
        BY <1>1, <3>2, <4>2
      <4> QED  BY <1>1, <3>2, <4>1, <4>3, KeptDirectories
    <3>3. UNCHANGED <<dir, swept>>
          \/ \E gone \in SUBSET Orphans : /\ swept' = swept \cup (gone \cap cli.came)
                                         /\ dir' = [u \in Users |-> IF u \in gone THEN "none" ELSE dir[u]]
      BY <2>2 DEF CliPrune
    <3> QED  BY <3>1, <3>2, <3>3
  <2>3. CASE CliFind \/ CliPassword \/ CliRevoke \/ CliDeleteRow \/ CliCount \/ CliInvite \/ CliList
             \/ CliDies
    <3>1. UNCHANGED <<dir, told, swept>>
      BY <2>3 DEF history, CliFind, CliPassword, CliRevoke, CliDeleteRow, CliCount, CliInvite, CliList,
                  CliDies
    <3> QED  BY <1>2, <3>1
  <2> QED  BY <1>6, <2>1, <2>2, <2>3 DEF Operator
<1>7. CASE Restart
  BY <1>2, <1>7 DEF Restart, history
<1> QED  BY <1>5, <1>6, <1>7 DEF Next

\* Who was told that the account exists has a directory with a schema for as
\* long as it does, whatever deletions of others, failing hooks, restarts and
\* commands of the operator go on: but for the one prune that listed the users
\* before (delete_account, cmd_prune_orphans).
THEOREM DirectoriesStandFast == Spec => []DirectoryStands
<1>1. Init => DInv
  BY IdleIsTyped DEF Init, DInv, Settled, CommandIsSound, DirectoryStands
<1>2. IInv /\ DInv /\ [Next]_vars => DInv'
  <2> SUFFICES ASSUME IInv, DInv, [Next]_vars PROVE DInv'
    OBVIOUS
  <2>1. CASE Next
    BY <2>1, RequestsStaySettled, CommandStaysSound, DirectoriesStand DEF DInv
  <2>2. CASE UNCHANGED vars
    BY <2>2 DEF vars, DInv, Settled, CommandIsSound, DirectoryStands
  <2> QED  BY <2>1, <2>2
<1>3. DInv => DirectoryStands
  BY DEF DInv
<1> QED  BY <1>1, <1>2, <1>3, SpecKeepsIInv, PTL DEF Spec

-----------------------------------------------------------------------------
(* The setup gate.                                                          *)

LEMMA GateStaysTrue ==
  ASSUME IInv, SetupIsSeen, Next
  PROVE  SetupIsSeen'
<1>1. /\ req \in [Requests -> Request] /\ dir \in [Users -> {"none", "bare", "new", "done"}]
      /\ gate \in [Users -> {"miss", "new", "done"}]
  BY DEF IInv, TypeOK
<1> DEFINE Forgetting(u) == \E r \in Requests : req[r].at = "forget" /\ req[r].user = u
\* A step that leaves the gate and sets no flag, and whose request is not about to forget.
<1>2. ASSUME overtaken \subseteq overtaken',
             \A u \in Users : dir'[u] = "done" => dir[u] = "done",
             \A u \in Users : gate'[u] \in {gate[u], "miss"},
             \A r \in Requests : req[r].at = "forget" =>
                 req'[r] = req[r] \/ gate'[req[r].user] = "miss" \/ req[r].user \notin Users
      PROVE  SetupIsSeen'
  <2> SUFFICES ASSUME NEW u \in Users \ overtaken', dir'[u] = "done", gate'[u] = "new"
               PROVE  \E r \in Requests : req'[r].at = "forget" /\ req'[r].user = u
    BY DEF SetupIsSeen
  <2>1. PICK r \in Requests : req[r].at = "forget" /\ req[r].user = u
    BY <1>2 DEF SetupIsSeen
  <2> QED  BY <1>2, <2>1
<1>3. ASSUME NEW r \in Requests, req[r].at # "forget",
             \A p \in Requests \ {r} : req'[p] = req[p],
             UNCHANGED <<dir, gate, overtaken>>
      PROVE  SetupIsSeen'
  BY <1>2, <1>3
<1>4. \A r \in Requests : \A at : Goto(r, at) \/ Ends(r) => \A p \in Requests \ {r} : req'[p] = req[p]
  BY <1>1 DEF Goto, Ends
<1>5. \A r \in Requests : \A u : Resolved(r, u) => \A p \in Requests \ {r} : req'[p] = req[p]
  BY <1>1 DEF Resolved, Goto, Ends
<1>6. ASSUME NEW r \in Requests, Arrive(r) \/ Serve(r) PROVE SetupIsSeen'
  <2>1. CASE Materialize(r)
    <3>1. /\ UNCHANGED <<gate, overtaken>> /\ \A p \in Requests \ {r} : req'[p] = req[p]
          /\ req[r].at # "forget"
      BY <1>4, <2>1 DEF Materialize
    <3>2. \A u \in Users : dir'[u] = "done" => dir[u] = "done"
      BY <1>1, <2>1 DEF Materialize, Opened
    <3> QED  BY <1>2, <3>1, <3>2
  <2>2. CASE AfterDelete(r)
    <3>1. /\ overtaken' = overtaken /\ \A p \in Requests \ {r} : req'[p] = req[p]
          /\ req[r].at # "forget"
      BY <1>4, <2>2 DEF AfterDelete, history
    <3>2. \A u \in Users : (dir'[u] = "done" => dir[u] = "done") /\ gate'[u] \in {gate[u], "miss"}
      BY <1>1, <2>2 DEF AfterDelete, RemoveDir
    <3> QED  BY <1>2, <3>1, <3>2
  <2>3. CASE ReadFlag(r)
    <3>1. /\ UNCHANGED <<gate, overtaken>> /\ \A p \in Requests \ {r} : req'[p] = req[p]
          /\ req[r].at # "forget"
      BY <1>1, <1>4, <2>3 DEF ReadFlag, history
    <3>2. \A u \in Users : dir'[u] = "done" => dir[u] = "done"
      BY <1>1, <2>3 DEF ReadFlag, Opened
    <3> QED  BY <1>2, <3>1, <3>2
  <2>4. CASE FillGate(r)
    <3> DEFINE u == req[r].user
    <3>1. /\ dir' = dir /\ \A p \in Requests \ {r} : req'[p] = req[p]
          /\ req[r].at # "forget" /\ overtaken \subseteq overtaken'
          /\ dir[u] # req[r].seen => u \in overtaken'
      BY <1>4, <2>4 DEF FillGate
    <3>2. \A v \in Users : gate'[v] = IF v = u THEN req[r].seen ELSE gate[v]
      BY <1>1, <2>4 DEF FillGate
    <3> SUFFICES ASSUME NEW v \in Users \ overtaken', dir'[v] = "done", gate'[v] = "new"
                 PROVE  \E p \in Requests : req'[p].at = "forget" /\ req'[p].user = v
      BY DEF SetupIsSeen
    <3>3. v # u
      BY <3>1, <3>2
    <3>4. PICK p \in Requests : req[p].at = "forget" /\ req[p].user = v
      BY <3>1, <3>2, <3>3 DEF SetupIsSeen
    <3> QED  BY <3>1, <3>4
  <2>5. CASE MarkSetup(r)
    <3> DEFINE u == req[r].user
    <3>1. /\ UNCHANGED <<gate, overtaken>> /\ \A p \in Requests \ {r} : req'[p] = req[p]
          /\ req[r].at # "forget"
      BY <1>4, <2>5 DEF MarkSetup, history
    <3>2. CASE Opened(u)
      <4>1. \A v \in Users : dir'[v] = "done" => dir[v] = "done"
        BY <1>1, <3>2 DEF Opened
      <4> QED  BY <1>2, <3>1, <4>1
    <3>3. CASE dir' = [dir EXCEPT ![u] = "done"] /\ Goto(r, "forget")
      <4>1. req'[r].at = "forget" /\ req'[r].user = u
        BY <1>1, <3>3 DEF Goto, Request
      <4> SUFFICES ASSUME NEW v \in Users \ overtaken', dir'[v] = "done", gate'[v] = "new", v # u
                   PROVE  \E p \in Requests : req'[p].at = "forget" /\ req'[p].user = v
        BY <4>1 DEF SetupIsSeen
      <4>2. dir[v] = "done" /\ gate[v] = "new"
        BY <1>1, <3>1, <3>3
      <4>3. PICK p \in Requests : req[p].at = "forget" /\ req[p].user = v
        BY <3>1, <4>2 DEF SetupIsSeen
      <4> QED  BY <3>1, <4>3
    <3> QED  BY <2>5, <3>2, <3>3 DEF MarkSetup
  <2>6. CASE ForgetGate(r)
    <3>1. /\ UNCHANGED <<dir, overtaken>> /\ \A p \in Requests \ {r} : req'[p] = req[p]
          /\ gate' = [gate EXCEPT ![req[r].user] = "miss"]
      BY <1>4, <2>6 DEF ForgetGate, history
    <3>2. /\ \A u \in Users : gate'[u] \in {gate[u], "miss"}
          /\ req[r].user \in Users => gate'[req[r].user] = "miss"
      BY <1>1, <3>1
    <3> QED  BY <1>2, <3>1, <3>2
  <2>7. CASE \/ LoadSession(r) \/ BumpLastSeen(r) \/ FindUser(r) \/ DeleteSession(r)
    <3>1. UNCHANGED <<dir, gate, overtaken>> /\ req[r].at # "forget"
      BY <2>7 DEF history, LoadSession, BumpLastSeen, FindUser, DeleteSession
    <3>2. \A p \in Requests \ {r} : req'[p] = req[p]
      BY <1>1, <1>4, <1>5, <2>7, SMTT(30) DEF LoadSession, BumpLastSeen, FindUser, DeleteSession
    <3> QED  BY <1>3, <3>1, <3>2
  <2>8. CASE \/ Arrive(r) \/ BeginSignup(r) \/ InsertIdentity(r) \/ Commit(r) \/ Rollback(r)
             \/ CheckPassword(r) \/ FindLogin(r) \/ RevokeOld(r) \/ InsertSession(r)
             \/ Logout(r) \/ DeleteRow(r)
    <3>1. UNCHANGED <<dir, gate, overtaken>> /\ req[r].at # "forget"
      BY <2>8, IdleIsTyped DEF history, Arrive, BeginSignup, InsertIdentity, Commit, Rollback,
           CheckPassword, FindLogin, RevokeOld, InsertSession, Logout, DeleteRow
    <3>2. \A p \in Requests \ {r} : req'[p] = req[p]
      BY <1>1, <1>4, <2>8 DEF Arrive, BeginSignup, InsertIdentity, Commit, Rollback,
           CheckPassword, FindLogin, RevokeOld, InsertSession, Logout, DeleteRow
    <3> QED  BY <1>3, <3>1, <3>2
  <2> QED  BY <1>6, <2>1, <2>2, <2>3, <2>4, <2>5, <2>6, <2>7, <2>8 DEF Serve
<1>7. CASE Operator
  <2>1. UNCHANGED <<req, gate, overtaken>>
    BY <1>7 DEF history, Operator, CliFind, CliPassword, CliRevoke, CliDeleteRow, CliRemoveDir,
         CliCount, CliInvite, CliList, CliPrune, CliDies
  <2>2. \A u \in Users : dir'[u] = "done" => dir[u] = "done"
    BY <1>1, <1>7 DEF Operator, CliFind, CliPassword, CliRevoke, CliDeleteRow, CliRemoveDir,
         RemoveDir, CliCount, CliInvite, CliList, CliPrune, CliDies
  <2> QED  BY <1>2, <2>1, <2>2
<1>8. CASE Restart
  BY <1>8 DEF Restart, SetupIsSeen
<1> QED  BY <1>6, <1>7, <1>8 DEF Next

\* Whoever finished the setup is not sent back to it, unless a page that read
\* the old flag fills the gate with it afterwards (web/middleware.py,
\* setup_complete).
THEOREM TheSetupIsSeen == Spec => []SetupIsSeen
<1>1. Init => SetupIsSeen
  BY DEF Init, SetupIsSeen
<1>2. IInv /\ SetupIsSeen /\ [Next]_vars => SetupIsSeen'
  <2> SUFFICES ASSUME IInv, SetupIsSeen, UNCHANGED vars PROVE SetupIsSeen'
    BY GateStaysTrue
  <2> QED  BY DEF vars, SetupIsSeen
<1> QED  BY <1>1, <1>2, SpecKeepsIInv, PTL DEF Spec
=============================================================================
