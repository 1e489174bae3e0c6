------------------------------ MODULE Accounts ------------------------------
(***************************************************************************)
(* Accounts and sessions: what a request does from its session cookie to   *)
(* its answer (auth/core/service.py, auth/fastapi, auth/storage_sqlite),   *)
(* the hooks that make and remove a user's directory (web/auth_hooks.py),  *)
(* the setup gate in front of the pages with its cache (web/middleware.py, *)
(* web/settings_snapshot.py), and the operator's commands (auth/cli,       *)
(* cli/auth.py), which are a process of their own.                         *)
(*                                                                         *)
(* All requests share one connection and one write lock (AuthDb).  A read  *)
(* takes no lock, so it sees what another request's open transaction has   *)
(* written.  A single-statement write is one step: the lock is held from   *)
(* before the statement until after the commit, and a failure of either    *)
(* leaves nothing.  The operator's process has a connection of its own: it *)
(* reads what is committed, and waits for an open transaction to write.    *)
(***************************************************************************)
EXTENDS Naturals, FiniteSets

CONSTANTS
    Users,        \* user ids: each account gets a new one
    MaxUsers,     \* the cap of MaxUsersQuota
    Requests,     \* bound: HTTP requests in progress at once
    Tokens,       \* session tokens; bound: how many are held at once
    MaxPasswords, \* bound: how often a password is reset
    Mixes,        \* bound: the operations, of requests and operator, that one
                  \* behaviour draws from
    Nobody, NoToken

ASSUME AccountsAssumption ==
    /\ MaxUsers \in Nat /\ MaxPasswords \in Nat
    /\ Nobody \notin Users \cup Requests /\ NoToken \notin Tokens

VARIABLES
    mix,   \* the operations of this behaviour
    db,    \* what is committed in auth.sqlite3 (used: the ids it ever held)
    conn,  \* what the connection of the requests sees of it
    lock,  \* the request inside transaction(), or Nobody
    req,   \* the requests
    cli,   \* the operator's command, and the users whose reset was cut short (cut)
    dir,   \* each user's directory: "none", "bare" (no schema), "new", "done" (set up)
    gate,  \* setup_completed_cache: "miss", "new" or "done"
    told,      \* history: sign-ups that came to their end
    overtaken, \* history: users whose gate was filled from a flag that had changed
    swept      \* history: users the operator pruned who signed up while he looked

tables == <<db, conn>>
history == <<told, overtaken, swept>>
vars == <<mix, db, conn, lock, req, cli, dir, gate, told, overtaken, swept>>

NoCredential == MaxPasswords + 1
NoSession == [user |-> Nobody, pw |-> 0, late |-> FALSE]
\* A token nobody holds stands for the one that is drawn for a new session.
Fresh == {t \in Tokens : conn.sess[t] = NoSession /\ \A r \in Requests : req[r].tok # t}
Kinds == {"signup", "login", "logout", "logout_all", "delete", "page", "setup"}
Idle == [op |-> "none", at |-> "idle", user |-> Nobody, who |-> Nobody, tok |-> NoToken, seen |-> "none", pw |-> 0]

Init ==
    /\ mix \in Mixes
    /\ db = [users |-> {}, cred |-> [u \in Users |-> NoCredential], invite |-> TRUE,
             sess |-> [t \in Tokens |-> NoSession], used |-> {}]
    /\ conn = db /\ lock = Nobody
    /\ req = [r \in Requests |-> Idle]
    /\ cli = [op |-> "none", user |-> Nobody, known |-> {}, came |-> {}, cut |-> {}]
    /\ dir = [u \in Users |-> "none"] /\ gate = [u \in Users |-> "miss"]
    /\ told = {} /\ overtaken = {} /\ swept = {}

(* Rows.                                                                    *)
WithUser(d, u) == [d EXCEPT !.users = @ \cup {u}, !.used = @ \cup {u}]
SessionsOf(d, u) == {t \in Tokens : d.sess[t].user = u}
WithoutSessions(d, gone) ==
    [d EXCEPT !.sess = [t \in Tokens |-> IF t \in gone THEN NoSession ELSE d.sess[t]]]
\* Faulty: no cascade (PRAGMA foreign_keys is off).
RowOnly(d, u) == [d EXCEPT !.users = @ \ {u}, !.cred[u] = NoCredential]
\* ON DELETE CASCADE takes the identities and the sessions along.
WithoutUser(d, u) ==
    [WithoutSessions(d, SessionsOf(d, u)) EXCEPT !.users = @ \ {u}, !.cred[u] = NoCredential]

\* AuthDb.write: one statement and its commit, when nobody is in a transaction.
Write(d) == lock = Nobody /\ db' = d /\ conn' = d

Goto(r, at) == req' = [req EXCEPT ![r].at = at]
Ends(r) == req' = [req EXCEPT ![r] = Idle]

(* From the cookie to the user: AuthMiddleware and resolve_session.         *)

\* Where a request goes when its session is resolved, or is none.
Admitted(op) == CASE op = "signup" -> "begin" [] op = "login" -> "lookup" [] OTHER -> "act"
Resolved(r, u) ==
    IF req[r].op \in {"signup", "login"} THEN Goto(r, Admitted(req[r].op))
    ELSE IF u = Nobody THEN Ends(r)
    ELSE req' = [req EXCEPT ![r].at = "act", ![r].user = u]

Arrive(r) ==
    /\ req[r] = Idle
    /\ \E op \in Kinds \cap mix, u \in Users, t \in Tokens \cup {NoToken} :
        /\ op = "signup" => u \notin conn.used /\ \A p \in Requests : req[p].user # u
        /\ op \notin {"signup", "login"} => t # NoToken /\ u = CHOOSE v \in Users : TRUE
        /\ req' = [req EXCEPT ![r] = [Idle EXCEPT !.op = op, !.tok = t,
                       !.user = IF op \in {"signup", "login"} THEN u ELSE Nobody,
                       !.at = IF t = NoToken THEN Admitted(op) ELSE "session"]]
    /\ UNCHANGED <<tables, lock, cli, dir, gate, history>>

\* Any session may have been idle for too long, or for a tenth of that.
LoadSession(r) ==
    /\ req[r].at = "session"
    /\ LET s == conn.sess[req[r].tok]
       IN  IF s = NoSession THEN Resolved(r, Nobody)
           ELSE \E at \in {"expire", "bump", "user"} :
                  req' = [req EXCEPT ![r].at = at, ![r].who = s.user]
    /\ UNCHANGED <<tables, lock, cli, dir, gate, history>>

\* last_seen is all this writes, but it waits for the lock.
BumpLastSeen(r) ==
    /\ req[r].at = "bump"
    /\ Write(db)
    /\ Goto(r, "user")
    /\ UNCHANGED <<lock, cli, dir, gate, history>>

\* The user is looked up under the id the session row had; the row itself may
\* be gone by now, and is not read again.
FindUser(r) ==
    /\ req[r].at = "user"
    /\ IF req[r].who \in conn.users THEN Resolved(r, req[r].who) ELSE Goto(r, "expire")
    /\ UNCHANGED <<tables, lock, cli, dir, gate, history>>

DeleteSession(r) ==
    /\ req[r].at = "expire"
    /\ Write(WithoutSessions(db, {req[r].tok}))
    /\ Resolved(r, Nobody)
    /\ UNCHANGED <<lock, cli, dir, gate, history>>

\* Opening the user's database makes its directory, if it is missing.
Opened(u) == dir' = [dir EXCEPT ![u] = IF @ = "none" THEN "bare" ELSE @]

(* POST /api/auth/signup.                                                   *)

\* Faulty: the invite is compared, but not consumed.
BeginWithoutConsume(r) ==
    /\ req[r].at = "begin" /\ lock = Nobody /\ Cardinality(conn.users) < MaxUsers
    /\ conn.users = {} => conn.invite
    /\ conn' = WithUser(conn, req[r].user) /\ lock' = r /\ Goto(r, "identity")
    /\ UNCHANGED <<db, cli, dir, gate, history>>

\* BEGIN IMMEDIATE, the count, the cap, the invite and the INSERT of the user:
\* nothing of it is committed, and the other requests see all of it.
BeginSignup(r) ==
    /\ req[r].at = "begin" /\ lock = Nobody
    /\ LET u     == req[r].user
           count == Cardinality(conn.users)
       IN  \/ /\ count < MaxUsers /\ (count = 0 => conn.invite)
              /\ conn' = [WithUser(conn, u) EXCEPT !.invite = @ /\ count > 0]
              /\ lock' = r /\ Goto(r, "identity") /\ UNCHANGED db
           \/ \* Over the cap, no or another invite code, a name or e-mail address
              \* that is taken: rolled back.
              /\ Ends(r) /\ UNCHANGED <<tables, lock>>
    /\ UNCHANGED <<cli, dir, gate, history>>

InsertIdentity(r) ==
    /\ req[r].at = "identity"
    /\ conn' = [conn EXCEPT !.cred[req[r].user] = 0]
    /\ Goto(r, "commit")
    /\ UNCHANGED <<db, lock, cli, dir, gate, history>>

Commit(r) ==
    /\ req[r].at = "commit"
    /\ db' = conn /\ lock' = Nobody
    /\ cli' = [cli EXCEPT !.came = IF cli.op = "prune" THEN @ \cup {req[r].user} ELSE @]
    /\ Goto(r, "materialize")
    /\ UNCHANGED <<conn, dir, gate, history>>

\* Faulty: the lock is given back, but the transaction stays open.
NoRollback(r) ==
    /\ req[r].at \in {"identity", "commit"}
    /\ lock' = Nobody /\ Ends(r)
    /\ UNCHANGED <<tables, cli, dir, gate, history>>

\* A statement or the COMMIT raises.
Rollback(r) ==
    /\ req[r].at \in {"identity", "commit"}
    /\ conn' = db /\ lock' = Nobody /\ Ends(r)
    /\ UNCHANGED <<db, cli, dir, gate, history>>

\* Faulty: a hook that raises is logged, and the user signed in all the same.
MaterializeAtBest(r) ==
    /\ req[r].at = "materialize"
    /\ \E d \in {"none", "new"} : dir' = [dir EXCEPT ![req[r].user] = d]
    /\ told' = told \cup {req[r].user} /\ Goto(r, "revoke")
    /\ UNCHANGED <<tables, lock, cli, gate, overtaken, swept>>

\* _finalize_registration: the row is read again, and may be gone by now; the
\* hook makes the directory and its schema, or raises.
Materialize(r) ==
    /\ req[r].at = "materialize"
    /\ LET u == req[r].user
       IN  \/ /\ u \in conn.users /\ dir' = [dir EXCEPT ![u] = "new"]
              /\ told' = told \cup {u} /\ Goto(r, "revoke")
           \/ (Opened(u) \/ UNCHANGED dir) /\ Ends(r) /\ UNCHANGED told
    /\ UNCHANGED <<tables, lock, cli, gate, overtaken, swept>>

(* POST /api/auth/login, and the new session both routes end with.          *)

\* The password is checked against the row as this connection sees it.
CheckPassword(r) ==
    /\ req[r].at = "lookup"
    /\ LET u == req[r].user
       IN  \/ /\ conn.cred[u] # NoCredential
              /\ req' = [req EXCEPT ![r].at = "who", ![r].pw = conn.cred[u]]
           \/ Ends(r)
    /\ UNCHANGED <<tables, lock, cli, dir, gate, history>>

FindLogin(r) ==
    /\ req[r].at = "who"
    /\ IF req[r].user \in conn.users THEN Goto(r, "revoke") ELSE Ends(r)
    /\ UNCHANGED <<tables, lock, cli, dir, gate, history>>

\* _revoke_caller_cookie: a failure is logged, and no reason to stop.
RevokeOld(r) ==
    /\ req[r].at = "revoke"
    /\ \/ Write(WithoutSessions(db, {req[r].tok}))
       \/ UNCHANGED tables
    /\ Goto(r, "session_row")
    /\ UNCHANGED <<lock, cli, dir, gate, history>>

\* The INSERT may fail; the foreign key refuses the session of a user who is gone.
InsertSession(r) ==
    /\ req[r].at = "session_row"
    /\ LET u == req[r].user
       IN  \/ Write(db)
           \/ /\ u \in db.users
              /\ \E t \in Fresh :
                  Write([db EXCEPT !.sess[t] = [user |-> u, pw |-> req[r].pw,
                                                late |-> req[r].pw # db.cred[u]]])
    /\ Ends(r)
    /\ UNCHANGED <<lock, cli, dir, gate, history>>

(* The routes behind the session: logout, logout-all, the account, a page.  *)

Logout(r) ==
    /\ req[r].at = "act" /\ req[r].op \in {"logout", "logout_all"}
    /\ Write(WithoutSessions(db, IF req[r].op = "logout" THEN {req[r].tok}
                                 ELSE SessionsOf(db, req[r].user)))
    /\ Ends(r)
    /\ UNCHANGED <<lock, cli, dir, gate, history>>

\* delete_account: the row and, by the cascade, what hangs on it; then the hook.
DeleteRow(r) ==
    /\ req[r].at = "act" /\ req[r].op = "delete"
    /\ Write(WithoutUser(db, req[r].user))
    /\ Goto(r, "hook")
    /\ UNCHANGED <<lock, cli, dir, gate, history>>

\* rmtree may fail: it is logged, and the directory stays as an orphan.
RemoveDir(u) == \/ dir' = [dir EXCEPT ![u] = "none"]
                \/ UNCHANGED dir
AfterDelete(r) ==
    /\ req[r].at = "hook"
    /\ gate' = [gate EXCEPT ![req[r].user] = "miss"]
    /\ RemoveDir(req[r].user)
    /\ Ends(r)
    /\ UNCHANGED <<tables, lock, cli, history>>

\* SetupCheckMiddleware: a hit answers at once; a miss opens the database.
ReadFlag(r) ==
    /\ req[r].at = "act" /\ req[r].op = "page"
    /\ LET u == req[r].user
       IN  \/ gate[u] # "miss" /\ Ends(r) /\ UNCHANGED dir
           \/ gate[u] = "miss" /\ dir[u] \in {"none", "bare"} /\ Opened(u) /\ Ends(r)
           \/ /\ gate[u] = "miss" /\ dir[u] \in {"new", "done"} /\ UNCHANGED dir
              /\ req' = [req EXCEPT ![r].at = "fill", ![r].seen = dir[u]]
    /\ UNCHANGED <<tables, lock, cli, gate, history>>

\* get_settings_snapshot fills the cache two queries after it read the flag.
FillGate(r) ==
    /\ req[r].at = "fill"
    /\ LET u == req[r].user
       IN  /\ gate' = [gate EXCEPT ![u] = req[r].seen]
           /\ overtaken' = IF dir[u] = req[r].seen THEN overtaken ELSE overtaken \cup {u}
    /\ Ends(r)
    /\ UNCHANGED <<tables, lock, cli, dir, told, swept>>

\* Faulty: the gate forgets first, and the flag is written then.
ForgetThenMark(r) ==
    /\ req[r].op = "setup"
    /\ LET u == req[r].user
       IN  \/ /\ req[r].at = "act" /\ Goto(r, "forget")
              /\ gate' = [gate EXCEPT ![u] = "miss"] /\ UNCHANGED dir
           \/ /\ req[r].at = "forget" /\ Ends(r)
              /\ dir' = [dir EXCEPT ![u] = "done"] /\ UNCHANGED gate
    /\ UNCHANGED <<tables, lock, cli, history>>

\* POST /api/setup/complete.
MarkSetup(r) ==
    /\ req[r].at = "act" /\ req[r].op = "setup"
    /\ LET u == req[r].user
       IN  IF dir[u] \in {"none", "bare"} THEN Opened(u) /\ Ends(r)
           ELSE dir' = [dir EXCEPT ![u] = "done"] /\ Goto(r, "forget")
    /\ UNCHANGED <<tables, lock, cli, gate, history>>

ForgetGate(r) ==
    /\ req[r].at = "forget"
    /\ gate' = [gate EXCEPT ![req[r].user] = "miss"]
    /\ Ends(r)
    /\ UNCHANGED <<tables, lock, cli, dir, history>>

(* The operator's commands, in a process of their own.                      *)

Commands == {"password", "revoke", "row"}
CliFind ==
    /\ cli.op = "none"
    /\ \E op \in Commands \cap mix, u \in db.users :
        /\ op = "password" => db.cred[u] < MaxPasswords
        /\ cli' = [cli EXCEPT !.op = op, !.user = u]
    /\ UNCHANGED <<tables, lock, req, dir, gate, history>>

\* Faulty: the sessions are ended first, and the credential is replaced then.
CliPasswordLast ==
    /\ \/ /\ cli.op = "password" /\ Write(WithoutSessions(db, SessionsOf(db, cli.user)))
          /\ cli' = [cli EXCEPT !.op = "update"]
       \/ /\ cli.op = "update" /\ cli.user \in db.users
          /\ Write([db EXCEPT !.cred[cli.user] = @ + 1])
          /\ cli' = [cli EXCEPT !.op = "none", !.user = Nobody]
    /\ UNCHANGED <<lock, req, dir, gate, history>>

\* change_password: the credential first, then every session of the user.
CliPassword ==
    /\ cli.op = "password"
    /\ Write(IF cli.user \in db.users THEN [db EXCEPT !.cred[cli.user] = @ + 1] ELSE db)
    /\ cli' = [cli EXCEPT !.op = "revoke"]
    /\ UNCHANGED <<lock, req, dir, gate, history>>

CliEnds(cut) == cli' = [op |-> "none", user |-> Nobody, known |-> {}, came |-> {}, cut |-> cut]
CliDone == CliEnds(cli.cut)
CliRevoke ==
    /\ cli.op = "revoke"
    /\ Write(WithoutSessions(db, SessionsOf(db, cli.user)))
    /\ CliEnds(cli.cut \ {cli.user})
    /\ UNCHANGED <<lock, req, dir, gate, history>>

\* A write that waits too long for the lock raises, and the operator may stop
\* the command or the command die: what it has committed stays, the rest is
\* never done.
CliDies ==
    /\ cli.op # "none"
    /\ CliEnds(IF cli.op = "revoke" THEN cli.cut \cup {cli.user} ELSE cli.cut)
    /\ UNCHANGED <<tables, lock, req, dir, gate, history>>

CliDeleteRow ==
    /\ cli.op = "row"
    /\ Write(WithoutUser(db, cli.user))
    /\ cli' = [cli EXCEPT !.op = "rmtree"]
    /\ UNCHANGED <<lock, req, dir, gate, history>>

CliRemoveDir ==
    /\ cli.op = "rmtree"
    /\ RemoveDir(cli.user)
    /\ CliDone
    /\ UNCHANGED <<tables, lock, req, gate, history>>

\* regenerate_invite counts the users, and then puts the code.
CliCount ==
    /\ cli.op = "none" /\ "invite" \in mix /\ db.users = {}
    /\ cli' = [cli EXCEPT !.op = "invite"]
    /\ UNCHANGED <<tables, lock, req, dir, gate, history>>
CliInvite ==
    /\ cli.op = "invite"
    /\ Write([db EXCEPT !.invite = TRUE])
    /\ CliDone
    /\ UNCHANGED <<lock, req, dir, gate, history>>

\* prune-orphans: the users are listed first, the directories later.
CliList ==
    /\ cli.op = "none" /\ "prune" \in mix
    /\ cli' = [cli EXCEPT !.op = "prune", !.known = db.users]
    /\ UNCHANGED <<tables, lock, req, dir, gate, history>>
Orphans == {u \in Users : dir[u] # "none" /\ u \notin cli.known}
\* An rmtree that fails ends the command, with the other orphans still there.
CliPrune ==
    /\ cli.op = "prune"
    /\ IF cli.known = {} THEN UNCHANGED <<dir, swept>>
       ELSE \E gone \in SUBSET Orphans :
            /\ dir' = [u \in Users |-> IF u \in gone THEN "none" ELSE dir[u]]
            /\ swept' = swept \cup (gone \cap cli.came)
    /\ CliDone
    /\ UNCHANGED <<tables, lock, req, gate, told, overtaken>>

(* The end of the process.                                                  *)

\* _bootstrap_auth: an invite is put when there are no users and none is there.
Restart ==
    /\ \E r \in Requests : req[r] # Idle
    /\ db' = [db EXCEPT !.invite = @ \/ db.users = {}]
    /\ conn' = db' /\ lock' = Nobody
    /\ req' = [r \in Requests |-> Idle]
    /\ gate' = [u \in Users |-> "miss"]
    /\ UNCHANGED <<cli, dir, history>>

Serve(r) ==
    \/ LoadSession(r) \/ BumpLastSeen(r) \/ FindUser(r) \/ DeleteSession(r)
    \/ BeginSignup(r) \/ InsertIdentity(r) \/ Commit(r) \/ Rollback(r) \/ Materialize(r)
    \/ CheckPassword(r) \/ FindLogin(r) \/ RevokeOld(r) \/ InsertSession(r)
    \/ Logout(r) \/ DeleteRow(r) \/ AfterDelete(r)
    \/ ReadFlag(r) \/ FillGate(r) \/ MarkSetup(r) \/ ForgetGate(r)
Operator ==
    \/ CliFind \/ CliPassword \/ CliRevoke \/ CliDeleteRow \/ CliRemoveDir
    \/ CliCount \/ CliInvite \/ CliList \/ CliPrune \/ CliDies

Next ==
    /\ mix' = mix
    /\ (\E r \in Requests : Arrive(r) \/ Serve(r)) \/ Operator \/ Restart

Spec == Init /\ [][Next]_vars

-----------------------------------------------------------------------------
Session == [user : Users \cup {Nobody}, pw : 0..NoCredential, late : BOOLEAN]
Tables == [users : SUBSET Users, cred : [Users -> 0..NoCredential], invite : BOOLEAN,
           sess : [Tokens -> Session], used : SUBSET Users]

Request == [op : Kinds \cup {"none"},
            at : {"idle", "session", "bump", "user", "expire", "begin", "identity", "commit",
                  "materialize", "lookup", "who", "revoke", "session_row", "act", "hook", "fill",
                  "forget"},
            user : Users \cup {Nobody}, who : Users \cup {Nobody}, tok : Tokens \cup {NoToken},
            seen : {"none", "new", "done"}, pw : 0..NoCredential]
Command == [op : Commands \cup {"none", "rmtree", "invite", "prune"},
            user : Users \cup {Nobody}, known : SUBSET Users, came : SUBSET Users,
            cut : SUBSET (Users \cup {Nobody})]
\* The types of the variables: what is committed, the shared connection, its
\* lock, the requests, the operator's command, the directories and the gate.
TypeOK ==
    /\ db \in Tables /\ conn \in Tables /\ lock \in Requests \cup {Nobody}
    /\ req \in [Requests -> Request] /\ cli \in Command
    /\ dir \in [Users -> {"none", "bare", "new", "done"}]
    /\ gate \in [Users -> {"miss", "new", "done"}]

\* The lock belongs to a request that is inside its transaction, and when nobody
\* has it the connection shows what is committed and nothing else: no sign-up
\* that failed is left open for the others to see, or to commit (AuthDb).
NothingLeftOpen ==
    IF lock = Nobody THEN conn = db ELSE req[lock].at \in {"identity", "commit"}

\* Whatever sign-ups, deletions and log-ins interleave, what is committed is
\* whole: never more accounts than the cap, a credential for each
\* account and for nobody else, no session without its account, and nothing left
\* open beside it (signup, delete_account, and the cascade of schema.py).
AccountsAreWhole ==
    /\ Cardinality(db.users) <= MaxUsers
    /\ \A u \in Users : u \in db.users <=> db.cred[u] # NoCredential
    /\ \A t \in Tokens : db.sess[t] # NoSession => db.sess[t].user \in db.users
    /\ NothingLeftOpen

\* The first account takes the invite code along in the very commit that makes
\* it, however many sign-ups carry the code (HmacInvitePolicy.consume).
FirstByInvite ==
    [][db.users = {} /\ db'.users # {} =>
          Cardinality(db'.users) = 1 /\ db.invite /\ ~db'.invite]_vars

\* A password reset ends every session of its user (change_password, which
\* replaces the credential in one commit and deletes the sessions in another).
\* One that still goes back to an older password was made by a log-in already
\* past its check, or is about to be deleted, or the reset of its user was cut
\* short between its two commits.
RotationEndsSessions ==
    \A t \in Tokens :
        LET s == db.sess[t]
        IN  s # NoSession /\ s.pw # db.cred[s.user] =>
                s.late \/ s.user \in cli.cut \/ (cli.op = "revoke" /\ cli.user = s.user)

\* Who was told that the account exists has a directory with a schema for as
\* long as it does.  Only a prune that listed the users before this one signed
\* up takes it away (delete_account, cmd_prune_orphans).
DirectoryStands ==
    \A u \in (db.users \cap told) \ swept : dir[u] \in {"new", "done"}

\* Whoever finished the setup is not sent back to it: the gate forgets its
\* answer after the flag is written; but a page that read the old flag before
\* that may fill the gate with it afterwards (setup_complete, FillGate).
SetupIsSeen ==
    \A u \in Users \ overtaken :
        dir[u] = "done" /\ gate[u] = "new" =>
            \E r \in Requests : req[r].at = "forget" /\ req[r].user = u
=============================================================================
