-------------------------- MODULE AccountSessions --------------------------
(***************************************************************************)
(* User accounts and the JWT sessions that hang on them: BasicUserService, *)
(* BasicAuthService and JwtService, called by requests that run at the     *)
(* same time, one READ COMMITTED transaction each (a login has two).       *)
(*                                                                         *)
(* As with feeds, a request works on copies of the rows it loaded, and a   *)
(* changed copy of a user is written back with all its columns at commit;  *)
(* the flush and the commit are one step.  What the database or            *)
(* Hibernate's row count refuses rolls everything back.                    *)
(*                                                                         *)
(* A token is determined by its claims, and the time of issue among them   *)
(* counts whole seconds: two logins of one second make the same token.     *)
(* The access and the refresh token of a session are issued together and   *)
(* differ in their validity only, so one of them stands for both.          *)
(***************************************************************************)
EXTENDS Integers, FiniteSets

CONSTANTS Workers,      \* servlet threads
          Users,        \* user ids, one per email address
          Admin,        \* the user initAdmin creates
          Names,
          NoName,       \* the name of a user that is not registered
          NoToken,
          Validity,     \* refresh-token-validity-seconds
          MaxTime,      \* bound: seconds
          MaxRequests   \* bound: requests in a behaviour

ASSUME AccountAssumption ==
    /\ Validity \in Nat /\ MaxTime \in Nat /\ MaxRequests \in Nat
    /\ NoName \notin Names
    /\ Admin \in Users

VARIABLES now,          \* the time in seconds
          registered,   \* ids in the users table
          users,        \* the row of each user
          sessions,     \* jwt_sessions table: a set of rows
          published,    \* RoleChangeEvents handed to the AFTER_COMMIT listener
          mailed,       \* requests whose temporary password was mailed
          tx,           \* the request each worker is at
          reqs,         \* requests so far; numbers sessions and passwords
          lostUpdate,   \* ghost: users whose row was overwritten from a stale copy
          lastSet,      \* ghost: what each column was last set to on purpose
          missed        \* ghost: sessions that overlapped a change of their user

vars == <<now, registered, users, sessions, published, mailed, tx, reqs,
          lostUpdate, lastSet, missed>>
ghosts == <<lostUpdate, lastSet, missed>>

---------------------------------------------------------------------------
(* Types *)

Roles == {"USER", "ADMIN"}
Requests == 1..MaxRequests
Password == [kind : {"chosen", "temporary"}, id : Requests \cup {0}]
Row == [name : Names \cup {NoName}, role : Roles, locked : BOOLEAN, password : Password]
Token == [user : Users, role : Roles, name : Names \cup {NoName}, sec : 0..MaxTime]
SessionRow == [id : Requests, user : Users, token : Token]
RoleEvent == [id : Requests, user : Users, previous : Roles, new : Roles]
Ops == {"create", "role", "lock", "password", "reset", "profile", "login", "refresh", "logout"}
Idle == [pc |-> "idle"]
OpenTx == [pc : {"loaded", "ready"}, op : Ops, user : Users, id : Requests,
           read : Row, row : Row,                   \* the user as loaded, as changed
           rows : SUBSET Requests,                  \* the sessions it loaded
           token : Token \cup {NoToken},
           stale : BOOLEAN]

Chosen(id) == [kind |-> "chosen", id |-> id]
Temporary(id) == [kind |-> "temporary", id |-> id]
BlankRow == [name |-> NoName, role |-> "USER", locked |-> FALSE, password |-> Chosen(0)]

TypeOK ==
    /\ now \in 0..MaxTime
    /\ registered \subseteq Users
    /\ users \in [Users -> Row]
    /\ sessions \subseteq SessionRow
    /\ published \subseteq RoleEvent
    /\ mailed \subseteq Requests
    /\ tx \in [Workers -> {Idle} \cup OpenTx]
    /\ reqs \in 0..MaxRequests
    /\ lostUpdate \subseteq Users
    /\ lastSet \in [Users -> Row]
    /\ missed \subseteq Requests

---------------------------------------------------------------------------
(* Queries *)

Open(w) == tx[w].pc # "idle"
Loaded(w, op) == tx[w].pc = "loaded" /\ tx[w].op = op
Ready(w, op) == tx[w].pc = "ready" /\ tx[w].op = op
SessionIds == {s.id : s \in sessions}
SessionsOf(u) == {s.id : s \in {x \in sessions : x.user = u}}
TakenNames == {users[u].name : u \in registered}

---------------------------------------------------------------------------
(* Beginnings *)

Start(w, t) ==
    /\ reqs < MaxRequests
    /\ ~Open(w)
    /\ reqs' = reqs + 1
    /\ tx' = [tx EXCEPT ![w] = t]
    /\ UNCHANGED <<now, registered, users, sessions, published, mailed, ghosts>>

Request(op, u, pc) ==
    [pc |-> pc, op |-> op, user |-> u, id |-> reqs + 1, read |-> users[u], row |-> users[u],
     rows |-> {}, token |-> NoToken, stale |-> FALSE]

\* create, and initAdmin at the start of the server: neither finds the email
\* or the name.
NewRoles(u) == IF u = Admin THEN Roles ELSE {"USER"}
BeginCreate(w, u, n, r) ==
    /\ u \notin registered /\ n \notin TakenNames
    /\ Start(w, [Request("create", u, "ready") EXCEPT
                    !.row = [name |-> n, role |-> r, locked |-> FALSE,
                             password |-> Chosen(reqs + 1)]])

BeginRole(w, u, r) ==
    /\ u \in registered
    /\ Start(w, [Request("role", u, "loaded") EXCEPT !.row.role = r])

BeginLock(w, u, b) ==
    /\ u \in registered
    /\ Start(w, [Request("lock", u, "ready") EXCEPT !.row.locked = b])

BeginPassword(w, u) ==
    /\ u \in registered
    /\ Start(w, [Request("password", u, "ready") EXCEPT !.row.password = Chosen(reqs + 1)])

BeginReset(w, u) ==
    /\ u \in registered
    /\ Start(w, [Request("reset", u, "loaded") EXCEPT !.row.password = Temporary(reqs + 1)])

\* updateProfile, as far as it changes the user.
BeginProfile(w, u, n) ==
    /\ u \in registered
    /\ Start(w, [Request("profile", u, "ready") EXCEPT !.row.name = n])

\* The user is loaded, found not locked, and the password fits.
BeginLogin(w, u) ==
    /\ u \in registered /\ ~users[u].locked
    /\ Start(w, Request("login", u, "loaded"))

\* A token that is not expired and belongs to a session; any other token is
\* rejected with no effect.  The user is loaded by the next query.
BeginRefresh(w, s) ==
    /\ now <= s.token.sec + Validity
    /\ Start(w, [Request("refresh", s.token.user, "loaded") EXCEPT !.rows = {s.id}])

BeginLogout(w, s) ==
    Start(w, [Request("logout", s.user, "ready") EXCEPT !.rows = {s.id}])

---------------------------------------------------------------------------
(* Second queries *)

readOnly == <<now, registered, users, sessions, published, reqs, ghosts>>

\* deleteByUserId selects the sessions it will delete.
SelectSessions(w) ==
    /\ Loaded(w, "role")
    /\ tx' = [tx EXCEPT ![w].pc = "ready", ![w].rows = SessionsOf(tx[w].user)]
    /\ UNCHANGED <<readOnly, mailed>>

\* The mail leaves before the commit; failing to send it rolls back.
SendMail(w) ==
    /\ Loaded(w, "reset")
    /\ mailed' = mailed \cup {tx[w].id}
    /\ tx' = [tx EXCEPT ![w].pc = "ready"]
    /\ UNCHANGED readOnly

\* Mutant: the time of expiration is taken for the time of issue.
TokenExpiring(u, row) == [user |-> u, role |-> row.role, name |-> row.name, sec |-> now + Validity]

TokenFor(u, row) == [user |-> u, role |-> row.role, name |-> row.name, sec |-> now]

\* A login signs what it loaded before, a refresh loads the user now.
SignLogin(w) ==
    /\ Loaded(w, "login")
    /\ tx' = [tx EXCEPT ![w].pc = "ready", ![w].token = TokenFor(tx[w].user, tx[w].row)]
    /\ UNCHANGED <<readOnly, mailed>>

SignRefresh(w) ==
    /\ Loaded(w, "refresh")
    /\ tx' = [tx EXCEPT ![w].pc = "ready", ![w].token = TokenFor(tx[w].user, users[tx[w].user])]
    /\ UNCHANGED <<readOnly, mailed>>

---------------------------------------------------------------------------
(* Ends *)

Finish(w) == tx' = [tx EXCEPT ![w] = Idle]

\* The same after the user's row was written: copies held by others are stale.
FinishWriting(w) ==
    tx' = [v \in Workers |->
              IF v = w THEN Idle
              ELSE IF Open(v) /\ tx[v].user = tx[w].user
                   THEN [tx[v] EXCEPT !.stale = TRUE]
                   ELSE tx[v]]

\* What the database refuses: a name or a token that another row has, and an
\* UPDATE or DELETE that matches no row.
NoUniqueName(w) == TRUE         \* Mutant: the check of create decides alone.
NameFree(w) == \A u \in registered \ {tx[w].user} : users[u].name # tx[w].row.name
TokenFree(w) == \A s \in sessions : s.token = tx[w].token => s.id \in tx[w].rows
SessionsStored(w) == tx[w].rows \subseteq SessionIds

Dirty(w) == tx[w].row # tx[w].read

\* Mutant: the row is written by UPDATE users SET role, locked, password.
WriteWithoutName(w, intent) ==
    /\ NameFree(w)
    /\ users' = [users EXCEPT ![tx[w].user] = [tx[w].row EXCEPT !.name = users[tx[w].user].name]]
    /\ lastSet' = [lastSet EXCEPT ![tx[w].user] = intent]
    /\ lostUpdate' = IF tx[w].stale THEN lostUpdate \cup {tx[w].user} ELSE lostUpdate
    /\ FinishWriting(w)

\* UPDATE users SET <every column> WHERE id = ?, if the copy was changed.
\* intent is the row with the one column the request was about.
Write(w, intent) ==
    \/ /\ Dirty(w) /\ NameFree(w)
       /\ users' = [users EXCEPT ![tx[w].user] = tx[w].row]
       /\ lastSet' = [lastSet EXCEPT ![tx[w].user] = intent]
       /\ lostUpdate' = IF tx[w].stale THEN lostUpdate \cup {tx[w].user} ELSE lostUpdate
       /\ FinishWriting(w)
    \/ /\ ~Dirty(w)
       /\ Finish(w)
       /\ UNCHANGED <<users, lastSet, lostUpdate>>

CommitCreate(w) ==
    /\ Ready(w, "create") /\ tx[w].user \notin registered /\ NameFree(w)
    /\ registered' = registered \cup {tx[w].user}
    /\ users' = [users EXCEPT ![tx[w].user] = tx[w].row]
    /\ lastSet' = [lastSet EXCEPT ![tx[w].user] = tx[w].row]
    /\ FinishWriting(w)
    /\ UNCHANGED <<now, sessions, published, mailed, reqs, lostUpdate, missed>>

RoleChange(w) == [id |-> tx[w].id, user |-> tx[w].user,
                  previous |-> tx[w].read.role, new |-> tx[w].row.role]

RoleEvents(w) == IF tx[w].row.role # tx[w].read.role THEN {RoleChange(w)} ELSE {}

\* updateRole: the sessions go with the old role.  (Ghost: those that were
\* stored after they were selected stay.)
KeepsSessions(w) == {}          \* Mutant: the sessions are not invalidated.
Invalidated(w) == {s \in sessions : s.id \in tx[w].rows}

CommitRole(w) ==
    /\ Ready(w, "role") /\ SessionsStored(w)
    /\ Write(w, [lastSet[tx[w].user] EXCEPT !.role = tx[w].row.role])
    /\ sessions' = sessions \ Invalidated(w)
    /\ published' = published \cup RoleEvents(w)
    /\ missed' = IF Dirty(w) THEN missed \cup (SessionsOf(tx[w].user) \ tx[w].rows) ELSE missed
    /\ UNCHANGED <<now, registered, mailed, reqs>>

others == <<now, registered, sessions, published, mailed, reqs, missed>>

CommitLock(w) ==
    /\ Ready(w, "lock")
    /\ Write(w, [lastSet[tx[w].user] EXCEPT !.locked = tx[w].row.locked])
    /\ UNCHANGED others

CommitPassword(w) ==
    /\ Ready(w, "password") \/ Ready(w, "reset")
    /\ Write(w, [lastSet[tx[w].user] EXCEPT !.password = tx[w].row.password])
    /\ UNCHANGED others

CommitProfile(w) ==
    /\ Ready(w, "profile")
    /\ Write(w, [lastSet[tx[w].user] EXCEPT !.name = tx[w].row.name])
    /\ UNCHANGED others

CommitLogin(w) ==
    /\ Ready(w, "login") /\ TokenFree(w)
    /\ sessions' = sessions \cup {[id |-> tx[w].id, user |-> tx[w].user, token |-> tx[w].token]}
    /\ missed' = IF tx[w].stale THEN missed \cup {tx[w].id} ELSE missed
    /\ Finish(w)
    /\ UNCHANGED <<now, registered, users, published, mailed, reqs, lostUpdate, lastSet>>

\* Mutant: save of a copy inserts the session again when it is gone.
CommitRefreshUpsert(w) ==
    /\ Ready(w, "refresh") /\ TokenFree(w)
    /\ sessions' = {s \in sessions : s.id \notin tx[w].rows}
                   \cup {[id |-> i, user |-> tx[w].user, token |-> tx[w].token] : i \in tx[w].rows}
    /\ Finish(w)
    /\ UNCHANGED <<now, registered, users, published, mailed, reqs, ghosts>>

\* UPDATE jwt_sessions, also when the second and the claims are still the same:
\* the time the access token expires at is always a new one.
CommitRefresh(w) ==
    /\ Ready(w, "refresh") /\ SessionsStored(w) /\ TokenFree(w)
    /\ sessions' = {IF s.id \in tx[w].rows THEN [s EXCEPT !.token = tx[w].token] ELSE s :
                       s \in sessions}
    /\ Finish(w)
    /\ UNCHANGED <<now, registered, users, published, mailed, reqs, ghosts>>

CommitLogout(w) ==
    /\ Ready(w, "logout") /\ SessionsStored(w)
    /\ sessions' = {s \in sessions : s.id \notin tx[w].rows}
    /\ Finish(w)
    /\ UNCHANGED <<now, registered, users, published, mailed, reqs, ghosts>>

Rollback(w) ==
    /\ Open(w)
    /\ Finish(w)
    /\ UNCHANGED <<readOnly, mailed>>

---------------------------------------------------------------------------

Tick ==
    /\ now < MaxTime
    /\ now' = now + 1
    /\ UNCHANGED <<registered, users, sessions, published, mailed, tx, reqs, ghosts>>

\* Some users are registered already.
Init ==
    /\ \E R \in SUBSET Users, name \in [Users -> Names] :
          /\ \A u, v \in R : name[u] = name[v] => u = v
          /\ registered = R
          /\ users = [u \in Users |-> IF u \in R THEN [BlankRow EXCEPT !.name = name[u]]
                                      ELSE BlankRow]
    /\ now = 0 /\ sessions = {} /\ published = {} /\ mailed = {}
    /\ tx = [w \in Workers |-> Idle]
    /\ reqs = 0
    /\ lostUpdate = {} /\ lastSet = users /\ missed = {}

Begin(w) ==
    \/ \E u \in Users :
          \/ \E n \in Names, r \in NewRoles(u) : BeginCreate(w, u, n, r)
          \/ \E r \in Roles : BeginRole(w, u, r)
          \/ \E b \in BOOLEAN : BeginLock(w, u, b)
          \/ \E n \in Names : BeginProfile(w, u, n)
          \/ BeginPassword(w, u) \/ BeginReset(w, u) \/ BeginLogin(w, u)
    \/ \E s \in sessions : BeginRefresh(w, s) \/ BeginLogout(w, s)

Proceed(w) == SelectSessions(w) \/ SendMail(w) \/ SignLogin(w) \/ SignRefresh(w)

Commit(w) ==
    \/ CommitCreate(w) \/ CommitRole(w) \/ CommitLock(w) \/ CommitPassword(w)
    \/ CommitProfile(w) \/ CommitLogin(w) \/ CommitRefresh(w) \/ CommitLogout(w)

Next == Tick \/ \E w \in Workers : Begin(w) \/ Proceed(w) \/ Commit(w) \/ Rollback(w)

Spec == Init /\ [][Next]_vars

---------------------------------------------------------------------------
(* Properties *)

\* create checks the name and updateProfile does not; no two users ever have
\* one name, also when a stale copy writes an old name back.  And no two
\* sessions share a token, although logins of one second sign the same one:
\* findByRefreshToken expects one row.
UniqueColumns ==
    /\ \A u, v \in registered : users[u].name = users[v].name => u = v
    /\ \A s, t \in sessions : s.token = t.token => s = t

\* A lock, a role, a password and a name stay what they were last set to,
\* whatever is changed beside them, unless a stale copy overwrote the row.  A
\* temporary password that is stored has been mailed, overwritten or not:
\* nobody is left with a password that nobody knows.
AccountExactUnlessOverwritten ==
    /\ \A u \in registered \ lostUpdate : users[u] = lastSet[u]
    /\ \A u \in registered :
          users[u].password.kind = "temporary" => users[u].password.id \in mailed

\* updateRole invalidates sessions so that no session carries an old role.
\* The exceptions are sessions whose login overlapped the change (it loaded
\* the user before, or stored the session after the sessions were selected)
\* and the overwritten users; a refresh that overlaps it makes none.
SessionsCarryRole ==
    \A s \in sessions :
        /\ s.token.user = s.user
        /\ s.user \notin lostUpdate /\ s.id \notin missed
              => s.token.role = users[s.user].role

\* A session enters the table with its login and at no other time: a refresh
\* that loaded it before a logout or a role change deleted it does not bring
\* it back.
EnterByLogin ==
    \A i \in {s.id : s \in sessions'} \ SessionIds :
        \E w \in Workers : Ready(w, "login") /\ tx[w].id = i
RevokedForGood == [][EnterByLogin]_vars
=============================================================================
