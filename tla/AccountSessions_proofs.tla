----------------------- MODULE AccountSessions_proofs -----------------------
(***************************************************************************)
(* Proofs about AccountSessions, for any workers, users and names, any     *)
(* validity and any number of requests and seconds.                        *)
(***************************************************************************)
EXTENDS AccountSessions, TLAPS

---------------------------------------------------------------------------
(* The inductive invariant *)

\* A session has the number of its login, which no other request has: while
\* the login is open nobody can have loaded its session.
IdsApart ==
    /\ \A s \in sessions : s.id <= reqs
    /\ \A s, t \in sessions : s.id = t.id => s = t
    /\ \A w \in Workers : Open(w) =>
          /\ tx[w].id <= reqs
          /\ \A i \in tx[w].rows : i <= reqs
          /\ \A s \in sessions : s.id # tx[w].id
          /\ \A v \in Workers : Open(v) =>
                /\ tx[w].id \notin tx[v].rows
                /\ v # w => tx[v].id # tx[w].id

\* Sessions, and requests other than the one that creates the user, are those
\* of registered users.
KnownUsers ==
    /\ \A s \in sessions : s.user \in registered
    /\ \A w \in Workers : Open(w) /\ tx[w].op # "create" => tx[w].user \in registered

\* A copy that is not overtaken is the row as it is stored.
FreshCopies == \A w \in Workers : Open(w) /\ ~tx[w].stale => tx[w].read = users[tx[w].user]

\* A request changes its own column of the copy, and no other.
OwnColumn(t) ==
    /\ t.op \notin {"create", "role"} => t.row.role = t.read.role
    /\ t.op \notin {"create", "lock"} => t.row.locked = t.read.locked
    /\ t.op \notin {"create", "profile"} => t.row.name = t.read.name
    /\ t.op \notin {"create", "password", "reset"} => t.row.password = t.read.password
OwnColumns == \A w \in Workers : Open(w) => OwnColumn(tx[w])

\* A temporary password that is stored or loaded was mailed, and one that is
\* about to be stored is.
Known(row) == row.password.kind = "temporary" => row.password.id \in mailed
PasswordsKnown ==
    /\ \A u \in Users : Known(users[u])
    /\ \A w \in Workers : Open(w) =>
          /\ Known(tx[w].read)
          /\ tx[w].op = "create" => Known(tx[w].row)
          /\ tx[w].op \in {"password", "reset"} /\ tx[w].pc = "ready" => Known(tx[w].row)
          /\ tx[w].op = "reset" => tx[w].row.password = Temporary(tx[w].id)

\* What a request has signed: a login what it loaded, a refresh what is still
\* true of every session it may write, unless that one is excepted anyway.
Signed(w) ==
    /\ tx[w].op \in {"login", "refresh"} /\ tx[w].pc = "ready" =>
          tx[w].token \in Token /\ tx[w].token.user = tx[w].user
    /\ tx[w].op = "login" => tx[w].rows = {}
    /\ tx[w].op = "login" /\ tx[w].pc = "ready" => tx[w].token.role = tx[w].read.role
    /\ tx[w].op = "refresh" =>
          /\ \A i, j \in tx[w].rows : i = j
          /\ \A s \in sessions : s.id \in tx[w].rows =>
                /\ s.user = tx[w].user
                /\ tx[w].pc = "ready" /\ s.user \notin lostUpdate /\ s.id \notin missed
                      => tx[w].token.role = users[s.user].role
SignedOpen == \A w \in Workers : Open(w) => Signed(w)

AccountInv ==
    /\ TypeOK
    /\ IdsApart /\ KnownUsers
    /\ FreshCopies /\ OwnColumns /\ PasswordsKnown /\ SignedOpen
    /\ UniqueColumns /\ AccountExactUnlessOverwritten /\ SessionsCarryRole

---------------------------------------------------------------------------
(* Types and effects *)

\* An idle thread holds the idle record, an open one a transaction.
LEMMA TxRecord ==
    ASSUME TypeOK, NEW w \in Workers
    PROVE  /\ ~Open(w) => tx[w] = Idle
           /\ Open(w) => tx[w] \in OpenTx
<1>1. tx[w] = Idle \/ tx[w] \in OpenTx
  BY DEF TypeOK
<1>2. tx[w] \in OpenTx => tx[w].pc # "idle"
  BY DEF OpenTx
<1>. QED  BY <1>1, <1>2 DEF Open, Idle

\* The fields of an open transaction have their types.
LEMMA OpenTypes ==
    ASSUME TypeOK, NEW w \in Workers, Open(w)
    PROVE  /\ tx[w] \in OpenTx /\ tx[w].pc \in {"loaded", "ready"}
           /\ tx[w].op \in Ops /\ tx[w].user \in Users /\ tx[w].id \in Requests
           /\ tx[w].read \in Row /\ tx[w].row \in Row /\ tx[w].rows \subseteq Requests
           /\ tx[w].stale \in BOOLEAN
BY TxRecord DEF OpenTx

\* Rows with the same columns are the same row.
LEMMA RowColumns ==
    ASSUME NEW a \in Row, NEW b \in Row,
           a.name = b.name, a.role = b.role, a.locked = b.locked, a.password = b.password
    PROVE  a = b
BY DEF Row

\* The columns of a user's row have their types.
LEMMA RowTypes ==
    ASSUME NEW a \in Row
    PROVE  /\ a.name \in Names \cup {NoName} /\ a.role \in Roles /\ a.locked \in BOOLEAN
           /\ a.password \in Password
BY DEF Row

\* The columns of a session's row have their types.
LEMMA SessionTypes ==
    ASSUME TypeOK, NEW s \in sessions
    PROVE  /\ s \in SessionRow /\ s.id \in Requests /\ s.user \in Users /\ s.token \in Token
           /\ s.token.user \in Users
BY DEF TypeOK, SessionRow, Token

\* One request is put into another state.
LEMMA TxSet ==
    ASSUME TypeOK, NEW w \in Workers, NEW x \in {Idle} \cup OpenTx, tx' = [tx EXCEPT ![w] = x]
    PROVE  /\ tx' \in [Workers -> {Idle} \cup OpenTx]
           /\ tx'[w] = x
           /\ \A v \in Workers \ {w} : tx'[v] = tx[v] /\ (Open(v)' <=> Open(v))
BY DEF TypeOK, Open

\* What the end of a request leaves of the others: their copies may be stale
\* now, and nothing else of them changes.
OthersKept(w) ==
    /\ ~Open(w)'
    /\ \A v \in Workers \ {w} :
          /\ Open(v)' <=> Open(v)
          /\ Open(v) =>
                /\ tx'[v].pc = tx[v].pc /\ tx'[v].op = tx[v].op
                /\ tx'[v].user = tx[v].user /\ tx'[v].id = tx[v].id
                /\ tx'[v].read = tx[v].read /\ tx'[v].row = tx[v].row
                /\ tx'[v].rows = tx[v].rows /\ tx'[v].token = tx[v].token
                /\ tx[v].stale => tx'[v].stale

\* A request that ends leaves its thread idle and every other one as it was.
LEMMA FinishEffect ==
    ASSUME TypeOK, NEW w \in Workers, Finish(w)
    PROVE  OthersKept(w) /\ tx' \in [Workers -> {Idle} \cup OpenTx]
<1>1. /\ tx' \in [Workers -> {Idle} \cup OpenTx] /\ tx'[w] = Idle
      /\ \A v \in Workers \ {w} : tx'[v] = tx[v] /\ (Open(v)' <=> Open(v))
  BY TxSet DEF Finish
<1>2. ~Open(w)'
  BY <1>1 DEF Open, Idle
<1>. QED  BY <1>1, <1>2 DEF OthersKept

\* A request that ends with a write marks every other open copy of the row stale.
LEMMA WritingEffect ==
    ASSUME TypeOK, NEW w \in Workers, FinishWriting(w)
    PROVE  /\ OthersKept(w) /\ tx' \in [Workers -> {Idle} \cup OpenTx]
           /\ \A v \in Workers \ {w} : Open(v) /\ tx[v].user = tx[w].user => tx'[v].stale
<1>1. \A v \in Workers : Open(v) => tx[v] \in OpenTx /\ [tx[v] EXCEPT !.stale = TRUE] \in OpenTx
  BY TxRecord DEF OpenTx
<1>2. tx' \in [Workers -> {Idle} \cup OpenTx]
  BY <1>1, TxRecord DEF FinishWriting
<1>3. ~Open(w)'
  BY DEF FinishWriting, Open, Idle
<1>4. ASSUME NEW v \in Workers \ {w}
      PROVE  /\ Open(v)' <=> Open(v)
             /\ Open(v) =>
                   /\ tx'[v].pc = tx[v].pc /\ tx'[v].op = tx[v].op
                   /\ tx'[v].user = tx[v].user /\ tx'[v].id = tx[v].id
                   /\ tx'[v].read = tx[v].read /\ tx'[v].row = tx[v].row
                   /\ tx'[v].rows = tx[v].rows /\ tx'[v].token = tx[v].token
                   /\ tx[v].stale => tx'[v].stale
                   /\ tx[v].user = tx[w].user => tx'[v].stale
  <2>1. CASE Open(v) /\ tx[v].user = tx[w].user
    <3>1. tx'[v] = [tx[v] EXCEPT !.stale = TRUE] /\ tx[v] \in OpenTx
      BY <1>1, <2>1 DEF FinishWriting
    <3>. QED  BY <2>1, <3>1 DEF OpenTx, Open
  <2>2. CASE ~(Open(v) /\ tx[v].user = tx[w].user)
    <3>1. tx'[v] = tx[v]
      BY <2>2 DEF FinishWriting
    <3>. QED  BY <2>2, <3>1 DEF Open
  <2>. QED  BY <2>1, <2>2
<1>. QED  BY <1>2, <1>3, <1>4 DEF OthersKept

---------------------------------------------------------------------------
(* Beginnings *)

\* How a request begins: with the row as it is, and with a session of the same
\* user, or with none.
Beginning(t) ==
    /\ t.id = reqs + 1 /\ t.read = users[t.user] /\ t.stale = FALSE
    /\ t.op # "create" => t.user \in registered
    /\ t.rows = {} \/ \E s \in sessions : t.rows = {s.id} /\ s.user = t.user
    /\ t.op = "login" => t.rows = {}
    /\ t.op \in {"login", "refresh"} => t.pc = "loaded"
    /\ OwnColumn(t)
    /\ t.op \in {"create", "password"} => t.row.password = Chosen(reqs + 1)
    /\ t.op = "reset" => t.pc = "loaded" /\ t.row.password = Temporary(reqs + 1)

\* A request that begins takes a fresh number and is a transaction.
LEMMA RequestType ==
    ASSUME TypeOK, reqs < MaxRequests, NEW op \in Ops, NEW u \in Users, NEW pc \in {"loaded", "ready"}
    PROVE  /\ reqs + 1 \in Requests
           /\ Request(op, u, pc) \in OpenTx
           /\ users[u] \in Row
           /\ Chosen(reqs + 1) \in Password /\ Temporary(reqs + 1) \in Password
<1>1. reqs + 1 \in Requests
  BY AccountAssumption DEF TypeOK, Requests
<1>2. users[u] \in Row
  BY DEF TypeOK
<1>3. Request(op, u, pc) \in OpenTx
  BY <1>1, <1>2 DEF Request, OpenTx
<1>. QED  BY <1>1, <1>2, <1>3 DEF Chosen, Temporary, Password

\* The request as it begins, with another row.
Changed(op, u, pc, row) == [Request(op, u, pc) EXCEPT !.row = row]

\* So is one that intends to change the row it loaded.
LEMMA RequestRow ==
    ASSUME TypeOK, reqs < MaxRequests, NEW op \in Ops, NEW u \in Users, NEW pc \in {"loaded", "ready"},
           NEW row \in Row
    PROVE  Changed(op, u, pc, row) \in OpenTx
<1>1. Request(op, u, pc) \in OpenTx
  BY RequestType
<1>. QED  BY <1>1 DEF Request, OpenTx, Changed

\* The requests about a row of users open a transaction and write nothing yet.
LEMMA BeginUser ==
    ASSUME TypeOK, NEW w \in Workers, NEW u \in Users,
           \/ \E n \in Names, r \in NewRoles(u) : BeginCreate(w, u, n, r)
           \/ \E r \in Roles : BeginRole(w, u, r)
           \/ \E b \in BOOLEAN : BeginLock(w, u, b)
           \/ \E n \in Names : BeginProfile(w, u, n)
           \/ BeginPassword(w, u) \/ BeginReset(w, u) \/ BeginLogin(w, u)
    PROVE  \E t \in OpenTx : Start(w, t) /\ Beginning(t)
<1>0. reqs < MaxRequests
  BY DEF BeginCreate, BeginRole, BeginLock, BeginProfile, BeginPassword, BeginReset, BeginLogin, Start
<1>. DEFINE c == Chosen(reqs + 1)
            old == users[u]
<1>1. old \in Row /\ c \in Password /\ Temporary(reqs + 1) \in Password
  BY <1>0, RequestType DEF Ops
<1>2. CASE \E n \in Names, r \in NewRoles(u) : BeginCreate(w, u, n, r)
  <2>1. PICK n \in Names, r \in NewRoles(u) : BeginCreate(w, u, n, r)
    BY <1>2
  <2>. DEFINE row == [name |-> n, role |-> r, locked |-> FALSE, password |-> c]
              t == Changed("create", u, "ready", row)
  <2>2. row \in Row /\ row.password = c
    BY <1>1 DEF Row, NewRoles, Roles
  <2>. HIDE DEF row
  <2>3. t \in OpenTx
    BY <1>0, <2>2, RequestRow DEF Ops
  <2>4. /\ t.op = "create" /\ t.user = u /\ t.id = reqs + 1 /\ t.read = users[u]
        /\ t.row = row /\ t.rows = {} /\ t.stale = FALSE
    BY DEF Changed, Request
  <2>5. Start(w, t)
    BY <2>1 DEF BeginCreate, Changed, row
  <2>. HIDE DEF t
  <2>. QED  BY <2>2, <2>3, <2>4, <2>5 DEF Beginning, OwnColumn
<1>3. CASE \E r \in Roles : BeginRole(w, u, r)
  <2>1. PICK r \in Roles : BeginRole(w, u, r)
    BY <1>3
  <2>. DEFINE row == [old EXCEPT !.role = r]
              t == Changed("role", u, "loaded", row)
  <2>2. row \in Row /\ row.name = old.name /\ row.locked = old.locked /\ row.password = old.password
    BY <1>1 DEF Row
  <2>. HIDE DEF row
  <2>3. t \in OpenTx
    BY <1>0, <2>2, RequestRow DEF Ops
  <2>4. /\ t.op = "role" /\ t.user = u /\ t.id = reqs + 1 /\ t.read = users[u]
        /\ t.row = row /\ t.rows = {} /\ t.stale = FALSE
    BY DEF Changed, Request
  <2>5. Start(w, t) /\ u \in registered
    BY <2>1 DEF BeginRole, Request, Changed, row
  <2>. HIDE DEF t
  <2>. QED  BY <2>2, <2>3, <2>4, <2>5 DEF Beginning, OwnColumn
<1>4. CASE \E b \in BOOLEAN : BeginLock(w, u, b)
  <2>1. PICK b \in BOOLEAN : BeginLock(w, u, b)
    BY <1>4
  <2>. DEFINE row == [old EXCEPT !.locked = b]
              t == Changed("lock", u, "ready", row)
  <2>2. row \in Row /\ row.name = old.name /\ row.role = old.role /\ row.password = old.password
    BY <1>1 DEF Row
  <2>. HIDE DEF row
  <2>3. t \in OpenTx
    BY <1>0, <2>2, RequestRow DEF Ops
  <2>4. /\ t.op = "lock" /\ t.user = u /\ t.id = reqs + 1 /\ t.read = users[u]
        /\ t.row = row /\ t.rows = {} /\ t.stale = FALSE
    BY DEF Changed, Request
  <2>5. Start(w, t) /\ u \in registered
    BY <2>1 DEF BeginLock, Request, Changed, row
  <2>. HIDE DEF t
  <2>. QED  BY <2>2, <2>3, <2>4, <2>5 DEF Beginning, OwnColumn
<1>5. CASE \E n \in Names : BeginProfile(w, u, n)
  <2>1. PICK n \in Names : BeginProfile(w, u, n)
    BY <1>5
  <2>. DEFINE row == [old EXCEPT !.name = n]
              t == Changed("profile", u, "ready", row)
  <2>2. row \in Row /\ row.role = old.role /\ row.locked = old.locked /\ row.password = old.password
    BY <1>1 DEF Row
  <2>. HIDE DEF row
  <2>3. t \in OpenTx
    BY <1>0, <2>2, RequestRow DEF Ops
  <2>4. /\ t.op = "profile" /\ t.user = u /\ t.id = reqs + 1 /\ t.read = users[u]
        /\ t.row = row /\ t.rows = {} /\ t.stale = FALSE
    BY DEF Changed, Request
  <2>5. Start(w, t) /\ u \in registered
    BY <2>1 DEF BeginProfile, Request, Changed, row
  <2>. HIDE DEF t
  <2>. QED  BY <2>2, <2>3, <2>4, <2>5 DEF Beginning, OwnColumn
<1>6. CASE BeginPassword(w, u)
  <2>. DEFINE row == [old EXCEPT !.password = c]
              t == Changed("password", u, "ready", row)
  <2>2. /\ row \in Row /\ row.name = old.name /\ row.role = old.role /\ row.locked = old.locked
        /\ row.password = c
    BY <1>1 DEF Row
  <2>. HIDE DEF row
  <2>3. t \in OpenTx
    BY <1>0, <2>2, RequestRow DEF Ops
  <2>4. /\ t.op = "password" /\ t.user = u /\ t.id = reqs + 1 /\ t.read = users[u]
        /\ t.row = row /\ t.rows = {} /\ t.stale = FALSE
    BY DEF Changed, Request
  <2>5. Start(w, t) /\ u \in registered
    BY <1>6 DEF BeginPassword, Request, Changed, row
  <2>. HIDE DEF t
  <2>. QED  BY <2>2, <2>3, <2>4, <2>5 DEF Beginning, OwnColumn
<1>7. CASE BeginReset(w, u)
  <2>. DEFINE row == [old EXCEPT !.password = Temporary(reqs + 1)]
              t == Changed("reset", u, "loaded", row)
  <2>2. /\ row \in Row /\ row.name = old.name /\ row.role = old.role /\ row.locked = old.locked
        /\ row.password = Temporary(reqs + 1)
    BY <1>1 DEF Row
  <2>. HIDE DEF row
  <2>3. t \in OpenTx
    BY <1>0, <2>2, RequestRow DEF Ops
  <2>4. /\ t.op = "reset" /\ t.user = u /\ t.id = reqs + 1 /\ t.read = users[u]
        /\ t.row = row /\ t.rows = {} /\ t.stale = FALSE /\ t.pc = "loaded"
    BY DEF Changed, Request
  <2>5. Start(w, t) /\ u \in registered
    BY <1>7 DEF BeginReset, Request, Changed, row
  <2>. HIDE DEF t
  <2>. QED  BY <2>2, <2>3, <2>4, <2>5 DEF Beginning, OwnColumn
<1>8. CASE BeginLogin(w, u)
  <2>. DEFINE t == Request("login", u, "loaded")
  <2>1. t \in OpenTx
    BY <1>0, RequestType DEF Ops
  <2>2. /\ t.op = "login" /\ t.user = u /\ t.id = reqs + 1 /\ t.read = users[u]
        /\ t.row = users[u] /\ t.rows = {} /\ t.stale = FALSE /\ t.pc = "loaded"
    BY DEF Request
  <2>3. Start(w, t) /\ u \in registered
    BY <1>8 DEF BeginLogin
  <2>. HIDE DEF t
  <2>. QED  BY <2>1, <2>2, <2>3 DEF Beginning, OwnColumn
<1>. QED  BY <1>2, <1>3, <1>4, <1>5, <1>6, <1>7, <1>8

\* A token is of the user whose session it is.
LEMMA BeginSession ==
    ASSUME TypeOK, KnownUsers, SessionsCarryRole, NEW w \in Workers, NEW s \in sessions,
           BeginRefresh(w, s) \/ BeginLogout(w, s)
    PROVE  \E t \in OpenTx : Start(w, t) /\ Beginning(t)
<1>1. reqs < MaxRequests
  BY DEF BeginRefresh, BeginLogout, Start
<1>2. s.token.user = s.user /\ s.user \in Users /\ s.user \in registered /\ s.id \in Requests /\ s.token \in Token
  BY SessionTypes DEF KnownUsers, SessionsCarryRole
<1>3. CASE BeginRefresh(w, s)
  <2>. DEFINE q == Request("refresh", s.user, "loaded")
              t == [q EXCEPT !.rows = {s.id}]
  <2>1. q \in OpenTx
    BY <1>1, <1>2, RequestType DEF Ops
  <2>2. t \in OpenTx
    BY <1>2, <2>1 DEF OpenTx
  <2>3. /\ t.op = "refresh" /\ t.user = s.user /\ t.id = reqs + 1 /\ t.read = users[s.user]
        /\ t.row = users[s.user] /\ t.rows = {s.id} /\ t.stale = FALSE /\ t.pc = "loaded"
    BY DEF Request
  <2>4. Start(w, t)
    BY <1>2, <1>3 DEF BeginRefresh
  <2>. HIDE DEF t, q
  <2>. QED  BY <1>2, <2>2, <2>3, <2>4 DEF Beginning, OwnColumn
<1>4. CASE BeginLogout(w, s)
  <2>. DEFINE q == Request("logout", s.user, "ready")
              t == [q EXCEPT !.rows = {s.id}]
  <2>1. q \in OpenTx
    BY <1>1, <1>2, RequestType DEF Ops
  <2>2. t \in OpenTx
    BY <1>2, <2>1 DEF OpenTx
  <2>3. /\ t.op = "logout" /\ t.user = s.user /\ t.id = reqs + 1 /\ t.read = users[s.user]
        /\ t.row = users[s.user] /\ t.rows = {s.id} /\ t.stale = FALSE
    BY DEF Request
  <2>4. Start(w, t)
    BY <1>4 DEF BeginLogout
  <2>. HIDE DEF t, q
  <2>. QED  BY <1>2, <2>2, <2>3, <2>4 DEF Beginning, OwnColumn
<1>. QED  BY <1>3, <1>4

---------------------------------------------------------------------------
(* The invariant is inductive *)

\* The invariant holds in the empty database.
LEMMA InitInv == Init => AccountInv
<1>. SUFFICES ASSUME Init PROVE AccountInv
  OBVIOUS
<1>. USE AccountAssumption
<1>1. PICK R \in SUBSET Users, name \in [Users -> Names] :
         /\ \A u, v \in R : name[u] = name[v] => u = v
         /\ registered = R
         /\ users = [u \in Users |-> IF u \in R THEN [BlankRow EXCEPT !.name = name[u]] ELSE BlankRow]
  BY DEF Init
<1>2. \A u \in Users : /\ users[u] \in Row /\ Known(users[u])
                       /\ u \in R => users[u].name = name[u]
  <2>1. Chosen(0) \in Password
    BY DEF Chosen, Password
  <2>. QED  BY <1>1, <2>1 DEF BlankRow, Row, Roles, Known, Chosen
<1>3. \A w \in Workers : tx[w] = Idle /\ ~Open(w)
  BY DEF Init, Open, Idle
<1>4. sessions = {} /\ lastSet = users
  BY DEF Init
<1>5. TypeOK
  <2>1. users \in [Users -> Row] /\ lastSet \in [Users -> Row]
    BY <1>1, <1>2, <1>4
  <2>. QED  BY <1>1, <1>4, <2>1 DEF Init, TypeOK
<1>6. IdsApart /\ KnownUsers /\ FreshCopies /\ OwnColumns /\ SignedOpen
  BY <1>3, <1>4 DEF IdsApart, KnownUsers, FreshCopies, OwnColumns, SignedOpen
<1>7. PasswordsKnown
  BY <1>2, <1>3 DEF PasswordsKnown
<1>8. UniqueColumns
  BY <1>1, <1>2, <1>4 DEF UniqueColumns
<1>9. AccountExactUnlessOverwritten
  BY <1>1, <1>2, <1>4 DEF AccountExactUnlessOverwritten, Known
<1>10. SessionsCarryRole
  BY <1>4 DEF SessionsCarryRole
<1>. QED  BY <1>5, <1>6, <1>7, <1>8, <1>9, <1>10 DEF AccountInv

\* A request begins with a number of its own, the row as it is, and at most
\* one session, of its user.
LEMMA BeginInv ==
    ASSUME AccountInv, NEW w \in Workers, Begin(w)
    PROVE  AccountInv'
<1>. USE AccountAssumption DEF AccountInv
<1>1. PICK t \in OpenTx : Start(w, t) /\ Beginning(t)
  BY BeginUser, BeginSession DEF Begin
<1>2. /\ reqs < MaxRequests /\ ~Open(w) /\ reqs' = reqs + 1
      /\ UNCHANGED <<now, registered, users, sessions, published, mailed, lostUpdate, lastSet, missed>>
  BY <1>1 DEF Start, ghosts
<1>3. /\ tx' \in [Workers -> {Idle} \cup OpenTx] /\ tx'[w] = t
      /\ \A v \in Workers \ {w} : tx'[v] = tx[v] /\ (Open(v)' <=> Open(v))
  BY <1>1, TxSet DEF Start
<1>4. Open(w)'
  BY <1>3 DEF Open, OpenTx
<1>5. TypeOK'
  BY <1>2, <1>3 DEF TypeOK
<1>6. /\ t.id = reqs + 1 /\ t.read = users[t.user] /\ t.stale = FALSE
      /\ t.op # "create" => t.user \in registered
      /\ t.rows = {} \/ \E s \in sessions : t.rows = {s.id} /\ s.user = t.user
      /\ t.op = "login" => t.rows = {}
      /\ t.op \in {"login", "refresh"} => t.pc = "loaded"
      /\ OwnColumn(t)
      /\ t.op \in {"create", "password"} => t.row.password = Chosen(reqs + 1)
      /\ t.op = "reset" => t.pc = "loaded" /\ t.row.password = Temporary(reqs + 1)
  BY <1>1 DEF Beginning
<1>7. IdsApart'
  <2>1. \A s \in sessions : s.id <= reqs /\ s.id \in Nat
    BY SessionTypes DEF IdsApart, Requests
  <2>2. reqs \in Nat /\ \A i \in t.rows : i \in Nat /\ i <= reqs
    BY <1>6, <2>1 DEF TypeOK
  <2>3. ASSUME NEW v \in Workers, v # w, Open(v)
        PROVE  /\ tx[v].id \in Nat /\ tx[v].id <= reqs /\ tx[v].id \notin t.rows
               /\ \A i \in tx[v].rows : i \in Nat /\ i <= reqs
    <3>1. tx[v].id \in Nat /\ \A i \in tx[v].rows : i \in Nat
      BY <2>3, OpenTypes DEF Requests
    <3>. QED  BY <1>6, <2>3, <3>1 DEF IdsApart
  <2>4. \A s \in sessions : s.id # reqs + 1
    BY <2>1, <2>2
  <2>5. t.id \notin t.rows /\ t.id <= reqs' /\ \A i \in t.rows : i <= reqs'
    BY <1>2, <1>6, <2>2
  <2>6. ASSUME NEW v \in Workers, v # w, Open(v)
        PROVE  /\ tx[v].id # t.id /\ t.id \notin tx[v].rows /\ tx[v].id \notin t.rows
               /\ tx[v].id <= reqs' /\ \A i \in tx[v].rows : i <= reqs'
    BY <1>2, <1>6, <2>2, <2>3, <2>6
  <2>7. \A s \in sessions : s.id <= reqs'
    BY <1>2, <2>1, <2>2
  <2>8. \A s, r \in sessions : s.id = r.id => s = r
    BY DEF IdsApart
  <2>9. ASSUME NEW v \in Workers, Open(v)'
        PROVE  /\ tx'[v].id <= reqs'
               /\ \A i \in tx'[v].rows : i <= reqs'
               /\ \A s \in sessions : s.id # tx'[v].id
               /\ \A x \in Workers : Open(x)' =>
                     /\ tx'[v].id \notin tx'[x].rows
                     /\ x # v => tx'[x].id # tx'[v].id
    <3>1. CASE v = w
      BY <1>3, <1>6, <2>4, <2>5, <2>6, <3>1
    <3>2. CASE v # w
      <4>1. Open(v) /\ tx'[v] = tx[v]
        BY <1>3, <2>9, <3>2
      <4>2. \A s \in sessions : s.id # tx[v].id
        BY <4>1 DEF IdsApart
      <4>3. \A x \in Workers \ {w} : Open(x) => tx[v].id \notin tx[x].rows /\ (x # v => tx[x].id # tx[v].id)
        BY <4>1 DEF IdsApart
      <4>. QED  BY <1>3, <2>6, <3>2, <4>1, <4>2, <4>3
    <3>. QED  BY <3>1, <3>2
  <2>. QED  BY <1>2, <2>7, <2>8, <2>9 DEF IdsApart
<1>8. KnownUsers'
  BY <1>2, <1>3, <1>6 DEF KnownUsers
<1>9. FreshCopies'
  BY <1>2, <1>3, <1>6 DEF FreshCopies
<1>10. OwnColumns'
  <2>1. \A v \in Workers : v # w /\ Open(v) => OwnColumn(tx[v])
    BY DEF OwnColumns
  <2>2. \A v \in Workers : Open(v)' => OwnColumn(tx'[v])
    BY <1>3, <1>6, <2>1
  <2>. QED  BY <2>2 DEF OwnColumns, OwnColumn
<1>11. PasswordsKnown'
  <2>1. Known(users[t.user]) /\ ("temporary" # Chosen(reqs + 1).kind)
    BY <1>1 DEF PasswordsKnown, OpenTx, Chosen
  <2>2. /\ Known(t.read)
        /\ t.op \in {"create", "password"} => Known(t.row)
        /\ t.op = "reset" => t.pc # "ready" /\ t.row.password = Temporary(t.id)
    BY <1>6, <2>1 DEF Known
  <2>3. \A v \in Workers : v # w /\ Open(v) =>
           /\ Known(tx[v].read)
           /\ tx[v].op = "create" => Known(tx[v].row)
           /\ tx[v].op \in {"password", "reset"} /\ tx[v].pc = "ready" => Known(tx[v].row)
           /\ tx[v].op = "reset" => tx[v].row.password = Temporary(tx[v].id)
    BY DEF PasswordsKnown
  <2>4. \A v \in Workers : Open(v)' =>
           /\ Known(tx'[v].read)
           /\ tx'[v].op = "create" => Known(tx'[v].row)
           /\ tx'[v].op \in {"password", "reset"} /\ tx'[v].pc = "ready" => Known(tx'[v].row)
           /\ tx'[v].op = "reset" => tx'[v].row.password = Temporary(tx'[v].id)
    BY <1>3, <2>2, <2>3
  <2>. QED  BY <1>2, <2>4 DEF PasswordsKnown, Known, Temporary
<1>12. SignedOpen'
  <2>1. Signed(w)'
    <3>1. ~(t.op \in {"login", "refresh"} /\ t.pc = "ready")
      BY <1>6
    <3>2. \A i, j \in t.rows : i = j
      BY <1>6
    <3>3. \A s \in sessions : s.id \in t.rows => s.user = t.user
      BY <1>6 DEF IdsApart
    <3>. QED  BY <1>2, <1>3, <1>6, <3>1, <3>2, <3>3 DEF Signed
  <2>2. ASSUME NEW v \in Workers, v # w, Open(v) PROVE Signed(v)'
    BY <1>2, <1>3, <2>2 DEF SignedOpen, Signed
  <2>. QED  BY <1>3, <2>1, <2>2 DEF SignedOpen
<1>13. UniqueColumns' /\ AccountExactUnlessOverwritten' /\ SessionsCarryRole'
  BY <1>2 DEF UniqueColumns, AccountExactUnlessOverwritten, SessionsCarryRole
<1>. QED  BY <1>5, <1>7, <1>8, <1>9, <1>10, <1>11, <1>12, <1>13

\* What the second query of a request leaves as it was.
Proceeds(w) ==
    /\ Open(w) /\ Open(w)'
    /\ tx'[w].op = tx[w].op /\ tx'[w].user = tx[w].user /\ tx'[w].id = tx[w].id
    /\ tx'[w].read = tx[w].read /\ tx'[w].row = tx[w].row /\ tx'[w].stale = tx[w].stale
    /\ \A v \in Workers \ {w} : tx'[v] = tx[v] /\ (Open(v)' <=> Open(v))
    /\ UNCHANGED readOnly

\* A request that only moves on, writing no row, keeps all that is said of rows and copies.
LEMMA ProceedKeeps ==
    ASSUME AccountInv, NEW w \in Workers, Proceeds(w), mailed \subseteq mailed'
    PROVE  /\ KnownUsers' /\ FreshCopies' /\ OwnColumns'
           /\ UniqueColumns' /\ AccountExactUnlessOverwritten' /\ SessionsCarryRole'
<1>1. UNCHANGED <<now, registered, users, sessions, published, reqs, lostUpdate, lastSet, missed>>
  BY DEF Proceeds, readOnly, ghosts
<1>2. KnownUsers' /\ FreshCopies'
  BY <1>1 DEF AccountInv, Proceeds, KnownUsers, FreshCopies
<1>3. OwnColumns'
  BY DEF AccountInv, Proceeds, OwnColumns, OwnColumn
<1>4. UniqueColumns' /\ SessionsCarryRole'
  BY <1>1 DEF AccountInv, UniqueColumns, SessionsCarryRole
<1>5. AccountExactUnlessOverwritten'
  BY <1>1 DEF AccountInv, AccountExactUnlessOverwritten
<1>. QED  BY <1>2, <1>3, <1>4, <1>5

\* The selection of the sessions that updateRole will delete keeps the invariant.
LEMMA SelectSessionsInv ==
    ASSUME AccountInv, NEW w \in Workers, SelectSessions(w)
    PROVE  AccountInv'
<1>. USE DEF AccountInv
<1>1. Open(w) /\ tx[w] \in OpenTx /\ tx[w].op = "role" /\ UNCHANGED readOnly /\ UNCHANGED mailed
  BY TxRecord DEF SelectSessions, Loaded, Open
<1>. DEFINE x == [tx[w] EXCEPT !.pc = "ready", !.rows = SessionsOf(tx[w].user)]
<1>2. /\ SessionsOf(tx[w].user) \subseteq Requests
      /\ \A i \in SessionsOf(tx[w].user) : \E s \in sessions : s.id = i
  BY SessionTypes DEF SessionsOf
<1>3. x \in OpenTx
  BY <1>1, <1>2 DEF OpenTx
<1>4. tx' = [tx EXCEPT ![w] = x]
  BY DEF SelectSessions
<1>5. /\ x.pc = "ready" /\ x.rows = SessionsOf(tx[w].user)
      /\ x.op = tx[w].op /\ x.user = tx[w].user /\ x.id = tx[w].id
      /\ x.read = tx[w].read /\ x.row = tx[w].row /\ x.stale = tx[w].stale
  BY <1>1 DEF OpenTx
<1>. HIDE DEF x
<1>6. /\ tx' \in [Workers -> {Idle} \cup OpenTx] /\ tx'[w] = x
      /\ \A v \in Workers \ {w} : tx'[v] = tx[v] /\ (Open(v)' <=> Open(v))
  BY <1>3, <1>4, TxSet
<1>7. Proceeds(w)
  BY <1>1, <1>5, <1>6 DEF Proceeds, Open
<1>8. TypeOK'
  BY <1>1, <1>6 DEF TypeOK, readOnly, ghosts
<1>9. IdsApart'
  <2>1. \A i \in x.rows : i <= reqs /\ \A v \in Workers : Open(v) => tx[v].id # i
    BY <1>2, <1>5 DEF IdsApart
  <2>2. UNCHANGED <<sessions, reqs>>
    BY <1>1 DEF readOnly
  <2>. QED  BY <1>1, <1>5, <1>6, <2>1, <2>2 DEF IdsApart
<1>10. PasswordsKnown'
  BY <1>1, <1>5, <1>6 DEF PasswordsKnown, Known, readOnly, Temporary
<1>11. SignedOpen'
  <2>1. UNCHANGED <<users, sessions, lostUpdate, missed>>
    BY <1>1 DEF readOnly, ghosts
  <2>2. Signed(w)'
    BY <1>1, <1>5, <1>6 DEF Signed
  <2>3. ASSUME NEW v \in Workers, v # w, Open(v) PROVE Signed(v)'
    BY <1>6, <2>1, <2>3 DEF SignedOpen, Signed
  <2>. QED  BY <1>6, <2>2, <2>3 DEF SignedOpen
<1>. QED  BY <1>1, <1>7, <1>8, <1>9, <1>10, <1>11, ProceedKeeps

\* The password is mailed before it can be stored.
LEMMA SendMailInv ==
    ASSUME AccountInv, NEW w \in Workers, SendMail(w)
    PROVE  AccountInv'
<1>. USE DEF AccountInv
<1>1. /\ Open(w) /\ tx[w] \in OpenTx /\ tx[w].op = "reset" /\ tx[w].id \in Requests
      /\ UNCHANGED readOnly /\ mailed' = mailed \cup {tx[w].id}
  BY TxRecord, OpenTypes DEF SendMail, Loaded, Open
<1>. DEFINE x == [tx[w] EXCEPT !.pc = "ready"]
<1>2. x \in OpenTx
  BY <1>1 DEF OpenTx
<1>3. tx' = [tx EXCEPT ![w] = x]
  BY DEF SendMail
<1>4. /\ x.pc = "ready" /\ x.rows = tx[w].rows
      /\ x.op = tx[w].op /\ x.user = tx[w].user /\ x.id = tx[w].id
      /\ x.read = tx[w].read /\ x.row = tx[w].row /\ x.stale = tx[w].stale
  BY <1>1 DEF OpenTx
<1>. HIDE DEF x
<1>5. /\ tx' \in [Workers -> {Idle} \cup OpenTx] /\ tx'[w] = x
      /\ \A v \in Workers \ {w} : tx'[v] = tx[v] /\ (Open(v)' <=> Open(v))
  BY <1>2, <1>3, TxSet
<1>6. Proceeds(w)
  BY <1>1, <1>4, <1>5 DEF Proceeds, Open
<1>7. TypeOK'
  BY <1>1, <1>5 DEF TypeOK, readOnly, ghosts
<1>8. IdsApart'
  <2>1. UNCHANGED <<sessions, reqs>>
    BY <1>1 DEF readOnly
  <2>. QED  BY <1>1, <1>4, <1>5, <2>1 DEF IdsApart
<1>9. PasswordsKnown'
  <2>1. Known(tx[w].row)'
    <3>1. tx[w].row.password = Temporary(tx[w].id)
      BY <1>1 DEF PasswordsKnown
    <3>2. tx'[w].row = tx[w].row
      BY <1>4, <1>5
    <3>3. tx[w].row.password.id = tx[w].id
      BY <3>1 DEF Temporary
    <3>. QED  BY <1>1, <3>2, <3>3 DEF Known
  <2>2. ASSUME NEW v \in Workers, v # w, Open(v)
        PROVE  /\ Known(tx[v].read)'
               /\ tx[v].op = "create" => Known(tx[v].row)'
               /\ tx[v].op \in {"password", "reset"} /\ tx[v].pc = "ready" => Known(tx[v].row)'
               /\ tx[v].op = "reset" => tx[v].row.password = Temporary(tx[v].id)
    BY <1>1, <1>5, <2>2 DEF PasswordsKnown, Known
  <2>3. /\ Known(tx[w].read)'
        /\ tx[w].op = "reset" => tx[w].row.password = Temporary(tx[w].id)
    BY <1>1, <1>4, <1>5 DEF PasswordsKnown, Known
  <2>4. \A u \in Users : Known(users[u])'
    BY <1>1 DEF PasswordsKnown, Known, readOnly
  <2>. QED  BY <1>1, <1>4, <1>5, <2>1, <2>2, <2>3, <2>4 DEF PasswordsKnown, Temporary
<1>10. SignedOpen'
  <2>1. UNCHANGED <<users, sessions, lostUpdate, missed>>
    BY <1>1 DEF readOnly, ghosts
  <2>2. Signed(w)'
    BY <1>1, <1>4, <1>5 DEF Signed
  <2>3. ASSUME NEW v \in Workers, v # w, Open(v) PROVE Signed(v)'
    BY <1>5, <2>1, <2>3 DEF SignedOpen, Signed
  <2>. QED  BY <1>5, <2>2, <2>3 DEF SignedOpen
<1>. QED  BY <1>1, <1>6, <1>7, <1>8, <1>9, <1>10, ProceedKeeps

\* A login signs the row it loaded, a refresh the row as it is.
LEMMA SignInv ==
    ASSUME AccountInv, NEW w \in Workers, SignLogin(w) \/ SignRefresh(w)
    PROVE  AccountInv'
<1>. USE DEF AccountInv
<1>1. /\ Open(w) /\ tx[w] \in OpenTx /\ tx[w].op \in {"login", "refresh"}
      /\ UNCHANGED readOnly /\ UNCHANGED mailed
  BY TxRecord DEF SignLogin, SignRefresh, Loaded, Open
<1>2. PICK row \in Row : /\ tx' = [tx EXCEPT ![w].pc = "ready", ![w].token = TokenFor(tx[w].user, row)]
                         /\ tx[w].op = "login" => row = tx[w].row
                         /\ tx[w].op = "refresh" => row = users[tx[w].user]
  <2>1. tx[w].row \in Row /\ users[tx[w].user] \in Row
    BY <1>1, OpenTypes DEF TypeOK
  <2>. QED  BY <2>1 DEF SignLogin, SignRefresh, Loaded
<1>. DEFINE token == TokenFor(tx[w].user, row)
            x == [tx[w] EXCEPT !.pc = "ready", !.token = token]
<1>3. token \in Token /\ token.user = tx[w].user /\ token.role = row.role
  <2>1. tx[w].user \in Users /\ row.role \in Roles /\ row.name \in Names \cup {NoName} /\ now \in 0..MaxTime
    BY <1>1, OpenTypes, RowTypes DEF TypeOK
  <2>. QED  BY <2>1 DEF Token, TokenFor
<1>. HIDE DEF token
<1>4. x \in OpenTx
  BY <1>1, <1>3 DEF OpenTx
<1>5. tx' = [tx EXCEPT ![w] = x]
  BY <1>2 DEF token
<1>6. /\ x.pc = "ready" /\ x.rows = tx[w].rows /\ x.token = token
      /\ x.op = tx[w].op /\ x.user = tx[w].user /\ x.id = tx[w].id
      /\ x.read = tx[w].read /\ x.row = tx[w].row /\ x.stale = tx[w].stale
  BY <1>1 DEF OpenTx
<1>. HIDE DEF x
<1>7. /\ tx' \in [Workers -> {Idle} \cup OpenTx] /\ tx'[w] = x
      /\ \A v \in Workers \ {w} : tx'[v] = tx[v] /\ (Open(v)' <=> Open(v))
  BY <1>4, <1>5, TxSet
<1>8. Proceeds(w)
  BY <1>1, <1>6, <1>7 DEF Proceeds, Open
<1>9. TypeOK'
  BY <1>1, <1>7 DEF TypeOK, readOnly, ghosts
<1>10. IdsApart'
  <2>1. UNCHANGED <<sessions, reqs>>
    BY <1>1 DEF readOnly
  <2>. QED  BY <1>1, <1>6, <1>7, <2>1 DEF IdsApart
<1>11. PasswordsKnown'
  BY <1>1, <1>6, <1>7 DEF PasswordsKnown, Known, readOnly, Temporary
<1>12. SignedOpen'
  <2>1. UNCHANGED <<users, sessions, lostUpdate, missed>>
    BY <1>1 DEF readOnly, ghosts
  <2>2. tx[w].op = "login" => row.role = tx[w].read.role
    BY <1>1, <1>2 DEF OwnColumns, OwnColumn
  <2>3. tx[w].op = "refresh" => \A s \in sessions : s.id \in tx[w].rows =>
                                   s.user = tx[w].user /\ row.role = users[s.user].role
    BY <1>1, <1>2 DEF SignedOpen, Signed
  <2>4. Signed(w)'
    BY <1>1, <1>3, <1>6, <1>7, <2>1, <2>2, <2>3 DEF SignedOpen, Signed
  <2>5. ASSUME NEW v \in Workers, v # w, Open(v) PROVE Signed(v)'
    BY <1>7, <2>1, <2>5 DEF SignedOpen, Signed
  <2>. QED  BY <1>7, <2>4, <2>5 DEF SignedOpen
<1>. QED  BY <1>1, <1>8, <1>9, <1>10, <1>11, <1>12, ProceedKeeps

---------------------------------------------------------------------------
(* Commits of a user *)

UserCommit(w) ==
    CommitCreate(w) \/ CommitRole(w) \/ CommitLock(w) \/ CommitPassword(w) \/ CommitProfile(w)

\* The row is written, with what it was meant to become and who else is
\* affected.
RowWritten(w) ==
    LET t == tx[w]
        intended == lastSet'[t.user]
    IN  /\ users' = [users EXCEPT ![t.user] = t.row]
        /\ NameFree(w)
        /\ lastSet' \in [Users -> Row]
        /\ \A u \in Users : u # t.user => lastSet'[u] = lastSet[u]
        /\ t.op = "create" => intended = t.row
        /\ t.op # "create" =>
              /\ intended.role = IF t.op = "role" THEN t.row.role ELSE lastSet[t.user].role
              /\ intended.locked = IF t.op = "lock" THEN t.row.locked ELSE lastSet[t.user].locked
              /\ intended.name = IF t.op = "profile" THEN t.row.name ELSE lastSet[t.user].name
              /\ intended.password = IF t.op \in {"password", "reset"} THEN t.row.password
                                                                    ELSE lastSet[t.user].password
              /\ t.stale => t.user \in lostUpdate'
        /\ t.op = "role" => \A s \in sessions' : s.user = t.user => s.id \in missed'
        /\ \A v \in Workers \ {w} : Open(v) /\ tx[v].user = t.user => tx'[v].stale

\* A flush of a user's row: what it does to the other threads and to the lost updates.
LEMMA WriteEffect ==
    ASSUME TypeOK, NEW w \in Workers, Open(w), NEW intent \in Row, Write(w, intent)
    PROVE  /\ OthersKept(w) /\ tx' \in [Workers -> {Idle} \cup OpenTx]
           /\ lostUpdate' \in {lostUpdate, lostUpdate \cup {tx[w].user}}
           /\ \/ /\ Dirty(w) /\ NameFree(w)
                 /\ users' = [users EXCEPT ![tx[w].user] = tx[w].row]
                 /\ lastSet' = [lastSet EXCEPT ![tx[w].user] = intent]
                 /\ tx[w].stale => tx[w].user \in lostUpdate'
                 /\ \A v \in Workers \ {w} : Open(v) /\ tx[v].user = tx[w].user => tx'[v].stale
              \/ ~Dirty(w) /\ UNCHANGED <<users, lastSet, lostUpdate>>
<1>1. CASE Dirty(w)
  <2>1. /\ NameFree(w) /\ FinishWriting(w)
        /\ users' = [users EXCEPT ![tx[w].user] = tx[w].row]
        /\ lastSet' = [lastSet EXCEPT ![tx[w].user] = intent]
        /\ lostUpdate' = IF tx[w].stale THEN lostUpdate \cup {tx[w].user} ELSE lostUpdate
    BY <1>1 DEF Write
  <2>2. /\ OthersKept(w) /\ tx' \in [Workers -> {Idle} \cup OpenTx]
        /\ \A v \in Workers \ {w} : Open(v) /\ tx[v].user = tx[w].user => tx'[v].stale
    BY <2>1, WritingEffect
  <2>3. /\ lostUpdate' \in {lostUpdate, lostUpdate \cup {tx[w].user}}
        /\ tx[w].stale => tx[w].user \in lostUpdate'
    BY <2>1
  <2>. QED  BY <1>1, <2>1, <2>2, <2>3
<1>2. CASE ~Dirty(w)
  <2>1. Finish(w) /\ UNCHANGED <<users, lastSet, lostUpdate>>
    BY <1>2 DEF Write
  <2>. QED  BY <1>2, <2>1, FinishEffect
<1>. QED  BY <1>1, <1>2

\* What the commits of a user have in common.
UserCommitted(w) ==
    /\ Open(w) /\ tx[w].pc = "ready" /\ tx[w] \in OpenTx
    /\ OthersKept(w)
    /\ UNCHANGED <<now, mailed, reqs>>
    /\ registered' = IF tx[w].op = "create" THEN registered \cup {tx[w].user} ELSE registered
    /\ tx[w].op = "create" => tx[w].user \notin registered
    /\ tx[w].op \in {"create", "role", "lock", "profile", "password", "reset"}
    /\ sessions' \subseteq sessions
    /\ lostUpdate \subseteq lostUpdate' /\ missed \subseteq missed'
    /\ RowWritten(w) \/ (UNCHANGED <<users, lastSet>> /\ tx[w].op # "create")

\* The commit of create is a committed row of one user.
LEMMA CreateEffect ==
    ASSUME TypeOK, NEW w \in Workers, CommitCreate(w)
    PROVE  UserCommitted(w) /\ TypeOK'
<1>1. /\ Open(w) /\ tx[w] \in OpenTx /\ tx[w].pc = "ready" /\ tx[w].op = "create"
      /\ tx[w].user \notin registered /\ NameFree(w) /\ FinishWriting(w)
      /\ registered' = registered \cup {tx[w].user}
      /\ users' = [users EXCEPT ![tx[w].user] = tx[w].row]
      /\ lastSet' = [lastSet EXCEPT ![tx[w].user] = tx[w].row]
      /\ UNCHANGED <<now, sessions, published, mailed, reqs, lostUpdate, missed>>
  BY TxRecord DEF CommitCreate, Ready, Open
<1>2. tx[w].user \in Users /\ tx[w].row \in Row
  BY <1>1, OpenTypes
<1>3. /\ OthersKept(w) /\ tx' \in [Workers -> {Idle} \cup OpenTx]
      /\ \A v \in Workers \ {w} : Open(v) /\ tx[v].user = tx[w].user => tx'[v].stale
  BY <1>1, WritingEffect
<1>4. /\ users' \in [Users -> Row] /\ lastSet' \in [Users -> Row]
      /\ lastSet'[tx[w].user] = tx[w].row
      /\ \A u \in Users : u # tx[w].user => lastSet'[u] = lastSet[u]
  BY <1>1, <1>2 DEF TypeOK
<1>5. RowWritten(w)
  BY <1>1, <1>3, <1>4 DEF RowWritten
<1>6. TypeOK'
  BY <1>1, <1>2, <1>3, <1>4 DEF TypeOK
<1>. QED  BY <1>1, <1>3, <1>5, <1>6 DEF UserCommitted

\* The row an update means to leave: one column of it is the request's.
LEMMA IntentRow ==
    ASSUME NEW a \in Row, NEW b \in Row
    PROVE  /\ [a EXCEPT !.role = b.role] \in Row
           /\ [a EXCEPT !.locked = b.locked] \in Row
           /\ [a EXCEPT !.name = b.name] \in Row
           /\ [a EXCEPT !.password = b.password] \in Row
BY DEF Row

\* So are the commits of the requests that change a row.
LEMMA UpdateEffect ==
    ASSUME TypeOK, NEW w \in Workers,
           CommitRole(w) \/ CommitLock(w) \/ CommitPassword(w) \/ CommitProfile(w)
    PROVE  UserCommitted(w) /\ TypeOK'
<1>1. /\ Open(w) /\ tx[w] \in OpenTx /\ tx[w].pc = "ready"
      /\ tx[w].op \in {"role", "lock", "profile", "password", "reset"}
      /\ UNCHANGED <<now, registered, mailed, reqs>>
  BY TxRecord DEF CommitRole, CommitLock, CommitPassword, CommitProfile, Ready, Open, others
<1>2. /\ tx[w].user \in Users /\ tx[w].row \in Row /\ tx[w].read \in Row /\ tx[w].id \in Requests
      /\ lastSet[tx[w].user] \in Row
  BY <1>1, OpenTypes DEF TypeOK
<1>3. PICK intent \in Row :
         /\ Write(w, intent)
         /\ intent.role = IF tx[w].op = "role" THEN tx[w].row.role ELSE lastSet[tx[w].user].role
         /\ intent.locked = IF tx[w].op = "lock" THEN tx[w].row.locked ELSE lastSet[tx[w].user].locked
         /\ intent.name = IF tx[w].op = "profile" THEN tx[w].row.name ELSE lastSet[tx[w].user].name
         /\ intent.password = IF tx[w].op \in {"password", "reset"} THEN tx[w].row.password
                                                                 ELSE lastSet[tx[w].user].password
  <2>. DEFINE old == lastSet[tx[w].user]
              new == tx[w].row
  <2>1. old \in Row /\ new \in Row
    BY <1>2
  <2>2. CASE CommitRole(w)
    <3>1. Write(w, [old EXCEPT !.role = new.role]) /\ tx[w].op = "role"
      BY <2>2 DEF CommitRole, Ready
    <3>2. [old EXCEPT !.role = new.role] \in Row
      BY <2>1, IntentRow
    <3>. QED  BY <2>1, <3>1, <3>2 DEF Row
  <2>3. CASE CommitLock(w)
    <3>1. Write(w, [old EXCEPT !.locked = new.locked]) /\ tx[w].op = "lock"
      BY <2>3 DEF CommitLock, Ready
    <3>2. [old EXCEPT !.locked = new.locked] \in Row
      BY <2>1, IntentRow
    <3>. QED  BY <2>1, <3>1, <3>2 DEF Row
  <2>4. CASE CommitPassword(w)
    <3>1. Write(w, [old EXCEPT !.password = new.password]) /\ tx[w].op \in {"password", "reset"}
      BY <2>4 DEF CommitPassword, Ready
    <3>2. [old EXCEPT !.password = new.password] \in Row
      BY <2>1, IntentRow
    <3>. QED  BY <2>1, <3>1, <3>2 DEF Row
  <2>5. CASE CommitProfile(w)
    <3>1. Write(w, [old EXCEPT !.name = new.name]) /\ tx[w].op = "profile"
      BY <2>5 DEF CommitProfile, Ready
    <3>2. [old EXCEPT !.name = new.name] \in Row
      BY <2>1, IntentRow
    <3>. QED  BY <2>1, <3>1, <3>2 DEF Row
  <2>. QED  BY <2>2, <2>3, <2>4, <2>5
<1>4. /\ OthersKept(w) /\ tx' \in [Workers -> {Idle} \cup OpenTx]
      /\ lostUpdate' \in {lostUpdate, lostUpdate \cup {tx[w].user}}
      /\ \/ /\ Dirty(w) /\ NameFree(w)
            /\ users' = [users EXCEPT ![tx[w].user] = tx[w].row]
            /\ lastSet' = [lastSet EXCEPT ![tx[w].user] = intent]
            /\ tx[w].stale => tx[w].user \in lostUpdate'
            /\ \A v \in Workers \ {w} : Open(v) /\ tx[v].user = tx[w].user => tx'[v].stale
         \/ ~Dirty(w) /\ UNCHANGED <<users, lastSet, lostUpdate>>
  BY <1>1, <1>3, WriteEffect
<1>5. /\ sessions' \subseteq sessions /\ missed \subseteq missed' /\ missed' \subseteq Requests
      /\ tx[w].op = "role" /\ Dirty(w) => \A s \in sessions' : s.user = tx[w].user => s.id \in missed'
      /\ published' \subseteq RoleEvent
  <2>1. CASE CommitRole(w)
    <3>1. /\ sessions' = sessions \ Invalidated(w) /\ published' = published \cup RoleEvents(w)
          /\ missed' = IF Dirty(w) THEN missed \cup (SessionsOf(tx[w].user) \ tx[w].rows) ELSE missed
      BY <2>1 DEF CommitRole
    <3>2. SessionsOf(tx[w].user) \subseteq Requests
      BY SessionTypes DEF SessionsOf
    <3>3. \A s \in sessions' : s.user = tx[w].user => s.id \in SessionsOf(tx[w].user) \ tx[w].rows
      BY <3>1 DEF SessionsOf, Invalidated
    <3>4. RoleEvents(w) \subseteq RoleEvent
      BY <1>2, RowTypes DEF RoleEvents, RoleChange, RoleEvent
    <3>. QED  BY <3>1, <3>2, <3>3, <3>4 DEF TypeOK
  <2>2. CASE CommitLock(w) \/ CommitPassword(w) \/ CommitProfile(w)
    BY <2>2 DEF CommitLock, CommitPassword, CommitProfile, Ready, others, TypeOK
  <2>. QED  BY <2>1, <2>2
<1>6. /\ users' \in [Users -> Row] /\ lastSet' \in [Users -> Row]
      /\ lostUpdate' \subseteq Users /\ lostUpdate \subseteq lostUpdate'
  BY <1>2, <1>4 DEF TypeOK
<1>7. TypeOK'
  BY <1>1, <1>4, <1>5, <1>6 DEF TypeOK
<1>8. CASE Dirty(w)
  <2>1. /\ users' = [users EXCEPT ![tx[w].user] = tx[w].row] /\ NameFree(w)
        /\ lastSet' = [lastSet EXCEPT ![tx[w].user] = intent]
        /\ tx[w].stale => tx[w].user \in lostUpdate'
        /\ \A v \in Workers \ {w} : Open(v) /\ tx[v].user = tx[w].user => tx'[v].stale
    BY <1>4, <1>8
  <2>2. /\ lastSet'[tx[w].user] = intent
        /\ \A u \in Users : u # tx[w].user => lastSet'[u] = lastSet[u]
    BY <1>2, <2>1 DEF TypeOK
  <2>3. tx[w].op = "role" => \A s \in sessions' : s.user = tx[w].user => s.id \in missed'
    BY <1>5, <1>8
  <2>4. RowWritten(w)
    BY <1>1, <1>3, <1>6, <2>1, <2>2, <2>3 DEF RowWritten
  <2>. QED  BY <1>1, <1>4, <1>5, <1>6, <1>7, <2>4 DEF UserCommitted
<1>9. CASE ~Dirty(w)
  BY <1>1, <1>4, <1>5, <1>6, <1>7, <1>9 DEF UserCommitted
<1>. QED  BY <1>8, <1>9

\* A committed row of one user keeps the invariant.
LEMMA UserCommitInv ==
    ASSUME AccountInv, NEW w \in Workers, UserCommitted(w), TypeOK'
    PROVE  AccountInv'
<1>. USE DEF AccountInv
<1>1. /\ Open(w) /\ tx[w].pc = "ready"
      /\ tx[w].op \in {"create", "role", "lock", "profile", "password", "reset"}
      /\ tx[w].user \in Users /\ tx[w].read \in Row /\ tx[w].row \in Row
      /\ UNCHANGED <<now, mailed, reqs>>
      /\ registered' = IF tx[w].op = "create" THEN registered \cup {tx[w].user} ELSE registered
      /\ tx[w].op = "create" => tx[w].user \notin registered
      /\ sessions' \subseteq sessions
      /\ lostUpdate \subseteq lostUpdate' /\ missed \subseteq missed'
  BY OpenTypes DEF UserCommitted
<1>2. /\ ~Open(w)'
      /\ \A v \in Workers \ {w} :
            /\ Open(v)' <=> Open(v)
            /\ Open(v) =>
                  /\ tx'[v].pc = tx[v].pc /\ tx'[v].op = tx[v].op
                  /\ tx'[v].user = tx[v].user /\ tx'[v].id = tx[v].id
                  /\ tx'[v].read = tx[v].read /\ tx'[v].row = tx[v].row
                  /\ tx'[v].rows = tx[v].rows /\ tx'[v].token = tx[v].token
                  /\ tx[v].stale => tx'[v].stale
  BY DEF UserCommitted, OthersKept
<1>3. \/ /\ RowWritten(w)
         /\ users'[tx[w].user] = tx[w].row
         /\ \A u \in Users : u # tx[w].user => users'[u] = users[u]
      \/ UNCHANGED <<users, lastSet>> /\ tx[w].op # "create"
  BY <1>1 DEF UserCommitted, RowWritten, TypeOK
<1>4. registered \subseteq Users /\ registered \subseteq registered'
  BY <1>1 DEF TypeOK
<1>5. OwnColumn(tx[w]) /\ Known(tx[w].read) /\ (~tx[w].stale => tx[w].read = users[tx[w].user])
  BY <1>1 DEF OwnColumns, PasswordsKnown, FreshCopies
<1>6. IdsApart'
  BY <1>1, <1>2 DEF IdsApart
<1>7. KnownUsers'
  BY <1>1, <1>2, <1>4 DEF KnownUsers
<1>8. FreshCopies'
  <2>1. ASSUME NEW v \in Workers, Open(v)', ~tx'[v].stale
        PROVE  tx'[v].read = users'[tx'[v].user]
    <3>1. v # w /\ Open(v) /\ ~tx[v].stale /\ tx'[v].read = tx[v].read /\ tx'[v].user = tx[v].user
      BY <1>2, <2>1
    <3>2. tx[v].read = users[tx[v].user] /\ tx[v].user \in Users
      BY <3>1, OpenTypes DEF FreshCopies
    <3>3. CASE RowWritten(w)
      <4>1. tx[v].user # tx[w].user
        BY <2>1, <3>1, <3>3 DEF RowWritten
      <4>. QED  BY <1>3, <3>1, <3>2, <4>1
    <3>4. CASE UNCHANGED users
      BY <3>1, <3>2, <3>4
    <3>. QED  BY <1>3, <3>3, <3>4
  <2>. QED  BY <2>1 DEF FreshCopies
<1>9. OwnColumns'
  BY <1>2 DEF OwnColumns, OwnColumn
<1>10. PasswordsKnown'
  <2>1. Known(tx[w].row)
    BY <1>1, <1>5 DEF PasswordsKnown, OwnColumn, Known
  <2>2. \A u \in Users : Known(users'[u])
    BY <1>1, <1>3, <2>1 DEF PasswordsKnown
  <2>3. ASSUME NEW v \in Workers, Open(v)'
        PROVE  /\ Known(tx'[v].read)
               /\ tx'[v].op = "create" => Known(tx'[v].row)
               /\ tx'[v].op \in {"password", "reset"} /\ tx'[v].pc = "ready" => Known(tx'[v].row)
               /\ tx'[v].op = "reset" => tx'[v].row.password = Temporary(tx'[v].id)
    BY <1>2, <2>3 DEF PasswordsKnown
  <2>. QED  BY <1>1, <2>2, <2>3 DEF PasswordsKnown, Known, Temporary
<1>11. \A s \in sessions' : s.user \notin lostUpdate' /\ s.id \notin missed' =>
                               users'[s.user].role = users[s.user].role
  <2>1. ASSUME NEW s \in sessions', s.user \notin lostUpdate', s.id \notin missed', RowWritten(w),
               s.user = tx[w].user
        PROVE  tx[w].row.role = users[s.user].role
    <3>1. tx[w].op # "create"
      BY <1>1, <2>1 DEF KnownUsers
    <3>2. tx[w].op # "role" /\ ~tx[w].stale
      BY <2>1, <3>1 DEF RowWritten
    <3>. QED  BY <1>5, <2>1, <3>1, <3>2 DEF OwnColumn
  <2>2. \A s \in sessions' : s.user \in Users
    BY <1>1, SessionTypes
  <2>. QED  BY <1>1, <1>3, <2>1, <2>2
<1>12. SignedOpen'
  <2>1. ASSUME NEW v \in Workers, Open(v)'
        PROVE  Signed(v)'
    <3>1. v # w /\ Open(v) /\ Signed(v)
      BY <1>2, <2>1 DEF SignedOpen
    <3>2. /\ tx'[v].pc = tx[v].pc /\ tx'[v].op = tx[v].op /\ tx'[v].user = tx[v].user
          /\ tx'[v].read = tx[v].read /\ tx'[v].rows = tx[v].rows /\ tx'[v].token = tx[v].token
      BY <1>2, <3>1
    <3>3. tx[v].op = "refresh" => \A s \in sessions' : s.id \in tx[v].rows =>
             /\ s.user = tx[v].user
             /\ tx[v].pc = "ready" /\ s.user \notin lostUpdate' /\ s.id \notin missed'
                   => tx[v].token.role = users'[s.user].role
      BY <1>1, <1>11, <3>1 DEF Signed
    <3>. QED  BY <3>1, <3>2, <3>3 DEF Signed
  <2>. QED  BY <2>1 DEF SignedOpen
<1>13. UniqueColumns'
  <2>1. \A u, v \in registered : users[u].name = users[v].name => u = v
    BY DEF UniqueColumns
  <2>2. \A u \in registered' : u \in registered \/ u = tx[w].user
    BY <1>1
  <2>3. CASE RowWritten(w)
    <3>1. \A u \in registered : u # tx[w].user => users'[u] = users[u] /\ users[u].name # tx[w].row.name
      BY <1>3, <1>4, <2>3 DEF RowWritten, NameFree
    <3>2. users'[tx[w].user] = tx[w].row
      BY <1>1, <2>3 DEF RowWritten, TypeOK
    <3>3. \A u, v \in registered' : users'[u].name = users'[v].name => u = v
      BY <2>1, <2>2, <3>1, <3>2
    <3>. QED  BY <1>1, <3>3 DEF UniqueColumns
  <2>4. CASE UNCHANGED <<users, lastSet>> /\ tx[w].op # "create"
    BY <1>1, <2>4 DEF UniqueColumns
  <2>. QED  BY <1>3, <2>3, <2>4
<1>14. AccountExactUnlessOverwritten'
  <2>1. ASSUME NEW u \in registered' \ lostUpdate'
        PROVE  users'[u] = lastSet'[u]
    <3>1. CASE UNCHANGED <<users, lastSet>> /\ tx[w].op # "create"
      BY <1>1, <2>1, <3>1 DEF AccountExactUnlessOverwritten
    <3>2. CASE RowWritten(w) /\ u # tx[w].user
      <4>1. u \in registered \ lostUpdate /\ u \in Users
        BY <1>1, <1>4, <2>1, <3>2
      <4>2. users'[u] = users[u] /\ lastSet'[u] = lastSet[u]
        BY <1>1, <3>2, <4>1 DEF RowWritten, TypeOK
      <4>. QED  BY <4>1, <4>2 DEF AccountExactUnlessOverwritten
    <3>3. CASE RowWritten(w) /\ u = tx[w].user /\ tx[w].op = "create"
      BY <1>1, <3>3 DEF RowWritten, TypeOK
    <3>4. CASE RowWritten(w) /\ u = tx[w].user /\ tx[w].op # "create"
      <4>1. u \in registered \ lostUpdate /\ ~tx[w].stale
        BY <1>1, <2>1, <3>4 DEF RowWritten
      <4>2. lastSet[u] = tx[w].read
        BY <1>5, <3>4, <4>1 DEF AccountExactUnlessOverwritten
      <4>3. users'[u] = tx[w].row /\ lastSet'[u] \in Row
        BY <1>1, <3>4 DEF RowWritten, TypeOK
      <4>4. /\ lastSet'[u].role = tx[w].row.role /\ lastSet'[u].locked = tx[w].row.locked
            /\ lastSet'[u].name = tx[w].row.name /\ lastSet'[u].password = tx[w].row.password
        BY <1>5, <3>4, <4>2 DEF RowWritten, OwnColumn
      <4>. QED  BY <1>1, <4>3, <4>4, RowColumns
    <3>. QED  BY <1>3, <3>1, <3>2, <3>3, <3>4
  <2>2. \A u \in registered' : u \in Users
    BY <1>1, <1>4
  <2>3. \A u \in registered' : Known(users[u])'
    BY <1>10, <2>2 DEF PasswordsKnown
  <2>. QED  BY <2>1, <2>3 DEF AccountExactUnlessOverwritten, Known
<1>15. SessionsCarryRole'
  BY <1>1, <1>11 DEF SessionsCarryRole
<1>. QED  BY <1>6, <1>7, <1>8, <1>9, <1>10, <1>12, <1>13, <1>14, <1>15

---------------------------------------------------------------------------
(* Ends that write no user *)

\* A request that ends without touching users keeps all that is said of them.
LEMMA EndKeeps ==
    ASSUME AccountInv, NEW w \in Workers, OthersKept(w),
           UNCHANGED <<registered, users, mailed, lostUpdate, lastSet>>
    PROVE  /\ FreshCopies' /\ OwnColumns' /\ PasswordsKnown' /\ AccountExactUnlessOverwritten'
           /\ \A u, v \in registered' : users'[u].name = users'[v].name => u = v
<1>1. FreshCopies'
  BY DEF AccountInv, FreshCopies, OthersKept
<1>2. OwnColumns'
  BY DEF AccountInv, OwnColumns, OwnColumn, OthersKept
<1>3. PasswordsKnown'
  BY DEF AccountInv, PasswordsKnown, Known, Temporary, OthersKept
<1>4. AccountExactUnlessOverwritten'
  BY DEF AccountInv, AccountExactUnlessOverwritten
<1>5. \A u, v \in registered' : users'[u].name = users'[v].name => u = v
  BY DEF AccountInv, UniqueColumns
<1>. QED  BY <1>1, <1>2, <1>3, <1>4, <1>5

\* A login stores a session with its own number.
LEMMA CommitLoginInv ==
    ASSUME AccountInv, NEW w \in Workers, CommitLogin(w)
    PROVE  AccountInv'
<1>. USE DEF AccountInv
<1>. DEFINE new == [id |-> tx[w].id, user |-> tx[w].user, token |-> tx[w].token]
<1>1. /\ Open(w) /\ tx[w].op = "login" /\ tx[w].pc = "ready" /\ TokenFree(w)
      /\ sessions' = sessions \cup {new}
      /\ missed' = IF tx[w].stale THEN missed \cup {tx[w].id} ELSE missed
      /\ UNCHANGED <<now, registered, users, published, mailed, reqs, lostUpdate, lastSet>>
  BY DEF CommitLogin, Ready, Open
<1>2. OthersKept(w) /\ tx' \in [Workers -> {Idle} \cup OpenTx]
  BY FinishEffect DEF CommitLogin
<1>3. /\ tx[w].id \in Requests /\ tx[w].user \in Users /\ tx[w].stale \in BOOLEAN
      /\ tx[w].token \in Token /\ tx[w].token.user = tx[w].user /\ tx[w].rows = {}
      /\ tx[w].token.role = tx[w].read.role
      /\ tx[w].user \in registered
      /\ tx[w].id <= reqs /\ \A s \in sessions : s.id # tx[w].id
      /\ ~tx[w].stale => tx[w].read = users[tx[w].user]
  BY <1>1, OpenTypes DEF SignedOpen, Signed, KnownUsers, IdsApart, FreshCopies
<1>4. new.id = tx[w].id /\ new.user = tx[w].user /\ new.token = tx[w].token /\ new \in SessionRow
  BY <1>3 DEF SessionRow
<1>. HIDE DEF new
<1>5. TypeOK'
  BY <1>1, <1>2, <1>3, <1>4 DEF TypeOK
<1>6. missed \subseteq missed' /\ (tx[w].stale => tx[w].id \in missed')
  BY <1>1
<1>7. IdsApart'
  <2>1. \A s, r \in sessions' : s.id = r.id => s = r
    BY <1>1, <1>3, <1>4 DEF IdsApart
  <2>2. \A v \in Workers \ {w} : Open(v) => tx[v].id # tx[w].id /\ tx[w].id \notin tx[v].rows
    BY <1>1 DEF IdsApart
  <2>3. ASSUME NEW v \in Workers, Open(v)'
        PROVE  /\ tx'[v].id <= reqs /\ \A i \in tx'[v].rows : i <= reqs
               /\ \A s \in sessions' : s.id # tx'[v].id
               /\ \A x \in Workers : Open(x)' =>
                     tx'[v].id \notin tx'[x].rows /\ (x # v => tx'[x].id # tx'[v].id)
    BY <1>1, <1>2, <1>4, <2>2, <2>3 DEF IdsApart, OthersKept
  <2>4. \A s \in sessions' : s.id <= reqs
    BY <1>1, <1>3, <1>4 DEF IdsApart
  <2>. QED  BY <1>1, <2>1, <2>3, <2>4 DEF IdsApart
<1>8. KnownUsers'
  BY <1>1, <1>2, <1>3, <1>4 DEF KnownUsers, OthersKept
<1>9. SignedOpen'
  <2>1. ASSUME NEW v \in Workers, Open(v)'
        PROVE  Signed(v)'
    <3>1. v # w /\ Open(v) /\ Signed(v) /\ new.id \notin tx[v].rows
      BY <1>1, <1>2, <1>4, <2>1 DEF OthersKept, SignedOpen, IdsApart
    <3>2. /\ tx'[v].pc = tx[v].pc /\ tx'[v].op = tx[v].op /\ tx'[v].user = tx[v].user
          /\ tx'[v].read = tx[v].read /\ tx'[v].rows = tx[v].rows /\ tx'[v].token = tx[v].token
      BY <1>2, <3>1 DEF OthersKept
    <3>. QED  BY <1>1, <1>6, <3>1, <3>2 DEF Signed
  <2>. QED  BY <2>1 DEF SignedOpen
<1>10. UniqueColumns'
  <2>1. \A s \in sessions : s.token # new.token
    BY <1>1, <1>3, <1>4 DEF TokenFree
  <2>2. \A s, r \in sessions' : s.token = r.token => s = r
    BY <1>1, <2>1 DEF UniqueColumns
  <2>. QED  BY <1>1, <1>2, <2>2, EndKeeps DEF UniqueColumns
<1>11. SessionsCarryRole'
  <2>1. ASSUME NEW s \in sessions'
        PROVE  /\ s.token.user = s.user
               /\ s.user \notin lostUpdate /\ s.id \notin missed' => s.token.role = users[s.user].role
    <3>1. CASE s \in sessions
      BY <1>6, <3>1 DEF SessionsCarryRole
    <3>2. CASE s = new
      BY <1>3, <1>4, <1>6, <3>2
    <3>. QED  BY <1>1, <3>1, <3>2
  <2>. QED  BY <1>1, <2>1 DEF SessionsCarryRole
<1>. QED  BY <1>1, <1>2, <1>5, <1>7, <1>8, <1>9, <1>10, <1>11, EndKeeps

\* What a refresh does to the table of sessions: the one it loaded, if it is
\* still there, gets the new token.
LEMMA RefreshEffect ==
    ASSUME AccountInv, NEW w \in Workers, CommitRefresh(w)
    PROVE  /\ TokenFree(w)
           /\ \A s \in sessions' : \E r \in sessions :
                 /\ s.id = r.id /\ s.user = r.user
                 /\ r.id \in tx[w].rows => s = [r EXCEPT !.token = tx[w].token] /\ s.token = tx[w].token
                 /\ r.id \notin tx[w].rows => s = r
           /\ sessions' \subseteq SessionRow
<1>. USE DEF AccountInv
<1>1. /\ Open(w) /\ tx[w].op = "refresh" /\ tx[w].pc = "ready" /\ TokenFree(w)
      /\ sessions' = {IF s.id \in tx[w].rows THEN [s EXCEPT !.token = tx[w].token] ELSE s :
                         s \in sessions}
  BY DEF CommitRefresh, Ready, Open
<1>2. tx[w].token \in Token
  BY <1>1 DEF SignedOpen, Signed
<1>3. ASSUME NEW s \in sessions'
      PROVE  /\ s \in SessionRow
             /\ \E r \in sessions :
                   /\ s.id = r.id /\ s.user = r.user
                   /\ r.id \in tx[w].rows => s = [r EXCEPT !.token = tx[w].token] /\ s.token = tx[w].token
                   /\ r.id \notin tx[w].rows => s = r
  <2>1. PICK r \in sessions :
           s = IF r.id \in tx[w].rows THEN [r EXCEPT !.token = tx[w].token] ELSE r
    BY <1>1
  <2>2. r \in SessionRow
    BY SessionTypes
  <2>3. /\ [r EXCEPT !.token = tx[w].token] \in SessionRow
        /\ [r EXCEPT !.token = tx[w].token].id = r.id
        /\ [r EXCEPT !.token = tx[w].token].user = r.user
        /\ [r EXCEPT !.token = tx[w].token].token = tx[w].token
    BY <1>2, <2>2 DEF SessionRow
  <2>. QED  BY <2>1, <2>2, <2>3
<1>. QED  BY <1>1, <1>3

\* A refresh that finds its session gone writes none.
LEMMA CommitRefreshInv ==
    ASSUME AccountInv, NEW w \in Workers, CommitRefresh(w)
    PROVE  AccountInv'
<1>. USE DEF AccountInv
<1>1. /\ Open(w) /\ tx[w].op = "refresh" /\ tx[w].pc = "ready"
      /\ UNCHANGED <<now, registered, users, published, mailed, reqs, lostUpdate, lastSet, missed>>
  BY DEF CommitRefresh, Ready, Open, ghosts
<1>2. OthersKept(w) /\ tx' \in [Workers -> {Idle} \cup OpenTx]
  BY FinishEffect DEF CommitRefresh
<1>3. /\ tx[w].token.user = tx[w].user
      /\ \A i, j \in tx[w].rows : i = j
      /\ \A s \in sessions : s.id \in tx[w].rows =>
            /\ s.user = tx[w].user
            /\ s.user \notin lostUpdate /\ s.id \notin missed => tx[w].token.role = users[s.user].role
  BY <1>1 DEF SignedOpen, Signed
<1>4. /\ sessions' \subseteq SessionRow
      /\ \A s \in sessions' : \E r \in sessions :
            /\ s.id = r.id /\ s.user = r.user
            /\ s = r \/ (r.id \in tx[w].rows /\ s.token = tx[w].token)
  BY RefreshEffect
<1>5. TypeOK'
  BY <1>1, <1>2, <1>4 DEF TypeOK
<1>6. \A s, r \in sessions' : s.id = r.id \/ s.token = r.token => s = r
  <2>1. ASSUME NEW s \in sessions', NEW r \in sessions', s.id = r.id \/ s.token = r.token
        PROVE  s = r
    <3>1. PICK a \in sessions :
             /\ s.id = a.id
             /\ a.id \in tx[w].rows => s = [a EXCEPT !.token = tx[w].token] /\ s.token = tx[w].token
             /\ a.id \notin tx[w].rows => s = a
      BY RefreshEffect
    <3>2. PICK b \in sessions :
             /\ r.id = b.id
             /\ b.id \in tx[w].rows => r = [b EXCEPT !.token = tx[w].token] /\ r.token = tx[w].token
             /\ b.id \notin tx[w].rows => r = b
      BY RefreshEffect
    <3>3. \A x \in sessions : x.token = tx[w].token => x.id \in tx[w].rows
      BY RefreshEffect DEF TokenFree
    <3>4. a = b
      <4>1. CASE a.id \in tx[w].rows /\ b.id \in tx[w].rows
        BY <1>3, <4>1 DEF IdsApart
      <4>2. CASE a.id \notin tx[w].rows /\ b.id \notin tx[w].rows
        BY <2>1, <3>1, <3>2, <4>2 DEF IdsApart, UniqueColumns
      <4>3. CASE ~(a.id \in tx[w].rows <=> b.id \in tx[w].rows)
        BY <2>1, <3>1, <3>2, <3>3, <4>3
      <4>. QED  BY <4>1, <4>2, <4>3
    <3>. QED  BY <3>1, <3>2, <3>4
  <2>. QED  BY <2>1
<1>7. IdsApart'
  <2>1. \A s \in sessions' : \E r \in sessions : s.id = r.id
    BY <1>4
  <2>2. \A s \in sessions' : s.id <= reqs
    BY <2>1 DEF IdsApart
  <2>3. ASSUME NEW v \in Workers, Open(v)'
        PROVE  /\ tx'[v].id <= reqs /\ \A i \in tx'[v].rows : i <= reqs
               /\ \A s \in sessions' : s.id # tx'[v].id
               /\ \A x \in Workers : Open(x)' =>
                     tx'[v].id \notin tx'[x].rows /\ (x # v => tx'[x].id # tx'[v].id)
    BY <1>2, <2>1, <2>3 DEF IdsApart, OthersKept
  <2>. QED  BY <1>1, <1>6, <2>2, <2>3 DEF IdsApart
<1>8. KnownUsers'
  BY <1>1, <1>2, <1>4 DEF KnownUsers, OthersKept
<1>9. SignedOpen'
  <2>1. ASSUME NEW v \in Workers, Open(v)'
        PROVE  Signed(v)'
    <3>1. v # w /\ Open(v) /\ Signed(v)
      BY <1>2, <2>1 DEF OthersKept, SignedOpen
    <3>2. /\ tx'[v].pc = tx[v].pc /\ tx'[v].op = tx[v].op /\ tx'[v].user = tx[v].user
          /\ tx'[v].read = tx[v].read /\ tx'[v].rows = tx[v].rows /\ tx'[v].token = tx[v].token
      BY <1>2, <3>1 DEF OthersKept
    <3>3. tx[v].op = "refresh" => \A s \in sessions' : s.id \in tx[v].rows =>
             /\ s.user = tx[v].user
             /\ tx[v].pc = "ready" /\ s.user \notin lostUpdate /\ s.id \notin missed
                   => tx[v].token.role = users[s.user].role
      BY <1>4, <3>1 DEF Signed
    <3>. QED  BY <1>1, <3>1, <3>2, <3>3 DEF Signed
  <2>. QED  BY <2>1 DEF SignedOpen
<1>10. UniqueColumns'
  BY <1>1, <1>2, <1>6, EndKeeps DEF UniqueColumns
<1>11. SessionsCarryRole'
  <2>1. ASSUME NEW s \in sessions'
        PROVE  /\ s.token.user = s.user
               /\ s.user \notin lostUpdate /\ s.id \notin missed => s.token.role = users[s.user].role
    BY <1>3, <1>4 DEF SessionsCarryRole
  <2>. QED  BY <1>1, <2>1 DEF SessionsCarryRole
<1>. QED  BY <1>1, <1>2, <1>5, <1>7, <1>8, <1>9, <1>10, <1>11, EndKeeps

\* A logout takes its session away; a rollback leaves everything.
LEMMA LogoutInv ==
    ASSUME AccountInv, NEW w \in Workers, CommitLogout(w) \/ Rollback(w)
    PROVE  AccountInv'
<1>. USE DEF AccountInv
<1>1. /\ sessions' \subseteq sessions
      /\ UNCHANGED <<now, registered, users, published, mailed, reqs, lostUpdate, lastSet, missed>>
  BY DEF CommitLogout, Rollback, readOnly, ghosts
<1>2. OthersKept(w) /\ tx' \in [Workers -> {Idle} \cup OpenTx]
  BY FinishEffect DEF CommitLogout, Rollback
<1>3. TypeOK'
  BY <1>1, <1>2 DEF TypeOK
<1>4. IdsApart' /\ KnownUsers'
  BY <1>1, <1>2 DEF IdsApart, KnownUsers, OthersKept
<1>5. SignedOpen'
  <2>1. ASSUME NEW v \in Workers, Open(v)'
        PROVE  Signed(v)'
    <3>1. v # w /\ Open(v) /\ Signed(v)
      BY <1>2, <2>1 DEF OthersKept, SignedOpen
    <3>2. /\ tx'[v].pc = tx[v].pc /\ tx'[v].op = tx[v].op /\ tx'[v].user = tx[v].user
          /\ tx'[v].read = tx[v].read /\ tx'[v].rows = tx[v].rows /\ tx'[v].token = tx[v].token
      BY <1>2, <3>1 DEF OthersKept
    <3>. QED  BY <1>1, <3>1, <3>2 DEF Signed
  <2>. QED  BY <2>1 DEF SignedOpen
<1>6. UniqueColumns' /\ SessionsCarryRole'
  BY <1>1 DEF UniqueColumns, SessionsCarryRole
<1>. QED  BY <1>1, <1>2, <1>3, <1>4, <1>5, <1>6, EndKeeps

\* Time passes, or nothing happens.
LEMMA TickInv ==
    ASSUME AccountInv, Tick \/ UNCHANGED vars
    PROVE  AccountInv'
<1>. USE DEF AccountInv
<1>1. UNCHANGED <<registered, users, sessions, published, mailed, tx, reqs, lostUpdate, lastSet, missed>>
  BY DEF Tick, vars, ghosts
<1>2. now' \in 0..MaxTime
  BY AccountAssumption DEF Tick, vars, TypeOK
<1>3. TypeOK'
  BY <1>1, <1>2 DEF TypeOK
<1>4. \A w \in Workers : Open(w)' <=> Open(w)
  BY <1>1 DEF Open
<1>5. IdsApart' /\ KnownUsers' /\ FreshCopies'
  BY <1>1, <1>4 DEF IdsApart, KnownUsers, FreshCopies
<1>6. OwnColumns' /\ PasswordsKnown'
  BY <1>1, <1>4 DEF OwnColumns, OwnColumn, PasswordsKnown, Known, Temporary
<1>7. SignedOpen'
  BY <1>1, <1>4 DEF SignedOpen, Signed
<1>8. UniqueColumns' /\ AccountExactUnlessOverwritten' /\ SessionsCarryRole'
  BY <1>1 DEF UniqueColumns, AccountExactUnlessOverwritten, SessionsCarryRole
<1>. QED  BY <1>3, <1>5, <1>6, <1>7, <1>8

\* Every step keeps the invariant.
LEMMA NextInv == AccountInv /\ [Next]_vars => AccountInv'
<1>. SUFFICES ASSUME AccountInv, [Next]_vars PROVE AccountInv'
  OBVIOUS
<1>1. CASE Tick \/ UNCHANGED vars
  BY <1>1, TickInv
<1>2. ASSUME NEW w \in Workers, Begin(w) \/ Proceed(w) \/ Commit(w) \/ Rollback(w)
      PROVE  AccountInv'
  <2>0. TypeOK
    BY DEF AccountInv
  <2>1. CASE Begin(w)
    BY <2>1, BeginInv
  <2>2. CASE Proceed(w)
    BY <2>2, SelectSessionsInv, SendMailInv, SignInv DEF Proceed
  <2>3. CASE CommitCreate(w)
    BY <2>0, <2>3, CreateEffect, UserCommitInv
  <2>4. CASE CommitRole(w) \/ CommitLock(w) \/ CommitPassword(w) \/ CommitProfile(w)
    BY <2>0, <2>4, UpdateEffect, UserCommitInv
  <2>5. CASE CommitLogin(w) \/ CommitRefresh(w) \/ CommitLogout(w)
    BY <2>5, CommitLoginInv, CommitRefreshInv, LogoutInv
  <2>6. CASE Rollback(w)
    BY <2>6, LogoutInv
  <2>. QED  BY <1>2, <2>1, <2>2, <2>3, <2>4, <2>5, <2>6 DEF Commit
<1>. QED  BY <1>1, <1>2 DEF Next

\* It holds in every reachable state.
LEMMA AccountInvariant == Spec => []AccountInv
<1>. QED  BY InitInv, NextInv, PTL DEF Spec

---------------------------------------------------------------------------
(* The properties *)

\* TypeOK: every variable keeps its type; a session always has a token, and
\* its number is that of a request.
THEOREM TypeCorrect == Spec => []TypeOK
<1>1. AccountInv => TypeOK
  BY DEF AccountInv
<1>. QED  BY AccountInvariant, <1>1, PTL

\* UniqueColumns: no two users have one name and no two sessions one token,
\* however requests interleave and copies are overtaken.
THEOREM ColumnsUnique == Spec => []UniqueColumns
<1>1. AccountInv => UniqueColumns
  BY DEF AccountInv
<1>. QED  BY AccountInvariant, <1>1, PTL

\* AccountExactUnlessOverwritten: what was set stays set unless a stale copy
\* was written, and a stored temporary password was mailed.
THEOREM AccountExact == Spec => []AccountExactUnlessOverwritten
<1>1. AccountInv => AccountExactUnlessOverwritten
  BY DEF AccountInv
<1>. QED  BY AccountInvariant, <1>1, PTL

\* SessionsCarryRole: a session carries the role of its user, outside the
\* excepted interleavings of updateRole with signIn.
THEOREM RoleCarried == Spec => []SessionsCarryRole
<1>1. AccountInv => SessionsCarryRole
  BY DEF AccountInv
<1>. QED  BY AccountInvariant, <1>1, PTL

\* A session enters the table only with the commit of the login that made it.
LEMMA NextEnter == AccountInv /\ [Next]_vars => [EnterByLogin]_vars
<1>. SUFFICES ASSUME AccountInv, Next PROVE EnterByLogin
  OBVIOUS
<1>. USE DEF AccountInv
<1>1. CASE \E w \in Workers : CommitLogin(w)
  <2>1. PICK w \in Workers : CommitLogin(w)
    BY <1>1
  <2>2. /\ Ready(w, "login")
        /\ sessions' = sessions \cup {[id |-> tx[w].id, user |-> tx[w].user, token |-> tx[w].token]}
    BY <2>1 DEF CommitLogin
  <2>. QED  BY <2>2 DEF EnterByLogin, SessionIds
<1>2. CASE \E w \in Workers : CommitRefresh(w)
  <2>1. PICK w \in Workers : CommitRefresh(w)
    BY <1>2
  <2>2. \A s \in sessions' : \E r \in sessions : s.id = r.id
    BY <2>1, RefreshEffect DEF CommitRefresh
  <2>. QED  BY <2>2 DEF EnterByLogin, SessionIds
<1>3. CASE sessions' \subseteq sessions
  BY <1>3 DEF EnterByLogin, SessionIds
<1>4. \A w \in Workers : Begin(w) \/ Proceed(w) => sessions' = sessions
  <2>1. \A w \in Workers : Begin(w) => \E t : Start(w, t)
    BY DEF Begin, BeginCreate, BeginRole, BeginLock, BeginProfile, BeginPassword, BeginReset,
           BeginLogin, BeginRefresh, BeginLogout
  <2>2. \A w \in Workers : Proceed(w) => sessions' = sessions
    BY DEF Proceed, SelectSessions, SendMail, SignLogin, SignRefresh, readOnly
  <2>. QED  BY <2>1, <2>2 DEF Start
<1>5. \A w \in Workers : CommitCreate(w) \/ CommitRole(w) \/ CommitLock(w) \/ CommitPassword(w)
                         \/ CommitProfile(w) \/ CommitLogout(w) \/ Rollback(w)
                            => sessions' \subseteq sessions
  BY CreateEffect, UpdateEffect
  DEF UserCommitted, CommitLogout, Rollback, others, readOnly
<1>6. Tick => sessions' = sessions
  BY DEF Tick
<1>7. CASE \E w \in Workers : Commit(w)
  BY <1>1, <1>2, <1>3, <1>5, <1>7 DEF Commit
<1>. QED  BY <1>3, <1>4, <1>5, <1>6, <1>7 DEF Next

\* RevokedForGood: a session enters the table with its login and never again,
\* so that a refresh brings back none that a logout or a new role deleted.
THEOREM RevokedStays == Spec => RevokedForGood
<1>1. Spec => [][EnterByLogin]_vars
  BY AccountInvariant, NextEnter, PTL DEF Spec
<1>. QED  BY <1>1 DEF RevokedForGood

=============================================================================
