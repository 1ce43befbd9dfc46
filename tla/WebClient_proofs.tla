-------------------------- MODULE WebClient_proofs --------------------------
(***************************************************************************)
(* Proofs about the two parts of the web client that are modelled, for any *)
(* set of profiles, any number of actions, notes, pages and tokens: first  *)
(* FollowPage, then NotificationBell.  The two share no state.             *)
(***************************************************************************)
EXTENDS FollowPage, NotificationBell, FiniteSetTheorems, SequenceTheorems,
        WellFoundedInduction, TLAPS

---------------------------------------------------------------------------
(* FollowPage: the inductive invariant *)

\* A follow under way has the number of the click that asked for it.
NumberedOp(o) == o.kind = "create" => o.id \in 1..MaxActions
Numbered == NumberedOp(op) /\ \A o \in abandoned : NumberedOp(o)

\* Before a profile is opened there is nothing to wait for and nothing to show.
BeforePage == page = Nobody => summary = NoSummary /\ op.kind = "none"

\* The summary s tells what the table F holds for p.
RowsIn(F, p) == {r \in F : r.of = p}
Tells(F, s, p) == s.of = p /\ {r.id : r \in RowsIn(F, p)} = {s.id} \ {0}

\* While the page waits for nothing that changes the rows or the summary, a
\* page that was told shows what is stored.
Resting == op.kind \in {"none", "list"} \/ (op.kind \in {"create", "cancel"} /\ op.pc = "sent")
PageTold == told /\ Resting => Tells(follows, summary, page)

\* A follow that was told finds no row, a cancel the only one.
ChangeTold ==
    op.kind \in {"create", "cancel"} /\ op.pc = "sent" /\ op.told =>
        {r.id : r \in RowsIn(follows, op.of)} = IF op.kind = "create" THEN {} ELSE {op.id}

\* A request has no answer before it is served.
SentBlank == op.kind = "summary" /\ op.pc = "sent" => op.answer = NoSummary

\* An answer that was not overtaken tells what is stored.
AnswerTold ==
    op.kind = "summary" /\ op.pc = "served" /\ op.answer # NoSummary =>
        op.answer.of = op.of /\ (op.told => Tells(follows, op.answer, op.of))

TypeInv == TypeOK /\ Numbered /\ BeforePage
ToldInv == PageTold /\ ChangeTold /\ SentBlank /\ AnswerTold

---------------------------------------------------------------------------
(* FollowPage: types *)

\* What a request is when it is sent.
LEMMA SentType ==
    ASSUME NEW k \in {"summary", "list", "create", "cancel"}, NEW p \in Profiles,
           NEW i \in 0..MaxActions, NEW t \in BOOLEAN
    PROVE  Sent(k, p, i, t) \in Ops
BY DEF Sent, Ops

\* A change leaves rows.
LEMMA ChangedType ==
    ASSUME TypeInv, NEW o \in Ops, o.kind = "create" => o.id \in 1..MaxActions
    PROVE  Changed(o) \subseteq [id : 1..MaxActions, of : Profiles]
BY DEF TypeInv, TypeOK, Changed, Ops

\* An operation that is out is not the absence of one.
LEMMA OpType == TypeInv /\ op.kind # "none" => op \in Ops
BY DEF TypeInv, TypeOK, NoOp

\* The initial state has its types.
LEMMA InitType == Init => TypeInv
<1>. SUFFICES ASSUME Init PROVE TypeInv
  OBVIOUS
<1>1. TypeOK
  <2>1. actions \in 0..MaxActions
    BY FollowPageAssumption DEF Init
  <2>2. follows \subseteq [id : 1..MaxActions, of : Profiles] /\ abandoned \subseteq Ops
    BY DEF Init
  <2>3. told \in BOOLEAN
    BY DEF Init
  <2>. QED  BY <2>1, <2>2, <2>3 DEF Init, TypeOK
<1>2. Numbered
  BY DEF Init, Numbered, NumberedOp, NoOp
<1>3. BeforePage
  BY DEF Init, BeforePage, NoOp
<1>. QED  BY <1>1, <1>2, <1>3 DEF TypeInv

\* Every step keeps the types.
LEMMA NextType == TypeInv /\ [Next]_vars => TypeInv'
<1>. SUFFICES ASSUME TypeInv, [Next]_vars PROVE TypeInv'
  OBVIOUS
<1>. USE FollowPageAssumption
<1>1. CASE UNCHANGED vars
  BY <1>1 DEF vars, TypeInv, TypeOK, Numbered, NumberedOp, BeforePage
<1>2. ASSUME NEW p \in Profiles, Open(p) PROVE TypeInv'
  <2>1. Sent("summary", p, 0, TRUE) \in Ops /\ Sent("summary", p, 0, TRUE).kind = "summary"
    <3>1. 0 \in 0..MaxActions
      OBVIOUS
    <3>2. Sent("summary", p, 0, TRUE) \in Ops
      BY <3>1, SentType
    <3>. QED  BY <3>2 DEF Sent
  <2>2. op' \in Ops \cup {NoOp} /\ NumberedOp(op')
    BY <1>2, <2>1 DEF Open, TypeInv, TypeOK, Numbered, NumberedOp, BeforePage
  <2>3. actions' \in 0..MaxActions
    BY <1>2 DEF Open, Act, TypeInv, TypeOK
  <2>. QED  BY <1>2, <2>2, <2>3 DEF Open, TypeInv, TypeOK, Numbered, BeforePage
<1>3. ASSUME NEW p \in Profiles, Elsewhere(p) PROVE TypeInv'
  <2>1. op' \in Ops \cup {NoOp} /\ op'.kind = op.kind /\ (op.kind = "create" => op'.id = op.id)
    BY <1>3 DEF Elsewhere, Overtake, Loading, TypeInv, TypeOK, Ops, NoOp
  <2>2. follows' \subseteq [id : 1..MaxActions, of : Profiles] /\ actions' \in 0..MaxActions
    BY <1>3 DEF Elsewhere, Act, TypeInv, TypeOK
  <2>3. told' \in BOOLEAN
    BY <1>3 DEF Elsewhere, Overtake, TypeInv, TypeOK
  <2>. QED  BY <1>3, <2>1, <2>2, <2>3 DEF Elsewhere, TypeInv, TypeOK, Numbered, NumberedOp, BeforePage
<1>4. CASE OpenList
  <2>1. page \in Profiles /\ op' \in Ops /\ op'.kind = "list"
    BY <1>4, SentType DEF OpenList, TypeInv, TypeOK, Sent
  <2>. QED  BY <1>4, <2>1 DEF OpenList, Act, TypeInv, TypeOK, Numbered, NumberedOp, BeforePage
<1>5. CASE Click
  <2>1. summary \in Summaries /\ page \in Profiles /\ told \in BOOLEAN
    BY <1>5 DEF Click, TypeInv, TypeOK, BeforePage
  <2>2. actions' \in 1..MaxActions /\ actions' = actions + 1
    BY <1>5 DEF Click, Act, TypeInv, TypeOK
  <2>3. CASE summary.id = 0
    <3>1. op' = Sent("create", page, actions', told)
      BY <1>5, <2>2, <2>3 DEF Click
    <3>2. op' \in Ops /\ op'.kind = "create" /\ op'.id = actions'
      BY <2>1, <2>2, <3>1, SentType DEF Sent
    <3>. QED  BY <1>5, <2>1, <2>2, <3>2 DEF Click, TypeInv, TypeOK, Numbered, NumberedOp, BeforePage
  <2>4. CASE summary.id # 0
    <3>1. op' = Sent("cancel", page, summary.id, told)
      BY <1>5, <2>4 DEF Click
    <3>2. op' \in Ops /\ op'.kind = "cancel"
      BY <2>1, <3>1, SentType DEF Sent, Summaries
    <3>. QED  BY <1>5, <2>1, <2>2, <3>2 DEF Click, TypeInv, TypeOK, Numbered, NumberedOp, BeforePage
  <2>. QED  BY <2>3, <2>4
<1>6. CASE ServeChange
  <2>1. op \in Ops /\ (op.kind = "create" => op.id \in 1..MaxActions)
    BY <1>6 DEF ServeChange, TypeInv, TypeOK, Numbered, NumberedOp, BeforePage, NoOp
  <2>2. op' \in Ops /\ op'.kind = op.kind /\ op'.id = op.id
    BY <1>6, <2>1 DEF ServeChange, Ops
  <2>3. follows' \subseteq [id : 1..MaxActions, of : Profiles]
    BY <1>6, <2>1, ChangedType DEF ServeChange
  <2>. QED  BY <1>6, <2>1, <2>2, <2>3 DEF ServeChange, TypeInv, TypeOK, Numbered, NumberedOp, BeforePage
<1>7. CASE ServeSummary
  <2>1. op \in Ops /\ op.kind = "summary"
    <3>1. op.kind = "summary"
      BY <1>7 DEF ServeSummary
    <3>. QED  BY <3>1, OpType
  <2>2. op' \in Ops /\ op'.kind = "summary"
    <3>1. CASE op' = [op EXCEPT !.pc = "served"]
      BY <2>1, <3>1 DEF Ops
    <3>2. CASE op' = [op EXCEPT !.pc = "served", !.answer = [of |-> op.of, id |-> 0]]
      <4>1. 0 \in 0..MaxActions
        OBVIOUS
      <4>2. [of |-> op.of, id |-> 0] \in Summaries
        BY <2>1, <4>1 DEF Ops, Summaries
      <4>. QED  BY <2>1, <3>2, <4>2 DEF Ops
    <3>3. ASSUME NEW r \in MyRows(op.of),
                 op' = [op EXCEPT !.pc = "served", !.answer = [of |-> op.of, id |-> r.id]]
          PROVE  op' \in Ops /\ op'.kind = "summary"
      <4>1. r.id \in 0..MaxActions
        BY <3>3 DEF MyRows, RowsOf, TypeInv, TypeOK
      <4>. QED  BY <2>1, <3>3, <4>1 DEF Ops, Summaries
    <3>. QED  BY <1>7, <3>1, <3>2, <3>3 DEF ServeSummary
  <2>. QED  BY <1>7, <2>1, <2>2 DEF ServeSummary, TypeInv, TypeOK, Numbered, NumberedOp, BeforePage
<1>8. ASSUME NEW o \in abandoned, ServeAbandoned(o) PROVE TypeInv'
  <2>1. o \in Ops /\ (o.kind = "create" => o.id \in 1..MaxActions)
    BY <1>8 DEF TypeInv, TypeOK, Numbered, NumberedOp, BeforePage
  <2>2. follows' \subseteq [id : 1..MaxActions, of : Profiles]
    BY <1>8, <2>1, ChangedType DEF ServeAbandoned
  <2>3. op' \in Ops \cup {NoOp} /\ op'.kind = op.kind /\ (op.kind = "create" => op'.id = op.id)
    BY <1>8 DEF ServeAbandoned, Overtake, Loading, TypeInv, TypeOK, Ops, NoOp
  <2>4. told' \in BOOLEAN
    BY <1>8 DEF ServeAbandoned, Overtake, TypeInv, TypeOK
  <2>. QED  BY <1>8, <2>2, <2>3, <2>4 DEF ServeAbandoned, TypeInv, TypeOK, Numbered, NumberedOp, BeforePage
<1>9. CASE EndChange
  <2>1. op \in Ops
    BY <1>9 DEF EndChange, TypeInv, TypeOK, NoOp
  <2>2. op' \in Ops /\ op'.kind = "summary"
    BY <1>9, <2>1 DEF EndChange, Refetch, Sent, Ops
  <2>3. [op EXCEPT !.told = FALSE] \in Ops /\ [op EXCEPT !.told = FALSE].kind = op.kind
        /\ [op EXCEPT !.told = FALSE].id = op.id
    BY <2>1 DEF Ops
  <2>. QED  BY <1>9, <2>2, <2>3 DEF EndChange, TypeInv, TypeOK, Numbered, NumberedOp, BeforePage
<1>10. CASE ShowSummary
  BY <1>10 DEF ShowSummary, TypeInv, TypeOK, Numbered, NumberedOp, BeforePage, NoOp, Ops
<1>11. CASE FailSummary
  BY <1>11 DEF FailSummary, TypeInv, TypeOK, Numbered, NumberedOp, BeforePage, NoOp
<1>12. CASE EndList
  BY <1>12 DEF EndList, TypeInv, TypeOK, Numbered, NumberedOp, BeforePage, NoOp
<1>. QED  BY <1>1, <1>2, <1>3, <1>4, <1>5, <1>6, <1>7, <1>8, <1>9, <1>10, <1>11, <1>12 DEF Next

\* TypeOK: every variable keeps its type, and so no row has an id that no
\* click gave it.
THEOREM TypeCorrect == Spec => []TypeOK
<1>1. TypeInv => TypeOK
  BY DEF TypeInv
<1>. QED  BY <1>1, InitType, NextType, PTL DEF Spec

---------------------------------------------------------------------------
(* FollowPage: rows *)

\* Two tables that hold the same for p are told of by the same summaries.
LEMMA SameRows ==
    ASSUME NEW F, NEW G, NEW s, NEW p, RowsIn(F, p) = RowsIn(G, p)
    PROVE  Tells(F, s, p) <=> Tells(G, s, p)
BY DEF Tells

\* A change leaves the rows of a profile that Overtake does not name.
LEMMA ChangedElsewhere ==
    ASSUME NEW o, NEW p, p # o.of, p \notin {r.of : r \in follows \ Changed(o)}
    PROVE  RowsIn(Changed(o), p) = RowsIn(follows, p)
BY DEF Changed, RowsIn

\* The rows of a profile are finite in number, as their ids are.
LEMMA RowsFinite ==
    ASSUME TypeInv, NEW p PROVE IsFiniteSet(RowsIn(follows, p))
<1>. DEFINE T == {[id |-> i, of |-> p] : i \in 1..MaxActions}
            f == [i \in 1..MaxActions |-> [id |-> i, of |-> p]]
<1>1. f \in Surjection(1..MaxActions, T)
  BY DEF Surjection
<1>2. IsFiniteSet(T)
  <2>1. 1 \in Int /\ MaxActions \in Int
    BY FollowPageAssumption
  <2>2. IsFiniteSet(1..MaxActions)
    BY <2>1, FS_Interval
  <2>. QED  BY <1>1, <2>2, FS_Surjection
<1>3. RowsIn(follows, p) \in SUBSET T
  BY DEF TypeInv, TypeOK, RowsIn
<1>. QED  BY <1>2, <1>3, FS_Subset

---------------------------------------------------------------------------
(* FollowPage: what the page was told *)

\* What the page was told is right initially.
LEMMA InitTold == Init => ToldInv
BY DEF Init, ToldInv, PageTold, Resting, ChangeTold, SentBlank, AnswerTold, NoOp

\* A change that the page did not ask for: Overtake takes back what it was told
\* of the profiles whose rows may differ now.
LEMMA OvertakeTold ==
    ASSUME TypeInv, PageTold, ChangeTold, SentBlank, AnswerTold, NEW P, Overtake(P),
           \A q : q \notin P => RowsIn(follows', q) = RowsIn(follows, q),
           UNCHANGED <<page, summary>>
    PROVE  PageTold' /\ ChangeTold' /\ SentBlank' /\ AnswerTold'
<1>1. told' = (told /\ page \notin P)
  BY DEF Overtake
<1>2. CASE op = NoOp
  <2>1. op' = op
    BY <1>2 DEF Overtake, Loading
  <2>2. PageTold'
    BY <1>1, <2>1, SameRows DEF PageTold, Resting
  <2>. QED  BY <1>2, <2>1, <2>2 DEF ChangeTold, SentBlank, AnswerTold, NoOp
<1>3. CASE op \in Ops
  <2>1. op' = IF op.of \in P THEN [op EXCEPT !.told = FALSE] ELSE op
    BY <1>3 DEF Overtake, Loading, NoOp, Ops
  <2>2. op'.kind = op.kind /\ op'.pc = op.pc /\ op'.of = op.of /\ op'.id = op.id
        /\ op'.answer = op.answer
        /\ (op'.told => op.told /\ op.of \notin P)
    BY <1>3, <2>1 DEF Ops
  <2>3. PageTold'
    BY <1>1, <2>2, SameRows DEF PageTold, Resting
  <2>4. ChangeTold'
    BY <2>2 DEF ChangeTold
  <2>5. AnswerTold'
    BY <2>2, SameRows DEF AnswerTold
  <2>6. SentBlank'
    BY <2>2 DEF SentBlank
  <2>. QED  BY <2>3, <2>4, <2>5, <2>6
<1>. QED  BY <1>2, <1>3 DEF TypeInv, TypeOK

\* Every step keeps what the page was told right.
LEMMA NextTold == TypeInv /\ ToldInv /\ [Next]_vars => ToldInv'
<1>. SUFFICES ASSUME TypeInv, PageTold, ChangeTold, SentBlank, AnswerTold,
                     [Next]_vars
              PROVE  ToldInv'
  BY DEF ToldInv
<1>. USE FollowPageAssumption DEF ToldInv, Resting, SentBlank
<1>1. CASE UNCHANGED vars
  BY <1>1 DEF vars, PageTold, ChangeTold, AnswerTold
<1>2. ASSUME NEW p \in Profiles, Open(p) PROVE ToldInv'
  <2>1. op' = op \/ op' = Sent("summary", p, 0, TRUE)
    BY <1>2 DEF Open
  <2>. QED  BY <1>2, <2>1 DEF Open, Sent, PageTold, ChangeTold, AnswerTold
<1>3. ASSUME NEW p \in Profiles, Elsewhere(p) PROVE ToldInv'
  <2>1. \A q : q \notin {p} => RowsIn(follows', q) = RowsIn(follows, q)
    BY <1>3 DEF Elsewhere, RowsIn, RowsOf
  <2>2. Overtake({p}) /\ UNCHANGED <<page, summary, abandoned>>
    BY <1>3 DEF Elsewhere
  <2>. QED  BY <2>1, <2>2, OvertakeTold
<1>4. CASE OpenList
  BY <1>4 DEF OpenList, Loading, Sent, NoOp, PageTold, ChangeTold, AnswerTold
<1>5. CASE Click
  <2>1. PageTold'
    BY <1>5 DEF Click, Loading, Sent, NoOp, PageTold
  <2>2. ChangeTold'
    BY <1>5 DEF Click, Loading, Sent, NoOp, PageTold, ChangeTold, Tells
  <2>. QED  BY <1>5, <2>1, <2>2 DEF Click, Sent, AnswerTold
<1>6. CASE ServeChange
  <2>1. op \in Ops
    BY <1>6, OpType DEF ServeChange
  <2>. QED  BY <1>6, <2>1 DEF ServeChange, Ops, PageTold, ChangeTold, AnswerTold
<1>7. CASE ServeSummary
  <2>1. op \in Ops
    BY <1>7, OpType DEF ServeSummary
  <2>2. MyRows(op.of) = RowsIn(follows, op.of)
    BY DEF MyRows, RowsOf, RowsIn
  <2>3. op'.kind = "summary" /\ op'.pc = "served" /\ op'.of = op.of /\ op'.told = op.told
    BY <1>7, <2>1 DEF ServeSummary, Ops
  <2>4. op'.answer # NoSummary => Tells(follows, op'.answer, op.of)
    <3>1. CASE op' = [op EXCEPT !.pc = "served"]
      <4>1. op'.answer = op.answer
        BY <2>1, <3>1 DEF Ops
      <4>. QED  BY <1>7, <4>1 DEF ServeSummary
    <3>2. CASE MyRows(op.of) = {}
               /\ op' = [op EXCEPT !.pc = "served", !.answer = [of |-> op.of, id |-> 0]]
      BY <2>1, <2>2, <3>2 DEF Ops, Tells
    <3>3. ASSUME NEW r \in MyRows(op.of), Cardinality(MyRows(op.of)) = 1,
                 op' = [op EXCEPT !.pc = "served", !.answer = [of |-> op.of, id |-> r.id]]
          PROVE  Tells(follows, op'.answer, op.of)
      <4>1. MyRows(op.of) = {r}
        BY <2>2, <3>3, RowsFinite, FS_Singleton
      <4>2. op'.answer = [of |-> op.of, id |-> r.id] /\ r.id # 0
        BY <2>1, <3>3 DEF Ops, MyRows, RowsOf, TypeInv, TypeOK
      <4>. QED  BY <2>2, <4>1, <4>2 DEF Tells
    <3>. QED  BY <1>7, <3>1, <3>2, <3>3 DEF ServeSummary
  <2>5. AnswerTold'
    BY <1>7, <2>3, <2>4 DEF ServeSummary, AnswerTold, Tells
  <2>. QED  BY <1>7, <2>3, <2>5 DEF ServeSummary, PageTold, ChangeTold
<1>8. ASSUME NEW o \in abandoned, ServeAbandoned(o) PROVE ToldInv'
  <2>1. PICK P : P = {o.of} \cup {r.of : r \in follows \ follows'}
    OBVIOUS
  <2>2. \A q : q \notin P => RowsIn(follows', q) = RowsIn(follows, q)
    BY <1>8, <2>1, ChangedElsewhere DEF ServeAbandoned
  <2>3. Overtake(P) /\ UNCHANGED <<page, summary>>
    BY <1>8, <2>1 DEF ServeAbandoned
  <2>. QED  BY <2>2, <2>3, OvertakeTold
<1>9. CASE EndChange
  <2>1. op \in Ops
    BY <1>9, OpType DEF EndChange
  <2>. QED  BY <1>9, <2>1 DEF EndChange, Refetch, Sent, Ops, PageTold,
                              ChangeTold, AnswerTold
<1>10. CASE ShowSummary
  BY <1>10 DEF ShowSummary, NoOp, PageTold, ChangeTold, AnswerTold
<1>11. CASE FailSummary
  BY <1>11 DEF FailSummary, NoOp, PageTold, ChangeTold, AnswerTold
<1>12. CASE EndList
  BY <1>12 DEF EndList, NoOp, PageTold, ChangeTold, AnswerTold
<1>. QED  BY <1>1, <1>2, <1>3, <1>4, <1>5, <1>6, <1>7, <1>8, <1>9, <1>10, <1>11, <1>12 DEF Next

\* Once the page rests, its button shows what the table holds (ShownIsStored).
THEOREM ShowsStored == Spec => []ShownIsStored
<1>1. ToldInv => ShownIsStored
  BY DEF ToldInv, PageTold, Resting, ShownIsStored, Loading, NoOp, Tells, RowsIn, RowsOf
<1>. QED  BY <1>1, InitType, NextType, InitTold, NextTold, PTL DEF Spec

\* A change does what the button said when it was clicked (ChangeAsShown).
THEOREM ChangesAsShown == Spec => []ChangeAsShown
<1>1. ToldInv => ChangeAsShown
  BY DEF ToldInv, ChangeTold, ChangeAsShown, RowsIn, RowsOf
<1>. QED  BY <1>1, InitType, NextType, InitTold, NextTold, PTL DEF Spec

---------------------------------------------------------------------------
(* The bell: the inductive invariant *)

\* The stream store st suits the sources S: at most one of them is not closed,
\* and it is the connected one or the store waits for one that reconnects.
\* Nothing is on the wire of a source that is not open.
Stores(n) == [eventSource : 0..n, isConnected : BOOLEAN, isConnecting : BOOLEAN,
              listener : 0..n]
StreamTypes(S, st) == S \in Seq(EventSource) /\ st \in Stores(Len(S))
AliveIn(S, k) == S[k].readyState # "closed"
AliveAlone(S) == \A j, k \in 1..Len(S) : AliveIn(S, j) /\ AliveIn(S, k) => j = k
AliveKnown(S, st) ==
    \A k \in 1..Len(S) : AliveIn(S, k) => ~Free(st) /\ (st.isConnected => k = st.eventSource)
StoreSound(st) ==
    (st.isConnected <=> st.eventSource # 0) /\ ~(st.isConnected /\ st.isConnecting)
QuietWires(S) == \A k \in 1..Len(S) : S[k].readyState # "open" => S[k].wire = << >>
StreamSound(S, st) ==
    StreamTypes(S, st) /\ AliveAlone(S) /\ AliveKnown(S, st) /\ StoreSound(st) /\ QuietWires(S)
StreamInv == StreamSound(source, sse)

\* The notifications created so far are the first ones, and the client knows of
\* no others.  What a click has deleted is deleted.
OnWires(S) == UNION {Range(S[k].wire) : k \in 1..Len(S)}
Rows == {n \in Notes : row[n] # "none"}
RowsNumbered == \A n \in Notes : n \in Rows <=> n <= Created
ListKnown == Listed \subseteq Rows
WiresKnown == OnWires(source) \subseteq Rows
RequestKnown ==
    /\ request.kind = "fetch" => request.page \subseteq Rows
    /\ request.kind = "read" => request.note \in Rows
ReadDeleted == request.kind = "read" /\ request.pc = "served" => row[request.note] = "deleted"
RowInv == RowsNumbered /\ ListKnown /\ WiresKnown /\ RequestKnown /\ ReadDeleted

BellInv == BellTypeOK /\ StreamInv /\ RowInv /\ ListedUnlessMissed

---------------------------------------------------------------------------
(* The bell: types *)

\* The fields of a source have their types.
LEMMA SourceFields ==
    ASSUME BellTypeOK, NEW k \in Sources
    PROVE  /\ source[k] \in EventSource
           /\ source[k].readyState \in {"connecting", "open", "closed"}
           /\ source[k].token \in Tokens /\ source[k].wire \in Seq(Notes)
<1>1. source \in [1..Len(source) -> EventSource] /\ Sources = 1..Len(source)
  BY LenProperties DEF BellTypeOK, Sources
<1>2. source[k] \in EventSource
  BY <1>1
<1>. QED  BY <1>2 DEF EventSource

\* A sequence with one element replaced.
LEMMA OneReplaced ==
    ASSUME NEW S, NEW s \in Seq(S), NEW k \in 1..Len(s), NEW x \in S,
           NEW t, t = [s EXCEPT ![k] = x]
    PROVE  /\ t \in Seq(S) /\ Len(t) = Len(s)
           /\ \A j \in 1..Len(s) : t[j] = IF j = k THEN x ELSE s[j]
BY ExceptSeq

\* A source with its state or its wire replaced.
LEMMA SourceReplaced ==
    ASSUME NEW r \in EventSource, NEW st, NEW w
    PROVE  /\ [r EXCEPT !.readyState = st] = [readyState |-> st, token |-> r.token, wire |-> r.wire]
           /\ [r EXCEPT !.wire = w] = [readyState |-> r.readyState, token |-> r.token, wire |-> w]
<1>1. PICK a, b, c : r = [readyState |-> a, token |-> b, wire |-> c]
  BY DEF EventSource
<1>2. r.readyState = a /\ r.token = b /\ r.wire = c
  BY <1>1
<1>3. [r EXCEPT !.readyState = st] = [readyState |-> st, token |-> b, wire |-> c]
  BY <1>1
<1>4. [r EXCEPT !.wire = w] = [readyState |-> a, token |-> b, wire |-> w]
  BY <1>1
<1>. QED  BY <1>2, <1>3, <1>4

\* A source with both replaced.
LEMMA SourceTurned ==
    ASSUME NEW r \in EventSource, NEW st, NEW w
    PROVE  [r EXCEPT !.readyState = st, !.wire = w] = [readyState |-> st, token |-> r.token, wire |-> w]
<1>. DEFINE y == [r EXCEPT !.readyState = st]
<1>1. y = [readyState |-> st, token |-> r.token, wire |-> r.wire]
  BY SourceReplaced
<1>. HIDE DEF y
<1>2. [y EXCEPT !.wire = w] = [readyState |-> st, token |-> r.token, wire |-> w]
  BY <1>1
<1>. QED  BY <1>2 DEF y

\* The sources with k turned to the state st and w on its wire.
Replaced(k, x) == [source EXCEPT ![k] = x]
With(k, st, w) == [readyState |-> st, token |-> source[k].token, wire |-> w]
Turned(k, st, w) == Replaced(k, With(k, st, w))

\* Turning a source leaves the others as they are.
LEMMA TurnEffect ==
    ASSUME BellTypeOK, NEW k \in Sources, NEW st \in {"connecting", "open", "closed"},
           NEW w \in Seq(Notes)
    PROVE  /\ Turned(k, st, w) \in Seq(EventSource) /\ Len(Turned(k, st, w)) = Len(source)
           /\ Turned(k, st, w)[k].readyState = st /\ Turned(k, st, w)[k].wire = w
           /\ \A j \in Sources \ {k} : Turned(k, st, w)[j] = source[j]
<1>1. With(k, st, w) \in EventSource /\ With(k, st, w).readyState = st /\ With(k, st, w).wire = w
  BY SourceFields DEF EventSource, With
<1>2. k \in 1..Len(source) /\ Sources = 1..Len(source) /\ source \in Seq(EventSource)
  BY LenProperties DEF BellTypeOK, Sources
<1>3. ASSUME NEW x \in EventSource
      PROVE  /\ Replaced(k, x) \in Seq(EventSource) /\ Len(Replaced(k, x)) = Len(source)
             /\ \A j \in 1..Len(source) : Replaced(k, x)[j] = IF j = k THEN x ELSE source[j]
  BY <1>2, OneReplaced DEF Replaced
<1>. QED  BY <1>1, <1>2, <1>3 DEF Turned

\* The turns the stream's actions take.
LEMMA Turns ==
    ASSUME BellTypeOK, NEW k \in Sources
    PROVE  /\ Closed(k) = Turned(k, "closed", << >>)
           /\ [source EXCEPT ![k].readyState = "open"] = Turned(k, "open", source[k].wire)
           /\ [source EXCEPT ![k].readyState = "connecting", ![k].wire = << >>]
                 = Turned(k, "connecting", << >>)
           /\ [source EXCEPT ![k].wire = Tail(@)]
                 = Turned(k, source[k].readyState, Tail(source[k].wire))
<1>1. source[k] \in EventSource /\ source \in [Sources -> EventSource]
  BY SourceFields, LenProperties DEF BellTypeOK, Sources
<1>2. [source[k] EXCEPT !.readyState = "open"] = With(k, "open", source[k].wire)
  BY <1>1, SourceReplaced, Zenon DEF With
<1>3. [source[k] EXCEPT !.wire = Tail(@)] = With(k, source[k].readyState, Tail(source[k].wire))
  BY <1>1, SourceReplaced, Zenon DEF With
<1>4. ASSUME NEW st
      PROVE  [source[k] EXCEPT !.readyState = st, !.wire = << >>] = With(k, st, << >>)
  BY <1>1, SourceTurned, Zenon DEF With
<1>5. /\ Closed(k) = Replaced(k, [source[k] EXCEPT !.readyState = "closed", !.wire = << >>])
      /\ [source EXCEPT ![k].readyState = "open"]
            = Replaced(k, [source[k] EXCEPT !.readyState = "open"])
      /\ [source EXCEPT ![k].readyState = "connecting", ![k].wire = << >>]
            = Replaced(k, [source[k] EXCEPT !.readyState = "connecting", !.wire = << >>])
      /\ [source EXCEPT ![k].wire = Tail(@)] = Replaced(k, [source[k] EXCEPT !.wire = Tail(@)])
  BY <1>1 DEF Closed, Replaced, Sources
<1>. QED  BY <1>2, <1>3, <1>4, <1>5 DEF Turned

---------------------------------------------------------------------------
(* The bell: the stream *)

\* The stream's part of the types.
LEMMA StreamTyped ==
    ASSUME BellTypeOK
    PROVE  /\ StreamTypes(source, sse) /\ Sources = 1..Len(source) /\ Len(source) \in Nat
           /\ sse.eventSource \in 0..Len(source) /\ sse.listener \in 0..Len(source)
           /\ sse.isConnected \in BOOLEAN /\ sse.isConnecting \in BOOLEAN
BY LenProperties DEF BellTypeOK, StreamTypes, Stores, Sources

\* What the stream's steps do to the store.
ConnectedStore(st, e) ==
    [st EXCEPT !.eventSource = e, !.isConnected = TRUE, !.isConnecting = FALSE]
LeftStore(st) == [st EXCEPT !.eventSource = 0, !.isConnected = FALSE]
ErrorStore(st, b) == [st EXCEPT !.eventSource = 0, !.isConnected = FALSE, !.isConnecting = b]

\* A store connected, for as many sources or more.
LEMMA StoreConnected ==
    ASSUME NEW m \in Nat, NEW n \in Nat, m <= n, NEW st \in Stores(m), NEW e \in 0..n
    PROVE  /\ ConnectedStore(st, e) \in Stores(n) /\ ConnectedStore(st, e).eventSource = e
           /\ ConnectedStore(st, e).isConnected /\ ~ConnectedStore(st, e).isConnecting
           /\ ConnectedStore(st, e).listener = st.listener
<1>. DEFINE one == [st EXCEPT !.eventSource = e]
            two == [one EXCEPT !.isConnected = TRUE]
            three == [two EXCEPT !.isConnecting = FALSE]
<1>1. one \in Stores(n) /\ one.eventSource = e /\ one.listener = st.listener
  BY DEF Stores
<1>. HIDE DEF one
<1>2. two \in Stores(n) /\ two.eventSource = e /\ two.isConnected /\ two.listener = st.listener
  BY <1>1 DEF Stores
<1>. HIDE DEF two
<1>3. /\ three \in Stores(n) /\ three.eventSource = e /\ three.isConnected
      /\ ~three.isConnecting /\ three.listener = st.listener
  BY <1>2 DEF Stores
<1>. QED  BY <1>3 DEF one, two, three, ConnectedStore

\* A store left or told of an error.
LEMMA StoreLost ==
    ASSUME NEW n \in Nat, NEW st \in Stores(n), NEW b \in BOOLEAN
    PROVE  /\ LeftStore(st) \in Stores(n) /\ ErrorStore(st, b) \in Stores(n)
           /\ LeftStore(st).eventSource = 0 /\ ~LeftStore(st).isConnected
           /\ LeftStore(st).isConnecting = st.isConnecting
           /\ ErrorStore(st, b).eventSource = 0 /\ ~ErrorStore(st, b).isConnected
           /\ ErrorStore(st, b).isConnecting = b
<1>. DEFINE one == [st EXCEPT !.eventSource = 0]
            two == [one EXCEPT !.isConnected = FALSE]
            three == [two EXCEPT !.isConnecting = b]
<1>1. one \in Stores(n) /\ one.eventSource = 0 /\ one.isConnecting = st.isConnecting
  BY DEF Stores
<1>. HIDE DEF one
<1>2. /\ two \in Stores(n) /\ two.eventSource = 0 /\ ~two.isConnected
      /\ two.isConnecting = st.isConnecting
  BY <1>1 DEF Stores
<1>. HIDE DEF two
<1>3. /\ three \in Stores(n) /\ three.eventSource = 0 /\ ~three.isConnected
      /\ three.isConnecting = b
  BY <1>2 DEF Stores
<1>. QED  BY <1>2, <1>3 DEF one, two, three, LeftStore, ErrorStore

\* Nothing but k may be alive: what k becomes decides.
LEMMA TurnStream ==
    ASSUME BellTypeOK, StreamInv, NEW k \in Sources, \A j \in Sources \ {k} : ~Alive(j),
           NEW st \in {"connecting", "open", "closed"}, NEW w \in Seq(Notes),
           st # "open" => w = << >>,
           NEW store \in Stores(Len(source)), StoreSound(store),
           st # "closed" => ~Free(store) /\ (store.isConnected => k = store.eventSource)
    PROVE  StreamSound(Turned(k, st, w), store)
<1>. DEFINE T == Turned(k, st, w)
<1>1. /\ T \in Seq(EventSource) /\ Len(T) = Len(source) /\ T[k].readyState = st /\ T[k].wire = w
      /\ \A j \in Sources \ {k} : T[j] = source[j]
  BY TurnEffect
<1>. HIDE DEF T
<1>2. \A j \in 1..Len(T) : AliveIn(T, j) => j = k /\ st # "closed"
  BY <1>1, StreamTyped DEF AliveIn, Alive
<1>3. StreamTypes(T, store)
  BY <1>1 DEF StreamTypes, Stores
<1>4. AliveAlone(T) /\ AliveKnown(T, store)
  BY <1>2 DEF AliveAlone, AliveKnown
<1>5. QuietWires(T)
  BY <1>1, StreamTyped DEF QuietWires, StreamInv, StreamSound
<1>. QED  BY <1>3, <1>4, <1>5 DEF StreamSound, T

\* Connecting adds at most a source, with nothing on its wire.
LEMMA ConnectStream ==
    ASSUME NEW S, NEW store, StreamSound(S, store), NEW k \in Tokens, Connect(S, store, k)
    PROVE  /\ StreamSound(source', sse')
           /\ Len(source') >= Len(S)
           /\ \A j \in 1..Len(S) : source'[j] = S[j]
           /\ \A j \in (1..Len(source')) \ (1..Len(S)) : source'[j].wire = << >>
<1>1. S \in Seq(EventSource) /\ Len(S) \in Nat
  BY LenProperties DEF StreamSound, StreamTypes
<1>2. CASE ~Free(store)
  <2>1. source' = S /\ sse' = store
    BY <1>2 DEF Connect
  <2>. QED  BY <1>1, <2>1
<1>3. CASE Free(store)
  <2>1. source' = Append(S, NewSource(k)) /\
        sse' = [store EXCEPT !.eventSource = Len(S) + 1, !.isConnected = TRUE, !.isConnecting = FALSE]
    BY <1>3 DEF Connect
  <2>2. NewSource(k) \in EventSource /\ NewSource(k).wire = << >>
    BY EmptySeq DEF NewSource, EventSource
  <2>3. /\ source' \in Seq(EventSource) /\ Len(source') = Len(S) + 1
        /\ \A j \in 1..Len(S) : source'[j] = S[j]
        /\ source'[Len(S) + 1] = NewSource(k)
    BY <1>1, <2>1, <2>2, AppendProperties
  <2>4. \A j \in 1..Len(source') : j # Len(S) + 1 => j \in 1..Len(S)
    BY <1>1, <2>3
  <2>5. \A j \in 1..Len(S) : ~AliveIn(S, j)
    BY <1>3 DEF StreamSound, AliveKnown
  <2>6. \A j \in 1..Len(source') : AliveIn(source', j) => j = Len(S) + 1
    BY <2>3, <2>4, <2>5 DEF AliveIn
  <2>0. sse' = ConnectedStore(store, Len(S) + 1)
    BY <2>1 DEF ConnectedStore
  <2>7. /\ store \in Stores(Len(S))
        /\ sse'.eventSource = Len(S) + 1 /\ sse'.isConnected = TRUE /\ sse'.isConnecting = FALSE
        /\ sse'.listener = store.listener
        /\ sse' \in Stores(Len(S) + 1)
    BY <1>1, <2>0, StoreConnected DEF StreamSound, StreamTypes
  <2>8. StreamTypes(source', sse')
    BY <2>3, <2>7 DEF StreamTypes
  <2>9. StoreSound(sse')
    BY <1>1, <2>7 DEF StoreSound
  <2>10. AliveAlone(source') /\ AliveKnown(source', sse')
    BY <2>6, <2>7 DEF AliveAlone, AliveKnown, Free
  <2>11. QuietWires(source')
    BY <2>2, <2>3, <2>4 DEF QuietWires, StreamSound
  <2>. QED  BY <1>1, <2>2, <2>3, <2>4, <2>8, <2>9, <2>10, <2>11 DEF StreamSound
<1>. QED  BY <1>2, <1>3

\* Closing a source empties its wire and leaves the others.
LEMMA CloseEffect ==
    ASSUME BellTypeOK, NEW k \in Sources
    PROVE  /\ Len(Closed(k)) = Len(source) /\ Closed(k)[k].wire = << >>
           /\ \A j \in Sources \ {k} : Closed(k)[j] = source[j]
<1>. DEFINE st == "closed"
            w == << >>
<1>1. st \in {"connecting", "open", "closed"} /\ w \in Seq(Notes)
  BY EmptySeq
<1>2. Closed(k) = Turned(k, st, w) /\ w = << >>
  BY Turns
<1>. HIDE DEF st, w
<1>3. /\ Len(Turned(k, st, w)) = Len(source) /\ Turned(k, st, w)[k].wire = w
      /\ \A j \in Sources \ {k} : Turned(k, st, w)[j] = source[j]
  BY <1>1, TurnEffect
<1>. QED  BY <1>2, <1>3

\* Disconnecting closes the connected source and leaves the others.
LEMMA DisconnectStream ==
    ASSUME BellTypeOK, StreamInv
    PROVE  /\ StreamSound(AfterDisconnect, DisconnectedStore)
           /\ Len(AfterDisconnect) = Len(source)
           /\ \A k \in Sources : AfterDisconnect[k].wire =
                 IF Disconnects /\ k = sse.eventSource THEN << >> ELSE source[k].wire
<1>1. CASE ~Disconnects
  BY <1>1 DEF AfterDisconnect, DisconnectedStore, StreamInv
<1>2. CASE Disconnects
  <2>. DEFINE e == sse.eventSource
  <2>1. e \in Sources /\ sse.isConnected /\ ~sse.isConnecting
    BY <1>2, StreamTyped DEF Disconnects, StreamInv, StreamSound, StoreSound
  <2>2. AfterDisconnect = Turned(e, "closed", << >>)
    BY <1>2, <2>1, Turns DEF AfterDisconnect
  <2>3. \A j \in Sources \ {e} : ~Alive(j)
    BY <2>1, StreamTyped DEF StreamInv, StreamSound, AliveKnown, AliveIn, Alive
  <2>0. DisconnectedStore = LeftStore(sse)
    BY <1>2 DEF DisconnectedStore, LeftStore
  <2>4. /\ DisconnectedStore \in Stores(Len(source)) /\ ~DisconnectedStore.isConnected
        /\ DisconnectedStore.eventSource = 0 /\ ~DisconnectedStore.isConnecting
    BY <2>0, <2>1, StreamTyped, StoreLost DEF StreamTypes
  <2>5. << >> \in Seq(Notes) /\ "closed" \in {"connecting", "open", "closed"}
    BY EmptySeq
  <2>6. StreamSound(AfterDisconnect, DisconnectedStore)
    BY <2>1, <2>2, <2>3, <2>4, <2>5, TurnStream DEF StoreSound
  <2>7. /\ Len(AfterDisconnect) = Len(source) /\ AfterDisconnect[e].wire = << >>
        /\ \A j \in Sources \ {e} : AfterDisconnect[j] = source[j]
    BY <1>2, <2>1, CloseEffect DEF AfterDisconnect
  <2>. QED  BY <1>2, <2>6, <2>7
<1>. QED  BY <1>1, <1>2

---------------------------------------------------------------------------
(* The bell: what is on the wires *)

\* Being on the wires, element by element.
LEMMA OnWiresMember ==
    ASSUME NEW S, NEW n
    PROVE  n \in OnWires(S) <=> \E k \in 1..Len(S) : n \in Range(S[k].wire)
BY DEF OnWires

\* What a sequence holds.
LEMMA RangeInNotes ==
    ASSUME NEW s \in Seq(Notes)
    PROVE  Range(s) \subseteq Notes
<1>1. \A i \in DOMAIN s : s[i] \in Notes
  BY LenProperties
<1>. QED  BY <1>1 DEF Range

\* Nothing is on an empty wire.
LEMMA RangeEmpty == Range(<< >>) = {}
BY DEF Range

\* A push adds itself to a wire.
LEMMA RangeAfterAppend ==
    ASSUME NEW s \in Seq(Notes), NEW n \in Notes
    PROVE  Range(Append(s, n)) = Range(s) \cup {n}
<1>1. /\ Append(s, n) \in Seq(Notes) /\ Len(Append(s, n)) = Len(s) + 1 /\ Len(s) \in Nat
      /\ \A i \in 1..Len(s) : Append(s, n)[i] = s[i]
      /\ Append(s, n)[Len(s) + 1] = n
  BY AppendProperties, LenProperties
<1>2. DOMAIN s = 1..Len(s) /\ DOMAIN Append(s, n) = 1..(Len(s) + 1)
  BY <1>1, LenProperties
<1>. HIDE DEF Append
<1>3. ASSUME NEW m \in Range(Append(s, n)) PROVE m \in Range(s) \cup {n}
  <2>1. PICK i \in 1..(Len(s) + 1) : m = Append(s, n)[i]
    BY <1>2 DEF Range
  <2>. QED  BY <1>1, <1>2, <2>1 DEF Range
<1>4. Range(s) \subseteq Range(Append(s, n)) /\ n \in Range(Append(s, n))
  BY <1>1, <1>2 DEF Range
<1>. QED  BY <1>3, <1>4

\* Receiving takes the first one off a wire and nothing else.
LEMMA RangeAfterTail ==
    ASSUME NEW s \in Seq(Notes), s # << >>
    PROVE  /\ Head(s) \in Range(s) /\ Range(Tail(s)) \subseteq Range(s)
           /\ Range(s) \subseteq Range(Tail(s)) \cup {Head(s)}
<1>1. /\ Tail(s) \in Seq(Notes) /\ Len(Tail(s)) = Len(s) - 1 /\ Len(s) \in Nat \ {0}
      /\ \A i \in 1..Len(Tail(s)) : Tail(s)[i] = s[i + 1]
  BY HeadTailProperties, LenProperties, EmptySeq
<1>2. DOMAIN s = 1..Len(s) /\ DOMAIN Tail(s) = 1..(Len(s) - 1)
  BY <1>1, LenProperties
<1>3. Head(s) = s[1]
  OBVIOUS
<1>4. Range(Tail(s)) \subseteq Range(s)
  <2>1. ASSUME NEW i \in 1..(Len(s) - 1) PROVE Tail(s)[i] \in Range(s)
    BY <1>1, <1>2 DEF Range
  <2>. QED  BY <1>2, <2>1 DEF Range
<1>5. ASSUME NEW i \in 1..Len(s) PROVE s[i] \in Range(Tail(s)) \cup {Head(s)}
  <2>1. CASE i = 1
    BY <1>3, <2>1
  <2>2. CASE i # 1
    <3>1. i - 1 \in 1..(Len(s) - 1) /\ Tail(s)[i - 1] = s[i]
      BY <1>1, <2>2
    <3>. QED  BY <1>2, <3>1 DEF Range
  <2>. QED  BY <2>1, <2>2
<1>. QED  BY <1>1, <1>2, <1>3, <1>4, <1>5 DEF Range

\* A turn puts its wire in place of another.
LEMMA TurnWires ==
    ASSUME BellTypeOK, NEW k \in Sources, NEW st \in {"connecting", "open", "closed"},
           NEW w \in Seq(Notes)
    PROVE  /\ OnWires(Turned(k, st, w)) \subseteq OnWires(source) \cup Range(w)
           /\ OnWires(source) \subseteq OnWires(Turned(k, st, w)) \cup Wire(k)
           /\ Range(w) \subseteq OnWires(Turned(k, st, w))
<1>. DEFINE T == Turned(k, st, w)
<1>1. /\ Len(T) = Len(source) /\ T[k].wire = w /\ Sources = 1..Len(source)
      /\ \A j \in Sources \ {k} : T[j] = source[j]
  BY TurnEffect, StreamTyped
<1>. HIDE DEF T
<1>2. OnWires(T) \subseteq OnWires(source) \cup Range(w)
  BY <1>1, OnWiresMember
<1>3. OnWires(source) \subseteq OnWires(T) \cup Wire(k)
  BY <1>1, OnWiresMember DEF Wire
<1>4. Range(w) \subseteq OnWires(T)
  BY <1>1, OnWiresMember
<1>. QED  BY <1>2, <1>3, <1>4 DEF T

\* Connecting changes nothing there, disconnecting empties a wire.
LEMMA ConnectWires ==
    ASSUME NEW S, NEW store, StreamSound(S, store), NEW k \in Tokens, Connect(S, store, k)
    PROVE  OnWires(source') = OnWires(S)
<1>1. /\ Len(source') >= Len(S) /\ Len(S) \in Nat /\ Len(source') \in Nat
      /\ \A j \in 1..Len(S) : source'[j] = S[j]
      /\ \A j \in (1..Len(source')) \ (1..Len(S)) : source'[j].wire = << >>
  BY ConnectStream, LenProperties DEF StreamSound, StreamTypes
<1>2. OnWires(source') \subseteq OnWires(S)
  BY <1>1, OnWiresMember, RangeEmpty
<1>3. OnWires(S) \subseteq OnWires(source')
  <2>1. \A j \in 1..Len(S) : j \in 1..Len(source')
    BY <1>1
  <2>. QED  BY <1>1, <2>1, OnWiresMember
<1>. QED  BY <1>2, <1>3

\* Disconnecting empties the wire of the source it closes at most.
LEMMA DisconnectWires ==
    ASSUME BellTypeOK, StreamInv
    PROVE  /\ OnWires(AfterDisconnect) \subseteq OnWires(source)
           /\ OnWires(source) \subseteq OnWires(AfterDisconnect) \cup
                 (IF Disconnects THEN Wire(sse.eventSource) ELSE {})
<1>1. /\ Len(AfterDisconnect) = Len(source) /\ Sources = 1..Len(source)
      /\ \A k \in Sources : AfterDisconnect[k].wire =
            IF Disconnects /\ k = sse.eventSource THEN << >> ELSE source[k].wire
  BY DisconnectStream, StreamTyped
<1>. HIDE DEF AfterDisconnect, Disconnects
<1>2. OnWires(AfterDisconnect) \subseteq OnWires(source)
  BY <1>1, OnWiresMember, RangeEmpty
<1>3. ASSUME NEW n \in OnWires(source)
      PROVE  n \in OnWires(AfterDisconnect) \cup (IF Disconnects THEN Wire(sse.eventSource) ELSE {})
  BY <1>1, <1>3, OnWiresMember DEF Wire
<1>. QED  BY <1>2, <1>3

---------------------------------------------------------------------------
(* The bell: the steps of the stream *)

\* Nothing is lost from sight by a step.
Seen == Listed \cup unsent \cup OnWires(source) \cup missed
NothingLost == Seen \subseteq Seen'

\* A step of the stream keeps the stream sound and brings no note from nowhere.
StreamKept == StreamInv' /\ OnWires(source)' \subseteq OnWires(source) /\ NothingLost

\* A source that opens was the one that was connecting.
LEMMA OpenedStream ==
    ASSUME BellTypeOK, StreamInv, NEW k \in Sources, Opened(k)
    PROVE  StreamKept
<1>. DEFINE st == "open"
            w == source[k].wire
<1>1. st \in {"connecting", "open", "closed"} /\ w \in Seq(Notes) /\ source' = Turned(k, st, w)
  BY SourceFields, Turns DEF Opened
<1>2. \A j \in Sources \ {k} : ~Alive(j)
  BY StreamTyped DEF Opened, StreamInv, StreamSound, AliveAlone, AliveIn, Alive
<1>3. w = << >>
  BY StreamTyped DEF Opened, StreamInv, StreamSound, QuietWires
<1>4. /\ sse' = ConnectedStore(sse, k) /\ k # 0
      /\ k \in 0..Len(source) /\ Len(source) \in Nat /\ Len(source) <= Len(source)
      /\ sse \in Stores(Len(source))
  BY StreamTyped DEF Opened, OnOpen, ConnectedStore, StreamTypes
<1>5. /\ sse' \in Stores(Len(source)) /\ sse'.eventSource = k
      /\ sse'.isConnected /\ ~sse'.isConnecting
  BY <1>4, StoreConnected
<1>. HIDE DEF st, w
<1>6. StreamInv'
  BY <1>1, <1>2, <1>3, <1>4, <1>5, TurnStream DEF StreamInv, StoreSound, Free
<1>7. /\ OnWires(source') \subseteq OnWires(source) \cup Range(w)
      /\ OnWires(source) \subseteq OnWires(source') \cup Wire(k) /\ Wire(k) = {}
  BY <1>1, <1>3, TurnWires, RangeEmpty DEF Wire, w
<1>8. UNCHANGED <<list, unsent, missed>>
  BY DEF Opened, server, bell
<1>. QED  BY <1>3, <1>6, <1>7, <1>8, RangeEmpty DEF StreamKept, NothingLost, Seen, Listed

\* A source that is refused leaves nothing open.
LEMMA RefusedStream ==
    ASSUME BellTypeOK, StreamInv, NEW k \in Sources, Refused(k)
    PROVE  StreamKept
<1>. DEFINE st == "closed"
            w == << >>
<1>1. st \in {"connecting", "open", "closed"} /\ w \in Seq(Notes) /\ source' = Turned(k, st, w)
  BY EmptySeq, Turns DEF Refused
<1>2. \A j \in Sources \ {k} : ~Alive(j)
  BY StreamTyped DEF Refused, StreamInv, StreamSound, AliveAlone, AliveIn, Alive
<1>3. source[k].wire = << >> /\ w = << >> /\ st = "closed"
  BY StreamTyped DEF Refused, StreamInv, StreamSound, QuietWires
<1>4. sse' = ErrorStore(sse, FALSE)
  BY DEF Refused, OnError, ErrorStore
<1>5. /\ sse' \in Stores(Len(source)) /\ sse'.eventSource = 0
      /\ ~sse'.isConnected /\ ~sse'.isConnecting
  BY <1>4, StreamTyped, StoreLost DEF StreamTypes
<1>. HIDE DEF st, w
<1>6. StreamInv'
  BY <1>1, <1>2, <1>3, <1>5, TurnStream DEF StreamInv, StoreSound
<1>7. /\ OnWires(source') \subseteq OnWires(source) \cup Range(w)
      /\ OnWires(source) \subseteq OnWires(source') \cup Wire(k) /\ Wire(k) = {}
  BY <1>1, <1>3, TurnWires, RangeEmpty DEF Wire
<1>8. UNCHANGED <<list, unsent, missed>>
  BY DEF Refused, server, bell
<1>. QED  BY <1>3, <1>6, <1>7, <1>8, RangeEmpty DEF StreamKept, NothingLost, Seen, Listed

\* A source that breaks reconnects, and the store waits for it.
LEMMA BrokenStream ==
    ASSUME BellTypeOK, StreamInv, NEW k \in Sources, Broken(k)
    PROVE  StreamKept
<1>. DEFINE st == "connecting"
            w == << >>
<1>1. st \in {"connecting", "open", "closed"} /\ w \in Seq(Notes) /\ source' = Turned(k, st, w)
  BY EmptySeq, Turns DEF Broken
<1>2. \A j \in Sources \ {k} : ~Alive(j)
  BY StreamTyped DEF Broken, StreamInv, StreamSound, AliveAlone, AliveIn, Alive
<1>3. w = << >>
  OBVIOUS
<1>4. sse' = ErrorStore(sse, TRUE)
  BY DEF Broken, OnError, ErrorStore
<1>5. /\ sse' \in Stores(Len(source)) /\ sse'.eventSource = 0
      /\ ~sse'.isConnected /\ sse'.isConnecting
  BY <1>4, StreamTyped, StoreLost DEF StreamTypes
<1>. HIDE DEF st, w
<1>6. StreamInv'
  BY <1>1, <1>2, <1>3, <1>5, TurnStream DEF StreamInv, StoreSound, Free
<1>7. /\ OnWires(source') \subseteq OnWires(source) \cup Range(w)
      /\ OnWires(source) \subseteq OnWires(source') \cup Wire(k)
  BY <1>1, TurnWires
<1>8. UNCHANGED <<list, unsent>> /\ missed' = missed \cup Wire(k)
  BY DEF Broken, server, bell
<1>. QED  BY <1>3, <1>6, <1>7, <1>8, RangeEmpty DEF StreamKept, NothingLost, Seen, Listed

\* Receiving moves a note from the wire to the list, or to what was missed.
LEMMA ReceiveStream ==
    ASSUME BellTypeOK, StreamInv, NEW k \in Sources, Receive(k)
    PROVE  StreamKept /\ Listed' \subseteq Listed \cup OnWires(source)
<1>. DEFINE st == source[k].readyState
            w == Tail(source[k].wire)
            h == Head(source[k].wire)
<1>1. /\ source[k].wire \in Seq(Notes) /\ source[k].wire # << >>
      /\ st \in {"connecting", "open", "closed"}
  BY SourceFields DEF Receive
<1>2. /\ w \in Seq(Notes) /\ h \in Wire(k) /\ h \in Notes /\ Range(w) \subseteq Wire(k)
      /\ Wire(k) \subseteq Range(w) \cup {h}
  BY <1>1, HeadTailProperties, RangeAfterTail DEF Wire
<1>3. source' = Turned(k, st, w) /\ st = "open" /\ sse' = sse
  BY <1>1, Turns, StreamTyped DEF Receive, StreamInv, StreamSound, QuietWires
<1>4. \A j \in Sources \ {k} : ~Alive(j)
  BY <1>3, StreamTyped DEF StreamInv, StreamSound, AliveAlone, AliveIn, Alive
<1>5. ~Free(sse) /\ (sse.isConnected => k = sse.eventSource) /\ StoreSound(sse)
      /\ sse \in Stores(Len(source))
  BY <1>3, StreamTyped DEF StreamInv, StreamSound, AliveKnown, AliveIn, StreamTypes
<1>6. Wire(k) \subseteq OnWires(source)
  BY OnWiresMember, StreamTyped DEF Wire
<1>7. /\ UNCHANGED unsent /\ missed \subseteq missed' /\ Listed \subseteq Listed'
      /\ Listed' \subseteq Listed \cup {h} /\ h \in Listed' \cup missed'
  <2>1. CASE sse.listener = k
    <3>1. list' = [list EXCEPT ![h] = @ + 1] /\ missed' = missed
      BY <2>1 DEF Receive
    <3>2. list'[h] = list[h] + 1 /\ list[h] \in Nat /\ \A n \in Notes \ {h} : list'[n] = list[n]
      BY <1>2, <3>1 DEF BellTypeOK
    <3>3. Listed' = Listed \cup {h}
      BY <1>2, <3>2 DEF Listed
    <3>. QED  BY <3>1, <3>3 DEF Receive, server
  <2>2. CASE sse.listener # k
    BY <2>2 DEF Receive, Listed, server
  <2>. QED  BY <2>1, <2>2
<1>. HIDE DEF st, w, h
<1>8. StreamInv'
  BY <1>1, <1>2, <1>3, <1>4, <1>5, TurnStream DEF StreamInv
<1>9. /\ OnWires(source') \subseteq OnWires(source) \cup Range(w)
       /\ OnWires(source) \subseteq OnWires(source') \cup Wire(k)
       /\ Range(w) \subseteq OnWires(source')
  BY <1>1, <1>2, <1>3, TurnWires
<1>10. StreamKept
  BY <1>2, <1>6, <1>7, <1>8, <1>9 DEF StreamKept, NothingLost, Seen
<1>. QED  BY <1>2, <1>6, <1>7, <1>10

\* A push reaches the open sources, or nobody.
LEMMA PushSources ==
    ASSUME BellTypeOK, NEW n \in Notes, Push(n)
    PROVE  /\ source' \in Seq(EventSource) /\ Len(source') = Len(source)
           /\ \A k \in Sources : source'[k].readyState = source[k].readyState
           /\ \A k \in Sources : source'[k].wire =
                 IF source[k].readyState = "open" THEN Append(source[k].wire, n) ELSE source[k].wire
<1>1. Sources = 1..Len(source) /\ Len(source) \in Nat
  BY StreamTyped
<1>2. source' = [k \in Sources |-> IF k \in OpenSources
                                   THEN [source[k] EXCEPT !.wire = Append(@, n)] ELSE source[k]]
  BY DEF Push
<1>3. ASSUME NEW k \in Sources
      PROVE  /\ source'[k] \in EventSource /\ source'[k].readyState = source[k].readyState
             /\ source'[k].wire =
                   IF source[k].readyState = "open" THEN Append(source[k].wire, n) ELSE source[k].wire
  <2>1. CASE k \notin OpenSources
    <3>1. source'[k] = source[k] /\ source[k].readyState # "open"
      BY <1>2, <2>1 DEF OpenSources
    <3>. QED  BY <3>1, SourceFields
  <2>2. CASE k \in OpenSources
    <3>. DEFINE w == Append(source[k].wire, n)
    <3>1. source[k] \in EventSource /\ source[k].readyState = "open" /\ w \in Seq(Notes)
      BY <2>2, SourceFields, AppendProperties DEF OpenSources
    <3>2. source'[k] = [source[k] EXCEPT !.wire = w]
      BY <1>2, <2>2
    <3>. HIDE DEF w
    <3>3. source'[k] \in EventSource /\ source'[k].readyState = "open" /\ source'[k].wire = w
      BY <3>1, <3>2 DEF EventSource
    <3>. QED  BY <3>1, <3>3 DEF w
  <2>. QED  BY <2>1, <2>2
<1>4. source' \in [1..Len(source) -> EventSource]
  BY <1>1, <1>2, <1>3
<1>5. source' \in Seq(EventSource)
  BY <1>1, <1>4, SeqDef
<1>6. Len(source') = Len(source)
  BY <1>1, <1>4, <1>5, LenProperties
<1>. QED  BY <1>3, <1>5, <1>6

\* A push leaves the stream as it was and is on a wire, or missed.
LEMMA PushStream ==
    ASSUME BellTypeOK, StreamInv, NEW n \in Notes, Push(n)
    PROVE  StreamInv' /\ OnWires(source)' \subseteq OnWires(source) \cup {n} /\ NothingLost
<1>1. /\ source' \in Seq(EventSource) /\ Len(source') = Len(source) /\ Sources = 1..Len(source)
      /\ \A k \in Sources : source'[k].readyState = source[k].readyState
      /\ \A k \in Sources : source'[k].wire =
            IF source[k].readyState = "open" THEN Append(source[k].wire, n) ELSE source[k].wire
  BY PushSources, StreamTyped
<1>2. /\ UNCHANGED <<sse, list>> /\ unsent' = unsent \ {n}
      /\ missed' = IF OpenSources = {} THEN missed \cup {n} ELSE missed
  BY DEF Push, bell
<1>3. StreamInv'
  <2>1. \A k \in 1..Len(source) : AliveIn(source', k) <=> AliveIn(source, k)
    BY <1>1 DEF AliveIn
  <2>2. AliveAlone(source') /\ AliveKnown(source', sse)
    BY <1>1, <2>1 DEF StreamInv, StreamSound, AliveAlone, AliveKnown
  <2>3. QuietWires(source')
    BY <1>1 DEF StreamInv, StreamSound, QuietWires
  <2>. QED  BY <1>1, <1>2, <2>2, <2>3 DEF StreamInv, StreamSound, StreamTypes
<1>4. \A k \in Sources : /\ Range(source[k].wire) \subseteq Range(source'[k].wire)
                         /\ Range(source'[k].wire) \subseteq Range(source[k].wire) \cup {n}
                         /\ k \in OpenSources => n \in Range(source'[k].wire)
  BY <1>1, SourceFields, RangeAfterAppend DEF OpenSources
<1>5. /\ OnWires(source') \subseteq OnWires(source) \cup {n}
      /\ OnWires(source) \subseteq OnWires(source')
      /\ OpenSources # {} => n \in OnWires(source')
  <2>1. OpenSources \subseteq Sources
    BY DEF OpenSources
  <2>. QED  BY <1>1, <1>4, <2>1, OnWiresMember
<1>6. NothingLost
  BY <1>2, <1>5 DEF NothingLost, Seen, Listed
<1>. QED  BY <1>3, <1>5, <1>6

\* Subscribing changes the listener alone.
LEMMA SubscribeStream ==
    ASSUME BellTypeOK, StreamInv, Subscribe
    PROVE  StreamKept
<1>1. sse' = [sse EXCEPT !.listener = sse.eventSource] /\ UNCHANGED <<source, list, unsent, missed>>
  BY DEF Subscribe, server, bell
<1>2. /\ sse' \in Stores(Len(source)) /\ sse'.eventSource = sse.eventSource
      /\ sse'.isConnected = sse.isConnected /\ sse'.isConnecting = sse.isConnecting
  BY <1>1, StreamTyped DEF StreamTypes, Stores
<1>3. StreamInv'
  BY <1>1, <1>2 DEF StreamInv, StreamSound, StreamTypes, AliveAlone, AliveKnown, AliveIn, Free,
                    StoreSound, QuietWires
<1>. QED  BY <1>1, <1>3 DEF StreamKept, NothingLost, Seen, Listed

\* Showing the bell connects, if nothing is connected.
LEMMA EnterStream ==
    ASSUME BellTypeOK, StreamInv, Enter
    PROVE  StreamKept
<1>1. token + 1 \in Tokens
  BY NotificationBellAssumption DEF BellTypeOK, Enter, Tokens
<1>2. Connect(source, sse, token + 1) /\ UNCHANGED <<list, unsent, missed>>
  BY DEF Enter, server
<1>3. StreamInv' /\ OnWires(source') = OnWires(source)
  BY <1>1, <1>2, ConnectStream, ConnectWires DEF StreamInv
<1>. QED  BY <1>2, <1>3 DEF StreamKept, NothingLost, Seen, Listed

\* A refresh closes the connected source before it connects another.
LEMMA RefreshStream ==
    ASSUME BellTypeOK, StreamInv, Refresh
    PROVE  StreamKept
<1>1. token + 1 \in Tokens
  BY NotificationBellAssumption DEF BellTypeOK, Refresh, Tokens
<1>2. /\ Connect(AfterDisconnect, DisconnectedStore, token + 1) /\ UNCHANGED <<list, unsent>>
      /\ missed' = IF Disconnects THEN missed \cup Wire(sse.eventSource) ELSE missed
  BY DEF Refresh, server, bell
<1>3. StreamSound(AfterDisconnect, DisconnectedStore)
  BY DisconnectStream
<1>4. StreamInv' /\ OnWires(source') = OnWires(AfterDisconnect)
  BY <1>1, <1>2, <1>3, ConnectStream, ConnectWires DEF StreamInv
<1>. QED  BY <1>2, <1>4, DisconnectWires DEF StreamKept, NothingLost, Seen, Listed

\* Leaving closes the connected source.
LEMMA LeaveStream ==
    ASSUME BellTypeOK, StreamInv, Leave
    PROVE  StreamKept
<1>1. /\ source' = AfterDisconnect /\ sse' = DisconnectedStore /\ UNCHANGED <<list, unsent>>
      /\ missed' = IF Disconnects THEN missed \cup Wire(sse.eventSource) ELSE missed
  BY DEF Leave, server, bell
<1>2. StreamInv'
  BY <1>1, DisconnectStream DEF StreamInv
<1>. QED  BY <1>1, <1>2, DisconnectWires DEF StreamKept, NothingLost, Seen, Listed

---------------------------------------------------------------------------
(* The bell: rows, types and what is seen *)

\* The types but those of the stream.
RestTypes ==
    /\ row \in [Notes -> {"none", "stored", "deleted"}]
    /\ unsent \subseteq Rows
    /\ token \in 0..MaxTokens /\ expired \in 0..token
    /\ shown \in BOOLEAN
    /\ list \in [Notes -> Nat]
    /\ cursor \in 1..Undefined
    /\ request \in Fetching \cup Reading \cup {NoRequest}
    /\ firstPage \in 0..MaxNotes /\ missed \subseteq Notes

\* The type invariant, cut in two.
LEMMA TypesSplit == BellTypeOK <=> StreamTypes(source, sse) /\ RestTypes
BY DEF BellTypeOK, RestTypes, StreamTypes, Stores, Rows

\* The two halves of the next state make its type invariant.
LEMMA TypesJoined ==
    ASSUME StreamInv', RestTypes'
    PROVE  BellTypeOK'
BY DEF BellTypeOK, RestTypes, StreamTypes, Stores, Rows, StreamInv, StreamSound

\* What the list promises, in terms of what is seen.
LEMMA SeenNow ==
    ASSUME BellTypeOK, ListedUnlessMissed, NEW n \in Notes, row[n] = "stored", n > firstPage
    PROVE  n \in Seen
<1>1. UNION {Wire(k) : k \in Sources} = OnWires(source)
  BY StreamTyped DEF OnWires, Wire
<1>. QED  BY <1>1 DEF ListedUnlessMissed, Seen, OnTheWay

\* The same after a step.
LEMMA SeenThen ==
    ASSUME StreamInv',
           \A n \in Notes : row'[n] = "stored" /\ n > firstPage' => n \in Seen'
    PROVE  ListedUnlessMissed'
<1>1. Sources' = 1..Len(source')
  BY LenProperties DEF StreamInv, StreamSound, StreamTypes, Sources
<1>2. UNION {Wire(k)' : k \in Sources'} = OnWires(source')
  BY <1>1 DEF OnWires, Wire
<1>. QED  BY <1>2 DEF ListedUnlessMissed, Seen, OnTheWay

\* The rows are the first notes.
LEMMA RowsAreFirst ==
    ASSUME BellTypeOK, RowInv
    PROVE  Rows = 1..Created /\ Created \in 0..MaxNotes
<1>1. IsFiniteSet(Notes) /\ Cardinality(Notes) = MaxNotes /\ MaxNotes \in Nat
  BY FS_Interval, NotificationBellAssumption DEF Notes
<1>2. Rows \in SUBSET Notes /\ Created = Cardinality(Rows)
  BY DEF Rows, Created
<1>3. IsFiniteSet(Rows) /\ Created \in Nat /\ Created <= MaxNotes
  BY <1>1, <1>2, FS_Subset, FS_CardinalityType
<1>4. \A n \in Notes : n \in Rows <=> n <= Created
  BY DEF RowInv, RowsNumbered
<1>5. ASSUME NEW n \in Rows PROVE n \in 1..Created
  BY <1>1, <1>2, <1>3, <1>4 DEF Notes
<1>6. ASSUME NEW n \in 1..Created PROVE n \in Rows
  BY <1>1, <1>3, <1>4 DEF Notes
<1>7. Rows = 1..Created
  BY <1>5, <1>6, Zenon
<1>. QED  BY <1>1, <1>3, <1>7

\* Rows that stay the same set stay numbered.
LEMMA RowsStay ==
    ASSUME RowInv, Rows' = Rows
    PROVE  RowsNumbered' /\ Created' = Created
BY DEF RowInv, RowsNumbered, Rows, Created

\* The records a request may be.
LEMMA RequestFields ==
    ASSUME BellTypeOK
    PROVE  /\ request.kind = "fetch" => request \in Fetching
           /\ request.kind = "read" => request \in Reading
           /\ request \in Fetching => request.kind = "fetch" /\ request.page \subseteq Notes
                                      /\ request.cursor \in 1..Undefined
           /\ request \in Reading => request.kind = "read" /\ request.note \in Notes
           /\ NoRequest.kind = "none"
BY DEF BellTypeOK, Fetching, Reading, NoRequest

---------------------------------------------------------------------------
(* The bell: every step keeps the invariant *)

BellKept == RestTypes' /\ RowInv' /\ ListedUnlessMissed'

\* A step of the stream that asks for nothing and expires nothing.
LEMMA StreamStep ==
    ASSUME BellInv, StreamKept, UNCHANGED <<row, unsent, firstPage>>,
           Listed' \subseteq Listed \cup OnWires(source), missed' \subseteq missed \cup OnWires(source),
           RequestKnown', ReadDeleted',
           list' \in [Notes -> Nat], cursor' \in 1..Undefined, shown' \in BOOLEAN,
           token' \in 0..MaxTokens, expired' \in 0..token',
           request' \in Fetching \cup Reading \cup {NoRequest}
    PROVE  BellKept
<1>1. Rows' = Rows /\ Rows \subseteq Notes
  BY DEF Rows
<1>2. RowInv'
  BY <1>1, RowsStay DEF BellInv, StreamKept, RowInv, ListKnown, WiresKnown
<1>3. RestTypes'
  BY <1>1, TypesSplit DEF BellInv, RestTypes, RowInv, WiresKnown
<1>4. \A n \in Notes : row'[n] = "stored" /\ n > firstPage' => n \in Seen'
  BY SeenNow DEF BellInv, StreamKept, NothingLost
<1>5. ListedUnlessMissed'
  BY <1>4, SeenThen DEF StreamKept
<1>. QED  BY <1>2, <1>3, <1>5 DEF BellKept

\* Wires are part of what is on the wires.
LEMMA WireOnWires ==
    ASSUME BellTypeOK, NEW k \in Sources
    PROVE  Wire(k) \subseteq OnWires(source)
BY OnWiresMember, StreamTyped DEF Wire

\* A source is opened.
LEMMA OpenedStep ==
    ASSUME BellInv, NEW k \in Sources, Opened(k)
    PROVE  StreamInv' /\ BellKept
<1>1. StreamKept
  BY OpenedStream DEF BellInv
<1>2. /\ UNCHANGED <<row, unsent, firstPage, missed, list, cursor, request, shown, token, expired>>
      /\ Listed' = Listed
  BY DEF Opened, server, bell, Listed
<1>3. RequestKnown' /\ ReadDeleted'
  BY <1>2 DEF BellInv, RowInv, RequestKnown, ReadDeleted, Rows
<1>. QED  BY <1>1, <1>2, <1>3, StreamStep, TypesSplit DEF BellInv, RestTypes, StreamKept

\* A source is refused.
LEMMA RefusedStep ==
    ASSUME BellInv, NEW k \in Sources, Refused(k)
    PROVE  StreamInv' /\ BellKept
<1>1. StreamKept
  BY RefusedStream DEF BellInv
<1>2. /\ UNCHANGED <<row, unsent, firstPage, missed, list, cursor, request, shown, token, expired>>
      /\ Listed' = Listed
  BY DEF Refused, server, bell, Listed
<1>3. RequestKnown' /\ ReadDeleted'
  BY <1>2 DEF BellInv, RowInv, RequestKnown, ReadDeleted, Rows
<1>. QED  BY <1>1, <1>2, <1>3, StreamStep, TypesSplit DEF BellInv, RestTypes, StreamKept

\* A connection breaks.
LEMMA BrokenStep ==
    ASSUME BellInv, NEW k \in Sources, Broken(k)
    PROVE  StreamInv' /\ BellKept
<1>1. StreamKept
  BY BrokenStream DEF BellInv
<1>2. /\ UNCHANGED <<row, unsent, firstPage, list, cursor, request, shown, token, expired>>
      /\ Listed' = Listed /\ missed' = missed \cup Wire(k)
  BY DEF Broken, server, bell, Listed
<1>3. RequestKnown' /\ ReadDeleted'
  BY <1>2 DEF BellInv, RowInv, RequestKnown, ReadDeleted, Rows
<1>4. Wire(k) \subseteq OnWires(source)
  BY WireOnWires DEF BellInv
<1>. QED  BY <1>1, <1>2, <1>3, <1>4, StreamStep, TypesSplit DEF BellInv, RestTypes, StreamKept

\* A note is received.
LEMMA ReceiveStep ==
    ASSUME BellInv, NEW k \in Sources, Receive(k)
    PROVE  StreamInv' /\ BellKept
<1>1. StreamKept /\ Listed' \subseteq Listed \cup OnWires(source)
  BY ReceiveStream DEF BellInv
<1>2. UNCHANGED <<row, unsent, firstPage, cursor, request, shown, token, expired>>
  BY DEF Receive, server
<1>3. RequestKnown' /\ ReadDeleted'
  BY <1>2 DEF BellInv, RowInv, RequestKnown, ReadDeleted, Rows
<1>4. Head(source[k].wire) \in OnWires(source) /\ Head(source[k].wire) \in Notes
  BY SourceFields, RangeAfterTail, RangeInNotes, WireOnWires DEF BellInv, Receive, Wire
<1>. DEFINE h == Head(source[k].wire)
<1>5. list' \in [Notes -> Nat] /\ missed' \subseteq missed \cup OnWires(source)
  <2>1. h \in OnWires(source) /\ h \in Notes /\ list \in [Notes -> Nat]
    BY <1>4 DEF BellInv, BellTypeOK
  <2>2. \/ list' = [list EXCEPT ![h] = @ + 1] /\ missed' = missed
        \/ list' = list /\ missed' = missed \cup {h}
    BY DEF Receive
  <2>. HIDE DEF h
  <2>. QED  BY <2>1, <2>2
<1>. QED  BY <1>1, <1>2, <1>3, <1>5, StreamStep, TypesSplit DEF BellInv, RestTypes, StreamKept

\* The bell subscribes.
LEMMA SubscribeStep ==
    ASSUME BellInv, Subscribe
    PROVE  StreamInv' /\ BellKept
<1>1. StreamKept
  BY SubscribeStream DEF BellInv
<1>2. /\ UNCHANGED <<row, unsent, firstPage, missed, list, cursor, request, shown, token, expired>>
      /\ Listed' = Listed
  BY DEF Subscribe, server, bell, Listed
<1>3. RequestKnown' /\ ReadDeleted'
  BY <1>2 DEF BellInv, RowInv, RequestKnown, ReadDeleted, Rows
<1>. QED  BY <1>1, <1>2, <1>3, StreamStep, TypesSplit DEF BellInv, RestTypes, StreamKept

\* The bell is shown.
LEMMA EnterStep ==
    ASSUME BellInv, Enter
    PROVE  StreamInv' /\ BellKept
<1>1. StreamKept
  BY EnterStream DEF BellInv
<1>2. /\ UNCHANGED <<row, unsent, firstPage, missed, list, cursor, expired>>
      /\ Listed' = Listed /\ shown' = TRUE /\ token' = token + 1 /\ token < MaxTokens
      /\ request' = IF request = NoRequest THEN FetchPage ELSE request
  BY DEF Enter, server, Listed
<1>3. FetchPage \in Fetching /\ FetchPage.kind = "fetch" /\ FetchPage.page = {}
  BY DEF BellInv, BellTypeOK, FetchPage, Fetching
<1>4. RequestKnown' /\ ReadDeleted'
  BY <1>2, <1>3 DEF BellInv, RowInv, RequestKnown, ReadDeleted, Rows
<1>5. token' \in 0..MaxTokens /\ expired' \in 0..token'
  BY <1>2, NotificationBellAssumption DEF BellInv, BellTypeOK
<1>6. request' \in Fetching \cup Reading \cup {NoRequest}
  BY <1>2, <1>3 DEF BellInv, BellTypeOK
<1>. QED  BY <1>1, <1>2, <1>4, <1>5, <1>6, StreamStep, TypesSplit DEF BellInv, RestTypes, StreamKept

\* What a disconnect misses was on the wires.
LEMMA DisconnectMisses ==
    ASSUME BellTypeOK, StreamInv, Disconnects
    PROVE  Wire(sse.eventSource) \subseteq OnWires(source)
BY WireOnWires, StreamTyped DEF Disconnects

\* The token is refreshed.
LEMMA RefreshStep ==
    ASSUME BellInv, Refresh
    PROVE  StreamInv' /\ BellKept
<1>1. StreamKept
  BY RefreshStream DEF BellInv
<1>2. /\ UNCHANGED <<row, unsent, firstPage, list, cursor, request, shown, expired>>
      /\ Listed' = Listed /\ token' = token + 1 /\ token < MaxTokens
      /\ missed' = IF Disconnects THEN missed \cup Wire(sse.eventSource) ELSE missed
  BY DEF Refresh, server, bell, Listed
<1>3. RequestKnown' /\ ReadDeleted'
  BY <1>2 DEF BellInv, RowInv, RequestKnown, ReadDeleted, Rows
<1>4. missed' \subseteq missed \cup OnWires(source)
  BY <1>2, DisconnectMisses DEF BellInv
<1>5. token' \in 0..MaxTokens /\ expired' \in 0..token'
  BY <1>2, NotificationBellAssumption DEF BellInv, BellTypeOK
<1>. QED  BY <1>1, <1>2, <1>3, <1>4, <1>5, StreamStep, TypesSplit DEF BellInv, RestTypes, StreamKept

\* The user leaves.
LEMMA LeaveStep ==
    ASSUME BellInv, Leave
    PROVE  StreamInv' /\ BellKept
<1>1. StreamKept
  BY LeaveStream DEF BellInv
<1>2. /\ UNCHANGED <<row, unsent, firstPage, list, cursor, request, token, expired>>
      /\ Listed' = Listed /\ shown' = FALSE
      /\ missed' = IF Disconnects THEN missed \cup Wire(sse.eventSource) ELSE missed
  BY DEF Leave, server, bell, Listed
<1>3. RequestKnown' /\ ReadDeleted'
  BY <1>2 DEF BellInv, RowInv, RequestKnown, ReadDeleted, Rows
<1>4. missed' \subseteq missed \cup OnWires(source)
  BY <1>2, DisconnectMisses DEF BellInv
<1>. QED  BY <1>1, <1>2, <1>3, <1>4, StreamStep, TypesSplit DEF BellInv, RestTypes, StreamKept

\* Created counts the rows; one more is the next one.
LEMMA StoreStep ==
    ASSUME BellInv, Store
    PROVE  StreamInv' /\ BellKept
<1>. DEFINE m == Created + 1
<1>1. Rows = 1..Created /\ Created \in 0..MaxNotes /\ MaxNotes \in Nat
  BY RowsAreFirst, NotificationBellAssumption DEF BellInv
<1>2. /\ Created < MaxNotes /\ row' = [row EXCEPT ![m] = "stored"] /\ unsent' = unsent \cup {m}
      /\ UNCHANGED <<token, expired, shown, source, sse, list, cursor, request, firstPage, missed>>
  BY DEF Store, stream, bell
<1>3. m \in Notes /\ m \in Nat
  BY <1>1, <1>2 DEF Notes
<1>4. row \in [Notes -> {"none", "stored", "deleted"}]
  BY DEF BellInv, BellTypeOK
<1>5. Rows' = 1..m /\ m \in Rows'
  <2>1. Rows' = Rows \cup {m}
    BY <1>2, <1>3, <1>4 DEF Rows
  <2>. QED  BY <1>1, <1>3, <2>1
<1>6. Created' = m
  <2>1. Created' = Cardinality(Rows')
    BY DEF Created, Rows
  <2>2. Cardinality(1..m) = m
    BY <1>3, FS_Interval
  <2>. QED  BY <1>5, <2>1, <2>2
<1>7. RowsNumbered' /\ Rows \subseteq Rows'
  BY <1>1, <1>3, <1>5, <1>6 DEF RowsNumbered, Notes
<1>8. row' \in [Notes -> {"none", "stored", "deleted"}] /\ \A n \in Rows : row'[n] = row[n]
  BY <1>1, <1>2, <1>3, <1>4
<1>9. /\ Listed' = Listed /\ OnWires(source)' = OnWires(source) /\ StreamInv'
      /\ (request.kind = "read" => request.note \in Rows)
  BY <1>2 DEF Listed, BellInv, RowInv, RequestKnown, StreamInv, StreamSound, StreamTypes, AliveAlone,
              AliveKnown, AliveIn, Free, StoreSound, QuietWires
<1>. HIDE DEF m
<1>10. RowInv'
  <2>1. ListKnown' /\ WiresKnown'
    BY <1>7, <1>9 DEF BellInv, RowInv, ListKnown, WiresKnown
  <2>2. RequestKnown' /\ ReadDeleted'
    BY <1>2, <1>7, <1>8, <1>9 DEF BellInv, RowInv, RequestKnown, ReadDeleted
  <2>. QED  BY <1>7, <2>1, <2>2 DEF RowInv
<1>11. RestTypes'
  <2>1. RestTypes
    BY TypesSplit DEF BellInv
  <2>2. unsent' \subseteq Rows'
    BY <1>2, <1>5, <1>7, <2>1, Zenon DEF RestTypes
  <2>. QED  BY <1>2, <1>8, <2>1, <2>2 DEF RestTypes, Undefined
<1>12. \A n \in Notes : row'[n] = "stored" /\ n > firstPage' => n \in Seen'
  <2>1. \A n \in Notes \ {m} : row'[n] = row[n]
    BY <1>2, <1>4
  <2>. QED  BY <1>2, <1>9, <2>1, SeenNow DEF BellInv, Seen
<1>. QED  BY <1>9, <1>10, <1>11, <1>12, SeenThen DEF BellKept

\* A note is pushed.
LEMMA PushStep ==
    ASSUME BellInv, NEW n \in Notes, Push(n)
    PROVE  StreamInv' /\ BellKept
<1>1. StreamInv' /\ OnWires(source)' \subseteq OnWires(source) \cup {n} /\ NothingLost
  BY PushStream DEF BellInv
<1>2. /\ UNCHANGED <<row, token, expired, shown, list, cursor, request, firstPage>>
      /\ unsent' \subseteq unsent /\ n \in unsent /\ missed' \subseteq missed \cup {n}
  BY DEF Push, bell
<1>3. Rows' = Rows /\ Listed' = Listed /\ n \in Rows
  BY <1>2, TypesSplit DEF Rows, Listed, BellInv, RestTypes
<1>4. RowInv'
  BY <1>1, <1>2, <1>3, RowsStay
     DEF BellInv, RowInv, ListKnown, WiresKnown, RequestKnown, ReadDeleted
<1>5. RestTypes'
  BY <1>2, <1>3, TypesSplit DEF BellInv, RestTypes
<1>6. \A i \in Notes : row'[i] = "stored" /\ i > firstPage' => i \in Seen'
  BY <1>1, <1>2, SeenNow DEF BellInv, NothingLost
<1>. QED  BY <1>1, <1>4, <1>5, <1>6, SeenThen DEF BellKept

\* A step that leaves the rows, the stream and the list.
LEMMA AsideStep ==
    ASSUME BellInv, UNCHANGED <<row, unsent, source, sse, list, missed>>,
           \A n \in Notes : row[n] = "stored" /\ n > firstPage' => n > firstPage,
           RequestKnown', ReadDeleted', RestTypes'
    PROVE  StreamInv' /\ BellKept
<1>1. /\ StreamInv' /\ Listed' = Listed /\ Rows' = Rows /\ OnWires(source)' = OnWires(source)
      /\ Seen' = Seen
  BY DEF Listed, Rows, Seen, BellInv, StreamInv, StreamSound, StreamTypes, AliveAlone,
         AliveKnown, AliveIn, Free, StoreSound, QuietWires, OnWires
<1>2. RowInv'
  BY <1>1, RowsStay DEF BellInv, RowInv, ListKnown, WiresKnown
<1>3. \A n \in Notes : row'[n] = "stored" /\ n > firstPage' => n \in Seen'
  BY <1>1, SeenNow DEF BellInv
<1>. QED  BY <1>1, <1>2, <1>3, SeenThen DEF BellKept

\* The lowest note of a page is one of its notes.
LEMMA LowestInPage ==
    ASSUME NEW P \in SUBSET Notes, P # {}
    PROVE  Min(P) \in Notes
<1>1. P \subseteq Nat
  BY NotificationBellAssumption DEF Notes
<1>2. PICK x \in P : \A y \in P : ~(<<y, x>> \in OpToRel(<, Nat))
  BY <1>1, NatLessThanWellFounded, WFMin
<1>3. \A y \in P : x <= y
  <2>1. x \in Nat /\ \A y \in P : y \in Nat
    BY <1>1
  <2>2. \A y \in P : ~(y < x)
    BY <1>2, <2>1, Zenon DEF OpToRel
  <2>. QED  BY <2>1, <2>2
<1>4. Min(P) \in P
  BY <1>3 DEF Min
<1>. QED  BY <1>4

\* A token expires.
LEMMA ExpireStep ==
    ASSUME BellInv, Expire
    PROVE  StreamInv' /\ BellKept
<1>1. /\ UNCHANGED <<row, unsent, source, sse, list, missed, cursor, request, shown, token, firstPage>>
      /\ expired < token /\ expired' = expired + 1
  BY DEF Expire, server, stream, bell
<1>2. RestTypes
  BY TypesSplit DEF BellInv
<1>3. expired' \in 0..token
  BY <1>1, <1>2, NotificationBellAssumption DEF RestTypes
<1>4. RestTypes'
  BY <1>1, <1>2, <1>3 DEF RestTypes, Rows, Undefined
<1>5. RequestKnown' /\ ReadDeleted'
  BY <1>1 DEF BellInv, RowInv, RequestKnown, ReadDeleted, Rows
<1>. QED  BY <1>1, <1>4, <1>5, AsideStep

\* A page is read; the first one that is read names its rows.
LEMMA ServeFetchStep ==
    ASSUME BellInv, ServeFetch
    PROVE  StreamInv' /\ BellKept
<1>. DEFINE P == PageOf(request.cursor)
<1>1. /\ UNCHANGED <<row, unsent, source, sse, list, missed, cursor, shown, token, expired>>
      /\ request.kind = "fetch" /\ request' = [request EXCEPT !.pc = "served", !.page = P]
      /\ firstPage' = IF firstPage = MaxNotes THEN Created ELSE firstPage
  BY DEF ServeFetch, stream
<1>2. RestTypes /\ request \in Fetching
  BY <1>1, TypesSplit, RequestFields DEF BellInv
<1>3. P \subseteq Rows /\ P \subseteq Notes
  BY DEF PageOf, Matches, Rows
<1>. HIDE DEF P
<1>4. request' \in Fetching /\ request'.kind = "fetch" /\ request'.page = P
  <2>. DEFINE r == [request EXCEPT !.pc = "served"]
  <2>1. r \in Fetching
    BY <1>2 DEF Fetching
  <2>. HIDE DEF r
  <2>2. /\ [r EXCEPT !.page = P] \in Fetching /\ [r EXCEPT !.page = P].kind = "fetch"
        /\ [r EXCEPT !.page = P].page = P
    BY <1>3, <2>1 DEF Fetching
  <2>. QED  BY <1>1, <2>2 DEF r
<1>5. Rows = 1..Created /\ Created \in 0..MaxNotes
  BY RowsAreFirst DEF BellInv
<1>6. RestTypes'
  BY <1>1, <1>2, <1>4, <1>5 DEF RestTypes, Rows, Undefined
<1>7. RequestKnown' /\ ReadDeleted'
  BY <1>1, <1>3, <1>4 DEF RequestKnown, ReadDeleted, Rows
<1>8. ASSUME NEW n \in Notes, row[n] = "stored", n > firstPage' PROVE n > firstPage
  <2>1. n \in Rows
    BY <1>8 DEF Rows
  <2>. QED  BY <1>1, <1>5, <1>8, <2>1
<1>. QED  BY <1>1, <1>6, <1>7, <1>8, AsideStep

\* A note is clicked.
LEMMA ClickNoteStep ==
    ASSUME BellInv, NEW n \in Notes, ClickNote(n)
    PROVE  StreamInv' /\ BellKept
<1>1. /\ UNCHANGED <<row, unsent, source, sse, list, missed, cursor, shown, token, expired, firstPage>>
      /\ n \in Listed /\ request' = [kind |-> "read", pc |-> "sent", note |-> n]
  BY DEF ClickNote, server, stream
<1>2. RestTypes /\ Listed \subseteq Rows
  BY TypesSplit DEF BellInv, RowInv, ListKnown
<1>3. request' \in Reading /\ request'.kind = "read" /\ request'.pc = "sent" /\ request'.note = n
  BY <1>1 DEF Reading
<1>4. RestTypes'
  BY <1>1, <1>2, <1>3 DEF RestTypes, Rows, Undefined
<1>5. RequestKnown' /\ ReadDeleted'
  BY <1>1, <1>2, <1>3 DEF RequestKnown, ReadDeleted, Rows
<1>. QED  BY <1>1, <1>4, <1>5, AsideStep

\* A request fails.
LEMMA FailStep ==
    ASSUME BellInv, Fail
    PROVE  StreamInv' /\ BellKept
<1>1. /\ UNCHANGED <<row, unsent, source, sse, list, missed, cursor, shown, token, expired, firstPage>>
      /\ request' = NoRequest
  BY DEF Fail, server, stream
<1>2. RestTypes /\ NoRequest.kind = "none"
  BY TypesSplit DEF BellInv, NoRequest
<1>3. RestTypes'
  BY <1>1, <1>2 DEF RestTypes, Rows, Undefined
<1>4. RequestKnown' /\ ReadDeleted'
  BY <1>1, <1>2 DEF RequestKnown, ReadDeleted
<1>. QED  BY <1>1, <1>3, <1>4, AsideStep

\* The list only grows by what the page holds.
LEMMA ShowPageStep ==
    ASSUME BellInv, ShowPage
    PROVE  StreamInv' /\ BellKept
<1>1. /\ UNCHANGED <<row, unsent, source, sse, missed, shown, token, expired, firstPage>>
      /\ request.kind = "fetch" /\ list' = Appended /\ cursor' = NextCursor /\ request' = NoRequest
  BY DEF ShowPage, server, stream
<1>2. RestTypes /\ request.page \subseteq Notes /\ request.page \subseteq Rows /\ NoRequest.kind = "none"
  BY <1>1, TypesSplit, RequestFields DEF BellInv, RowInv, RequestKnown
<1>3. /\ list' \in [Notes -> Nat]
      /\ \A n \in Notes : list'[n] = list[n] + (IF n \in request.page THEN 1 ELSE 0)
  BY <1>1, <1>2 DEF Appended, RestTypes
<1>4. Listed' = Listed \cup request.page
  <2>1. list \in [Notes -> Nat]
    BY <1>2 DEF RestTypes
  <2>. QED  BY <1>2, <1>3, <2>1 DEF Listed
<1>5. cursor' \in 1..Undefined
  <2>1. Undefined \in 1..Undefined
    BY NotificationBellAssumption DEF Undefined
  <2>2. \A n \in Notes : n \in 1..Undefined
    BY NotificationBellAssumption DEF Undefined, Notes
  <2>. QED  BY <1>1, <1>2, <2>1, <2>2, LowestInPage DEF NextCursor
<1>6. Rows' = Rows /\ OnWires(source)' = OnWires(source) /\ StreamInv'
  BY <1>1 DEF Rows, OnWires, BellInv, StreamInv, StreamSound, StreamTypes, AliveAlone,
              AliveKnown, AliveIn, Free, StoreSound, QuietWires
<1>7. RestTypes'
  <2>1. Undefined' = Undefined
    BY DEF Undefined
  <2>. QED  BY <1>1, <1>2, <1>3, <1>5, <1>6, <2>1 DEF RestTypes
<1>8. RowInv'
  BY <1>1, <1>2, <1>4, <1>6, RowsStay
     DEF BellInv, RowInv, ListKnown, WiresKnown, RequestKnown, ReadDeleted
<1>9. \A n \in Notes : row'[n] = "stored" /\ n > firstPage' => n \in Seen'
  BY <1>1, <1>4, <1>6, SeenNow DEF BellInv, Seen
<1>. QED  BY <1>6, <1>7, <1>8, <1>9, SeenThen DEF BellKept

\* What is deleted is a row already.
LEMMA ServeReadStep ==
    ASSUME BellInv, ServeRead
    PROVE  StreamInv' /\ BellKept
<1>. DEFINE n == request.note
<1>1. /\ UNCHANGED <<unsent, source, sse, list, missed, cursor, shown, token, expired, firstPage>>
      /\ request.kind = "read" /\ request' = [request EXCEPT !.pc = "served"]
      /\ row' = [row EXCEPT ![n] = "deleted"]
  BY DEF ServeRead, stream
<1>2. RestTypes /\ request \in Reading /\ n \in Notes /\ n \in Rows
  BY <1>1, TypesSplit, RequestFields DEF BellInv, RowInv, RequestKnown
<1>3. /\ request' \in Reading /\ request'.kind = "read" /\ request'.note = n
  BY <1>1, <1>2 DEF Reading
<1>. HIDE DEF n
<1>4. /\ row' \in [Notes -> {"none", "stored", "deleted"}] /\ row'[n] = "deleted"
      /\ \A i \in Notes \ {n} : row'[i] = row[i]
  BY <1>1, <1>2 DEF RestTypes
<1>5. Rows' = Rows
  BY <1>2, <1>4 DEF Rows
<1>6. OnWires(source)' = OnWires(source) /\ Listed' = Listed /\ Seen' = Seen /\ StreamInv'
  BY <1>1 DEF Listed, Seen, OnWires, BellInv, StreamInv, StreamSound, StreamTypes, AliveAlone,
              AliveKnown, AliveIn, Free, StoreSound, QuietWires
<1>7. RestTypes'
  BY <1>1, <1>2, <1>3, <1>4, <1>5 DEF RestTypes, Undefined
<1>8. RequestKnown' /\ ReadDeleted'
  BY <1>2, <1>3, <1>4, <1>5 DEF RequestKnown, ReadDeleted
<1>9. RowInv'
  BY <1>5, <1>6, <1>8, RowsStay DEF BellInv, RowInv, ListKnown, WiresKnown
<1>10. \A i \in Notes : row'[i] = "stored" /\ i > firstPage' => i \in Seen'
  <2>1. \A i \in Notes : row'[i] = "stored" => row[i] = "stored"
    BY <1>4
  <2>. QED  BY <1>1, <1>6, <2>1, SeenNow DEF BellInv
<1>. QED  BY <1>6, <1>7, <1>9, <1>10, SeenThen DEF BellKept

\* Only what is deleted leaves the list.
LEMMA EndReadStep ==
    ASSUME BellInv, EndRead
    PROVE  StreamInv' /\ BellKept
<1>. DEFINE n == request.note
<1>1. /\ UNCHANGED <<row, unsent, source, sse, missed, cursor, shown, token, expired, firstPage>>
      /\ request.kind = "read" /\ request.pc = "served"
      /\ list' = [list EXCEPT ![n] = 0] /\ request' = NoRequest
  BY DEF EndRead, server, stream
<1>2. RestTypes /\ n \in Notes /\ row[n] = "deleted" /\ NoRequest.kind = "none"
  BY <1>1, TypesSplit, RequestFields DEF BellInv, RowInv, ReadDeleted
<1>. HIDE DEF n
<1>3. /\ list' \in [Notes -> Nat] /\ list'[n] = 0 /\ \A i \in Notes \ {n} : list'[i] = list[i]
  BY <1>1, <1>2 DEF RestTypes
<1>4. Listed' = Listed \ {n}
  BY <1>2, <1>3 DEF Listed
<1>5. Rows' = Rows /\ OnWires(source)' = OnWires(source) /\ StreamInv'
  BY <1>1 DEF Rows, OnWires, BellInv, StreamInv, StreamSound, StreamTypes, AliveAlone,
              AliveKnown, AliveIn, Free, StoreSound, QuietWires
<1>6. RestTypes'
  BY <1>1, <1>2, <1>3, <1>5 DEF RestTypes, Undefined
<1>7. RowInv'
  BY <1>1, <1>2, <1>4, <1>5, RowsStay
     DEF BellInv, RowInv, ListKnown, WiresKnown, RequestKnown, ReadDeleted
<1>8. \A i \in Notes : row'[i] = "stored" /\ i > firstPage' => i \in Seen'
  <2>1. \A i \in Notes : row[i] = "stored" => i # n
    BY <1>2
  <2>. QED  BY <1>1, <1>4, <1>5, <2>1, SeenNow DEF BellInv, Seen
<1>. QED  BY <1>5, <1>6, <1>7, <1>8, SeenThen DEF BellKept

---------------------------------------------------------------------------
(* The bell: theorems *)

\* The invariant holds at first.
LEMMA BellInvInit == BellInit => BellInv
<1>. SUFFICES ASSUME BellInit PROVE BellInv
  OBVIOUS
<1>1. /\ source = << >> /\ Len(source) = 0 /\ source \in Seq(EventSource) /\ OnWires(source) = {}
  BY EmptySeq DEF BellInit, OnWires
<1>2. StreamInv
  BY <1>1 DEF BellInit, StreamInv, StreamSound, StreamTypes, Stores, AliveAlone, AliveKnown,
              StoreSound, QuietWires
<1>3. RestTypes
  <2>1. Undefined \in 1..Undefined
    BY NotificationBellAssumption DEF Undefined
  <2>2. row \in [Notes -> {"none", "stored", "deleted"}] /\ list \in [Notes -> Nat]
    BY DEF BellInit
  <2>3. token \in 0..MaxTokens /\ expired \in 0..token /\ firstPage \in 0..MaxNotes
    BY NotificationBellAssumption DEF BellInit
  <2>4. unsent \subseteq Rows /\ shown \in BOOLEAN /\ missed \subseteq Notes
    BY DEF BellInit
  <2>. QED  BY <2>1, <2>2, <2>3, <2>4 DEF BellInit, RestTypes
<1>4. BellTypeOK
  BY <1>2, <1>3, TypesSplit DEF StreamInv, StreamSound
<1>5. Rows = {} /\ Listed = {} /\ Created = 0
  <2>1. Rows = {} /\ Listed = {} /\ Created = Cardinality(Rows)
    BY DEF BellInit, Rows, Listed, Created
  <2>. QED  BY <2>1, FS_EmptySet
<1>6. RowInv
  BY <1>1, <1>5 DEF BellInit, NoRequest, RowInv, RowsNumbered, ListKnown, WiresKnown, RequestKnown,
                    ReadDeleted, Notes
<1>7. ListedUnlessMissed
  BY DEF BellInit, ListedUnlessMissed
<1>. QED  BY <1>2, <1>4, <1>6, <1>7 DEF BellInv

\* Every step keeps it.
LEMMA BellInvStep == BellInv /\ [BellNext]_bellVars => BellInv'
<1>. SUFFICES ASSUME BellInv, [BellNext]_bellVars PROVE StreamInv' /\ BellKept
  BY TypesJoined DEF BellInv, BellKept
<1>1. CASE Store
  BY <1>1, StoreStep
<1>2. ASSUME NEW n \in Notes, Push(n) PROVE StreamInv' /\ BellKept
  BY <1>2, PushStep
<1>3. CASE Expire
  BY <1>3, ExpireStep
<1>4. ASSUME NEW k \in Sources, Opened(k) PROVE StreamInv' /\ BellKept
  BY <1>4, OpenedStep
<1>5. ASSUME NEW k \in Sources, Refused(k) PROVE StreamInv' /\ BellKept
  BY <1>5, RefusedStep
<1>6. ASSUME NEW k \in Sources, Broken(k) PROVE StreamInv' /\ BellKept
  BY <1>6, BrokenStep
<1>7. ASSUME NEW k \in Sources, Receive(k) PROVE StreamInv' /\ BellKept
  BY <1>7, ReceiveStep
<1>8. CASE Subscribe
  BY <1>8, SubscribeStep
<1>9. CASE Enter
  BY <1>9, EnterStep
<1>10. CASE Refresh
  BY <1>10, RefreshStep
<1>11. CASE Leave
  BY <1>11, LeaveStep
<1>12. CASE ServeFetch
  BY <1>12, ServeFetchStep
<1>13. CASE ShowPage
  BY <1>13, ShowPageStep
<1>14. ASSUME NEW n \in Notes, ClickNote(n) PROVE StreamInv' /\ BellKept
  BY <1>14, ClickNoteStep
<1>15. CASE ServeRead
  BY <1>15, ServeReadStep
<1>16. CASE EndRead
  BY <1>16, EndReadStep
<1>17. CASE Fail
  BY <1>17, FailStep
<1>18. CASE UNCHANGED bellVars
  <2>1. UNCHANGED <<row, unsent, source, sse, list, missed, cursor, request, shown, token, expired, firstPage>>
    BY <1>18 DEF bellVars, server, stream, bell
  <2>2. RestTypes' /\ RequestKnown' /\ ReadDeleted'
    BY <2>1, TypesSplit DEF BellInv, RestTypes, Rows, Undefined, RowInv, RequestKnown, ReadDeleted
  <2>. QED  BY <2>1, <2>2, AsideStep
<1>. QED
  BY <1>1, <1>2, <1>3, <1>4, <1>5, <1>6, <1>7, <1>8, <1>9, <1>10, <1>11, <1>12, <1>13, <1>14,
     <1>15, <1>16, <1>17, <1>18 DEF BellNext

\* Every source that is not closed is the same one.
LEMMA OneStreamOfInv == BellInv => OneStream
<1>. SUFFICES ASSUME BellInv PROVE OneStream
  OBVIOUS
<1>. DEFINE A == {k \in Sources : Alive(k)}
<1>1. \A j, k \in A : j = k
  BY StreamTyped DEF BellInv, StreamInv, StreamSound, AliveAlone, AliveIn, Alive
<1>2. CASE A = {}
  BY <1>2, FS_EmptySet DEF OneStream
<1>3. CASE A # {}
  <2>1. PICK k \in A : A = {k}
    BY <1>1, <1>3
  <2>2. Cardinality(A) = 1
    BY <2>1, FS_Singleton
  <2>. QED  BY <2>2 DEF OneStream
<1>. QED  BY <1>2, <1>3

\* It is an invariant.
LEMMA BellInvariant == BellSpec => []BellInv
BY BellInvInit, BellInvStep, PTL DEF BellSpec

\* Every variable of the bell keeps its type.
THEOREM BellTypeCorrect == BellSpec => []BellTypeOK
<1>1. BellInv => BellTypeOK
  BY DEF BellInv
<1>. QED  BY <1>1, BellInvariant, PTL

\* connect, disconnect and the source's handlers never leave two sources that
\* are connected or connect, in whatever order the answers come.
THEOREM BellHasOneStream == BellSpec => []OneStream
BY OneStreamOfInv, BellInvariant, PTL

\* No note younger than the first page is lost by what the page does with its
\* list: it is listed, on its way, or was pushed to nobody.
THEOREM BellLosesNone == BellSpec => []ListedUnlessMissed
<1>1. BellInv => ListedUnlessMissed
  BY DEF BellInv
<1>. QED  BY <1>1, BellInvariant, PTL
=============================================================================
