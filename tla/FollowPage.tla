----------------------------- MODULE FollowPage -----------------------------
(***************************************************************************)
(* Following and unfollowing: BasicFollowService and the profile page of   *)
(* the web client, whose button reads the follow summary and decides from  *)
(* it what to ask of the server.  The rows of one follower are modelled,   *)
(* and one page of that user; what the user does in other pages is the     *)
(* action Elsewhere.                                                       *)
(*                                                                         *)
(* The page's follow store has one operation out at a time (isLoading): a  *)
(* summary, a list of followers or followings, a follow or a cancel.       *)
(* While it is out, every other one is silently dropped.                   *)
(***************************************************************************)
EXTENDS Integers, FiniteSets

CONSTANTS Profiles,
          Nobody,       \* no profile opened, no summary at hand
          OtherPages,   \* has the user the application open in other pages too
          MaxActions    \* bound: what the user does

ASSUME FollowPageAssumption ==
    MaxActions \in Nat /\ Nobody \notin Profiles /\ OtherPages \in BOOLEAN

VARIABLES follows,      \* the rows: an id and the followee
          actions,      \* how many things the user has done; numbers the rows
          page,         \* the profile that is shown
          summary,      \* followSummary: whose, and the id of the user's row or 0
          op,           \* the operation that is out
          abandoned,    \* changes still under way when the page gave them up
          told          \* ghost: the summary tells of every change made elsewhere

vars == <<follows, actions, page, summary, op, abandoned, told>>

---------------------------------------------------------------------------
(* Types *)

NoSummary == [of |-> Nobody, id |-> 0]
Summaries == [of : Profiles, id : 0..MaxActions]

NoOp == [kind |-> "none"]
\* id: the row to cancel or to insert.  told is a ghost: what it was when the
\* request was sent, and whether the rows have changed elsewhere since.
Ops == [kind : {"summary", "list", "create", "cancel"}, of : Profiles, id : 0..MaxActions,
        pc : {"sent", "served"}, answer : Summaries \cup {NoSummary}, told : BOOLEAN]

TypeOK ==
    /\ follows \subseteq [id : 1..MaxActions, of : Profiles]
    /\ actions \in 0..MaxActions
    /\ page \in Profiles \cup {Nobody}
    /\ summary \in Summaries \cup {NoSummary}
    /\ op \in Ops \cup {NoOp}
    /\ abandoned \subseteq Ops
    /\ told \in BOOLEAN

RowsOf(p) == {r \in follows : r.of = p}
Loading == op # NoOp
Sent(kind, p, id, isTold) ==
    [kind |-> kind, of |-> p, id |-> id, pc |-> "sent", answer |-> NoSummary, told |-> isTold]

---------------------------------------------------------------------------
(* What the user does *)

Act == actions < MaxActions /\ actions' = actions + 1

\* The page of a profile is opened, maybe from that of another one.  The store
\* is cleared; the summary is fetched unless something is out.
Open(p) ==
    /\ Act
    /\ page' = p
    /\ summary' = NoSummary
    /\ op' = IF Loading THEN op ELSE Sent("summary", p, 0, TRUE)
    /\ told' = FALSE
    /\ UNCHANGED <<follows, abandoned>>

\* The dialog with the followers or the followings of the profile.
OpenList ==
    /\ Act
    /\ page # Nobody /\ ~Loading
    /\ op' = Sent("list", page, 0, told)
    /\ UNCHANGED <<follows, page, summary, abandoned, told>>

\* The button: the summary decides between following the profile of the page
\* and cancelling the row that the summary names.
Click ==
    /\ Act
    /\ summary # NoSummary /\ ~Loading
    /\ op' = IF summary.id = 0 THEN Sent("create", page, actions + 1, told)
                               ELSE Sent("cancel", page, summary.id, told)
    /\ UNCHANGED <<follows, page, summary, abandoned, told>>

---------------------------------------------------------------------------
(* The server *)

\* createFollow inserts without looking; cancelFollowById deletes the row or
\* throws because there is none.  The answer does not matter to the page.
Changed(o) ==
    IF o.kind = "create" THEN follows \cup {[id |-> o.id, of |-> o.of]}
                         ELSE {r \in follows : r.id # o.id}

ServeChange ==
    /\ op.kind \in {"create", "cancel"} /\ op.pc = "sent"
    /\ follows' = Changed(op)
    /\ op' = [op EXCEPT !.pc = "served"]
    /\ UNCHANGED <<actions, page, summary, abandoned, told>>

\* Mutant: the follower's id in the answer is that of any row of the follower.
AnyRow(p) == follows
MyRows(p) == RowsOf(p)

\* getFollowSummary: of two rows of a pair the single-result query throws.
ServeSummary ==
    /\ op.kind = "summary" /\ op.pc = "sent"
    /\ \/ /\ MyRows(op.of) = {}
          /\ op' = [op EXCEPT !.pc = "served", !.answer = [of |-> op.of, id |-> 0]]
       \/ /\ Cardinality(MyRows(op.of)) = 1
          /\ \E r \in MyRows(op.of) :
                op' = [op EXCEPT !.pc = "served", !.answer = [of |-> op.of, id |-> r.id]]
       \/ /\ Cardinality(MyRows(op.of)) > 1
          /\ op' = [op EXCEPT !.pc = "served"]
    /\ UNCHANGED <<follows, actions, page, summary, abandoned, told>>

\* A change of p's rows that this page did not ask for, or no longer waits for.
Overtake(P) ==
    /\ told' = (told /\ page \notin P)
    /\ op' = IF Loading /\ op.of \in P THEN [op EXCEPT !.told = FALSE] ELSE op

\* The user follows or unfollows in another page, whose summary may be as old
\* as it likes: the server looks at no other row.
Elsewhere(p) ==
    /\ OtherPages
    /\ Act
    /\ \/ follows' = follows \cup {[id |-> actions + 1, of |-> p]}
       \/ \E r \in RowsOf(p) : follows' = follows \ {r}
    /\ Overtake({p})
    /\ UNCHANGED <<page, summary, abandoned>>

\* A change that the page gave up arrives after all.
ServeAbandoned(o) ==
    /\ o \in abandoned
    /\ abandoned' = abandoned \ {o}
    /\ follows' = Changed(o)
    /\ Overtake({o.of} \cup {r.of : r \in follows \ follows'})
    /\ UNCHANGED <<actions, page, summary>>

---------------------------------------------------------------------------
(* The answer *)

\* Mutant: the summary is not fetched again after a change.
NoRefetch == NoOp

\* Mutant: it is fetched for the profile of the summary in the store.
RefetchShown == Sent("summary", summary.of, 0, TRUE)
Refetch == Sent("summary", op.of, 0, TRUE)

\* A change is over, well or not: the summary of the profile that was shown
\* when the button was clicked is fetched.
EndChange ==
    /\ op.kind \in {"create", "cancel"}
    /\ op' = Refetch
    /\ abandoned' = IF op.pc = "sent" THEN abandoned \cup {[op EXCEPT !.told = FALSE]}
                                      ELSE abandoned
    /\ UNCHANGED <<follows, actions, page, summary, told>>

\* The summary goes to the store, whichever profile is shown by now.
ShowSummary ==
    /\ op.kind = "summary" /\ op.pc = "served" /\ op.answer # NoSummary
    /\ summary' = op.answer
    /\ told' = (op.told /\ op.answer.of = page)
    /\ op' = NoOp
    /\ UNCHANGED <<follows, actions, page, abandoned>>

\* The summary fails or its answer is lost: the old one stays.
FailSummary ==
    /\ op.kind = "summary"
    /\ told' = FALSE
    /\ op' = NoOp
    /\ UNCHANGED <<follows, actions, page, summary, abandoned>>

EndList ==
    /\ op.kind = "list"
    /\ op' = NoOp
    /\ UNCHANGED <<follows, actions, page, summary, abandoned, told>>

---------------------------------------------------------------------------

Init ==
    /\ follows = {} /\ actions = 0
    /\ page = Nobody /\ summary = NoSummary
    /\ op = NoOp /\ abandoned = {}
    /\ told = FALSE

Next ==
    \/ \E p \in Profiles : Open(p) \/ Elsewhere(p)
    \/ OpenList \/ Click
    \/ ServeChange \/ ServeSummary \/ (\E o \in abandoned : ServeAbandoned(o))
    \/ EndChange \/ ShowSummary \/ FailSummary \/ EndList

Spec == Init /\ [][Next]_vars

---------------------------------------------------------------------------
(* Properties *)

\* Once the page rests, its button shows what the database holds for the
\* profile of the page, and names the row that a cancel has to delete; unless
\* the rows were changed elsewhere, the last summary failed, or an operation
\* that was out when the profile was opened kept its summary from being fetched.
ShownIsStored ==
    told /\ ~Loading => {r.id : r \in RowsOf(page)} = {summary.id} \ {0}

\* A change does what the button said when it was clicked, although the server
\* checks nothing and works on the request as it is: a follow that is under way
\* finds no row, and a cancel names the only one.  Unless the rows have changed
\* elsewhere since the summary that the click went by was read.
ChangeAsShown ==
    op.kind \in {"create", "cancel"} /\ op.pc = "sent" /\ op.told =>
        {r.id : r \in RowsOf(op.of)} = IF op.kind = "create" THEN {} ELSE {op.id}

\* schema.sql says of the table follows that the same user cannot follow the
\* same user twice ("UNIQUE").  Were that so, a pair would have one row.
OneRowPerPair ==
    \A p \in Profiles : Cardinality(RowsOf(p)) <= 1
=============================================================================
