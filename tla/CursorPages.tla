---------------------------- MODULE CursorPages ----------------------------
(***************************************************************************)
(* A client reads one list page by page while its rows change: feeds by    *)
(* time and by likes, comments, direct messages, notifications, clothes,   *)
(* attribute definitions, users and follows.                               *)
(*                                                                         *)
(* The client sends back the cursor of the last answer and keeps its       *)
(* filter, its direction and its limit, until hasNext is false.  Every     *)
(* page is one query, which sees what is committed when it runs; the lists *)
(* read as a Spring Page (clothes, attribute definitions) count in a       *)
(* second query, and the rows may change in between.  totalCount, which    *)
(* the client only displays, is left out.                                  *)
(***************************************************************************)
EXTENDS Integers, FiniteSets

CONSTANTS Ids,          \* row ids, ordered as the database orders UUIDs
          Keys,         \* sort keys: instants, like counts, names
          Limits,       \* page sizes
          SplitNames,   \* names with "::" in them
          ColonNames,   \* names that end in ":" and hold no "::"
          Between,      \* keys that lie between such a name and the same less its ":"
          MaxChanges    \* bound: changes of rows during the walk

ASSUME PagesAssumption ==
    /\ Ids \subseteq Nat /\ IsFiniteSet(Ids) /\ Keys \subseteq Nat /\ 0 \in Keys
    /\ Limits \subseteq Nat \ {0}
    /\ SplitNames \subseteq Keys /\ ColonNames \subseteq Keys \ SplitNames
    /\ Between \in Nat /\ MaxChanges \in Nat

VARIABLES list,         \* the list that is read
          down,         \* the direction: newest, most liked first
          want,         \* the author, type or role asked for, Any for all
          limit,        \* the page size
          row,          \* the table: row, Unborn or Gone, for each id
          feedExists,   \* of the comments: the feed has not been deleted
          cursor,       \* cursor and idAfter of the next request
          page,         \* the page of a Spring Page that is being counted
          pc,           \* the client asks, the server counts, the walk is over
          seen,         \* ghost: how often the client was given each row, to 2
          steady,       \* ghost: rows there from the start and not changed since
          spoiled,      \* ghost: what the walk met
          changes

vars == <<list, down, want, limit, row, feedExists, cursor, page, pc, seen, steady,
          spoiled, changes>>
request == <<list, down, want, limit>>
answer == <<cursor, page, pc, seen, spoiled>>

---------------------------------------------------------------------------
(* Types *)

\* "feeds" are sorted by createdAt, "likes" are feeds sorted by likeCount.
Lists == {"feeds", "likes", "comments", "messages", "notifications", "clothes",
          "attributes", "users", "follows"}
Counted == {"clothes", "attributes"}
TwoWay == {"feeds", "likes", "users"}
Filtered == {"feeds", "likes", "clothes", "users"}

\* The author of a feed or comment, the sender of a message (1 is who reads),
\* the type of clothes, the role of a user.
Who == {1, 2}
Any == 0
Row == [key : Keys, who : Who]
Unborn == [is |-> "unborn"]
Gone == [is |-> "gone"]
NoCursor == [is |-> "none"]
Cursor == [key : Keys, id : Ids]
Page == [rows : SUBSET Ids, last : Cursor, more : BOOLEAN]
NoPage == [is |-> "none"]

TypeOK ==
    /\ list \in Lists /\ down \in BOOLEAN /\ want \in Who \cup {Any} /\ limit \in Limits
    /\ row \in [Ids -> Row \cup {Unborn, Gone}]
    /\ feedExists \in BOOLEAN
    /\ cursor \in Cursor \cup {NoCursor}
    /\ page \in Page \cup {NoPage}
    /\ pc \in {"ask", "count", "ended", "failed"} /\ (pc = "count" <=> page # NoPage)
    /\ seen \in [Ids -> 0..2]
    /\ steady \subseteq Ids
    /\ spoiled \subseteq {"count", "cursor"}
    /\ changes \in 0..MaxChanges

Rows == {i \in Ids : row[i] \notin {Unborn, Gone}}
At(i) == [key |-> row[i].key, id |-> i]

---------------------------------------------------------------------------
(* Queries *)

\* Mutant: no tie break.
BeyondByKey(c, d) == IF down THEN c.key < d.key ELSE c.key > d.key

\* c comes after d by (sort key, id), the way the list runs.
Beyond(c, d) ==
    IF down THEN c.key < d.key \/ (c.key = d.key /\ c.id < d.id)
            ELSE c.key > d.key \/ (c.key = d.key /\ c.id > d.id)

\* The cursor of the definitions is "name::id".  One that does not split into
\* two parts is dropped; an id that does not parse leaves the name without its
\* last colon, and no id, so that the names in between come too.
DecodedBeyond(i) ==
    \/ cursor.key \in SplitNames
    \/ cursor.key \in ColonNames /\ row[i].key + Between >= cursor.key
    \/ Beyond(At(i), cursor)

\* Mutant: no tie break among messages of one instant.
MessageEarlier(i) == row[i].who = 2 \/ row[i].key < cursor.key

\* "A OR B AND cursor": only what the reader sent is held to the cursor.
MessageBeyond(i) == row[i].who = 2 \/ Beyond(At(i), cursor)

PastCursor(i) ==
    \/ cursor = NoCursor
    \/ /\ cursor # NoCursor
       /\ CASE list = "messages" -> MessageBeyond(i)
            [] list = "attributes" -> DecodedBeyond(i)
            [] OTHER -> Beyond(At(i), cursor)

\* The query of the first page of clothes is derived from its name: without a
\* type it asks for type IS NULL, which no row has.
Wanted(i) ==
    \/ want = row[i].who
    \/ want = Any /\ ~(list = "clothes" /\ cursor = NoCursor)

Matches == {i \in Rows : Wanted(i) /\ PastCursor(i)}

\* i is sorted before j: by the cursor's order, but comments of one instant
\* by their author.
Before(i, j) ==
    IF list = "comments"
    THEN \/ row[i].key < row[j].key
         \/ row[i].key = row[j].key /\ row[i].who < row[j].who
    ELSE Beyond(At(j), At(i))

\* What a query with ORDER BY and a limit may return, as a set, and the rows it
\* may have put last.
FirstRows ==
    {P \in SUBSET Matches :
        /\ Cardinality(P) = limit \/ (P = Matches /\ Cardinality(P) < limit)
        /\ \A i \in P, j \in Matches \ P : ~Before(j, i)}
LastOf(P) == {i \in P : \A j \in P : ~Before(i, j)}
NextCursor(P) == IF P = {} THEN {NoCursor} ELSE {At(i) : i \in LastOf(P)}
HasNext == Cardinality(Matches) > limit

---------------------------------------------------------------------------
(* Requests *)

Init ==
    /\ list \in Lists /\ limit \in Limits
    /\ down \in IF list \in TwoWay THEN BOOLEAN
                ELSE {list \notin {"comments", "attributes"}}
    /\ want \in IF list \in Filtered THEN Who \cup {Any} ELSE {Any}
    /\ row \in [Ids -> Row \cup {Unborn}]
    /\ list = "attributes" => \A i, j \in Rows : row[i].key = row[j].key => i = j
    /\ feedExists = TRUE
    /\ cursor = NoCursor /\ page = NoPage /\ pc = "ask"
    /\ seen = [i \in Ids |-> 0] /\ steady = Rows /\ spoiled = {} /\ changes = 0

\* Mutant: the page is not put away once it is counted.
DeliverKeeping(P, last, more) ==
    /\ seen' = [i \in Ids |-> IF i \in P /\ seen[i] < 2 THEN seen[i] + 1 ELSE seen[i]]
    /\ cursor' = IF more THEN last ELSE cursor
    /\ pc' = IF more THEN "ask" ELSE "ended"
    /\ page' = page

\* The client is given a page, and asks for the next one if there is one.
Deliver(P, last, more) ==
    /\ seen' = [i \in Ids |-> IF i \in P /\ seen[i] < 2 THEN seen[i] + 1 ELSE seen[i]]
    /\ cursor' = IF more THEN last ELSE cursor
    /\ pc' = IF more THEN "ask" ELSE "ended"
    /\ page' = NoPage

Unreadable(c) == list = "attributes" /\ c.key \in SplitNames \cup ColonNames
CursorSpoils(more, last) == IF more /\ Unreadable(last) THEN {"cursor"} ELSE {}

\* The queries of the follow lists name attributes that Follow and User do not
\* have; the one of the users leaves its parameter idAfter without a value.
FollowsThrow == list = "follows"
UsersThrow == list = "users" /\ cursor # NoCursor
FeedMissing == list = "comments" /\ ~feedExists
Throws == FollowsThrow \/ UsersThrow \/ FeedMissing

Refuse ==
    /\ pc = "ask" /\ Throws /\ pc' = "failed"
    /\ UNCHANGED <<request, row, feedExists, cursor, page, seen, steady, spoiled, changes>>

\* A list of limit + 1 rows, of which the last only says that there are more;
\* a Spring Page that is not full needs no count.
AskList ==
    /\ pc = "ask" /\ ~Throws
    /\ \E P \in FirstRows : \E last \in NextCursor(P) :
        /\ list \in Counted => Cardinality(P) < limit
        /\ Deliver(P, last, HasNext)
    /\ UNCHANGED <<request, row, feedExists, steady, spoiled, changes>>

AskPage ==
    /\ pc = "ask" /\ list \in Counted
    /\ \E P \in FirstRows : \E last \in NextCursor(P) :
        /\ Cardinality(P) = limit
        /\ page' = [rows |-> P, last |-> last, more |-> HasNext]
    /\ pc' = "count"
    /\ UNCHANGED <<request, row, feedExists, cursor, seen, steady, spoiled, changes>>

\* The count decides on the next page, whatever the page itself left over.
Count ==
    /\ pc = "count"
    /\ Deliver(page.rows, page.last, HasNext)
    /\ spoiled' = spoiled \cup CursorSpoils(HasNext, page.last)
                          \cup (IF page.more /\ ~HasNext THEN {"count"} ELSE {})
    /\ UNCHANGED <<request, row, feedExists, steady, changes>>

---------------------------------------------------------------------------
(* Changes *)

Change(i, r) ==
    /\ pc \in {"ask", "count"} /\ changes < MaxChanges
    /\ row' = [row EXCEPT ![i] = r]
    /\ list = "attributes" /\ r \in Row => \A j \in Rows \ {i} : row[j].key # r.key
    /\ steady' = steady \ {i}
    /\ changes' = changes + 1
    /\ UNCHANGED <<request, feedExists, answer>>

\* A row appears where its key puts it: createdAt is taken before the commit.
Insert(i) ==
    /\ row[i] = Unborn /\ feedExists
    /\ \E r \in Row : (list = "likes" => r.key = 0) /\ Change(i, r)

Remove(i) ==
    /\ i \in Rows /\ list \notin {"comments", "messages", "users"}
    /\ Change(i, Gone)

\* A like, an unlike, the new name of a definition.
Rekey(i) ==
    /\ i \in Rows
    /\ \E k \in Keys \ {row[i].key} :
        /\ \/ list = "likes" /\ k \in {row[i].key - 1, row[i].key + 1}
           \/ list = "attributes"
        /\ Change(i, [row[i] EXCEPT !.key = k])

\* updateClothes, updateRole
Retype(i) ==
    /\ i \in Rows /\ list \in {"clothes", "users"}
    /\ \E w \in Who \ {row[i].who} : Change(i, [row[i] EXCEPT !.who = w])

\* A feed that is deleted takes its comments along.
RemoveFeed ==
    /\ list = "comments" /\ feedExists /\ pc = "ask" /\ changes < MaxChanges
    /\ feedExists' = FALSE
    /\ row' = [i \in Ids |-> IF i \in Rows THEN Gone ELSE row[i]]
    /\ steady' = {} /\ changes' = changes + 1
    /\ UNCHANGED <<request, answer>>

Next ==
    \/ Refuse \/ AskList \/ AskPage \/ Count \/ RemoveFeed
    \/ \E i \in Ids : Insert(i) \/ Remove(i) \/ Rekey(i) \/ Retype(i)

Spec == Init /\ [][Next]_vars

---------------------------------------------------------------------------
(* Properties *)

\* What the client may count on to be given: a row that matches throughout.
\* Comments of one instant are sorted and cut by different columns, and the
\* clothes of all types have an empty first page.
Owed(i) ==
    /\ i \in steady
    /\ want = Any => list # "clothes"
    /\ want \in {Any, row[i].who}
    /\ list = "comments" => \A j \in Rows \ {i} : row[j].key # row[i].key

\* A row that stays as it is, among rows that come, go and are liked, is given
\* at most once, and once in all when the walk ends; unless a name broke the
\* cursor, or a row went between a page and its count.
StableRowsOnce ==
    list # "messages" =>
        \A i \in Ids : Owed(i) =>
            /\ "cursor" \notin spoiled => seen[i] <= 1
            /\ pc = "ended" /\ "count" \notin spoiled => seen[i] >= 1

\* The partner's messages are in every answer.  While they are fewer than the
\* limit, the reader's own ones still come once each, and theirs at least once.
Partners == {i \in Rows : row[i].who = 2}
MessagesOnce ==
    list = "messages" /\ Cardinality(Partners) < limit =>
        \A i \in steady :
            /\ row[i].who = 1 => seen[i] <= 1
            /\ pc = "ended" => seen[i] >= 1

\* Each page ends beyond the one before it, whatever changes, so that a walk
\* never goes round in circles.
CursorAdvances ==
    [][(AskList \/ Count) /\ pc' = "ask" /\ cursor # NoCursor
         /\ ~Unreadable(cursor)
         /\ (list = "messages" => Cardinality(Partners) < limit)
       => Beyond(cursor', cursor)]_vars
=============================================================================
