------------------------- MODULE CursorPages_proofs -------------------------
(***************************************************************************)
(* Proofs about CursorPages, for any finite table, any keys and limits and *)
(* any number of changes.                                                  *)
(***************************************************************************)
EXTENDS CursorPages, FiniteSetTheorems, TLAPS

---------------------------------------------------------------------------
(* The order of a list *)

\* (sort key, id) is a strict total order, in both directions.
LEMMA BeyondOrder ==
    ASSUME NEW c \in Cursor, NEW d \in Cursor, NEW e \in Cursor, down \in BOOLEAN
    PROVE  /\ ~Beyond(c, c)
           /\ Beyond(c, d) /\ Beyond(d, e) => Beyond(c, e)
           /\ Beyond(c, d) \/ Beyond(d, c) \/ (c.key = d.key /\ c.id = d.id)
<1>1. /\ c.key \in Nat /\ c.id \in Nat /\ d.key \in Nat /\ d.id \in Nat
      /\ e.key \in Nat /\ e.id \in Nat
  BY PagesAssumption DEF Cursor
<1>2. CASE down
  BY <1>1, <1>2 DEF Beyond
<1>3. CASE ~down
  BY <1>1, <1>3 DEF Beyond
<1>. QED  BY <1>2, <1>3

\* Rows have keys, and their positions are cursors.
LEMMA Positions ==
    ASSUME TypeOK
    PROVE  \A i \in Rows : /\ i \in Ids /\ row[i] \in Row /\ At(i) \in Cursor
                           /\ At(i).key = row[i].key /\ At(i).id = i
<1>. TAKE i \in Rows
<1>1. i \in Ids /\ row[i] \in Row
  BY DEF TypeOK, Rows
<1>2. row[i].key \in Keys
  BY <1>1 DEF Row
<1>. QED  BY <1>1, <1>2 DEF At, Cursor

---------------------------------------------------------------------------
(* What a page is *)

\* A page is part of the matches, all of them if there is no next one, and not
\* empty if it is full or has one; its cursor is the position of its last row.
LEMMA PageShape ==
    ASSUME TypeOK, NEW P \in FirstRows, NEW last \in NextCursor(P)
    PROVE  /\ P \subseteq Matches /\ Matches \subseteq Rows /\ Matches \subseteq Ids
           /\ ~HasNext => P = Matches
           /\ HasNext => Cardinality(P) = limit
           /\ Cardinality(P) = limit => P # {}
           /\ P # {} => \E l \in P : l \in LastOf(P) /\ last = At(l) /\ last \in Cursor
           /\ P = {} => last = NoCursor
<1>1. P \subseteq Matches /\ Matches \subseteq Rows /\ Matches \subseteq Ids
  BY DEF FirstRows, Matches, Rows
<1>2. IsFiniteSet(Matches)
  BY <1>1, PagesAssumption, FS_Subset
<1>3. IsFiniteSet(P) /\ Cardinality(P) <= Cardinality(Matches)
      /\ (Cardinality(P) = Cardinality(Matches) => P = Matches)
  BY <1>1, <1>2, FS_Subset
<1>4. Cardinality(P) \in Nat /\ Cardinality(Matches) \in Nat
  BY <1>2, <1>3, FS_CardinalityType
<1>5. limit \in Nat \ {0}
  BY PagesAssumption DEF TypeOK
<1>6. Cardinality(P) = limit \/ (P = Matches /\ Cardinality(P) < limit)
  BY DEF FirstRows
<1>7. (~HasNext => P = Matches) /\ (HasNext => Cardinality(P) = limit)
  BY <1>3, <1>4, <1>5, <1>6 DEF HasNext
<1>8. Cardinality(P) = limit => P # {}
  BY <1>5, FS_EmptySet
<1>9. P # {} => \E l \in P : l \in LastOf(P) /\ last = At(l) /\ last \in Cursor
  BY <1>1, Positions DEF NextCursor, LastOf
<1>10. P = {} => last = NoCursor
  BY DEF NextCursor
<1>. QED  BY <1>1, <1>7, <1>8, <1>9, <1>10

---------------------------------------------------------------------------
(* Types *)

\* Comments and definitions run upwards only, messages have no filter.
OneWay ==
    /\ list \in {"comments", "attributes"} => ~down
    /\ list = "messages" => want = Any

TypeInv == TypeOK /\ OneWay

\* The initial state has the types.
LEMMA InitType == Init => TypeInv
<1>. SUFFICES ASSUME Init PROVE TypeInv
  OBVIOUS
<1>1. down \in BOOLEAN /\ OneWay
  BY DEF Init, OneWay, TwoWay, Lists, Filtered
<1>2. Rows \subseteq Ids /\ row \in [Ids -> Row \cup {Unborn, Gone}]
  BY DEF Init, Rows
<1>. QED  BY <1>1, <1>2, PagesAssumption DEF Init, TypeInv, TypeOK, Filtered

\* Giving a page to the client keeps the types.
LEMMA DeliverType ==
    ASSUME TypeOK, NEW P, NEW last \in Cursor \cup {NoCursor}, NEW more \in BOOLEAN,
           Deliver(P, last, more)
    PROVE  /\ seen' \in [Ids -> 0..2] /\ cursor' \in Cursor \cup {NoCursor}
           /\ pc' \in {"ask", "ended"} /\ page' = NoPage
<1>1. \A n \in 0..2 : n < 2 => n + 1 \in 0..2
  OBVIOUS
<1>2. seen' \in [Ids -> 0..2]
  BY <1>1 DEF Deliver, TypeOK
<1>. QED  BY <1>2 DEF Deliver, TypeOK

\* Changing a row keeps the types.
LEMMA ChangeType ==
    ASSUME TypeInv, NEW i \in Ids, NEW r \in Row \cup {Unborn, Gone}, Change(i, r)
    PROVE  TypeInv'
<1>1. row' \in [Ids -> Row \cup {Unborn, Gone}]
  BY DEF TypeInv, TypeOK, Change
<1>2. changes' \in 0..MaxChanges /\ steady' \subseteq Ids
  BY PagesAssumption DEF TypeInv, TypeOK, Change
<1>. QED  BY <1>1, <1>2 DEF TypeInv, TypeOK, OneWay, Change, request, answer

\* Every step keeps the types.
LEMMA NextType == TypeInv /\ [Next]_vars => TypeInv'
<1>. SUFFICES ASSUME TypeInv, [Next]_vars PROVE TypeInv'
  OBVIOUS
<1>. USE DEF TypeInv
<1>1. CASE Refuse
  BY <1>1 DEF Refuse, TypeOK, OneWay, request
<1>2. CASE AskList
  <2>1. PICK P \in FirstRows : \E last \in NextCursor(P) : Deliver(P, last, HasNext)
    BY <1>2 DEF AskList
  <2>11. PICK last \in NextCursor(P) : Deliver(P, last, HasNext)
    BY <2>1
  <2>2. last \in Cursor \cup {NoCursor} /\ HasNext \in BOOLEAN
    BY PageShape DEF HasNext
  <2>. QED  BY <1>2, <2>11, <2>2, DeliverType DEF AskList, TypeOK, OneWay, request
<1>3. CASE AskPage
  <2>1. PICK P \in FirstRows : \E last \in NextCursor(P) :
          Cardinality(P) = limit /\ page' = [rows |-> P, last |-> last, more |-> HasNext]
    BY <1>3 DEF AskPage
  <2>11. PICK last \in NextCursor(P) :
          Cardinality(P) = limit /\ page' = [rows |-> P, last |-> last, more |-> HasNext]
    BY <2>1
  <2>2. last \in Cursor /\ P \subseteq Ids /\ HasNext \in BOOLEAN
    BY <2>11, PageShape DEF HasNext
  <2>3. page' \in Page /\ page' # NoPage
    <3>1. page' \in Page
      BY <2>11, <2>2 DEF Page
    <3>2. page'.rows = P /\ DOMAIN page' # DOMAIN NoPage
      BY <2>11 DEF NoPage
    <3>. QED  BY <3>1, <3>2
  <2>. QED  BY <1>3, <2>3 DEF AskPage, TypeOK, OneWay, request
<1>4. CASE Count
  <2>1. page \in Page /\ page.last \in Cursor /\ HasNext \in BOOLEAN
    BY <1>4 DEF Count, TypeOK, Page, HasNext
  <2>2. Deliver(page.rows, page.last, HasNext)
    BY <1>4 DEF Count
  <2>3. spoiled' \subseteq {"count", "cursor"}
    BY <1>4 DEF Count, TypeOK, CursorSpoils
  <2>. QED  BY <1>4, <2>1, <2>2, <2>3, DeliverType DEF Count, TypeOK, OneWay, request
<1>5. CASE RemoveFeed
  <2>1. row' \in [Ids -> Row \cup {Unborn, Gone}]
    BY <1>5 DEF RemoveFeed, TypeOK
  <2>2. changes' \in 0..MaxChanges
    BY <1>5, PagesAssumption DEF RemoveFeed, TypeOK
  <2>. QED  BY <1>5, <2>1, <2>2 DEF RemoveFeed, TypeOK, OneWay, request, answer
<1>6. ASSUME NEW i \in Ids, Insert(i) \/ Remove(i) \/ Rekey(i) \/ Retype(i)
      PROVE  TypeInv'
  <2>1. CASE Insert(i)
    <3>1. PICK r \in Row : Change(i, r)
      BY <2>1 DEF Insert
    <3>. QED  BY <3>1, ChangeType
  <2>2. CASE Remove(i)
    BY <2>2, ChangeType DEF Remove
  <2>3. CASE Rekey(i)
    <3>1. PICK k \in Keys : i \in Rows /\ Change(i, [row[i] EXCEPT !.key = k])
      BY <2>3 DEF Rekey
    <3>2. [row[i] EXCEPT !.key = k] \in Row
      BY <3>1, Positions DEF Row
    <3>. QED  BY <3>1, <3>2, ChangeType
  <2>4. CASE Retype(i)
    <3>1. PICK w \in Who : i \in Rows /\ Change(i, [row[i] EXCEPT !.who = w])
      BY <2>4 DEF Retype
    <3>2. [row[i] EXCEPT !.who = w] \in Row
      BY <3>1, Positions DEF Row
    <3>. QED  BY <3>1, <3>2, ChangeType
  <2>. QED  BY <1>6, <2>1, <2>2, <2>3, <2>4
<1>7. CASE UNCHANGED vars
  BY <1>7 DEF vars, TypeOK, OneWay
<1>. QED  BY <1>1, <1>2, <1>3, <1>4, <1>5, <1>6, <1>7 DEF Next

\* Every reachable state has the types of TypeOK: a page is held exactly while
\* it is counted, and a cursor names a position that a row of the list had.
THEOREM TypeCorrect == Spec => []TypeOK
<1>1. TypeInv => TypeOK
  BY DEF TypeInv
<1>. QED  BY InitType, NextType, <1>1, PTL DEF Spec

---------------------------------------------------------------------------
(* The cursor *)

\* A page that is not empty ends beyond the cursor it was asked with, if that
\* could be decoded and, of messages, if the partner's cannot fill the page.
LEMMA PageBeyondCursor ==
    ASSUME TypeInv, NEW P \in FirstRows, NEW last \in NextCursor(P), P # {},
           cursor # NoCursor, ~Unreadable(cursor),
           list = "messages" => Cardinality(Partners) < Cardinality(P)
    PROVE  Beyond(last, cursor)
<1>. USE DEF TypeInv
<1>1. PICK l \in P : l \in LastOf(P) /\ last = At(l) /\ last \in Cursor
  BY PageShape
<1>2. P \subseteq Matches /\ Matches \subseteq Rows /\ Matches \subseteq Ids
  BY PageShape
<1>3. \A i \in P : PastCursor(i)
  BY <1>2 DEF Matches
<1>4. CASE list # "messages"
  <2>1. PastCursor(l)
    BY <1>3
  <2>2. CASE list = "attributes"
    BY <1>1, <2>1, <2>2 DEF PastCursor, DecodedBeyond, Unreadable
  <2>3. CASE list # "attributes"
    BY <1>1, <1>4, <2>1, <2>3 DEF PastCursor
  <2>. QED  BY <2>2, <2>3
<1>5. CASE list = "messages"
  <2>1. Partners \subseteq Ids /\ IsFiniteSet(Partners)
    BY PagesAssumption, FS_Subset DEF Partners, Rows
  <2>2. Cardinality(Partners) \in Nat
    BY <2>1, FS_CardinalityType
  <2>3. IsFiniteSet(P) /\ Cardinality(P) \in Nat
    BY <1>2, PagesAssumption, FS_Subset, FS_CardinalityType
  <2>4. ~(P \subseteq Partners)
    BY <1>5, <2>1, <2>2, <2>3, FS_Subset
  <2>5. PICK j \in P : j \notin Partners
    BY <2>4
  <2>6. row[j].who # 2 /\ At(j) \in Cursor /\ At(j).id = j /\ At(l).id = l
    BY <1>2, <2>5, Positions DEF Partners
  <2>7. Beyond(At(j), cursor)
    BY <1>3, <1>5, <2>6 DEF PastCursor, MessageBeyond
  <2>8. ~Beyond(At(j), At(l))
    BY <1>1, <1>5 DEF LastOf, Before
  <2>9. cursor \in Cursor /\ down \in BOOLEAN
    BY DEF TypeOK
  <2>. QED  BY <1>1, <2>6, <2>7, <2>8, <2>9, BeyondOrder
<1>. QED  BY <1>4, <1>5

\* The same of a page that is being counted.
PageAhead ==
    pc = "count" => /\ list \in Counted
                    /\ cursor # NoCursor /\ ~Unreadable(cursor) => Beyond(page.last, cursor)

AdvanceInv == TypeInv /\ PageAhead

\* Every step keeps it.
LEMMA NextAdvance == AdvanceInv /\ [Next]_vars => AdvanceInv'
<1>. SUFFICES ASSUME AdvanceInv, [Next]_vars PROVE PageAhead'
  BY NextType DEF AdvanceInv
<1>. USE DEF AdvanceInv
<1>1. CASE AskPage
  <2>1. PICK P \in FirstRows : \E last \in NextCursor(P) :
          Cardinality(P) = limit /\ page' = [rows |-> P, last |-> last, more |-> HasNext]
    BY <1>1 DEF AskPage
  <2>2. PICK last \in NextCursor(P) : Cardinality(P) = limit /\ page'.last = last
    BY <2>1
  <2>3. P # {}
    BY <2>2, PageShape DEF TypeInv
  <2>4. list \in Counted /\ list # "messages"
    BY <1>1 DEF AskPage, Counted
  <2>5. cursor # NoCursor /\ ~Unreadable(cursor) => Beyond(last, cursor)
    BY <2>3, <2>4, PageBeyondCursor
  <2>. QED  BY <1>1, <2>2, <2>4, <2>5 DEF AskPage, PageAhead, request, Unreadable, Beyond
<1>2. CASE Refuse \/ AskList \/ Count
  BY <1>2 DEF Refuse, AskList, Count, Deliver, PageAhead
<1>3. CASE RemoveFeed
  BY <1>3 DEF RemoveFeed, PageAhead, request, answer
<1>4. ASSUME NEW i \in Ids, NEW r, Change(i, r)
      PROVE  PageAhead'
  BY <1>4 DEF Change, PageAhead, request, answer, Unreadable, Beyond
<1>5. CASE \E i \in Ids : Insert(i) \/ Remove(i) \/ Rekey(i) \/ Retype(i)
  BY <1>4, <1>5 DEF Insert, Remove, Rekey, Retype
<1>6. CASE UNCHANGED vars
  BY <1>6 DEF vars, PageAhead, Unreadable, Beyond
<1>. QED  BY <1>1, <1>2, <1>3, <1>5, <1>6 DEF Next

\* A walk never goes back or stays, whatever changes (CursorAdvances): the
\* cursor of getFeedList, getFeedComments, getNotifications, findAll and, under
\* its condition, getDirectMessages lies beyond the one it was asked with.
THEOREM WalksAdvance == Spec => CursorAdvances
<1>1. Init => AdvanceInv
  BY InitType DEF Init, AdvanceInv, PageAhead
<1>2. AdvanceInv /\ [Next]_vars =>
        [(AskList \/ Count) /\ pc' = "ask" /\ cursor # NoCursor
           /\ ~Unreadable(cursor)
           /\ (list = "messages" => Cardinality(Partners) < limit)
         => Beyond(cursor', cursor)]_vars
  <2>. SUFFICES ASSUME AdvanceInv, AskList \/ Count, pc' = "ask", cursor # NoCursor,
                       ~Unreadable(cursor),
                       list = "messages" => Cardinality(Partners) < limit
                PROVE  Beyond(cursor', cursor)
    OBVIOUS
  <2>1. CASE AskList
    <3>1. PICK P \in FirstRows : \E last \in NextCursor(P) : Deliver(P, last, HasNext)
      BY <2>1 DEF AskList
    <3>2. PICK last \in NextCursor(P) : Deliver(P, last, HasNext)
      BY <3>1
    <3>3. HasNext /\ cursor' = last
      BY <3>2 DEF Deliver
    <3>4. P # {} /\ Cardinality(P) = limit
      BY <3>3, PageShape DEF AdvanceInv, TypeInv
    <3>. QED  BY <3>3, <3>4, PageBeyondCursor DEF AdvanceInv
  <2>2. CASE Count
    BY <2>2 DEF Count, Deliver, AdvanceInv, PageAhead
  <2>. QED  BY <2>1, <2>2
<1>. QED  BY <1>1, <1>2, NextAdvance, PTL DEF Spec, CursorAdvances

---------------------------------------------------------------------------
(* Stable rows *)

\* The rows that a walk owes its client; those it may give once only; the walk
\* goes on; the cursors could be decoded; and the row lies ahead of the cursor.
Due(i) == Owed(i) /\ (list = "messages" => Cardinality(Partners) < limit)
Once(i) == list = "messages" => row[i].who = 1
Open == pc \in {"ask", "count"}
Sure == "cursor" \notin spoiled
Ahead(i) == cursor = NoCursor \/ Beyond(At(i), cursor)

\* A steady row is in the table; a lost cursor is recorded, and only the lists
\* read as a Page are ever spoiled.
StillThere == steady \subseteq Rows
CursorKnown ==
    /\ Sure /\ cursor # NoCursor => ~Unreadable(cursor)
    /\ spoiled # {} => list \in Counted

\* While the walk goes on, the rows ahead are those not given yet; a cursor
\* that was lost can only put rows ahead again.
SeenInv ==
    \A i \in Ids : Due(i) =>
        /\ Sure /\ Once(i) => seen[i] <= 1 /\ (Open /\ Ahead(i) => seen[i] = 0)
        /\ Open => Ahead(i) \/ seen[i] >= 1
        /\ pc = "ended" /\ "count" \notin spoiled => seen[i] >= 1

\* What a page does for a row: it gives it if the row is ahead, or leaves it ahead.
Gives(i, P, last, more) ==
    /\ i \in P /\ Sure /\ Once(i) => Ahead(i)
    /\ Ahead(i) => i \in P \/ (more /\ Beyond(At(i), last))
    /\ i \in P => ~Beyond(At(i), last)
PageGives ==
    pc = "count" => \A i \in Ids : Due(i) => Gives(i, page.rows, page.last, page.more)

StableInv ==
    AdvanceInv /\ StillThere /\ CursorKnown /\ SeenInv /\ PageGives

\* A row that is due is in the table and passes the filter, whatever the cursor.
LEMMA DueMatches ==
    ASSUME StableInv, NEW i \in Ids, Due(i)
    PROVE  /\ i \in Rows /\ At(i) \in Cursor /\ At(i).id = i /\ At(i).key = row[i].key
           /\ Ahead(i) => i \in Matches
           /\ Sure /\ Once(i) /\ i \in Matches => Ahead(i)
<1>1. i \in Rows
  BY DEF Due, Owed, StableInv, StillThere
<1>2. Wanted(i)
  BY DEF Due, Owed, Wanted
<1>3. Ahead(i) => PastCursor(i)
  BY DEF Ahead, PastCursor, DecodedBeyond, MessageBeyond
<1>4. Sure /\ Once(i) /\ PastCursor(i) => Ahead(i)
  BY DEF Ahead, PastCursor, DecodedBeyond, MessageBeyond, Once, StableInv, CursorKnown,
         Unreadable
<1>5. TypeOK
  BY DEF StableInv, AdvanceInv, TypeInv
<1>. QED  BY <1>1, <1>2, <1>3, <1>4, <1>5, Positions DEF Matches

\* The rows of a page are not beyond its cursor, the other matches are, of those
\* that are due.
LEMMA PageCuts ==
    ASSUME StableInv, NEW P \in FirstRows, NEW l \in LastOf(P),
           NEW i \in Matches, Due(i), i \in Ids
    PROVE  i \in P <=> ~Beyond(At(i), At(l))
<1>1. P \subseteq Matches /\ Matches \subseteq Rows /\ l \in P
  BY DEF FirstRows, Matches, LastOf
<1>2. TypeOK /\ down \in BOOLEAN /\ OneWay
  BY DEF StableInv, AdvanceInv, TypeInv, TypeOK
<1>3. /\ At(i) \in Cursor /\ At(i).id = i /\ At(i).key = row[i].key
      /\ At(l) \in Cursor /\ At(l).id = l /\ At(l).key = row[l].key
  BY <1>1, <1>2, Positions
<1>4. (i \in P => ~Before(l, i)) /\ (i \notin P => ~Before(i, l) /\ i # l)
  BY <1>1 DEF LastOf, FirstRows
<1>5. CASE list # "comments"
  BY <1>2, <1>3, <1>4, <1>5, BeyondOrder DEF Before
<1>6. CASE list = "comments"
  <2>1. row[i].key \in Nat /\ row[l].key \in Nat
    BY <1>3, PagesAssumption DEF Cursor
  <2>2. ~down
    BY <1>2, <1>6 DEF OneWay
  <2>3. i # l => row[i].key # row[l].key
    BY <1>1, <1>6 DEF Due, Owed
  <2>4. CASE i = l
    BY <1>1, <1>2, <1>3, <2>4, BeyondOrder
  <2>5. CASE i # l
    BY <1>3, <1>4, <1>6, <2>1, <2>2, <2>3, <2>5 DEF Before, Beyond
  <2>. QED  BY <2>4, <2>5
<1>. QED  BY <1>5, <1>6

\* What a page does for the rows that are due, when it is read.
LEMMA PageGivesDue ==
    ASSUME StableInv, NEW P \in FirstRows, NEW last \in NextCursor(P),
           NEW i \in Ids, Due(i)
    PROVE  Gives(i, P, last, HasNext)
<1>1. TypeOK
  BY DEF StableInv, AdvanceInv, TypeInv
<1>2. P \subseteq Matches /\ (~HasNext => P = Matches) /\ (HasNext => P # {})
  BY <1>1, PageShape
<1>3. CASE P = {}
  BY <1>2, <1>3, DueMatches DEF Gives
<1>4. CASE P # {}
  <2>1. PICK l \in P : l \in LastOf(P) /\ last = At(l)
    BY <1>1, <1>4, PageShape
  <2>. QED  BY <1>2, <2>1, DueMatches, PageCuts DEF Gives
<1>. QED  BY <1>3, <1>4

\* Giving such a page to the client keeps what is known of the rows.
LEMMA DeliverSeen ==
    ASSUME StableInv, Open, NEW P, NEW last, NEW left \in BOOLEAN, NEW more \in BOOLEAN,
           Deliver(P, last, more), UNCHANGED <<request, row, feedExists, steady>>,
           \A i \in Ids : Due(i) => Gives(i, P, last, left),
           more => last \in Cursor,
           more /\ cursor # NoCursor /\ ~Unreadable(cursor)
                /\ (list = "messages" => Cardinality(Partners) < limit)
               => Beyond(last, cursor),
           spoiled \subseteq spoiled',
           left /\ ~more => "count" \in spoiled'
    PROVE  SeenInv'
<1>1. SUFFICES ASSUME NEW i \in Ids, Due(i)'
               PROVE  /\ Sure' /\ Once(i)' =>
                            seen'[i] <= 1 /\ (Open' /\ Ahead(i)' => seen'[i] = 0)
                      /\ Open' => Ahead(i)' \/ seen'[i] >= 1
                      /\ pc' = "ended" /\ "count" \notin spoiled' => seen'[i] >= 1
  BY DEF SeenInv
<1>2. Due(i) /\ row'[i] = row[i] /\ (Sure' => Sure) /\ (Once(i)' => Once(i))
  BY <1>1 DEF Due, Owed, Rows, Partners, request, Sure, Once
<1>3. /\ Sure /\ Once(i) => seen[i] <= 1 /\ (Ahead(i) => seen[i] = 0)
      /\ Ahead(i) \/ seen[i] >= 1
  BY <1>2 DEF StableInv, SeenInv
<1>4. Gives(i, P, last, left)
  BY <1>2
<1>5. TypeOK
  BY DEF StableInv, AdvanceInv, TypeInv
<1>6. seen[i] \in 0..2 /\ seen'[i] = IF i \in P /\ seen[i] < 2 THEN seen[i] + 1 ELSE seen[i]
  BY <1>5 DEF TypeOK, Deliver
<1>7. Sure /\ Once(i) => seen'[i] <= 1
  BY <1>3, <1>4, <1>6 DEF Gives
<1>8. CASE more
  <2>1. pc' = "ask" /\ cursor' = last /\ last \in Cursor
    BY <1>8 DEF Deliver
  <2>2. Ahead(i)' <=> last = NoCursor \/ Beyond(At(i), last)
    BY <1>2, <2>1 DEF Ahead, At, Beyond, request
  <2>3. last # NoCursor
    <3>1. "key" \in DOMAIN last /\ "key" \notin DOMAIN NoCursor
      BY <2>1 DEF Cursor, NoCursor
    <3>. QED  BY <3>1
  <2>4. Sure /\ Beyond(At(i), last) => Ahead(i)
    <3>1. cursor \in Cursor \cup {NoCursor} /\ down \in BOOLEAN /\ At(i) \in Cursor
      BY <1>2, <1>5, DueMatches DEF TypeOK
    <3>2. Sure /\ cursor # NoCursor => Beyond(last, cursor)
      BY <1>2, <1>8 DEF StableInv, CursorKnown, Due
    <3>. QED  BY <2>1, <3>1, <3>2, BeyondOrder DEF Ahead
  <2>5. Sure /\ Once(i) /\ Beyond(At(i), last) => seen'[i] = 0
    BY <1>3, <1>4, <1>6, <2>4 DEF Gives
  <2>6. Beyond(At(i), last) \/ seen'[i] >= 1
    BY <1>3, <1>4, <1>6 DEF Gives
  <2>. QED  BY <1>2, <1>7, <2>1, <2>2, <2>3, <2>5, <2>6
<1>9. CASE ~more
  <2>1. pc' = "ended" /\ ~Open'
    BY <1>9 DEF Deliver, Open
  <2>2. "count" \notin spoiled' => ~left
    BY <1>9
  <2>3. ~left => seen'[i] >= 1
    BY <1>3, <1>4, <1>6 DEF Gives
  <2>. QED  BY <1>2, <1>7, <2>1, <2>2, <2>3
<1>. QED  BY <1>8, <1>9

\* A row that is due stays as it is when another one changes.
LEMMA ChangeStable ==
    ASSUME StableInv, NEW i \in Ids, NEW r, Change(i, r),
           list \in {"comments", "messages"} => i \notin Rows
    PROVE  StillThere' /\ CursorKnown' /\ SeenInv' /\ PageGives'
<1>1. TypeOK /\ row' = [row EXCEPT ![i] = r] /\ steady' = steady \ {i}
  BY DEF Change, StableInv, AdvanceInv, TypeInv
<1>2. \A j \in Ids : j # i => row'[j] = row[j] /\ (j \in Rows' <=> j \in Rows)
  BY <1>1 DEF TypeOK, Rows
<1>3. StillThere'
  BY <1>1, <1>2 DEF StableInv, StillThere, Rows
<1>4. CursorKnown'
  BY DEF Change, request, answer, StableInv, CursorKnown, Sure, Unreadable
<1>5. ASSUME NEW j \in Ids, Due(j)'
      PROVE  Due(j) /\ j # i /\ row'[j] = row[j]
  <2>1. j \in steady /\ j # i /\ row'[j] = row[j]
    BY <1>1, <1>2, <1>5 DEF Due, Owed
  <2>2. list = "comments" => \A n \in Rows \ {j} : row[n].key # row[j].key
    <3>1. SUFFICES ASSUME list = "comments", NEW n \in Rows \ {j}
                   PROVE  row[n].key # row[j].key
      OBVIOUS
    <3>2. n \in Ids /\ n # i
      BY <3>1 DEF Rows
    <3>3. n \in Rows' \ {j} /\ row'[n] = row[n]
      BY <1>2, <3>1, <3>2
    <3>. QED  BY <1>5, <2>1, <3>1, <3>3 DEF Due, Owed, Change, request
  <2>3. list = "messages" => Cardinality(Partners) < limit
    <3>1. SUFFICES ASSUME list = "messages" PROVE Cardinality(Partners) < limit
      OBVIOUS
    <3>2. Partners \subseteq Partners' /\ Partners' \subseteq Ids
      BY <1>2, <3>1 DEF Partners, Rows
    <3>3. IsFiniteSet(Partners') /\ Cardinality(Partners) <= Cardinality(Partners')
      BY <3>2, PagesAssumption, FS_Subset
    <3>4. Cardinality(Partners') < limit
      BY <1>5, <3>1 DEF Due, Change, request
    <3>5. Cardinality(Partners') \in Nat /\ Cardinality(Partners) \in Nat /\ limit \in Nat
      BY <1>1, <3>2, <3>3, PagesAssumption, FS_Subset, FS_CardinalityType DEF TypeOK
    <3>. QED  BY <3>3, <3>4, <3>5
  <2>. QED  BY <1>5, <2>1, <2>2, <2>3 DEF Due, Owed, Change, request
<1>6. SeenInv'
  BY <1>5 DEF StableInv, SeenInv, Change, request, answer, Sure, Once, Open, Ahead, At, Beyond
<1>7. PageGives'
  BY <1>5 DEF StableInv, PageGives, Gives, Change, request, answer, Sure, Once, Ahead, At,
                 Beyond
<1>. QED  BY <1>3, <1>4, <1>6, <1>7

\* At the start nothing is given and everything is ahead.
LEMMA InitStable == Init => StableInv
<1>. SUFFICES ASSUME Init PROVE StableInv
  OBVIOUS
<1>1. AdvanceInv
  BY InitType DEF Init, AdvanceInv, PageAhead
<1>2. \A i \in Ids : seen[i] = 0
  BY DEF Init
<1>3. SeenInv
  BY <1>2 DEF Init, SeenInv, Ahead
<1>. QED  BY <1>1, <1>3 DEF Init, StableInv, StillThere, CursorKnown, PageGives

\* Every step keeps it.
LEMMA NextStable == StableInv /\ [Next]_vars => StableInv'
<1>. SUFFICES ASSUME StableInv, [Next]_vars
              PROVE  StillThere' /\ CursorKnown' /\ SeenInv' /\ PageGives'
  BY NextAdvance DEF StableInv
<1>1. TypeOK /\ OneWay
  BY DEF StableInv, AdvanceInv, TypeInv
<1>2. CASE Refuse
  BY <1>2 DEF Refuse, request, StableInv, StillThere, Rows, CursorKnown, Sure, Unreadable,
              SeenInv, PageGives, Due, Owed, Partners, Once, Open, Ahead, At, Beyond
<1>3. CASE AskList
  <2>1. PICK P \in FirstRows : \E last \in NextCursor(P) :
          (list \in Counted => Cardinality(P) < limit) /\ Deliver(P, last, HasNext)
    BY <1>3 DEF AskList
  <2>2. PICK last \in NextCursor(P) :
          (list \in Counted => Cardinality(P) < limit) /\ Deliver(P, last, HasNext)
    BY <2>1
  <2>3. /\ UNCHANGED <<request, row, feedExists, steady>> /\ spoiled' = spoiled /\ Open
        /\ HasNext \in BOOLEAN
    BY <1>3 DEF AskList, Open, HasNext
  <2>4. limit \in Nat /\ (HasNext => Cardinality(P) = limit /\ P # {} /\ last \in Cursor)
    BY <1>1, PagesAssumption, PageShape DEF TypeOK
  <2>5. HasNext => list \notin Counted
    BY <2>2, <2>4
  <2>6. HasNext /\ cursor # NoCursor /\ ~Unreadable(cursor)
             /\ (list = "messages" => Cardinality(Partners) < limit)
          => Beyond(last, cursor)
    BY <2>4, PageBeyondCursor DEF StableInv, AdvanceInv
  <2>7. \A i \in Ids : Due(i) => Gives(i, P, last, HasNext)
    BY PageGivesDue
  <2>8. SeenInv'
    BY <2>2, <2>3, <2>4, <2>6, <2>7, DeliverSeen
  <2>9. CursorKnown'
    <3>1. CASE HasNext
      BY <2>3, <2>5, <3>1 DEF StableInv, CursorKnown, Unreadable, Counted, request
    <3>2. CASE ~HasNext
      BY <2>2, <2>3, <3>2 DEF Deliver, StableInv, CursorKnown, Sure, Unreadable, request
    <3>. QED  BY <3>1, <3>2
  <2>10. StillThere' /\ PageGives'
    BY <2>2, <2>3 DEF Deliver, StableInv, StillThere, Rows, PageGives
  <2>. QED  BY <2>8, <2>9, <2>10
<1>4. CASE AskPage
  <2>1. PICK P \in FirstRows : \E last \in NextCursor(P) :
          page' = [rows |-> P, last |-> last, more |-> HasNext]
    BY <1>4 DEF AskPage
  <2>2. PICK last \in NextCursor(P) : page' = [rows |-> P, last |-> last, more |-> HasNext]
    BY <2>1
  <2>3. /\ UNCHANGED <<request, row, cursor, seen, steady, spoiled>>
        /\ pc = "ask" /\ pc' = "count"
    BY <1>4 DEF AskPage
  <2>4. page'.rows = P /\ page'.last = last /\ page'.more = HasNext
    BY <2>2
  <2>5. \A i \in Ids : Due(i) => Gives(i, P, last, HasNext)
    BY PageGivesDue
  <2>6. \A i \in Ids : Due(i)' <=> Due(i)
    BY <2>3 DEF Due, Owed, Partners, Rows, request
  <2>7. PageGives'
    BY <2>3, <2>4, <2>5, <2>6 DEF PageGives, Gives, Sure, Once, Ahead, At, Beyond, request
  <2>8. SeenInv'
    BY <2>3, <2>6 DEF StableInv, SeenInv, Sure, Once, Open, Ahead, At, Beyond,
                        request
  <2>9. StillThere' /\ CursorKnown'
    BY <2>3 DEF StableInv, StillThere, Rows, CursorKnown, Sure, Unreadable, request
  <2>. QED  BY <2>7, <2>8, <2>9
<1>5. CASE Count
  <2>1. /\ pc = "count" /\ Open /\ page \in Page /\ HasNext \in BOOLEAN
        /\ UNCHANGED <<request, row, feedExists, steady>>
    BY <1>1, <1>5 DEF Count, Open, TypeOK, HasNext
  <2>2. page.last \in Cursor /\ page.more \in BOOLEAN
    BY <2>1 DEF Page
  <2>3. Deliver(page.rows, page.last, HasNext)
    BY <1>5 DEF Count
  <2>4. /\ spoiled \subseteq spoiled' /\ (page.more /\ ~HasNext => "count" \in spoiled')
        /\ HasNext /\ Unreadable(page.last) => "cursor" \in spoiled'
        /\ list \in Counted
    BY <1>5 DEF Count, CursorSpoils, StableInv, AdvanceInv, PageAhead
  <2>5. \A i \in Ids : Due(i) => Gives(i, page.rows, page.last, page.more)
    BY <2>1 DEF StableInv, PageGives
  <2>6. cursor # NoCursor /\ ~Unreadable(cursor) => Beyond(page.last, cursor)
    BY <2>1 DEF StableInv, AdvanceInv, PageAhead
  <2>7. SeenInv'
    BY <2>1, <2>2, <2>3, <2>4, <2>5, <2>6, DeliverSeen
  <2>8. CursorKnown'
    <3>1. CASE HasNext
      BY <2>1, <2>3, <2>4, <3>1 DEF Deliver, CursorKnown, Sure, Unreadable, request
    <3>2. CASE ~HasNext
      BY <2>1, <2>3, <2>4, <3>2 DEF Deliver, StableInv, CursorKnown, Sure, Unreadable, request
    <3>. QED  BY <3>1, <3>2
  <2>9. StillThere' /\ PageGives'
    BY <2>1, <2>3 DEF Deliver, StableInv, StillThere, Rows, PageGives
  <2>. QED  BY <2>7, <2>8, <2>9
<1>6. CASE RemoveFeed
  <2>1. steady' = {} /\ UNCHANGED <<request, answer>>
    BY <1>6 DEF RemoveFeed
  <2>2. \A i \in Ids : ~Due(i)'
    BY <2>1 DEF Due, Owed
  <2>. QED  BY <2>1, <2>2 DEF StableInv, StillThere, CursorKnown, SeenInv, PageGives,
                              Sure, Unreadable, request, answer
<1>7. ASSUME NEW i \in Ids, Insert(i) \/ Remove(i) \/ Rekey(i) \/ Retype(i)
      PROVE  StillThere' /\ CursorKnown' /\ SeenInv' /\ PageGives'
  <2>1. list \in {"comments", "messages"} => i \notin Rows
    BY <1>7 DEF Insert, Remove, Rekey, Retype, Rows
  <2>2. \E r : Change(i, r)
    BY <1>7 DEF Insert, Remove, Rekey, Retype
  <2>. QED  BY <2>1, <2>2, ChangeStable
<1>8. CASE UNCHANGED vars
  <2>1. StillThere' /\ CursorKnown'
    BY <1>8 DEF vars, StableInv, StillThere, Rows, CursorKnown, Sure, Unreadable
  <2>2. SeenInv'
    BY <1>8 DEF vars, StableInv, SeenInv, Due, Owed, Partners, Rows, Sure, Once, Open, Ahead, At,
                Beyond, Unreadable
  <2>3. PageGives'
    BY <1>8 DEF vars, StableInv, PageGives, Gives, Due, Owed, Partners, Rows, Sure, Once, Ahead, At,
                Beyond, Unreadable
  <2>. QED  BY <2>1, <2>2, <2>3
<1>9. \/ Refuse \/ AskList \/ AskPage \/ Count \/ RemoveFeed \/ UNCHANGED vars
      \/ \E i \in Ids : Insert(i) \/ Remove(i) \/ Rekey(i) \/ Retype(i)
  BY Zenon DEF Next
<1>. QED  BY <1>2, <1>3, <1>4, <1>5, <1>6, <1>7, <1>8, <1>9, Zenon

\* A row that nobody changes is given at most once, and once in all when the
\* walk ends, in every list but the messages (StableRowsOnce).
THEOREM StableOnce == Spec => []StableRowsOnce
<1>1. StableInv => StableRowsOnce
  BY DEF StableInv, SeenInv, StableRowsOnce, Due, Sure, Once
<1>. QED  BY InitStable, NextStable, <1>1, PTL DEF Spec

\* Direct messages come once each to the reader who sent them, and the partner's
\* at least once, while the partner's are fewer than the limit (MessagesOnce).
THEOREM OwnMessagesOnce == Spec => []MessagesOnce
<1>1. StableInv => MessagesOnce
  <2>. SUFFICES ASSUME StableInv, list = "messages", Cardinality(Partners) < limit,
                       NEW i \in steady
                PROVE  /\ row[i].who = 1 => seen[i] <= 1
                       /\ pc = "ended" => seen[i] >= 1
    BY DEF MessagesOnce
  <2>1. i \in Ids /\ want = Any
    BY DEF StableInv, AdvanceInv, TypeInv, TypeOK, OneWay
  <2>2. spoiled = {}
    BY DEF StableInv, CursorKnown, Counted
  <2>3. Due(i)
    BY <2>1 DEF Due, Owed
  <2>. QED  BY <2>1, <2>2, <2>3 DEF StableInv, SeenInv, Sure, Once
<1>. QED  BY InitStable, NextStable, <1>1, PTL DEF Spec
=============================================================================
