------------------------- MODULE FeedService_proofs -------------------------
(***************************************************************************)
(* Proofs about FeedService, for any number of workers, users, feeds, texts *)
(* and requests.                                                            *)
(***************************************************************************)
EXTENDS FeedService, FiniteSetTheorems, TLAPS

---------------------------------------------------------------------------
(* The inductive invariant *)

\* A transaction whose copy of the feed is not overtaken knows the row: what
\* it will write differs from what is stored by its own change only.
FreshCopy(w) ==
    LET t == tx[w]
        row == feeds[t.feed]
    IN /\ status[t.feed] = "live"
       /\ t.pc = "loaded" => t.entity = row
       /\ t.pc = "ready" /\ t.op = "like" =>
             t.entity.likeCount = row.likeCount + 1 /\ t.entity.content = row.content
       /\ t.pc = "ready" /\ t.op = "cancel" =>
             t.entity.likeCount = row.likeCount - 1 /\ t.entity.content = row.content
       /\ t.pc = "ready" /\ t.op = "edit" => t.entity.likeCount = row.likeCount

FreshCopies == \A w \in Workers : Open(w) => (tx[w].stale \/ FreshCopy(w))

\* A cancel that got past its checks deletes exactly one like, of its own user
\* on its own feed.
CancelsOneLike ==
    \A w \in Workers : Ready(w, "cancel") =>
        \E l \in LikeRow : /\ tx[w].rows = {l}
                           /\ l.user = tx[w].user /\ l.feed = tx[w].feed

CountInv ==
    /\ TypeOK
    /\ IsFiniteSet(likes)
    /\ UniqueLike
    /\ NoOrphans
    /\ FreshCopies
    /\ CancelsOneLike
    /\ CountExactUnlessOverwritten
    /\ EditSurvivesUnlessOverwritten

---------------------------------------------------------------------------
(* Type correctness *)

(* The seeded database and idle threads are well typed. *)
LEMMA InitType == Init => TypeOK
BY FeedServiceAssumption
   DEF Init, TypeOK, FeedRow, LikeRow, CommentRow, Event, NewRow, BlankRow, Idle, Requests

(* What a transaction reads from a typed store is a typed managed copy. *)
LEMMA LoadType ==
    ASSUME TypeOK, NEW w \in Workers, NEW op \in Ops, NEW u \in Users, NEW f \in Feeds,
           NEW pc \in {"loaded", "ready"}, NEW entity \in FeedRow, NEW dirty \in BOOLEAN,
           Load(w, op, u, f, pc, entity, dirty)
    PROVE  TypeOK'
<1>1. reqs' \in 0..MaxRequests /\ reqs + 1 \in Requests
  BY FeedServiceAssumption DEF Load, TypeOK, Requests
<1>2. tx' \in [Workers -> {Idle} \cup OpenTx]
  BY <1>1 DEF Load, TypeOK, OpenTx
<1>. QED  BY <1>1, <1>2 DEF Load, TypeOK, ghosts

(* Every step of a request thread keeps the store and the transactions typed. *)
LEMMA NextType == TypeOK /\ [Next]_vars => TypeOK'
<1>. SUFFICES ASSUME TypeOK, [Next]_vars PROVE TypeOK'
  OBVIOUS
<1>. USE FeedServiceAssumption
<1>1. CASE UNCHANGED vars
  BY <1>1 DEF vars, TypeOK
<1>2. ASSUME NEW f \in Feeds, NEW c \in Contents, CreateFeed(f, c) PROVE TypeOK'
  <2>1. reqs' \in Requests
    BY <1>2 DEF CreateFeed, TypeOK, Requests
  <2>. QED  BY <1>2, <2>1 DEF CreateFeed, TypeOK, Requests, NewRow, FeedRow, Publish, Event
<1>3. ASSUME NEW w \in Workers, Begin(w) PROVE TypeOK'
  <2>1. PICK u \in Users, f \in Feeds :
             \/ BeginLike(w, u, f) \/ BeginCancel(w, u, f)
             \/ BeginDelete(w, u, f) \/ BeginComment(w, u, f)
             \/ \E c \in Contents : BeginEdit(w, u, f, c)
    BY <1>3 DEF Begin
  <2>2. feeds[f] \in FeedRow
    BY DEF TypeOK
  <2>3. CASE BeginLike(w, u, f)
    BY <2>2, <2>3, LoadType DEF BeginLike, Ops
  <2>4. CASE BeginCancel(w, u, f)
    BY <2>2, <2>4, LoadType DEF BeginCancel, Ops
  <2>5. CASE BeginDelete(w, u, f)
    BY <2>2, <2>5, LoadType DEF BeginDelete, Ops
  <2>6. CASE BeginComment(w, u, f)
    BY <2>2, <2>6, LoadType DEF BeginComment, Ops
  <2>7. CASE \E c \in Contents : BeginEdit(w, u, f, c)
    <3>1. PICK c \in Contents : BeginEdit(w, u, f, c)
      BY <2>7
    <3>2. [feeds[f] EXCEPT !.content = c] \in FeedRow
      BY <2>2 DEF FeedRow
    <3>. QED  BY <3>1, <3>2, LoadType DEF BeginEdit, Ops
  <2>. QED  BY <2>1, <2>3, <2>4, <2>5, <2>6, <2>7
<1>4. ASSUME NEW w \in Workers, CheckLike(w) PROVE TypeOK'
  <2>1. tx[w] \in OpenTx
    BY <1>4 DEF CheckLike, TypeOK, Idle
  <2>2. tx' \in [Workers -> {Idle} \cup OpenTx]
    BY <1>4, <2>1 DEF CheckLike, Finish, TypeOK, OpenTx, FeedRow
  <2>. QED  BY <1>4, <2>2 DEF CheckLike, TypeOK, ghosts
<1>5. ASSUME NEW w \in Workers, SelectLikes(w) PROVE TypeOK'
  <2>1. tx[w] \in OpenTx
    BY <1>5 DEF SelectLikes, TypeOK, Idle
  <2>2. LikesBy(tx[w].user, tx[w].feed) \in SUBSET LikeRow
    BY DEF LikesBy, TypeOK
  <2>3. tx' \in [Workers -> {Idle} \cup OpenTx]
    BY <1>5, <2>1, <2>2 DEF SelectLikes, Finish, TypeOK, OpenTx, FeedRow
  <2>. QED  BY <1>5, <2>3 DEF SelectLikes, TypeOK, ghosts
<1>6. ASSUME NEW w \in Workers, Commit(w) PROVE TypeOK'
  <2>1. Open(w) /\ tx[w] \in OpenTx
    BY <1>6 DEF Commit, CommitLike, CommitCancel, CommitEdit, CommitDelete, CommitComment,
                Ready, Open, TypeOK, Idle
  <2>2. FinishWriting(w) \/ Finish(w) => tx' \in [Workers -> {Idle} \cup OpenTx]
    <3>1. \A t \in OpenTx : [t EXCEPT !.stale = TRUE] \in OpenTx
      BY DEF OpenTx
    <3>2. \A v \in Workers : Open(v) => tx[v] \in OpenTx
      BY DEF TypeOK, Open, Idle
    <3>. QED  BY <3>1, <3>2 DEF FinishWriting, Finish, TypeOK
  <2>3. CASE CommitLike(w)
    BY <2>1, <2>2, <2>3 DEF CommitLike, NewLike, UpdateFeedRow, Publish, TypeOK, OpenTx, LikeRow, Event
  <2>4. CASE CommitCancel(w)
    BY <2>1, <2>2, <2>4 DEF CommitCancel, UpdateFeedRow, TypeOK, OpenTx
  <2>5. CASE CommitEdit(w)
    BY <2>1, <2>2, <2>5 DEF CommitEdit, UpdateFeedRow, TypeOK, OpenTx, FeedRow, ghosts
  <2>6. CASE CommitDelete(w)
    BY <2>1, <2>2, <2>6 DEF CommitDelete, TypeOK, OpenTx, FeedRow, BlankRow
  <2>7. CASE CommitComment(w)
    BY <2>1, <2>2, <2>7 DEF CommitComment, Publish, TypeOK, OpenTx, CommentRow, Event, ghosts
  <2>. QED  BY <1>6, <2>3, <2>4, <2>5, <2>6, <2>7 DEF Commit
<1>7. ASSUME NEW w \in Workers, Rollback(w) PROVE TypeOK'
  BY <1>7 DEF Rollback, Finish, TypeOK, ghosts
<1>. QED  BY <1>1, <1>2, <1>3, <1>4, <1>5, <1>6, <1>7 DEF Next

\* Every behaviour of the feed service is well typed.
THEOREM TypeCorrect == Spec => []TypeOK
<1>. QED  BY InitType, NextType, PTL DEF Spec

---------------------------------------------------------------------------
(* What a step does to the open transactions *)

\* A transaction of another worker keeps everything it holds; only the ghost
\* stale may be raised, and it is raised when its feed is written.
LEMMA OthersKeep ==
    ASSUME TypeOK, NEW w \in Workers, Finish(w) \/ FinishWriting(w),
           NEW v \in Workers, v # w
    PROVE  /\ Open(v)' <=> Open(v)
           /\ Open(v) => /\ tx'[v].pc = tx[v].pc /\ tx'[v].op = tx[v].op
                         /\ tx'[v].user = tx[v].user /\ tx'[v].feed = tx[v].feed
                         /\ tx'[v].entity = tx[v].entity /\ tx'[v].rows = tx[v].rows
                         /\ tx[v].stale => tx'[v].stale
                         /\ FinishWriting(w) /\ tx[v].feed = tx[w].feed => tx'[v].stale
<1>1. Open(v) => tx[v] \in OpenTx
  BY DEF TypeOK, Open, Idle
<1>. QED  BY <1>1 DEF Finish, FinishWriting, TypeOK, Open, OpenTx

\* The worker whose request ends holds nothing.
LEMMA EndsIdle ==
    ASSUME TypeOK, NEW w \in Workers, Finish(w) \/ FinishWriting(w)
    PROVE  ~Open(w)'
BY DEF Finish, FinishWriting, TypeOK, Open, Idle

\* One like more, or one like less, is a difference of one in the count.
LEMMA LikesFinite ==
    ASSUME IsFiniteSet(likes), NEW f
    PROVE  IsFiniteSet(LikesOf(f)) /\ Cardinality(LikesOf(f)) \in Nat
<1>1. LikesOf(f) \subseteq likes
  BY DEF LikesOf
<1>. QED  BY <1>1, FS_Subset, FS_CardinalityType

---------------------------------------------------------------------------
(* The parts of the invariant that speak of the tables *)

(* The count invariant holds of the seeded database. *)
LEMMA InitCount == Init => CountInv
<1>. SUFFICES ASSUME Init PROVE CountInv
  OBVIOUS
<1>1. TypeOK
  BY InitType
<1>2. IsFiniteSet(likes)
  BY FS_EmptySet DEF Init
<1>3. UniqueLike /\ NoOrphans
  BY DEF Init, UniqueLike, NoOrphans
<1>4. FreshCopies /\ CancelsOneLike
  BY DEF Init, FreshCopies, CancelsOneLike, Open, Ready, Idle
<1>5. \A f \in Feeds : Cardinality(LikesOf(f)) = 0
  BY FS_EmptySet DEF Init, LikesOf
<1>6. CountExactUnlessOverwritten /\ EditSurvivesUnlessOverwritten
  BY <1>5 DEF Init, CountExactUnlessOverwritten, EditSurvivesUnlessOverwritten, NewRow
<1>. QED  BY <1>1, <1>2, <1>3, <1>4, <1>6 DEF CountInv

\* Steps that open, prepare or end a transaction without touching a table.
LEMMA TablesKept ==
    ASSUME CountInv, UNCHANGED <<status, feeds, likes, comments, lostUpdate, lastEdit>>
    PROVE  /\ IsFiniteSet(likes)' /\ UniqueLike' /\ NoOrphans'
           /\ CountExactUnlessOverwritten' /\ EditSurvivesUnlessOverwritten'
BY DEF CountInv, UniqueLike, NoOrphans, CountExactUnlessOverwritten,
       EditSurvivesUnlessOverwritten, LikesOf

\* Loading a feed gives a fresh copy.
LEMMA LoadCount ==
    ASSUME CountInv, NEW w \in Workers, NEW op \in Ops, NEW u \in Users, NEW f \in Feeds,
           NEW pc \in {"loaded", "ready"}, NEW entity \in FeedRow, NEW dirty \in BOOLEAN,
           Load(w, op, u, f, pc, entity, dirty),
           pc = "loaded" => entity = feeds[f],
           op \in {"like", "cancel"} => pc = "loaded",
           entity.likeCount = feeds[f].likeCount
    PROVE  CountInv'
<1>1. TypeOK'
  BY LoadType DEF CountInv
<1>2. FreshCopies' /\ CancelsOneLike'
  BY DEF CountInv, TypeOK, Load, FreshCopies, FreshCopy, CancelsOneLike, Open, Ready
<1>3. UNCHANGED <<status, feeds, likes, comments, lostUpdate, lastEdit>>
  BY DEF Load, ghosts
<1>. QED  BY <1>1, <1>2, <1>3, TablesKept DEF CountInv

\* A transaction that ends without writing its feed's row leaves the copies of
\* the others as they were.
LEMMA FinishKeepsCopies ==
    ASSUME CountInv, NEW w \in Workers, Finish(w), UNCHANGED <<status, feeds>>
    PROVE  FreshCopies' /\ CancelsOneLike'
BY DEF CountInv, Finish, TypeOK, FreshCopies, FreshCopy, CancelsOneLike, Open, Ready, Idle

\* The duplicate check turns a loaded feed into one with one more like.
LEMMA CheckLikeCount ==
    ASSUME CountInv, TypeOK', NEW w \in Workers, CheckLike(w)
    PROVE  CountInv'
<1>1. UNCHANGED <<status, feeds, likes, comments, lostUpdate, lastEdit>>
  BY DEF CheckLike, ghosts
<1>2. tx[w] \in OpenTx /\ tx[w].entity \in FeedRow
  BY DEF CheckLike, CountInv, TypeOK, Idle, OpenTx
<1>3. CASE LikesBy(tx[w].user, tx[w].feed) # {}
  <2>1. FreshCopies' /\ CancelsOneLike'
    BY <1>1, <1>3, FinishKeepsCopies DEF CheckLike
  <2>. QED  BY <1>1, <2>1, TablesKept DEF CountInv
<1>4. CASE LikesBy(tx[w].user, tx[w].feed) = {}
  <2>1. /\ tx'[w].pc = "ready" /\ tx'[w].op = "like"
        /\ tx'[w].feed = tx[w].feed /\ tx'[w].stale = tx[w].stale
        /\ tx'[w].entity.likeCount = tx[w].entity.likeCount + 1
        /\ tx'[w].entity.content = tx[w].entity.content
    BY <1>2, <1>4 DEF CheckLike, CountInv, TypeOK, OpenTx, FeedRow
  <2>2. \A v \in Workers : v # w => tx'[v] = tx[v]
    BY <1>4 DEF CheckLike, CountInv, TypeOK
  <2>3. FreshCopies'
    BY <1>1, <2>1, <2>2 DEF CountInv, FreshCopies, FreshCopy, Open, CheckLike
  <2>4. CancelsOneLike'
    BY <2>1, <2>2 DEF CountInv, CancelsOneLike, Ready
  <2>. QED  BY <1>1, <2>3, <2>4, TablesKept DEF CountInv
<1>. QED  BY <1>3, <1>4

\* The derived delete selects at most one like, because the key is unique.
LEMMA SelectLikesCount ==
    ASSUME CountInv, TypeOK', NEW w \in Workers, SelectLikes(w)
    PROVE  CountInv'
<1>. DEFINE found == LikesBy(tx[w].user, tx[w].feed)
<1>1. UNCHANGED <<status, feeds, likes, comments, lostUpdate, lastEdit>>
  BY DEF SelectLikes, ghosts
<1>2. tx[w] \in OpenTx /\ tx[w].entity \in FeedRow
  BY DEF SelectLikes, CountInv, TypeOK, Idle, OpenTx
<1>3. CASE ~MayDecrement(w, found)
  <2>1. Finish(w)
    BY <1>3 DEF SelectLikes
  <2>2. FreshCopies' /\ CancelsOneLike'
    BY <1>1, <2>1, FinishKeepsCopies
  <2>. QED  BY <1>1, <2>2, TablesKept DEF CountInv
<1>4. CASE MayDecrement(w, found)
  <2>1. /\ tx'[w].pc = "ready" /\ tx'[w].op = "cancel"
        /\ tx'[w].feed = tx[w].feed /\ tx'[w].stale = tx[w].stale
        /\ tx'[w].user = tx[w].user /\ tx'[w].rows = found
        /\ tx'[w].entity.likeCount = tx[w].entity.likeCount - 1
        /\ tx'[w].entity.content = tx[w].entity.content
    BY <1>2, <1>4 DEF SelectLikes, CountInv, TypeOK, OpenTx, FeedRow
  <2>2. \A v \in Workers : v # w => tx'[v] = tx[v]
    BY <1>4 DEF SelectLikes, CountInv, TypeOK
  <2>3. FreshCopies'
    BY <1>1, <2>1, <2>2 DEF CountInv, FreshCopies, FreshCopy, Open, SelectLikes
  <2>4. \E l \in LikeRow : found = {l} /\ l.user = tx[w].user /\ l.feed = tx[w].feed
    BY <1>4 DEF MayDecrement, LikesBy, CountInv, UniqueLike, TypeOK
  <2>5. CancelsOneLike'
    BY <2>1, <2>2, <2>4 DEF CountInv, CancelsOneLike, Ready
  <2>. QED  BY <1>1, <2>3, <2>5, TablesKept DEF CountInv
<1>. QED  BY <1>3, <1>4

\* A transaction ends after its feed's row was written: every other fresh copy
\* was of another feed, whose row is what it was.
LEMMA WritingKeepsCopies ==
    ASSUME CountInv, NEW w \in Workers, Open(w), FinishWriting(w),
           \A f \in Feeds : f # tx[w].feed => status'[f] = status[f] /\ feeds'[f] = feeds[f]
    PROVE  FreshCopies' /\ CancelsOneLike'
<1>. TypeOK
  BY DEF CountInv
<1>1. ~Open(w)'
  BY EndsIdle
<1>2. \A v \in Workers : v # w /\ Open(v) /\ ~tx'[v].stale
         => tx[v].feed \in Feeds /\ tx[v].feed # tx[w].feed
  BY OthersKeep DEF TypeOK, Open, Idle, OpenTx
<1>3. FreshCopies'
  <2>. SUFFICES ASSUME NEW v \in Workers, Open(v)', ~tx'[v].stale PROVE FreshCopy(v)'
    BY DEF FreshCopies
  <2>1. v # w /\ Open(v) /\ ~tx[v].stale
    BY <1>1, OthersKeep
  <2>2. status'[tx[v].feed] = status[tx[v].feed] /\ feeds'[tx[v].feed] = feeds[tx[v].feed]
    BY <1>2, <2>1
  <2>3. FreshCopy(v)
    BY <2>1 DEF CountInv, FreshCopies
  <2>. QED  BY <2>1, <2>2, <2>3, OthersKeep DEF FreshCopy
<1>4. CancelsOneLike'
  BY <1>1, OthersKeep DEF CountInv, CancelsOneLike, Ready, Open
<1>. QED  BY <1>3, <1>4


---------------------------------------------------------------------------
(* Commits *)

(* Committing a like writes the row and the count it was read with, plus one. *)
LEMMA CommitLikeCount ==
    ASSUME CountInv, TypeOK', NEW w \in Workers, CommitLike(w)
    PROVE  CountInv'
<1>. DEFINE f == tx[w].feed
            new == NewLike(w)
<1>1. /\ Open(w) /\ tx[w] \in OpenTx /\ f \in Feeds /\ status[f] = "live"
      /\ feeds \in [Feeds -> FeedRow] /\ UNCHANGED <<status, lastEdit, comments>>
  BY DEF CommitLike, Ready, Open, FeedStored, CountInv, TypeOK, Idle, OpenTx
<1>2. FreshCopies' /\ CancelsOneLike'
  BY <1>1, WritingKeepsCopies DEF CommitLike, UpdateFeedRow
<1>3. new \notin likes /\ new.feed = f /\ new.user = tx[w].user /\ likes' = likes \cup {new}
  BY DEF CommitLike, UniqueKeyFree, LikesBy, NewLike
<1>4. IsFiniteSet(likes)'
  BY <1>3, FS_AddElement DEF CountInv
<1>5. UniqueLike'
  BY <1>3 DEF CommitLike, UniqueKeyFree, LikesBy, CountInv, UniqueLike
<1>6. NoOrphans'
  BY <1>1, <1>3 DEF CountInv, NoOrphans
<1>7. ASSUME NEW g \in Feeds, status'[g] = "live", g \notin lostUpdate'
      PROVE  feeds'[g].likeCount = Cardinality(LikesOf(g))' /\ feeds'[g].content = lastEdit'[g]
  <2>1. g \notin lostUpdate /\ status[g] = "live"
    BY <1>1, <1>7 DEF CommitLike, UpdateFeedRow
  <2>2. feeds[g].likeCount = Cardinality(LikesOf(g)) /\ feeds[g].content = lastEdit[g]
    BY <2>1 DEF CountInv, CountExactUnlessOverwritten, EditSurvivesUnlessOverwritten
  <2>3. CASE g # f
    <3>1. LikesOf(g)' = LikesOf(g)
      BY <1>3, <2>3 DEF LikesOf
    <3>. QED  BY <1>1, <2>2, <2>3, <3>1 DEF CommitLike, UpdateFeedRow
  <2>4. CASE g = f
    <3>1. ~tx[w].stale
      BY <1>1, <1>7, <2>4 DEF CommitLike, UpdateFeedRow
    <3>2. FreshCopy(w)
      BY <1>1, <3>1 DEF CountInv, FreshCopies
    <3>3. /\ feeds'[f].likeCount = feeds[f].likeCount + 1
          /\ feeds'[f].content = feeds[f].content
      BY <1>1, <3>2 DEF FreshCopy, CommitLike, Ready, UpdateFeedRow
    <3>4. LikesOf(g)' = LikesOf(g) \cup {new} /\ new \notin LikesOf(g)
      BY <1>3, <2>4 DEF LikesOf
    <3>5. Cardinality(LikesOf(g))' = Cardinality(LikesOf(g)) + 1
      BY <3>4, LikesFinite, FS_AddElement DEF CountInv
    <3>. QED  BY <1>1, <2>2, <2>4, <3>3, <3>5
  <2>. QED  BY <2>3, <2>4
<1>8. CountExactUnlessOverwritten' /\ EditSurvivesUnlessOverwritten'
  BY <1>7 DEF CountExactUnlessOverwritten, EditSurvivesUnlessOverwritten
<1>. QED  BY <1>2, <1>4, <1>5, <1>6, <1>8 DEF CountInv

(* Committing a cancel removes one row and takes one from the count. *)
LEMMA CommitCancelCount ==
    ASSUME CountInv, TypeOK', NEW w \in Workers, CommitCancel(w)
    PROVE  CountInv'
<1>. DEFINE f == tx[w].feed
<1>1. /\ Open(w) /\ tx[w] \in OpenTx /\ f \in Feeds /\ status[f] = "live"
      /\ feeds \in [Feeds -> FeedRow] /\ UNCHANGED <<status, lastEdit, comments>>
  BY DEF CommitCancel, Ready, Open, FeedStored, CountInv, TypeOK, Idle, OpenTx
<1>2. FreshCopies' /\ CancelsOneLike'
  BY <1>1, WritingKeepsCopies DEF CommitCancel, UpdateFeedRow
<1>3. PICK old \in LikeRow : tx[w].rows = {old} /\ old.feed = f
  BY DEF CommitCancel, CountInv, CancelsOneLike
<1>4. old \in likes /\ likes' = likes \ {old}
  BY <1>3 DEF CommitCancel, RowsStored
<1>5. IsFiniteSet(likes)'
  BY <1>4, FS_RemoveElement DEF CountInv
<1>6. UniqueLike' /\ NoOrphans'
  BY <1>1, <1>4 DEF CountInv, UniqueLike, NoOrphans
<1>7. ASSUME NEW g \in Feeds, status'[g] = "live", g \notin lostUpdate'
      PROVE  feeds'[g].likeCount = Cardinality(LikesOf(g))' /\ feeds'[g].content = lastEdit'[g]
  <2>1. g \notin lostUpdate /\ status[g] = "live"
    BY <1>1, <1>7 DEF CommitCancel, UpdateFeedRow
  <2>2. feeds[g].likeCount = Cardinality(LikesOf(g)) /\ feeds[g].content = lastEdit[g]
    BY <2>1 DEF CountInv, CountExactUnlessOverwritten, EditSurvivesUnlessOverwritten
  <2>3. CASE g # f
    <3>1. LikesOf(g)' = LikesOf(g)
      BY <1>3, <1>4, <2>3 DEF LikesOf
    <3>. QED  BY <1>1, <2>2, <2>3, <3>1 DEF CommitCancel, UpdateFeedRow
  <2>4. CASE g = f
    <3>1. ~tx[w].stale
      BY <1>1, <1>7, <2>4 DEF CommitCancel, UpdateFeedRow
    <3>2. FreshCopy(w)
      BY <1>1, <3>1 DEF CountInv, FreshCopies
    <3>3. /\ feeds'[f].likeCount = feeds[f].likeCount - 1
          /\ feeds'[f].content = feeds[f].content
      BY <1>1, <3>2 DEF FreshCopy, CommitCancel, Ready, UpdateFeedRow
    <3>4. LikesOf(g)' = LikesOf(g) \ {old} /\ old \in LikesOf(g)
      BY <1>3, <1>4, <2>4 DEF LikesOf
    <3>5. Cardinality(LikesOf(g))' = Cardinality(LikesOf(g)) - 1
      BY <3>4, LikesFinite, FS_RemoveElement DEF CountInv
    <3>. QED  BY <1>1, <2>2, <2>4, <3>3, <3>5
  <2>. QED  BY <2>3, <2>4
<1>8. CountExactUnlessOverwritten' /\ EditSurvivesUnlessOverwritten'
  BY <1>7 DEF CountExactUnlessOverwritten, EditSurvivesUnlessOverwritten
<1>. QED  BY <1>2, <1>5, <1>6, <1>8 DEF CountInv

(* Committing an edit writes only the columns it changed. *)
LEMMA CommitEditCount ==
    ASSUME CountInv, TypeOK', NEW w \in Workers, CommitEdit(w)
    PROVE  CountInv'
<1>. DEFINE f == tx[w].feed
<1>1. /\ Open(w) /\ tx[w] \in OpenTx /\ f \in Feeds
      /\ feeds \in [Feeds -> FeedRow] /\ lastEdit \in [Feeds -> Contents \cup {NoContent}]
      /\ UNCHANGED <<status, likes, comments>>
  BY DEF CommitEdit, Ready, Open, CountInv, TypeOK, Idle, OpenTx
<1>2. CASE ~tx[w].dirty
  <2>1. Finish(w) /\ UNCHANGED <<feeds, lostUpdate, lastEdit>>
    BY <1>2 DEF CommitEdit, ghosts
  <2>. QED  BY <1>1, <2>1, TablesKept, FinishKeepsCopies DEF CountInv
<1>3. CASE tx[w].dirty
  <2>1. /\ FeedStored(w) /\ UpdateFeedRow(w) /\ FinishWriting(w)
        /\ lastEdit' = [lastEdit EXCEPT ![f] = tx[w].entity.content]
    BY <1>3 DEF CommitEdit
  <2>2. FreshCopies' /\ CancelsOneLike'
    BY <1>1, <2>1, WritingKeepsCopies DEF UpdateFeedRow
  <2>3. IsFiniteSet(likes)' /\ UniqueLike' /\ NoOrphans'
    BY <1>1 DEF CountInv, UniqueLike, NoOrphans
  <2>4. ASSUME NEW g \in Feeds, status'[g] = "live", g \notin lostUpdate'
        PROVE  feeds'[g].likeCount = Cardinality(LikesOf(g))' /\ feeds'[g].content = lastEdit'[g]
    <3>1. g \notin lostUpdate /\ status[g] = "live"
      BY <1>1, <2>1, <2>4 DEF UpdateFeedRow
    <3>2. feeds[g].likeCount = Cardinality(LikesOf(g)) /\ feeds[g].content = lastEdit[g]
      BY <3>1 DEF CountInv, CountExactUnlessOverwritten, EditSurvivesUnlessOverwritten
    <3>3. LikesOf(g)' = LikesOf(g)
      BY <1>1 DEF LikesOf
    <3>4. CASE g # f
      BY <1>1, <2>1, <3>2, <3>3, <3>4 DEF UpdateFeedRow
    <3>5. CASE g = f
      <4>1. ~tx[w].stale
        BY <1>1, <2>1, <2>4, <3>5 DEF UpdateFeedRow
      <4>2. FreshCopy(w)
        BY <1>1, <4>1 DEF CountInv, FreshCopies
      <4>3. feeds'[f] = tx[w].entity /\ tx[w].entity.likeCount = feeds[f].likeCount
        BY <1>1, <2>1, <4>2 DEF FreshCopy, CommitEdit, Ready, UpdateFeedRow
      <4>. QED  BY <1>1, <2>1, <3>2, <3>3, <3>5, <4>3
    <3>. QED  BY <3>4, <3>5
  <2>5. CountExactUnlessOverwritten' /\ EditSurvivesUnlessOverwritten'
    BY <2>4 DEF CountExactUnlessOverwritten, EditSurvivesUnlessOverwritten
  <2>. QED  BY <2>2, <2>3, <2>5 DEF CountInv
<1>. QED  BY <1>1, <1>2, <1>3 DEF OpenTx

(* Committing a deletion removes the like rows with the feed. *)
LEMMA CommitDeleteCount ==
    ASSUME CountInv, TypeOK', NEW w \in Workers, CommitDelete(w)
    PROVE  CountInv'
<1>. DEFINE f == tx[w].feed
<1>1. /\ Open(w) /\ tx[w] \in OpenTx /\ f \in Feeds
      /\ status \in [Feeds -> {"absent", "live", "deleted"}] /\ feeds \in [Feeds -> FeedRow]
      /\ lastEdit \in [Feeds -> Contents \cup {NoContent}] /\ lostUpdate' = lostUpdate
      /\ likes \subseteq LikeRow /\ comments \subseteq CommentRow
  BY DEF CommitDelete, Ready, Open, CountInv, TypeOK, Idle, OpenTx
<1>2. FreshCopies' /\ CancelsOneLike'
  BY <1>1, WritingKeepsCopies DEF CommitDelete
<1>3. likes' \subseteq likes
  BY DEF CommitDelete
<1>4. IsFiniteSet(likes)'
  BY <1>3, FS_Subset DEF CountInv
<1>5. UniqueLike'
  BY <1>3 DEF CountInv, UniqueLike
<1>6. NoOrphans'
  BY <1>1 DEF CountInv, NoOrphans, CommitDelete, LikeRow, CommentRow
<1>7. ASSUME NEW g \in Feeds, status'[g] = "live", g \notin lostUpdate'
      PROVE  feeds'[g].likeCount = Cardinality(LikesOf(g))' /\ feeds'[g].content = lastEdit'[g]
  <2>1. g # f /\ g \notin lostUpdate /\ status[g] = "live"
    BY <1>1, <1>7 DEF CommitDelete
  <2>2. feeds[g].likeCount = Cardinality(LikesOf(g)) /\ feeds[g].content = lastEdit[g]
    BY <2>1 DEF CountInv, CountExactUnlessOverwritten, EditSurvivesUnlessOverwritten
  <2>3. LikesOf(g)' = LikesOf(g)
    BY <2>1 DEF LikesOf, CommitDelete
  <2>. QED  BY <1>1, <2>1, <2>2, <2>3 DEF CommitDelete
<1>8. CountExactUnlessOverwritten' /\ EditSurvivesUnlessOverwritten'
  BY <1>7 DEF CountExactUnlessOverwritten, EditSurvivesUnlessOverwritten
<1>. QED  BY <1>2, <1>4, <1>5, <1>6, <1>8 DEF CountInv

(* Committing a comment leaves likes and counts of likes alone. *)
LEMMA CommitCommentCount ==
    ASSUME CountInv, TypeOK', NEW w \in Workers, CommitComment(w)
    PROVE  CountInv'
<1>1. UNCHANGED <<status, feeds, likes, lostUpdate, lastEdit>>
  BY DEF CommitComment, ghosts
<1>2. FreshCopies' /\ CancelsOneLike'
  BY <1>1, FinishKeepsCopies DEF CommitComment
<1>3. IsFiniteSet(likes)' /\ UniqueLike'
  BY <1>1 DEF CountInv, UniqueLike
<1>4. NoOrphans'
  BY <1>1 DEF CommitComment, FeedStored, CountInv, NoOrphans
<1>5. CountExactUnlessOverwritten' /\ EditSurvivesUnlessOverwritten'
  BY <1>1 DEF CountInv, CountExactUnlessOverwritten, EditSurvivesUnlessOverwritten, LikesOf
<1>. QED  BY <1>2, <1>3, <1>4, <1>5 DEF CountInv

(* Creating a feed adds a row nobody has liked. *)
LEMMA CreateFeedCount ==
    ASSUME CountInv, TypeOK', NEW f \in Feeds, NEW c \in Contents, CreateFeed(f, c)
    PROVE  CountInv'
<1>1. /\ status \in [Feeds -> {"absent", "live", "deleted"}] /\ feeds \in [Feeds -> FeedRow]
      /\ lastEdit \in [Feeds -> Contents \cup {NoContent}]
      /\ UNCHANGED <<likes, comments, tx, lostUpdate>>
  BY DEF CreateFeed, CountInv, TypeOK
<1>2. FreshCopies'
  BY <1>1 DEF CountInv, FreshCopies, FreshCopy, Open, CreateFeed, TypeOK, Idle, OpenTx
<1>3. CancelsOneLike' /\ IsFiniteSet(likes)' /\ UniqueLike'
  BY <1>1 DEF CountInv, CancelsOneLike, Ready, UniqueLike
<1>4. NoOrphans'
  BY <1>1 DEF CreateFeed, CountInv, NoOrphans, TypeOK, LikeRow, CommentRow
<1>5. LikesOf(f) = {}
  BY DEF CreateFeed, LikesOf, CountInv, NoOrphans
<1>6. ASSUME NEW g \in Feeds, status'[g] = "live", g \notin lostUpdate'
      PROVE  feeds'[g].likeCount = Cardinality(LikesOf(g))' /\ feeds'[g].content = lastEdit'[g]
  <2>1. LikesOf(g)' = LikesOf(g)
    BY <1>1 DEF LikesOf
  <2>2. CASE g = f
    BY <1>1, <1>5, <2>1, <2>2, FS_EmptySet DEF CreateFeed, NewRow
  <2>3. CASE g # f
    BY <1>1, <1>6, <2>1, <2>3 DEF CreateFeed, CountInv, CountExactUnlessOverwritten,
                                  EditSurvivesUnlessOverwritten
  <2>. QED  BY <2>2, <2>3
<1>7. CountExactUnlessOverwritten' /\ EditSurvivesUnlessOverwritten'
  BY <1>6 DEF CountExactUnlessOverwritten, EditSurvivesUnlessOverwritten
<1>. QED  BY <1>2, <1>3, <1>4, <1>7 DEF CountInv

---------------------------------------------------------------------------
(* The invariant holds in every reachable state *)

(* Every step of a request thread preserves the count invariant. *)
LEMMA NextCount == CountInv /\ [Next]_vars => CountInv'
<1>. SUFFICES ASSUME CountInv, [Next]_vars PROVE CountInv'
  OBVIOUS
<1>1. TypeOK'
  BY NextType DEF CountInv
<1>2. CASE UNCHANGED vars
  BY <1>2 DEF vars, CountInv, TypeOK, UniqueLike, NoOrphans, FreshCopies, FreshCopy, Open, Ready,
              CancelsOneLike, CountExactUnlessOverwritten, EditSurvivesUnlessOverwritten, LikesOf
<1>3. ASSUME NEW f \in Feeds, NEW c \in Contents, CreateFeed(f, c) PROVE CountInv'
  BY <1>1, <1>3, CreateFeedCount
<1>4. ASSUME NEW w \in Workers, Begin(w) PROVE CountInv'
  <2>1. PICK u \in Users, f \in Feeds :
             \/ BeginLike(w, u, f) \/ BeginCancel(w, u, f)
             \/ BeginDelete(w, u, f) \/ BeginComment(w, u, f)
             \/ \E c \in Contents : BeginEdit(w, u, f, c)
    BY <1>4 DEF Begin
  <2>2. feeds[f] \in FeedRow
    BY DEF CountInv, TypeOK
  <2>3. CASE BeginLike(w, u, f)
    BY <2>2, <2>3, LoadCount DEF BeginLike, Ops
  <2>4. CASE BeginCancel(w, u, f)
    BY <2>2, <2>4, LoadCount DEF BeginCancel, Ops
  <2>5. CASE BeginDelete(w, u, f)
    BY <2>2, <2>5, LoadCount DEF BeginDelete, Ops
  <2>6. CASE BeginComment(w, u, f)
    BY <2>2, <2>6, LoadCount DEF BeginComment, Ops
  <2>7. CASE \E c \in Contents : BeginEdit(w, u, f, c)
    <3>1. PICK c \in Contents : BeginEdit(w, u, f, c)
      BY <2>7
    <3>2. /\ [feeds[f] EXCEPT !.content = c] \in FeedRow
          /\ [feeds[f] EXCEPT !.content = c].likeCount = feeds[f].likeCount
      BY <2>2 DEF FeedRow
    <3>. QED  BY <3>1, <3>2, LoadCount DEF BeginEdit, Ops
  <2>. QED  BY <2>1, <2>3, <2>4, <2>5, <2>6, <2>7
<1>5. ASSUME NEW w \in Workers, CheckLike(w) \/ SelectLikes(w) PROVE CountInv'
  BY <1>1, <1>5, CheckLikeCount, SelectLikesCount
<1>6. ASSUME NEW w \in Workers, Commit(w) PROVE CountInv'
  BY <1>1, <1>6, CommitLikeCount, CommitCancelCount, CommitEditCount, CommitDeleteCount,
     CommitCommentCount DEF Commit
<1>7. ASSUME NEW w \in Workers, Rollback(w) PROVE CountInv'
  <2>1. Finish(w) /\ UNCHANGED <<status, feeds, likes, comments, lostUpdate, lastEdit>>
    BY <1>7 DEF Rollback, ghosts
  <2>. QED  BY <1>1, <2>1, TablesKept, FinishKeepsCopies DEF CountInv
<1>. QED  BY <1>2, <1>3, <1>4, <1>5, <1>6, <1>7 DEF Next

(* The inductive invariant: count and rows agree, and a transaction under lock holds fresh copies. *)
THEOREM CountInvariant == Spec => []CountInv
<1>. QED  BY InitCount, NextCount, PTL DEF Spec

\* like_count is the number of likes of every feed whose row was never
\* written back from an overtaken copy: the lost update is the only cause of
\* drift in likeFeed, cancelFeedLike, updateFeed and deleteFeed together.
THEOREM CountExact == Spec => []CountExactUnlessOverwritten
<1>1. CountInv => CountExactUnlessOverwritten
  BY DEF CountInv
<1>. QED  BY CountInvariant, <1>1, PTL

\* The text of a feed is what updateFeed last stored, with the same exception:
\* a like that loaded an older text writes it back.
THEOREM EditSurvives == Spec => []EditSurvivesUnlessOverwritten
<1>1. CountInv => EditSurvivesUnlessOverwritten
  BY DEF CountInv
<1>. QED  BY CountInvariant, <1>1, PTL

\* No user has two likes on a feed and no like or comment outlives its feed,
\* whatever the interleaving of the checks and the commits.
THEOREM LikesConsistent == Spec => []LikesSound
<1>1. CountInv => LikesSound
  BY DEF CountInv, LikesSound
<1>. QED  BY CountInvariant, <1>1, PTL

---------------------------------------------------------------------------
(* A beginning request touches no table and takes the next request number *)

(* Starting a request changes only the transaction of its own thread. *)
LEMMA BeginEffect ==
    ASSUME TypeOK, NEW w \in Workers, Begin(w)
    PROVE  /\ UNCHANGED <<status, feeds, likes, comments, published, ghosts>>
           /\ ~Open(w) /\ reqs' = reqs + 1
           /\ \E f \in Feeds : \E t :
                 /\ tx' = [tx EXCEPT ![w] = t] /\ t.id = reqs + 1
                 /\ t.entity.likeCount = feeds[f].likeCount
<1>1. PICK u \in Users, f \in Feeds :
           \/ BeginLike(w, u, f) \/ BeginCancel(w, u, f)
           \/ BeginDelete(w, u, f) \/ BeginComment(w, u, f)
           \/ \E c \in Contents : BeginEdit(w, u, f, c)
  BY DEF Begin
<1>2. feeds[f] \in FeedRow
  BY DEF TypeOK
<1>3. ASSUME NEW op, NEW pc, NEW e, NEW d, Load(w, op, u, f, pc, e, d),
             e.likeCount = feeds[f].likeCount
      PROVE  /\ UNCHANGED <<status, feeds, likes, comments, published, ghosts>>
             /\ ~Open(w) /\ reqs' = reqs + 1
             /\ \E t : /\ tx' = [tx EXCEPT ![w] = t] /\ t.id = reqs + 1
                      /\ t.entity.likeCount = feeds[f].likeCount
  <2>. DEFINE t == [pc |-> pc, op |-> op, user |-> u, feed |-> f, id |-> reqs + 1,
                    entity |-> e, rows |-> {}, dirty |-> d, stale |-> FALSE]
  <2>1. tx' = [tx EXCEPT ![w] = t]
    BY <1>3 DEF Load
  <2>2. t.id = reqs + 1 /\ t.entity = e
    OBVIOUS
  <2>. QED  BY <1>3, <2>1, <2>2 DEF Load
<1>4. CASE \E c \in Contents : BeginEdit(w, u, f, c)
  <2>1. PICK c \in Contents : BeginEdit(w, u, f, c)
    BY <1>4
  <2>2. [feeds[f] EXCEPT !.content = c].likeCount = feeds[f].likeCount
    BY <1>2 DEF FeedRow
  <2>. QED  BY <1>3, <2>1, <2>2 DEF BeginEdit
<1>. QED  BY <1>1, <1>3, <1>4 DEF BeginLike, BeginCancel, BeginDelete, BeginComment

---------------------------------------------------------------------------
(* The count is never negative *)

\* The guard of decrementLikeCount keeps every stored count and every count
\* about to be stored at zero or above.
THEOREM NeverNegative == Spec => []CountNeverNegative
<1>1. Init => CountNeverNegative
  BY DEF Init, CountNeverNegative, Open, Idle, NewRow, BlankRow
<1>2. TypeOK /\ CountNeverNegative /\ [Next]_vars => CountNeverNegative'
  <2>. SUFFICES ASSUME TypeOK, CountNeverNegative, [Next]_vars PROVE CountNeverNegative'
    OBVIOUS
  <2>1. CASE UNCHANGED vars
    BY <2>1 DEF vars, CountNeverNegative, Open
  <2>2. ASSUME NEW f \in Feeds, NEW c \in Contents, CreateFeed(f, c) PROVE CountNeverNegative'
    BY <2>2 DEF CreateFeed, CountNeverNegative, NewRow, TypeOK, Open
  <2>3. ASSUME NEW w \in Workers, Begin(w) PROVE CountNeverNegative'
    <3>0. PICK f \in Feeds : \E t :
              /\ tx' = [tx EXCEPT ![w] = t] /\ UNCHANGED feeds
              /\ t.entity.likeCount = feeds[f].likeCount
      BY <2>3, BeginEffect
    <3>1. PICK t : /\ tx' = [tx EXCEPT ![w] = t] /\ UNCHANGED feeds
                   /\ t.entity.likeCount = feeds[f].likeCount
      BY <3>0
    <3>. QED  BY <3>1 DEF CountNeverNegative, TypeOK, Open
  <2>4. ASSUME NEW w \in Workers, CheckLike(w) PROVE CountNeverNegative'
    <3>1. tx[w] \in OpenTx /\ Open(w) /\ tx[w].entity \in FeedRow
      BY <2>4 DEF CheckLike, TypeOK, Idle, Open, OpenTx
    <3>. QED  BY <2>4, <3>1 DEF CheckLike, Finish, CountNeverNegative, TypeOK, Open, OpenTx, FeedRow, Idle
  <2>5. ASSUME NEW w \in Workers, SelectLikes(w) PROVE CountNeverNegative'
    <3>1. tx[w] \in OpenTx /\ Open(w) /\ tx[w].entity \in FeedRow
      BY <2>5 DEF SelectLikes, TypeOK, Idle, Open, OpenTx
    <3>. QED  BY <2>5, <3>1 DEF SelectLikes, MayDecrement, Finish, CountNeverNegative, TypeOK,
                                Open, OpenTx, FeedRow, Idle
  <2>6. ASSUME NEW w \in Workers, Commit(w) PROVE CountNeverNegative'
    <3>1. Open(w) /\ tx[w].feed \in Feeds
      BY <2>6 DEF Commit, CommitLike, CommitCancel, CommitEdit, CommitDelete, CommitComment,
                  Ready, Open, TypeOK, Idle, OpenTx
    <3>2. Finish(w) \/ FinishWriting(w)
      BY <2>6 DEF Commit, CommitLike, CommitCancel, CommitEdit, CommitDelete, CommitComment
    <3>3. \A v \in Workers : Open(v)' => Open(v) /\ tx'[v].entity = tx[v].entity
      BY <3>2, OthersKeep, EndsIdle
    <3>4. \/ UNCHANGED feeds
          \/ feeds' = [feeds EXCEPT ![tx[w].feed] = tx[w].entity]
          \/ feeds' = [feeds EXCEPT ![tx[w].feed] = BlankRow]
      BY <2>6 DEF Commit, CommitLike, CommitCancel, CommitEdit, CommitDelete, CommitComment,
                  UpdateFeedRow
    <3>. QED  BY <3>1, <3>3, <3>4 DEF CountNeverNegative, TypeOK, BlankRow
  <2>7. ASSUME NEW w \in Workers, Rollback(w) PROVE CountNeverNegative'
    BY <2>7, OthersKeep, EndsIdle DEF Rollback, CountNeverNegative
  <2>. QED  BY <2>1, <2>2, <2>3, <2>4, <2>5, <2>6, <2>7 DEF Next
<1>. QED  BY <1>1, <1>2, TypeCorrect, PTL DEF Spec

---------------------------------------------------------------------------
(* Events go out with the rows they tell of *)

\* Every request has a number of its own, so no event is published twice.
IdsOnce ==
    /\ \A e \in published : e.id <= reqs
    /\ \A c \in comments : [kind |-> "comment", id |-> c.id] \in published
    /\ \A w \in Workers : Open(w) =>
          /\ tx[w].id <= reqs
          /\ \A e \in published : e.id # tx[w].id
          /\ \A v \in Workers : Open(v) /\ tx[v].id = tx[w].id => v = w

\* Two facts every step keeps: what an open transaction is numbered, and that
\* it was open before unless it begins now.
LEMMA OpenIdsKept ==
    ASSUME TypeOK, NEW w \in Workers,
           CheckLike(w) \/ SelectLikes(w) \/ Commit(w) \/ Rollback(w)
    PROVE  /\ reqs' = reqs /\ Open(w)
           /\ \A v \in Workers : Open(v)' => Open(v) /\ tx'[v].id = tx[v].id
           /\ Commit(w) => ~Open(w)'
<1>1. Open(w) /\ tx[w] \in OpenTx
  BY DEF CheckLike, SelectLikes, Rollback, Commit, CommitLike, CommitCancel, CommitEdit,
         CommitDelete, CommitComment, Ready, Open, TypeOK, Idle
<1>2. \A v \in Workers : Open(v) => tx[v] \in OpenTx
  BY DEF TypeOK, Open, Idle
<1>3. CASE Finish(w) \/ FinishWriting(w)
  <2>1. \A v \in Workers : Open(v)' => Open(v) /\ tx'[v].id = tx[v].id
    BY <1>2, <1>3 DEF Finish, FinishWriting, TypeOK, Open, OpenTx, Idle
  <2>2. reqs' = reqs
    BY DEF CheckLike, SelectLikes, Rollback, Commit, CommitLike, CommitCancel, CommitEdit,
           CommitDelete, CommitComment
  <2>. QED  BY <1>1, <1>3, <2>1, <2>2, EndsIdle
<1>4. CASE CheckLike(w)
  BY <1>1, <1>2, <1>4 DEF CheckLike, Finish, TypeOK, Open, OpenTx, Idle, Commit, CommitLike,
                          CommitCancel, CommitEdit, CommitDelete, CommitComment, Ready
<1>5. CASE SelectLikes(w)
  BY <1>1, <1>2, <1>5 DEF SelectLikes, Finish, TypeOK, Open, OpenTx, Idle, Commit, CommitLike,
                          CommitCancel, CommitEdit, CommitDelete, CommitComment, Ready
<1>. QED  BY <1>3, <1>4, <1>5 DEF Commit, CommitLike, CommitCancel, CommitEdit, CommitDelete,
                                  CommitComment, Rollback

(* Row identifiers stay unique through every step. *)
LEMMA NextIds == TypeOK /\ IdsOnce /\ [Next]_vars => IdsOnce'
<1>. SUFFICES ASSUME TypeOK, IdsOnce, [Next]_vars PROVE IdsOnce'
  OBVIOUS
<1>1. CASE UNCHANGED vars
  BY <1>1 DEF vars, IdsOnce, Open
<1>2. ASSUME NEW f \in Feeds, NEW c \in Contents, CreateFeed(f, c) PROVE IdsOnce'
  BY <1>2 DEF CreateFeed, Publish, IdsOnce, TypeOK, Open, Event, Requests, OpenTx, Idle
<1>3. ASSUME NEW w \in Workers, Begin(w) PROVE IdsOnce'
  <2>1. PICK t : tx' = [tx EXCEPT ![w] = t] /\ t.id = reqs + 1
    BY <1>3, BeginEffect
  <2>2. reqs' = reqs + 1 /\ UNCHANGED <<published, comments>> /\ reqs \in Nat /\ ~Open(w)
    BY <1>3, BeginEffect, FeedServiceAssumption DEF TypeOK
  <2>3. \A e \in published : e.id \in Nat /\ e.id <= reqs
    BY FeedServiceAssumption DEF TypeOK, Event, Requests, IdsOnce
  <2>4. \A v \in Workers : Open(v) => tx[v].id \in Nat /\ tx[v].id <= reqs
    BY FeedServiceAssumption DEF TypeOK, OpenTx, Requests, Open, Idle, IdsOnce
  <2>. QED  BY <2>1, <2>2, <2>3, <2>4 DEF IdsOnce, Open, TypeOK
<1>4. ASSUME NEW w \in Workers, CheckLike(w) \/ SelectLikes(w) \/ Rollback(w) PROVE IdsOnce'
  <2>1. UNCHANGED <<published, comments>>
    BY <1>4 DEF CheckLike, SelectLikes, Rollback
  <2>. QED  BY <1>4, <2>1, OpenIdsKept DEF IdsOnce
<1>5. ASSUME NEW w \in Workers, Commit(w) PROVE IdsOnce'
  <2>1. /\ published \subseteq published'
        /\ \A e \in published' : e \in published \/ e.id = tx[w].id
        /\ \A c \in comments' : c \in comments \/ [kind |-> "comment", id |-> c.id] \in published'
    <3>1. CASE CommitLike(w)
      BY <3>1 DEF CommitLike, Publish
    <3>2. CASE CommitCancel(w) \/ CommitEdit(w) \/ CommitDelete(w)
      BY <3>2 DEF CommitCancel, CommitEdit, CommitDelete
    <3>3. CASE CommitComment(w)
      BY <3>3 DEF CommitComment, Publish
    <3>. QED  BY <1>5, <3>1, <3>2, <3>3 DEF Commit
  <2>2. tx[w].id <= reqs
    BY <1>5, OpenIdsKept DEF IdsOnce
  <2>. QED  BY <1>5, <2>1, <2>2, OpenIdsKept DEF IdsOnce
<1>. QED  BY <1>1, <1>2, <1>3, <1>4, <1>5 DEF Next

(* Every step announces only the rows it commits. *)
LEMMA NextEvents == TypeOK /\ IdsOnce /\ [Next]_vars => [EventsOfRows]_vars
<1>. SUFFICES ASSUME TypeOK, IdsOnce, Next PROVE EventsOfRows
  OBVIOUS
<1>. DEFINE NoFeedCreated == \A f \in Feeds : ~(status[f] = "absent" /\ status'[f] = "live")
<1>1. ASSUME NEW f \in Feeds, NEW c \in Contents, CreateFeed(f, c) PROVE EventsOfRows
  <2>1. \A e \in published : e.id # reqs'
    BY <1>1, FeedServiceAssumption DEF CreateFeed, IdsOnce, TypeOK, Event, Requests
  <2>2. published' \ published = {[kind |-> "feed", id |-> reqs']}
    BY <1>1, <2>1 DEF CreateFeed, Publish
  <2>3. status[f] = "absent" /\ status'[f] = "live" /\ likes' = likes /\ comments' = comments
    BY <1>1 DEF CreateFeed, TypeOK
  <2>. QED  BY <2>2, <2>3 DEF EventsOfRows
<1>2. ASSUME NEW w \in Workers, Begin(w) \/ CheckLike(w) \/ SelectLikes(w) \/ Rollback(w)
      PROVE  EventsOfRows
  <2>1. UNCHANGED <<status, likes, comments, published>>
    BY <1>2, BeginEffect DEF CheckLike, SelectLikes, Rollback
  <2>. QED  BY <2>1 DEF EventsOfRows
<1>3. ASSUME NEW w \in Workers, Commit(w) PROVE EventsOfRows
  <2>1. \A e \in published : e.id # tx[w].id
    BY <1>3, OpenIdsKept DEF IdsOnce
  <2>2. NoFeedCreated
    BY <1>3 DEF Commit, CommitLike, CommitCancel, CommitEdit, CommitDelete, CommitComment, TypeOK
  <2>3. CASE CommitLike(w)
    <3>1. likes' \ likes = {NewLike(w)} /\ comments' = comments
      BY <2>3 DEF CommitLike, UniqueKeyFree, LikesBy, NewLike
    <3>2. published' \ published = {[kind |-> "like", id |-> tx[w].id]}
      BY <2>1, <2>3 DEF CommitLike, Publish
    <3>3. {[kind |-> "like", id |-> l.id] : l \in likes' \ likes}
             = {[kind |-> "like", id |-> tx[w].id]}
      <4>1. NewLike(w).id = tx[w].id
        BY DEF NewLike
      <4>. QED  BY <3>1, <4>1
    <3>4. {[kind |-> "comment", id |-> c.id] : c \in comments' \ comments} = {}
      BY <3>1
    <3>. QED  BY <2>2, <3>2, <3>3, <3>4 DEF EventsOfRows
  <2>4. CASE CommitCancel(w) \/ CommitEdit(w) \/ CommitDelete(w)
    <3>1. likes' \ likes = {} /\ comments' \ comments = {} /\ published' = published
      BY <2>4 DEF CommitCancel, CommitEdit, CommitDelete
    <3>. QED  BY <2>2, <3>1 DEF EventsOfRows
  <2>5. CASE CommitComment(w)
    <3>. DEFINE new == [id |-> tx[w].id, author |-> tx[w].user, feed |-> tx[w].feed]
    <3>1. \A c \in comments : c.id # tx[w].id
      BY <2>1 DEF IdsOnce
    <3>2. likes' = likes /\ comments' \ comments = {new}
      BY <2>5, <3>1 DEF CommitComment
    <3>3. published' \ published = {[kind |-> "comment", id |-> tx[w].id]}
      BY <2>1, <2>5 DEF CommitComment, Publish
    <3>4. {[kind |-> "comment", id |-> c.id] : c \in comments' \ comments}
             = {[kind |-> "comment", id |-> tx[w].id]}
      <4>1. new.id = tx[w].id
        OBVIOUS
      <4>. HIDE DEF new
      <4>. QED  BY <3>2, <4>1
    <3>5. {[kind |-> "like", id |-> l.id] : l \in likes' \ likes} = {}
      BY <3>2
    <3>. QED  BY <2>2, <3>3, <3>4, <3>5 DEF EventsOfRows
  <2>. QED  BY <1>3, <2>3, <2>4, <2>5 DEF Commit
<1>. QED  BY <1>1, <1>2, <1>3 DEF Next

\* Every like, comment and feed that is stored is announced once, in the step
\* that commits it, and nothing else is announced.
THEOREM EventsFollowCommits == Spec => PublishedWithRows
<1>1. Init => IdsOnce
  BY DEF Init, IdsOnce, Open, Idle
<1>. QED  BY <1>1, NextIds, NextEvents, TypeCorrect, PTL DEF Spec, PublishedWithRows

DeletedBlank == \A f \in Feeds : status[f] = "deleted" => feeds[f] = BlankRow

(* A deleted feed stays deleted through every step. *)
LEMMA NextDeleted == TypeOK /\ DeletedBlank /\ [Next]_vars => DeletedBlank' /\ [StaysDeleted]_vars
<1>. SUFFICES ASSUME TypeOK, DeletedBlank, [Next]_vars PROVE DeletedBlank' /\ [StaysDeleted]_vars
  OBVIOUS
<1>. USE DEF DeletedBlank
<1>1. CASE UNCHANGED vars
  BY <1>1 DEF vars
<1>2. ASSUME NEW f \in Feeds, NEW c \in Contents, CreateFeed(f, c) PROVE StaysDeleted
  BY <1>2 DEF CreateFeed, StaysDeleted, TypeOK
<1>3. ASSUME NEW w \in Workers, Begin(w) \/ CheckLike(w) \/ SelectLikes(w) \/ Rollback(w)
      PROVE  StaysDeleted
  <2>1. UNCHANGED <<status, feeds>>
    BY <1>3, BeginEffect DEF CheckLike, SelectLikes, Rollback
  <2>. QED  BY <2>1 DEF StaysDeleted
<1>4. ASSUME NEW w \in Workers, Commit(w) PROVE StaysDeleted
  <2>1. CASE CommitDelete(w)
    BY <2>1 DEF CommitDelete, StaysDeleted, TypeOK
  <2>2. CASE CommitLike(w) \/ CommitCancel(w) \/ CommitEdit(w) \/ CommitComment(w)
    BY <2>2 DEF CommitLike, CommitCancel, CommitEdit, CommitComment, FeedStored, UpdateFeedRow,
                StaysDeleted, TypeOK
  <2>. QED  BY <1>4, <2>1, <2>2 DEF Commit
<1>5. StaysDeleted => DeletedBlank'
  BY DEF StaysDeleted
<1>. QED  BY <1>1, <1>2, <1>3, <1>4, <1>5 DEF Next

\* A deleted feed stays deleted, whatever copies of it open requests still hold.
THEOREM DeletedIsFinal == Spec => NoResurrection
<1>1. Init => DeletedBlank
  BY DEF Init, DeletedBlank
<1>. QED  BY <1>1, NextDeleted, TypeCorrect, PTL DEF Spec, NoResurrection
=============================================================================
