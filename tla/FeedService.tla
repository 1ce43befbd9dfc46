---------------------------- MODULE FeedService ----------------------------
(***************************************************************************)
(* The write side of BasicFeedService: feeds, likes and comments changed   *)
(* by requests that run concurrently, one database transaction each.       *)
(*                                                                         *)
(* The database is PostgreSQL at READ COMMITTED: every query sees what was *)
(* committed when it ran, so a request that loads a feed, then checks for  *)
(* a like, then commits works on three different snapshots.  Hibernate     *)
(* keeps the loaded feed in memory (tx[w].entity) and, when it is dirty,   *)
(* writes back ALL of its columns at commit; Feed has no @Version.  The    *)
(* statements of a flush hold their locks until the commit, which follows  *)
(* at once, so a flush and its commit are one step here; what the database *)
(* refuses (unique key, foreign key, an UPDATE or DELETE of no row) rolls  *)
(* the whole transaction back.                                             *)
(***************************************************************************)
EXTENDS Integers, FiniteSets

CONSTANTS Workers,      \* servlet threads, each running one request at a time
          Users,        \* users who like, unlike and comment
          Feeds,        \* feed ids
          Contents,     \* feed texts
          NoContent,    \* the content of a feed that is not stored
          MaxRequests   \* bound: the number of requests in a behaviour

ASSUME FeedServiceAssumption == MaxRequests \in Nat /\ NoContent \notin Contents

VARIABLES status,       \* feeds table: "absent" (never stored), "live", "deleted"
          feeds,        \* feeds table: the row of each feed
          likes,        \* feed_likes table: a set of rows
          comments,     \* feed_comments table: a set of rows
          published,    \* events handed to the AFTER_COMMIT listeners
          tx,           \* the open transaction of each worker
          reqs,         \* requests started so far; numbers the rows they insert
          lostUpdate,   \* ghost: feeds whose row was overwritten from a stale copy
          lastEdit      \* ghost: the content each feed was last given on purpose

vars == <<status, feeds, likes, comments, published, tx, reqs, lostUpdate, lastEdit>>
ghosts == <<lostUpdate, lastEdit>>

---------------------------------------------------------------------------
(* Types *)

Ops == {"like", "cancel", "edit", "delete", "comment"}
Requests == 1..MaxRequests
FeedRow == [likeCount : Int, content : Contents \cup {NoContent}]
LikeRow == [id : Requests, user : Users, feed : Feeds]
CommentRow == [id : Requests, author : Users, feed : Feeds]
Event == [kind : {"like", "comment", "feed"}, id : Requests]
Idle == [pc |-> "idle"]
OpenTx == [pc : {"loaded", "ready"}, op : Ops, user : Users, feed : Feeds,
           id : Requests, entity : FeedRow, rows : SUBSET LikeRow,
           dirty : BOOLEAN, stale : BOOLEAN]

\* What is left of a feed's row once it is deleted.
BlankRow == [likeCount |-> 0, content |-> NoContent]
NewRow(c) == [likeCount |-> 0, content |-> c]

TypeOK ==
    /\ status \in [Feeds -> {"absent", "live", "deleted"}]
    /\ feeds \in [Feeds -> FeedRow]
    /\ likes \subseteq LikeRow
    /\ comments \subseteq CommentRow
    /\ published \subseteq Event
    /\ tx \in [Workers -> {Idle} \cup OpenTx]
    /\ reqs \in 0..MaxRequests
    /\ lostUpdate \subseteq Feeds
    /\ lastEdit \in [Feeds -> Contents \cup {NoContent}]

---------------------------------------------------------------------------
(* Queries *)

Open(w) == tx[w].pc # "idle"
Ready(w, op) == tx[w].pc = "ready" /\ tx[w].op = op
LikesOf(f) == {l \in likes : l.feed = f}

\* FeedLikeRepository.existsByUserAndFeed and the SELECT of deleteByUserAndFeed.
LikesBy(u, f) == {l \in likes : l.user = u /\ l.feed = f}

---------------------------------------------------------------------------
(* Ends of a transaction *)

\* The worker is free again; nothing it read is remembered.
Finish(w) == tx' = [tx EXCEPT ![w] = Idle]

\* The same after the feed's row was written: every other transaction that
\* loaded that row now holds a stale copy (ghost field stale).
FinishWriting(w) ==
    tx' = [v \in Workers |->
              IF v = w THEN Idle
              ELSE IF Open(v) /\ tx[v].feed = tx[w].feed
                   THEN [tx[v] EXCEPT !.stale = TRUE]
                   ELSE tx[v]]

\* Mutant: the content column is left out of the UPDATE.
UpdateCountOnly(w) ==
    /\ feeds' = [feeds EXCEPT ![tx[w].feed].likeCount = tx[w].entity.likeCount]
    /\ lostUpdate' = IF tx[w].stale THEN lostUpdate \cup {tx[w].feed} ELSE lostUpdate

\* UPDATE feeds SET <every column> WHERE id = ?
UpdateFeedRow(w) ==
    /\ feeds' = [feeds EXCEPT ![tx[w].feed] = tx[w].entity]
    /\ lostUpdate' = IF tx[w].stale THEN lostUpdate \cup {tx[w].feed} ELSE lostUpdate

Publish(kind, id) == published' = published \cup {[kind |-> kind, id |-> id]}

\* What the database refuses: a second like of one user for one feed
\* (uk_feed_like), a row that refers to a feed that is gone (foreign keys),
\* an UPDATE or DELETE that matches no row (Hibernate's row count check).
NoUniqueKey(w) == TRUE      \* Mutant: the table without uk_feed_like.
UniqueKeyFree(w) == LikesBy(tx[w].user, tx[w].feed) = {}
NoForeignKey(w) == TRUE     \* Mutant: no foreign key, no row count check.
FeedStored(w) == status[tx[w].feed] = "live"
RowsStored(w) == tx[w].rows \subseteq likes

---------------------------------------------------------------------------
(* Requests *)

\* createFeed inserts the feed and publishes FeedCreatedEvent; nothing it
\* reads is changed by the requests of this module.
CreateFeed(f, c) ==
    /\ reqs < MaxRequests
    /\ status[f] = "absent"
    /\ reqs' = reqs + 1
    /\ status' = [status EXCEPT ![f] = "live"]
    /\ feeds' = [feeds EXCEPT ![f] = NewRow(c)]
    /\ lastEdit' = [lastEdit EXCEPT ![f] = c]
    /\ Publish("feed", reqs')
    /\ UNCHANGED <<likes, comments, tx, lostUpdate>>

\* A request loads its feed (a missing feed is rejected with no effect).
Load(w, op, u, f, pc, entity, dirty) ==
    /\ reqs < MaxRequests
    /\ ~Open(w)
    /\ status[f] = "live"
    /\ reqs' = reqs + 1
    /\ tx' = [tx EXCEPT ![w] = [pc |-> pc, op |-> op, user |-> u, feed |-> f,
                                id |-> reqs + 1, entity |-> entity, rows |-> {},
                                dirty |-> dirty, stale |-> FALSE]]
    /\ UNCHANGED <<status, feeds, likes, comments, published, ghosts>>

BeginLike(w, u, f) == Load(w, "like", u, f, "loaded", feeds[f], FALSE)
BeginCancel(w, u, f) == Load(w, "cancel", u, f, "loaded", feeds[f], FALSE)
BeginDelete(w, u, f) == Load(w, "delete", u, f, "ready", feeds[f], FALSE)
BeginComment(w, u, f) == Load(w, "comment", u, f, "ready", feeds[f], FALSE)

\* updateFeed sets the content right after the load; Hibernate will write the
\* row only if that changed it.
BeginEdit(w, u, f, c) ==
    Load(w, "edit", u, f, "ready", [feeds[f] EXCEPT !.content = c], c # feeds[f].content)

\* Mutant: the listener runs when the event is published, not after the commit.
CheckLikeEager(w) ==
    /\ tx[w].pc = "loaded" /\ tx[w].op = "like"
    /\ LikesBy(tx[w].user, tx[w].feed) = {}
    /\ tx' = [tx EXCEPT ![w].pc = "ready", ![w].dirty = TRUE, ![w].entity.likeCount = @ + 1]
    /\ Publish("like", tx[w].id)
    /\ UNCHANGED <<status, feeds, likes, comments, reqs, ghosts>>

\* likeFeed, after the load: the duplicate check, then the increment.
CheckLike(w) ==
    /\ tx[w].pc = "loaded" /\ tx[w].op = "like"
    /\ IF LikesBy(tx[w].user, tx[w].feed) # {}
       THEN Finish(w)                               \* FeedLikeAlreadyExistsException
       ELSE tx' = [tx EXCEPT ![w].pc = "ready", ![w].dirty = TRUE,
                             ![w].entity.likeCount = @ + 1]
    /\ UNCHANGED <<status, feeds, likes, comments, published, reqs, ghosts>>

\* Mutant: the count is decremented whether or not a like was deleted.
MayDecrementUnliked(w, found) == tx[w].entity.likeCount > 0

\* A like was found, and decrementLikeCount does not throw.
MayDecrement(w, found) == found # {} /\ tx[w].entity.likeCount > 0

\* cancelFeedLike, after the load: the derived delete selects the likes of
\* this user; with none the request ends, otherwise the count is decremented.
SelectLikes(w) ==
    LET found == LikesBy(tx[w].user, tx[w].feed)
    IN /\ tx[w].pc = "loaded" /\ tx[w].op = "cancel"
       /\ IF MayDecrement(w, found)
          THEN tx' = [tx EXCEPT ![w].pc = "ready", ![w].dirty = TRUE, ![w].rows = found,
                                ![w].entity.likeCount = @ - 1]
          ELSE Finish(w)                            \* nothing to do, or IllegalStateException
       /\ UNCHANGED <<status, feeds, likes, comments, published, reqs, ghosts>>

\* The row of FeedLike(feed, loginUser); its id is generated.
LikeWithoutId(w) == [id |-> 0, user |-> tx[w].user, feed |-> tx[w].feed]    \* Mutant.
NewLike(w) == [id |-> tx[w].id, user |-> tx[w].user, feed |-> tx[w].feed]

CommitLike(w) ==
    /\ Ready(w, "like") /\ FeedStored(w) /\ UniqueKeyFree(w)
    /\ likes' = likes \cup {NewLike(w)}
    /\ UpdateFeedRow(w)
    /\ Publish("like", tx[w].id)
    /\ FinishWriting(w)
    /\ UNCHANGED <<status, comments, reqs, lastEdit>>

CommitCancel(w) ==
    /\ Ready(w, "cancel") /\ FeedStored(w) /\ RowsStored(w)
    /\ likes' = likes \ tx[w].rows
    /\ UpdateFeedRow(w)
    /\ FinishWriting(w)
    /\ UNCHANGED <<status, comments, published, reqs, lastEdit>>

CommitEdit(w) ==
    /\ Ready(w, "edit")
    /\ \/ /\ tx[w].dirty /\ FeedStored(w)
          /\ UpdateFeedRow(w)
          /\ lastEdit' = [lastEdit EXCEPT ![tx[w].feed] = tx[w].entity.content]
          /\ FinishWriting(w)
       \/ /\ ~tx[w].dirty
          /\ Finish(w)
          /\ UNCHANGED <<feeds, ghosts>>
    /\ UNCHANGED <<status, likes, comments, published, reqs>>

\* DELETE FROM feeds; the foreign keys cascade to likes and comments.
CommitDelete(w) ==
    /\ Ready(w, "delete") /\ FeedStored(w)
    /\ status' = [status EXCEPT ![tx[w].feed] = "deleted"]
    /\ feeds' = [feeds EXCEPT ![tx[w].feed] = BlankRow]
    /\ likes' = {l \in likes : l.feed # tx[w].feed}
    /\ comments' = {c \in comments : c.feed # tx[w].feed}
    /\ lastEdit' = [lastEdit EXCEPT ![tx[w].feed] = NoContent]
    /\ FinishWriting(w)
    /\ UNCHANGED <<published, reqs, lostUpdate>>

CommitComment(w) ==
    /\ Ready(w, "comment") /\ FeedStored(w)
    /\ comments' = comments \cup {[id |-> tx[w].id, author |-> tx[w].user, feed |-> tx[w].feed]}
    /\ Publish("comment", tx[w].id)
    /\ Finish(w)
    /\ UNCHANGED <<status, feeds, likes, reqs, ghosts>>

\* The database refused a statement, chose this transaction as a deadlock
\* victim, or the connection broke: nothing of the request remains.
Rollback(w) ==
    /\ Open(w)
    /\ Finish(w)
    /\ UNCHANGED <<status, feeds, likes, comments, published, reqs, ghosts>>

---------------------------------------------------------------------------

\* Some feeds exist already, the others may be created.
Init ==
    /\ \E old \in SUBSET Feeds, c \in Contents :
          /\ status = [f \in Feeds |-> IF f \in old THEN "live" ELSE "absent"]
          /\ feeds = [f \in Feeds |-> IF f \in old THEN NewRow(c) ELSE BlankRow]
          /\ lastEdit = [f \in Feeds |-> IF f \in old THEN c ELSE NoContent]
    /\ likes = {} /\ comments = {} /\ published = {}
    /\ tx = [w \in Workers |-> Idle]
    /\ reqs = 0
    /\ lostUpdate = {}

Begin(w) ==
    \E u \in Users, f \in Feeds :
        \/ BeginLike(w, u, f)
        \/ BeginCancel(w, u, f)
        \/ BeginDelete(w, u, f)
        \/ BeginComment(w, u, f)
        \/ \E c \in Contents : BeginEdit(w, u, f, c)

Commit(w) ==
    \/ CommitLike(w)
    \/ CommitCancel(w)
    \/ CommitEdit(w)
    \/ CommitDelete(w)
    \/ CommitComment(w)

Next ==
    \/ \E f \in Feeds, c \in Contents : CreateFeed(f, c)
    \/ \E w \in Workers : Begin(w) \/ CheckLike(w) \/ SelectLikes(w) \/ Commit(w) \/ Rollback(w)

Spec == Init /\ [][Next]_vars

---------------------------------------------------------------------------
(* Properties *)

\* The check of likeFeed and its insert see different snapshots, so two
\* requests of one user can both pass the check; still no user ever has two
\* likes on one feed (uk_feed_like decides).
UniqueLike ==
    \A l, m \in likes : l.user = m.user /\ l.feed = m.feed => l = m

\* A feed deleted while another request likes it or comments on it leaves no
\* like and no comment behind.
NoOrphans ==
    /\ \A l \in likes : status[l.feed] = "live"
    /\ \A c \in comments : status[c.feed] = "live"

\* The two together: what feed_likes and feed_comments hold is well-formed
\* whatever the requests that overlap have seen.
LikesSound == UniqueLike /\ NoOrphans

\* However many likes and cancels overlap and overwrite each other's count,
\* neither the stored count nor a count about to be stored is negative: this
\* is what the guard of Feed.decrementLikeCount buys.
CountNeverNegative ==
    /\ \A f \in Feeds : feeds[f].likeCount >= 0
    /\ \A w \in Workers : Open(w) => tx[w].entity.likeCount >= 0

\* like_count is a cached COUNT of feed_likes that likeFeed and cancelFeedLike
\* maintain by hand.  It is exact as long as no transaction has written the
\* feed's row back from a copy that another one had overtaken: the lost update
\* is the only way the two tables come apart.
CountExactUnlessOverwritten ==
    \A f \in Feeds : status[f] = "live" /\ f \notin lostUpdate
        => feeds[f].likeCount = Cardinality(LikesOf(f))

\* Likes write back the content they loaded.  The text of a feed is the one
\* its author last gave it, with the same single exception.
EditSurvivesUnlessOverwritten ==
    \A f \in Feeds : status[f] = "live" /\ f \notin lostUpdate
        => feeds[f].content = lastEdit[f]

\* A request holding a feed that was deleted meanwhile cannot bring it back:
\* its UPDATE matches no row.
StaysDeleted ==
    \A f \in Feeds : /\ status[f] = "deleted" => status'[f] = "deleted"
                    /\ status'[f] = "deleted" => feeds'[f] = BlankRow
NoResurrection == [][StaysDeleted]_vars

\* Listeners run after the commit: a step hands them an event exactly when it
\* stores the like, comment or feed the event tells of, so a request that is
\* rolled back notifies nobody and one that commits is never silent.
EventsOfRows ==
    published' \ published =
        {[kind |-> "like", id |-> l.id] : l \in likes' \ likes} \cup
        {[kind |-> "comment", id |-> c.id] : c \in comments' \ comments} \cup
        {e \in {[kind |-> "feed", id |-> reqs']} :
             \E f \in Feeds : status[f] = "absent" /\ status'[f] = "live"}
PublishedWithRows == [][EventsOfRows]_vars

\* Feed.decrementLikeCount treats a count of zero with a like to cancel as
\* impossible ("Like count cannot be negative").  Were that so, a feed with a
\* stored like would count at least one; but the count is written back from a
\* copy, so that a cancel which overlaps a like writes over its increment.
EveryLikerCanCancel ==
    \A l \in likes : feeds[l.feed].likeCount > 0
=============================================================================
