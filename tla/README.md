# Closet: a verification development

Closet is a Spring Boot service (Java 17, PostgreSQL through JPA/Hibernate, S3
for images, Server-Sent Events and WebSocket/STOMP for push). Users keep clothes,
get outfit recommendations from the weather, publish feeds, like and comment on
them, follow each other, exchange direct messages and receive notifications.
The web client is in the repository as a minified build
(`src/main/resources/static/assets/index-BXxKnlfX.js`); what it does with the
server's answers is part of the system, and is modelled where a property needs it.

This directory holds TLA+ models of the parts where that program is hard to get
right, TLC instances that check them, and proofs of the most important results.
Paths below are relative to `src/main/java/project/closet/` of the repository
unless they start otherwise.

1. [Inventory](#1-inventory)
2. [Modules](#2-modules)
3. [Runs](#3-runs)
4. [Proofs](#4-proofs)
5. [What is not modelled](#5-what-is-not-modelled)
6. [Plan](#6-plan)

## 1. Inventory

### Execution model

* **Request threads** run one HTTP request each. A `@Transactional` service
  method is one database transaction at READ COMMITTED. Entities loaded in it
  stay in memory; dirty ones are written back, **with all their columns**, when
  the transaction flushes. No entity has `@Version`: nothing detects that a copy
  was overtaken.
* **Listener threads**: `event/listener/NotificationEventListener` and
  `event/listener/SseHandler` are `@TransactionalEventListener(AFTER_COMMIT)`.
  The first runs on `eventTaskExecutor` (`config/AsyncConfig`: 2 core threads, 4
  at most, a queue of 100), the second on the thread that committed.
* **Container callbacks** of SSE emitters (completion, timeout, error) and
  **scheduled tasks** (the SSE ping `cleanUp`, the nightly weather fetch).
* **Shared state**: the database, the bucket, and in memory the SSE emitters and
  messages and the executor's queue. Only the database and the bucket survive a
  restart.
* **Browser tabs**: single-threaded, with one store per kind of data (zustand).
  Most stores have one request out at a time and silently drop what is asked of
  them meanwhile (`isLoading`). Nothing of a tab survives a reload but the
  refresh cookie, which all tabs share.

### Components

| Component | State it keeps | Operations | Hard behaviour | What makes it correct |
|---|---|---|---|---|
| Feeds, likes, comments (`feed/service/basic/BasicFeedService`) | tables `feeds` (with a cached `like_count`), `feed_likes`, `feed_comments` | createFeed, likeFeed, cancelFeedLike, createComment, updateFeed, deleteFeed | check, increment and insert see different snapshots; whole rows are written from stale copies; feeds vanish under other requests | one like per user and feed, no orphans, the count is the number of likes, edits survive, events are told exactly for what is stored |
| Feed and comment lists (`feed/repository/impl`) | none | pages by cursor | the sort key changes between pages; cursor and order disagree | every row once over all pages |
| Event dispatch and notifications (`event`, `notification`, `config/AsyncConfig`) | table `notifications`; executor queue and threads in memory | eight listeners, create, createAll, createForAllUsers, push, list, delete | rejection when full, failures between two transactions, restarts | a batch is stored for all receivers or none, once; only stored ones are pushed |
| SSE push (`sse`) | emitters per user, bounded id queue, message map, all in memory | connect (with replay), send, cleanUp, emitter callbacks | compound operations on concurrent collections, the count of the queue among them; connect races with send | own events only, no gap after a reconnect, bounded store, a dead emitter harms no other |
| JWT sessions (`security/jwt`) | table `jwt_sessions` | register, refresh, revoke, filter, interceptor | two refreshes with one token; refresh against role change; token equality within a second | a token of a revoked session is never extended; current role in new tokens |
| User accounts (`user`) | `users`, `profiles` | register, change role, lock, change password, update profile | every one writes the whole row | lock, role and password survive other updates |
| Password reset and mail (`auth`, `mail`) | temporary password columns | resetPassword, initial admin | mail sent inside the transaction | the mailed password is the stored one |
| Image storage (`storage`) | objects in the bucket, keys in rows | upload, delete, presign | bucket operations do not roll back | each key has its object |
| Clothes (`domain/clothes`) | `clothes`, their attributes | create, update, delete, list | image before row: the bucket changes before the commit | as above |
| Attribute definitions | `attributes`, selectable values | create, update, delete, list | check before unique column | unique names |
| Clothes extraction | none | fetch and parse a page | foreign pages | (I/O only) |
| Follows (`follower`) | `follows` | follow, unfollow, summaries, lists | no duplicate check, no unique key: only the client's page keeps a pair single | the page shows what is stored and does what it shows |
| Direct messages (`dm`, `websocket`) | `direct_messages` | send, page | cursor applies to one direction | every message once over all pages |
| Weather (`weather`) | `weathers`, `weather_locations` | nightly fetch in batches, restart check, lookups | partial failures, restart in the middle, two runners in no stated order, a scheduler that may be late | every region has last night's forecast, once |
| Web client (bundle) | session, stream, notifications, follow summary, lists, in memory of a tab | sign in and out, refresh, connect, subscribe, fetch, click | requests dropped while another is out, streams that break and reconnect with an old token, answers for a page that was left | one stream at a time; the list loses nothing it was sent; the button shows what is stored |
| Recommendation (`domain/recommend`) | temperature categories | recommend | boundary temperatures | total and within the allowed types |
| Security configuration, WebSocket configuration, controllers, DTOs, exceptions | none | translation | | |

### Interactions

```
request thread --commit--> AFTER_COMMIT --> eventTaskExecutor --> NotificationEventListener
     |  FeedService           |  EventPipeline                        |
     v                        v                                       v
 feeds, likes, comments   (memory only)              notifications (one transaction)
                                                                      | AFTER_COMMIT, same thread
                                                                      v
 client <--emitter-- SseEmitterRepository <-- SseService.send <-- SseHandler
    |                         ^                     | SseBroker
    +--reconnect, LastEventId-+---- replay ---- SseMessageRepository
    |
    +-- list behind the bell (NotificationBell) <--- pages --- notifications
    +-- follow button (FollowPage) <--- summary --- follows
```

The replay is there for a client that names the last event it saw as
`LastEventId` (`sse/SseController.java:24`). The bundled client sends
`lastEventId`, the polyfill's name, so for it nothing is ever replayed:
`SseBroker` checks what the server offers to any client, `NotificationBell` what
this client gets.

JWT sessions hang on user accounts: a role change deletes sessions and
publishes an event; the filter loads the session and the claims of the token.

The hazards of the code, each with its line and the properties that cover it,
are in `PROJECT.json` under `hazards`.

## 2. Modules

| Module | Models | Extended by |
|---|---|---|
| `FeedService` | the write side of `BasicFeedService` with the tables and keys of `sql/schema.sql` | `MCFeedService`, `FeedService_proofs` |
| `SseBroker` | `SseService`, `SseEmitterRepository`, `SseMessageRepository`, `SseMessage` | `MCSseBroker`, `SseBroker_proofs` |
| `NotificationPromise` | abstract: what the pipeline owes its users | |
| `AccountSessions` | `BasicUserService`, `BasicAuthService`, `JwtService`, login and logout handlers | `MCAccountSessions`, `AccountSessions_proofs` |
| `ImageStore` | image keys in clothes and profiles, `S3ContentStorage`, and the requests that change both | `MCImageStore`, `ImageStore_proofs` |
| `WeatherFetch` | `BasicWeatherService.fetchAndSave`, `WeatherInitializer`, `WeatherLocationInitializer` | `MCWeatherFetch`, `WeatherFetch_proofs` |
| `CursorPages` | the queries of all nine paged lists, and the services that cut pages from them | `MCCursorPages`, `CursorPages_proofs` |
| `EventPipeline` | `AsyncConfig`, `NotificationEventListener`, `BasicNotificationService.create*`, `SseHandler`; implements `NotificationPromise` | `EventPipeline_proofs` |
| `FollowPage` | `BasicFollowService`, and the client's follow store and profile page | `MCFollowPage`, `WebClient_proofs` |
| `NotificationBell` | the client's stream store, session token, notification store and bell, with the server's ends of them | `WebClient_proofs` |

`PROJECT.json` (`map`) names the source lines of every definition. Definitions
marked `Mutant` in a comment are not part of the models: they state a plausible
mistake in the definition that follows them, and each property has one that
breaks it.

### FeedService

| TLA+ | Code |
|---|---|
| `status`, `feeds`, `likes`, `comments` | the three tables; a feed has a like count and a text, the rest of the row is immutable here |
| `tx[w]` | the transaction open on thread `w`: the loaded entity, the likes it selected, whether Hibernate will write the feed (`dirty`) |
| `published` | events that AFTER_COMMIT listeners have received |
| `Begin*`, `CheckLike`, `SelectLikes` | the queries of a request, each at its own READ COMMITTED snapshot |
| `Commit*` | the flush and the commit, one step |
| `Rollback` | anything the database refuses, and lost connections |
| `reqs` | numbers requests, and so the rows they insert; bounded by `MaxRequests` |
| `lostUpdate`, `lastEdit`, `tx[w].stale` | ghosts: no action reads them |

A flush and its commit are one step because the statements of the flush hold
their row locks until the commit, which follows at once: a second transaction
that touches the same row waits and then sees the committed row. Deadlock
victims and lock timeouts are `Rollback`, which may happen whenever a
transaction is open. `CreateFeed` is one step: it reads nothing that a request
of this module changes. Authors and weather rows are assumed to exist.

The properties `CountExactUnlessOverwritten` and `EditSurvivesUnlessOverwritten`
say that the lost update, marked by the ghost `lostUpdate` at the moment
a stale copy is written back, is the **only** way in which the cached count and
the text go wrong. `EveryLikerCanCancel` says what
`feed/entity/Feed.java:70` takes for granted; it does not hold (see the run).
Neither is a promise that the count is right: the drift itself is what that run shows.

### SseBroker

| TLA+ | Code |
|---|---|
| `log`, `head` | `eventIdQueue`: what lies after `head`; it is only appended to and only loses its first element |
| `messages`, `receiver` | the map of messages; to whom each was addressed |
| `known`, `emitters` | `SseEmitterRepository.data`: the keys, and the lists |
| `sender[s]` | a thread inside `send`: `size` is the count of the queue, `evict` and `unmap` are the loop of `makeAvailableCapacity`, `add` and `put` the two insertions, `snapshot` and `send` the loop over the emitters; `at` is how far the count has come, `room` the capacity less what it met |
| `conn[c]` | a call of `connect`: `save`, then the stream over the queue (`scan`, `get`), then `replay` |
| `out[c]`, `gone` | what an emitter accepted; emitters that ended |
| `overtaken` | ghost: senders during whose making of room another one removed an id |

Every access to a concurrent collection is a step of its own. `size()` of the
`ConcurrentLinkedDeque` is a walk, one id per step: an id that is removed after it was met
stays counted, and one that is added before the walk has ended is counted too, so
the answer may be larger than the queue ever was. The sender then removes too many and
can meet an empty queue, where `removeFirst` throws and the event is lost.
`EvictionFailsOnlyOvertaken` says when: only if another sender removed an id during the same
making of room, never because ids were added meanwhile.

Simplifications: a `CopyOnWriteArrayList` of
emitters is a set, since the order of sending to emitters of one user is
immaterial and `Deliver` allows every order; the weakly consistent iterator is a
position in `log`, and the element after the current one is fetched together
with it, as the iterator of the deque does; an emitter cannot end before
`connect` has returned, because until then it only buffers. The behaviour begins when nothing has been
sent yet; users may have connected and left before (`known`), so that messages can be
addressed to a user who has no connection in the instance. A client names as
its last event one that some emitter of the same user accepted, or none. `send`
to several users and `broadcast` have no callers and are left out; `cleanUp`
is one of the ways in which `Leave` and `Remove` happen.

### EventPipeline and NotificationPromise

| TLA+ | Code |
|---|---|
| `receivers[e]` | whom the event concerns: one user, the followers of an author, or all users |
| `pending` | committed, the request's thread is about to call the executor |
| `queue`, `thread` | the `ThreadPoolTaskExecutor`; a thread handles or pushes for one event |
| `rows[e][u]` | notifications in the table |
| `pushed[e][u]` | calls of `SseService.send` |
| `outcome` | what became of an event |
| `Dispatch`, `Reject` | `ThreadPoolExecutor.execute`: core thread, queue, extra thread, rejection |
| `Store`, `Fail` | the listener's transaction |
| `Push`, `EndHandler` | `SseHandler` after that transaction's commit |
| `Crash` | a restart; only `rows` (and the history variables) survive |

The eight listeners differ only in receivers and text, so one handler stands for
them. Receivers are fixed when the request commits; the code reads followers and
all users a little later, in the handler, and no property depends on that
difference. `Audiences` are the sets of receivers an event may have. `Fail` covers every exception of the insertion, the text that is
longer than `VARCHAR(255)` among them.

`NotificationPromise` is the abstract specification: each event of a committed
request is *told* to all its receivers at once or *lost* for all of them, and one
of both happens in the end. `EventPipeline` implements it with `rows` as the
inbox and `Fate` as the refinement mapping. It promises no more, since the code
keeps nothing durable between the two transactions. `SafeSpec` is what may happen,
`Spec` adds that every owed event is settled: the first is proved of the
pipeline, both are checked.

### AccountSessions

| TLA+ | Code |
|---|---|
| `registered`, `users` | table `users`: name, role, locked, password |
| `sessions` | table `jwt_sessions`: a session has an owner and a token |
| `tx[w]` | the request on thread `w`: the user as loaded (`read`) and as changed (`row`), the sessions it loaded (`rows`), the token it signed (`token`) |
| `mailed` | requests whose temporary password left by mail |
| `Begin*` | the first queries of a request |
| `SelectSessions`, `SendMail`, `SignLogin`, `SignRefresh` | what lies between the first query and the commit |
| `Commit*`, `Rollback` | as in `FeedService` |
| `now`, `Tick` | the clock, in the whole seconds that a token records |
| `lostUpdate`, `lastSet`, `missed`, `tx[w].stale` | ghosts |

A token is equal to another one if its claims are; access and refresh token of a
session are signed one after the other and differ in validity only, so one
stands for both (that the clock may pass to the next second between them is
left out). A password is the number of the request that set it and whether it was
chosen or mailed. A login is two transactions: `ClosetUserDetailsService`
loads and checks the user, the success handler stores the session later. A
refresh always writes its session, even with an equal token, as the expiration time
changes with it. The registration and `initAdmin` differ only in the role. `jwtService.invalidateJwtSession`
called by the STOMP interceptor with an *access* token finds no session, as it looks for
a refresh token of equal text; it is no action.
`ClosetUserDetails.from(JwtObject)` passes `true` as `locked` next to a comment
that says "assuming non-locked"; nobody asks a principal made from a token
whether it is locked, so this has no effect and is not modelled.

### ImageStore

| TLA+ | Code |
|---|---|
| `stored`, `imageKey` | rows of `clothes` and `profiles`, and their key columns; `NoKey` is the empty string or null |
| `bucket` | objects in the bucket; a key is the number of the request that made it |
| `tx[w]` | a request: the key as loaded (`read`) and as it will be written (`key`) |
| `BeginCreate`, `BeginReplace`, `BeginTouch`, `BeginRemove` | `createClothes`; `updateClothes` and `updateProfile` with and without an image; `deleteClothesById` |
| `Erase`, `Upload` | `deleteByKey`, `upload`: they take effect at once |
| `Commit*`, `Rollback` | as above; a rollback leaves the bucket as it is |
| `ownerOf`, `spoiled`, `touched`, `stale` | ghosts |

Clothes and profiles are handled alike but for creation and deletion. A profile
is written whole like every row, so an update without an image takes part: it
brings back a key that was replaced in the meantime. A bucket operation that
fails after it took effect (a lost answer) ends in `Rollback` like one that
succeeded and was followed by a failure.

### WeatherFetch

| TLA+ | Code |
|---|---|
| `day`, `late` | the date in Seoul (the `Dockerfile` sets the JVM's zone); 23:55 has passed |
| `up`, `runners` | the process, and the `ApplicationRunner`s still to be called |
| `due` | the cron trigger fired, the scheduler's thread has not come to it |
| `job[t]` | a fetch on the main thread or on the scheduler's |
| `locations`, `rows` | `weather_locations`; how often each forecast is in `weathers` |
| `Strike`, `BeginNight` | the trigger, and `fetchAndSaveWeatherForecast`, which reads the date when it begins |
| `RunLocations`, `RunWeather` | the two runners; no `@Order`, so either may come first |
| `TakeBatch`, `Save`, `EndFetch`, `Refuse` | the loop of `fetchAndSave`; an exception of the database ends the loop, on the main thread the whole start |
| `Crash` | the process stops; the tables survive |
| `asked`, `failed` | ghosts: the regions whose calls went out, batch by batch; those without a usable answer |
| `cut`, `checked` | ghosts: nights whose last fetch did not reach its end; the check that this run of the server has made |

All calls of a batch are awaited before anything is stored, so their answers are
chosen in one step with `saveAll`. The 2000 rows of an answer are one forecast. Two
assumptions are about time: the weather service has no forecast of a night to
come (`Published`: a scheduler that comes late, after midnight, asks for one),
and a server that is up at 23:55 calls its weather runner before midnight
(in `Midnight`); without the second a night could be fetched by both threads.
One process runs at a time, as `docker-compose.yml` has it. The executor of the calls
takes 1020 of them and two fetches have 200 at most, so none is rejected. The
HTTP client has no timeout: a call that is never answered would keep its fetch for
ever, and no property promises that a fetch ends.

### CursorPages

| TLA+ | Code |
|---|---|
| `list`, `down`, `want`, `limit` | which list is read, and the parameters the client keeps from page to page |
| `row` | the table, with the sort key, and the author, sender, type or role of each row |
| `cursor`, `page`, `pc` | `cursor` and `idAfter` of the next request; the page of a Spring `Page` before its count; whether the walk is over |
| `Matches`, `Before`, `FirstRows` | `WHERE`, `ORDER BY` and `LIMIT`: every set of rows that the database may return |
| `AskList`, `AskPage`, `Count` | a page of `limit + 1` rows; content and count of a `Page` |
| `Refuse` | the lists that throw |
| `Insert`, `Remove`, `Rekey`, `Retype`, `RemoveFeed` | requests of others between two pages |
| `seen`, `steady`, `spoiled` | ghosts |

All lists share one walk; they differ in order, cursor condition, filter and count.
The model follows the code where these disagree: comments are cut by
`(createdAt, id)` and sorted by `(createdAt, author)`; the cursor condition of
direct messages binds to one side of an `OR` only; the query of the first page of
clothes is derived from a method name, so that a missing type asks for rows
whose type is null; the users' query has a parameter that is never given
a value, so every page but the first throws; the queries of the follow lists name
attributes (`f.follower.userId`, `f.userId`) that the entities do not have, so they throw
always; a definition whose name contains or ends in colons makes a cursor that cannot be
decoded. For a name that ends in a colon the decoded cursor
lacks that colon, so names in between come again (`Between`). The properties name these
cases as their exceptions. The other filters (keywords, weather, e-mail) are left
out: they work as `want` does, and where their column can change (the text of a feed,
the name of a definition) a row that starts or stops to match is as `Retype` has it.

### FollowPage

| TLA+ | Code |
|---|---|
| `follows` | the rows of one follower: an id and the followee |
| `page`, `summary` | the profile that is shown; `followSummary` of the follow store (whose, and the id of the user's row) |
| `op` | what the follow store waits for (`isLoading`); everything else is dropped meanwhile |
| `Open` | the effect of the profile page on `userId`: it clears the store and asks for the summary |
| `Click` | the button: `createFollow` for the page's profile or `cancelFollow` of the row the summary names |
| `OpenList`, `EndList` | the dialogs with followers and followings, which keep the store busy |
| `ServeChange`, `ServeSummary` | `createFollow`, `cancelFollowById`, `getFollowSummary`, which throws when a pair has two rows |
| `EndChange` | the answer, or giving it up; the page fetches the summary again either way |
| `abandoned`, `ServeAbandoned` | a change that was given up and is served after all |
| `Elsewhere` | the same user in another tab: it inserts without looking, like the server, and deletes any row; absent when `OtherPages` is false |
| `told`, `op.told` | ghosts: whether the page knows of the last change, and whether the one that asked did |

`clear()` of the store does not reset `isLoading` or stop what is out, so `Open`
while an operation is out keeps no summary of its own, and the answer of the
operation is shown on the new page. The rows of other followers and the counts of
a summary touch nothing modelled here. The two lists always fail (see `CursorPages`),
which the store takes as an end like any other.

The table has no unique key and `createFollow` no check, so one row per pair is up to
the pages, and they do not keep it: another tab whose summary is old follows a second
time, and so does a page whose summary failed after its own follow (`FollowTwice`).
What a page does keep is `ChangeAsShown`: as long as the summary its click
went by still tells what is stored, a follow finds no row and a cancel names the only one.
It is about the request under way, between the click and the server;
`ShownIsStored` is about the page at rest.

### NotificationBell

| TLA+ | Code |
|---|---|
| `row`, `unsent` | `notifications` of one user; committed ones that `SseHandler` has not pushed |
| `token`, `expired` | the tab's access tokens, numbered; those up to `expired` are refused by `JwtAuthenticationFilter` |
| `source[k]` | the `EventSourcePolyfill` objects: their state, token, and what is on the wire |
| `sse` | the stream store: `eventSource`, `isConnected`, `isConnecting`, and which source has the listener (`subscriptions`) |
| `list`, `cursor`, `request` | the notification store: `notifications` (how often each is in it), `params.cursor`, what it waits for |
| `Enter`, `Leave`, `Refresh` | the layout with the bell is shown, is left; the access token is replaced |
| `Connect`, `DisconnectedStore` | `connect` and `disconnect`, with their conditions |
| `Opened`, `Refused`, `Broken` | 200; any other answer, which closes the source; an end or 45 seconds of silence, after which the source connects again by itself, with its own token |
| `Subscribe`, `Receive` | the bell's effect on `isConnected`; an event with or without a listener |
| `ServeFetch`, `ShowPage` | `getNotifications`, and its page appended to the list |
| `ClickNote`, `ServeRead`, `EndRead` | a click on a notification deletes it |
| `firstPage`, `missed` | ghosts |

Simplifications: notifications are numbered in the order of `createdAt`, and no two have
the same one; where in the list a notification stands is left out, as nothing the client does
depends on it, while how often it is there is kept; a source whose connection broke has no emitter left on the server (a push
into a dead connection is a loss either way); one tab, without a reload, which would start
again from `BellInit` with the rows kept; every `Enter` has a new token, as a sign-in gives one. The
bell has no control that asks for a further page (`fetchMore` has no caller), so only `Enter`
fetches one, and the second page comes with the second sign-in. Sign-in of another
user in the same tab is not distinguished: the list is kept for that user too, and no
text of the repository says what should happen.

`ListedUnlessMissed` says that losses happen in one place only, the push while no
connection with a listener stands; `missed` is that place, and it is large: after the first
change of the token no source ever has a listener again, because `subscribe` takes the name for
subscribed. `FirstStreamRecovers` is therefore stated of the first source.

The module's names differ from those of `FollowPage` (`BellInit`, `BellNext`, `BellTypeOK`,
`ClickNote`), so that `WebClient_proofs` can extend both.

## 3. Runs

| Run | Instance | Shows |
|---|---|---|
| `FeedService` | 2 threads, 2 users, 1 feed, 2 texts, 5 requests | types, unique likes and no orphans, count and text exact unless overwritten, deleted is final, events exactly with rows |
| `FeedLikeDrift` (violation) | 2 threads, 2 users, 4 requests | a cancel writes its old count over another user's like: count 0, one like stored, and its owner can never cancel |
| `SseBroker` | 2 users, 2 senders, 2 connections, capacity 1, 3 messages | types, the bound on the queue, a removal fails only for an overtaken sender, queued ids resolve; live or by replay, only own events; no gap after a reconnect |
| `EventPipeline` | 4 events for 2 users, 2 threads (core 1), queue of 1, 1 crash, fair | types, all or nothing, pushed only if stored, refinement of `NotificationPromise` with its liveness, stored notifications are pushed |
| `EventRetry` (violation) | 1 event | a failed handler is never run again, although the listener says it throws to be retried |
| `AccountSessions` | 2 threads, 2 users, 2 names, 2 seconds, 4 requests | types, unique columns (names, tokens), accounts exact unless overwritten and mailed passwords known, sessions carry the current role, revoked for good |
| `ImageStore` | 3 threads, 1 piece of clothing, 1 profile, 5 requests | types, stored keys have objects, no orphan objects, both unless a failure or an overtaken copy came between |
| `WeatherFetch` | 3 regions in batches of 2, 2 days and the night before, 3 starts | types, no forecast twice, complete unless cut short, a start makes up for a missed night unless part of it is stored |
| `CursorPages` | 9 lists, 3 rows, 4 keys, limits 1 and 2, 2 changes | types, stable rows once, direct messages once while the partner's are few |
| `FollowPage` | 2 profiles, other tabs, 7 actions | types, the button shows what is stored, a click does what it showed |
| `FollowTwice` (violation) | 1 profile, no other tab, 4 actions | one page follows a profile twice |
| `NotificationBell` | 2 notifications, pages of 1, 3 tokens, fair | types, one stream at a time, listed unless pushed to nobody, the first stream recovers |

**Why the bounds suffice.** In `FeedService` every interaction is between two
transactions on one feed (a third could only repeat what the second does to the
row), and five requests reach like / like / cancel / cancel with an edit or a
deletion among them. Two users are needed for count drift and one of them acting
twice for the unique key; both are there. Proofs lift these results to any
number of everything. In `SseBroker` a queue of one and three
messages are enough for a sender to count the first id, and also the second, which another one
put in its place, and for two senders to remove the same surplus, the later of them from an empty queue:
the run reaches that state, and the property without its exception fails there. As
there are more messages than places, the replay runs against eviction; the second connection is one
of the same user that reconnects with an event the first one accepted, beside that one's dead emitter, or of
the other user, whose events stand between those to be replayed. In
`EventPipeline` four events fill one core thread, the queue and the extra thread
and leave one to be rejected; one crash at every point is enough, since nothing but finished
rows survives it.

In
`AccountSessions` two threads give every pair of requests; four requests allow
two logins, a refresh and a role change, or a login between two changes of its
user. Two seconds and a validity of one separate equal tokens from different ones.
In `ImageStore` three threads allow a replacement, a removal and an update
without an image of one item at once, and five requests a creation before and a
replacement after them. `WeatherFetch` has one full and one partial batch, two
nights that the scheduler may fetch and one that only a start can, and three starts,
so that one can follow a crash in a fetch that itself made up for a crash.
In `CursorPages` three rows make three pages of one or a full and a partial page
of two; of the four keys two are plain, one splits and one ends in a colon, and two changes can
insert or move a row on either side of the cursor, or remove one between a page and its
count and another one later.

In `FollowPage` two profiles are enough to leave one for the other while an operation
is out, and seven actions reach opening both, two changes elsewhere, two clicks and a
reopening. `FollowTwice` needs three: opening the page and two clicks. In `NotificationBell` pages of one make the second page differ from the
first, two notifications can come in either order by page and push, and three
tokens give a first source, one after a refresh or a new sign-in, and one after that,
when nothing is as it was for the first.

`CHECK_DEADLOCK FALSE` everywhere: all behaviours are bounded (requests,
messages, connections, events), and a server with no requests has nothing to do.

**Fairness.** Weak fairness of the steps of each thread that has something to do
(threads are scheduled; no operation modelled here waits for another one for
ever). No fairness for
new requests, for crashes, for the expiry of idle threads or for clients leaving. For a
handler it is `Store \/ Fail \/ ...` that is fair: the thread goes on, which of both
happens is open. In `NotificationBell` the answer to a source's request is fair (200 or
a refusal, either may come), as the polyfill asks again after every failure; `Subscribe`
is strongly fair, because the connection may break before the browser runs the effect,
and React runs it after every render in which `isConnected` changed.

**Symmetry** is used in the runs that check invariants and action properties only, over
sets whose members the specification never tells apart.

### Findings

* `FeedLikeDrift`: `feed/entity/Feed.java:70` rejects a cancel when the count is
  zero as an impossible state. A cancel that overlaps another user's like reaches it: it
  loaded the count 1, the like stores its row and the count 2, the cancel writes 0. (Two
  likes that overlap, and a cancel after them, end in the same state.)
* `EventRetry`: `event/listener/NotificationEventListener.java:50` (and the other
  handlers) rethrow "to raise the Retryable exception and try the retry logic".
  Nothing retries: line 33 is a reminder to add it.
* `FollowTwice`: `sql/schema.sql:131` introduces the table `follows` with a unique
  constraint "so that the same user cannot follow the same user"; the table has none, and
  `createFollow` inserts without looking (`BasicFollowService.java:38` is a reminder). A page
  whose summary failed after its own follow offers to follow once more and makes a second row;
  the summary of that pair then throws for good.

## 4. Proofs

Checked by TLAPS for every value of the constants allowed by the named
assumptions (`FeedServiceAssumption`, `SseBrokerAssumption`, `EventPipelineAssumption`,
`AccountAssumption`, `ImageAssumption`, `WeatherAssumption`, `PagesAssumption`, `FollowPageAssumption`,
`NotificationBellAssumption`).
They ask for natural numbers as bounds, for values such as `NoName` that stand for none to be
outside their sets, and for finite sets where something is counted. Each inductive
invariant below was an invariant of a TLC run before it was proved.

**FeedService_proofs.** `TypeCorrect` is the type invariant. The central argument
is `CountInv`, the inductive strengthening of `CountExactUnlessOverwritten` and
`EditSurvivesUnlessOverwritten`. Alone they say nothing of what open
transactions hold, so it adds:
`FreshCopies` (a transaction not marked stale holds a copy that differs from the
stored row exactly by its own intention: +1 for a like, -1 for a cancel, the new
text for an edit), `CancelsOneLike` (a cancel has selected exactly one like, of its
own feed, which the unique key gives), and finiteness of `likes`. From it follow
`CountExact` and `EditSurvives`. `LikesConsistent` (unique likes and no orphans),
`NeverNegative` (no like count falls below zero, which the run does not check apart) and
`DeletedIsFinal` have invariants of their own (`DeletedBlank`
for the last); `EventsFollowCommits` rests on `IdsOnce`: a number in an open
transaction is in no table and in no other transaction.

**SseBroker_proofs.** `TypeCorrect` needs more than types: a position held by a
connection must be one of `log` (`InHand`), and there are no more messages than were created. `QueueBounded` counts:
the queue, together with the senders that may still insert without evicting first,
stays within the capacity plus the number of senders less one (`BoundInv`; the set
`MayInsert` is where each sender's knowledge of the size enters). As the count is a walk, it needs that the
ids still queued behind the walk are all counted (`CountInv`): a count may be too large, never too small.
`QueuedIdsResolve` rests on `IdsOnce`: an id is queued at most once, by the one
sender that created it, so removing it from the map after it left the queue
cannot hit a queued one.

`OwnEventsOnly` follows an event from its sender to the streams (`OwnInv`): the list of emitters a
sender works from was read for the receiver of its event, what a replay holds passed the
filter, and an emitter is listed for its own user only. `NothingMissed` is about the two
ways an event can take to a connection that reconnects. `GapInv` says of every connection
that is registered: each queued event of its user behind the one it last saw, at a position that
its scan has passed, is received, read for replay, or still coming
from a sender whose snapshot of the emitters will hold or does hold the connection. It is kept as
`connect` registers before it scans, and a sender queues before it takes its snapshot; it needs
`IdInv`, as an event is one queue position only. `OvertakenOnly` looks at a sender that no other one has overtaken (`LoneInv`): the ids its count
has met are all still queued, since no one else removed any, so what it owes the loop
(`LoneDebt`) never exceeds the queue, and what others add meanwhile only makes
the queue longer.

**EventPipeline_proofs.** The invariant says where an event is (`PlaceInv`): until it is handled it is open and in
one place, its request, one position of the queue, or one thread (`PendingAlone`, `QueuedAlone`, `WorkedAlone`,
`HandledOpen`), and an open event is in one of them (`Somewhere`). Without it nothing would
keep a second thread from storing the rows of an event again, which is what
`AllOrNothing` forbids. `PushedOnlyStored` needs that a thread pushes for a stored event and to
receivers not told yet (`PushesOwed`). `NothingVanishes` states the safety that the
liveness runs rest on: `Somewhere`, and that a receiver of a stored event was told, is about to
be, or the server crashed. `KeepsPromiseSafely` is the refinement, step by
step: dispatching, taking, pushing and ending are stutters of `NotificationPromise`, a commit owes,
storing tells, failing and rejecting lose one event, a crash loses all open
ones at once.

**AccountSessions_proofs.** `AccountExactUnlessOverwritten` is kept as `CountExact` is: a copy that is not overtaken
is the stored row (`FreshCopies`), and a request changes its own column of the copy and
no other (`OwnColumns`), so that writing the whole row sets that column alone; `PasswordsKnown` carries
the mail before the commit along. `SessionsCarryRole` needs what is
signed but not stored yet (`Signed`): a login has signed the role it loaded, a refresh
a role that is still true of every session it may write, unless the property excepts that session.
`IdsApart` keeps the numbers of sessions, of open logins and of the sessions a request
selected apart; with it a deleted session is never one a login will make, which is `RevokedForGood`.

**ImageStore_proofs.** The two properties say nothing of the time between erasing, uploading and
committing, so the invariant says what each request has done to the bucket so far (`Progress`): its own
object is there exactly when it will write its key, and the old one is gone once it is past
erasing it. That the request of another item cannot erase that object is ownership: a key
is used for the item it was made for (`OwnKeys`), the key of an open request is known to nobody else
(`NewKeys`), no key is above the last request (`PastKeys`). `FreshRead` ties the key a request
will erase to the stored one, `AbsentBlank` and `CreatedAlone` say that clothes being created
are in no other hands.

**WeatherFetch_proofs.** That no night is stored twice is a matter of which nights can be
under way. The check at a start and the scheduler are never at the same night
(`NightsApart`), as the check fetches a night that is over, and a server that started
after 23:55 leaves the new night alone (`LateStart`); a scheduler that is busy is not due again, and one that is down does nothing
(`Calm`); nothing is stored of a night before it begins (`NothingEarly`). `Progress` says that the regions a fetch still
has before it are not stored, and the ones behind it are stored, failed or
cut off, which is `CompleteUnlessCut` when it ends. `RestartRecovers` needs two facts more. A night of which
anything is stored, whose last fetch was not cut short, was asked for everywhere or is being asked
for by a fetch with the other regions still before it (`AskedAll`); so when the check finds a row,
nothing is missing but after a cut. And a run of the server fetches no night before the one its
check was on (`CheckedFirst`), so what the check started is not undone while that server
runs (`RecoversKept`).

**CursorPages_proofs.** Everything rests on `(key, id)` being a strict total order
(`BeyondOrder`) and on what a page is (`PageShape`, `PageCuts`: of the matches,
those inside are not beyond its last row, the others are). `WalksAdvance` (no page ends
before the one before it, so no walk goes round in circles) is proved only, not
run; it needs that a page still being counted lies beyond the cursor (`PageAhead`). `StableInv` strengthens
`StableRowsOnce` and `MessagesOnce`: while the walk goes on, the stable rows ahead of the
cursor are exactly those not given yet (`SeenInv`), and a page being counted gives
each of them or leaves it ahead (`PageGives`). That holds although other rows
come, go and move, as a changed row is steady no more. `PagesAssumption` asks for
a finite table, numbered ids and keys, and positive limits.

**WebClient_proofs, FollowPage.** `ShownIsStored` speaks of a page at rest; to keep it, the
invariant says what the page was told at every stage of an operation (`ToldInv`): a change that is
sent and was told finds what the button showed (`ChangeTold`), an answer that
was not overtaken tells what the table holds (`AnswerTold`), and a page at rest, or one whose change is not
served yet, shows what is stored (`PageTold`). `ChangeAsShown` follows from `ChangeTold`, which a click
takes over from `PageTold`; every change the page did not ask for, in another tab or by a request it gave up, ends
what was told of its profile (`OvertakeTold`).

**WebClient_proofs, NotificationBell.** `OneStream` counts sources, and every step of the stream
closes or opens one by what the store believes; the invariant therefore ties the two
(`StreamSound`): at most one source is not closed (`AliveAlone`), the store is not free while one
is, and when it is connected, it is to that one (`AliveKnown`); it is never connected and connecting
at once, and names a source exactly when it is connected (`StoreSound`); nothing is on the wire of a
source that is not open (`QuietWires`). It is stated of any sources and any store, since a refresh
first disconnects and then connects, in one step. `ListedUnlessMissed` needs that no step loses a
notification from sight (`NothingLost`: what leaves a wire is listed or missed), except the end of a
read, whose notification is deleted by then (`ReadDeleted`); that the ghost of the first page counts
the rows rightly, as they have the first numbers (`RowsNumbered`); and that the client knows of no
number that is not a row (`ListKnown`, `WiresKnown`, `RequestKnown`), or its deletion would break the
numbering. `BellInv` is the conjunction.

**Only model-checked**: everything about liveness (`StoredIsPushed`,
`FirstStreamRecovers`, the liveness part of `KeepsPromise`), which is out of the prover's
reach. Every invariant and every other action property a passing run checks is proved.

## 5. What is not modelled

* Reading, other than the paged lists, the follow summary and the bell: weather
  lookups, and the total counts of the lists, which are displayed only.
* Of the web client: the session store and its refresh (planned, `ClientAuth`), and the
  stores of feeds, clothes, users, attributes and messages, whose fetching follows the pattern of
  the two that are modelled. The bundle is minified: its own code is on the long lines 254 to 273,
  among vendored libraries (React, MUI, axios, SockJS, STOMP, the polyfill and others, most of the
  file), which are not this program's. The other bundle, `index-BPh7eQW9.js`, is an
  earlier build that `index.html` does not load. A large share of either file
  therefore cannot be covered by a model of this program.
* Attribute definitions' selectable values and the clothes' attribute values: rows
  that are replaced within one transaction.
* Clothes extraction: I/O against foreign pages.
* Security, WebSocket and infrastructure configuration, controllers, DTOs: no
  state.
* Time, except as the order of events. Contents, except where a property
  compares them.

## 6. Plan

In order:

1. `FeedService`, `SseBroker`, `EventPipeline` with `NotificationPromise`: done.
2. `AccountSessions`: done, with proofs of all its properties.
3. `ImageStore`, `WeatherFetch`: done, with proofs of all their properties.
4. `WeatherDataParser`'s grouping by day and `getWeatherInfo`'s comparison with the
   day before, as operators.
5. `FollowPage`, `NotificationBell`: done, with proofs of all but the liveness. That a pair
   has one row, as `sql/schema.sql:131` says, is a finding (`FollowTwice`).
6. `CursorPages`: done, with proofs of all its properties.
7. `Recommendation`: categories and filters as operators against a reference.
8. `ClientAuth`: tabs that share one refresh cookie; a failed call with status 401
   refreshes once and the others queue behind it; sign-in, sign-out, `fetchMe` and refresh
   of one tab. Every call settles, no call is sent twice after a refresh, and
   the cookie names a stored session unless two tabs raced.
9. Proofs: the invariants of `EventPipeline`, the safety part of the refinement, and
   `OnlyOwnEvents`, `NoGap`, `EvictionFailsOnlyOvertaken` and the invariants of `NotificationBell` are done.
