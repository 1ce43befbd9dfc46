--------------------------- MODULE EventPipeline ---------------------------
(***************************************************************************)
(* The way of an event from the commit of the request that published it to *)
(* the notifications it causes: NotificationEventListener on the executor  *)
(* eventTaskExecutor, BasicNotificationService in a transaction of its     *)
(* own, and SseHandler after that transaction's commit.  Nothing between   *)
(* the first commit and the second is persistent.                          *)
(***************************************************************************)
EXTENDS Integers, Sequences, FiniteSets

CONSTANTS Events,       \* events published by requests, each once
          Users,
          Audiences,    \* whom an event may concern: one user, some, nobody
          Threads,      \* names for the pool's threads
          Core,         \* corePoolSize
          QueueCapacity,
          MaxCrashes    \* bound: how often the server goes down

ASSUME EventPipelineAssumption ==
    /\ Core \in Nat \ {0} /\ QueueCapacity \in Nat \ {0} /\ MaxCrashes \in Nat
    /\ IsFiniteSet(Threads) /\ Core <= Cardinality(Threads)
    /\ Audiences \subseteq SUBSET Users

VARIABLES receivers,    \* whom the event concerns, once its request has committed
          pending,      \* committed, the request's thread is about to dispatch it
          queue,        \* the executor's queue
          thread,       \* the executor's threads
          rows,         \* rows[e][u]: notifications stored for u because of e
          pushed,       \* pushed[e][u]: calls of SseService.send for them
          outcome,      \* what has become of the event
          crashes

vars == <<receivers, pending, queue, thread, rows, pushed, outcome, crashes>>

---------------------------------------------------------------------------
(* Types *)

NoThread == [pc |-> "none"]
Waiting == [pc |-> "idle"]
Handling(e) == [pc |-> "handle", event |-> e]
Pushing(e, todo) == [pc |-> "push", event |-> e, todo |-> todo]

Outcomes == {"none", "open", "stored", "rejected", "failed", "crashed"}
ThreadState == {NoThread, Waiting} \cup {Handling(e) : e \in Events}
               \cup {Pushing(e, todo) : e \in Events, todo \in SUBSET Users}

TypeOK ==
    /\ receivers \in [Events -> SUBSET Users]
    /\ pending \subseteq Events
    /\ queue \in Seq(Events) /\ Len(queue) <= QueueCapacity
    /\ thread \in [Threads -> ThreadState]
    /\ rows \in [Events -> [Users -> Nat]]
    /\ pushed \in [Events -> [Users -> Nat]]
    /\ outcome \in [Events -> Outcomes]
    /\ crashes \in 0..MaxCrashes

Alive == {t \in Threads : thread[t] # NoThread}
Handles(t, e) == thread[t].pc = "handle" /\ thread[t].event = e

---------------------------------------------------------------------------
(* The request and the executor *)

\* A request commits.  Its event concerns one user (a like, a comment, a
\* message, a follow, a role), the followers of an author or all users.
CommitSource(e, R) ==
    /\ outcome[e] = "none"
    /\ outcome' = [outcome EXCEPT ![e] = "open"]
    /\ receivers' = [receivers EXCEPT ![e] = R]
    /\ pending' = pending \cup {e}
    /\ UNCHANGED <<queue, thread, rows, pushed, crashes>>

RunOnNewThread(e) == \E t \in Threads \ Alive : thread' = [thread EXCEPT ![t] = Handling(e)]

\* Mutant: one task too many is queued.
QueueRoomOffByOne == Len(queue) <= QueueCapacity
QueueRoom == Len(queue) < QueueCapacity

\* ThreadPoolExecutor.execute: below the core size a new thread, else the
\* queue, else a new thread up to the maximum.
Dispatch(e) ==
    /\ e \in pending
    /\ pending' = pending \ {e}
    /\ \/ /\ Cardinality(Alive) < Core
          /\ RunOnNewThread(e)
          /\ UNCHANGED queue
       \/ /\ Cardinality(Alive) >= Core /\ QueueRoom
          /\ queue' = Append(queue, e)
          /\ UNCHANGED thread
       \/ /\ Cardinality(Alive) >= Core /\ ~QueueRoom
          /\ RunOnNewThread(e)
          /\ UNCHANGED queue
    /\ UNCHANGED <<receivers, rows, pushed, outcome, crashes>>

\* With every thread alive and the queue full the task is rejected; the
\* exception ends in the log of the transaction synchronization.
Reject(e) ==
    /\ e \in pending
    /\ Alive = Threads /\ ~QueueRoom
    /\ pending' = pending \ {e}
    /\ outcome' = [outcome EXCEPT ![e] = "rejected"]
    /\ UNCHANGED <<receivers, queue, thread, rows, pushed, crashes>>

\* Mutant: the task is read but stays in the queue.
TakePeeking(t) ==
    /\ thread[t] = Waiting /\ queue # << >>
    /\ thread' = [thread EXCEPT ![t] = Handling(Head(queue))]
    /\ UNCHANGED <<receivers, pending, queue, rows, pushed, outcome, crashes>>

Take(t) ==
    /\ thread[t] = Waiting /\ queue # << >>
    /\ thread' = [thread EXCEPT ![t] = Handling(Head(queue))]
    /\ queue' = Tail(queue)
    /\ UNCHANGED <<receivers, pending, rows, pushed, outcome, crashes>>

\* An idle thread above the core size ends after the keep-alive time.
Expire(t) ==
    /\ thread[t] = Waiting /\ queue = << >> /\ Cardinality(Alive) > Core
    /\ thread' = [thread EXCEPT ![t] = NoThread]
    /\ UNCHANGED <<receivers, pending, queue, rows, pushed, outcome, crashes>>

---------------------------------------------------------------------------
(* The handler *)

OneMore(counts, S) == [u \in Users |-> IF u \in S THEN counts[u] + 1 ELSE counts[u]]

\* create, createAll and createForAllUsers insert the notifications of all
\* receivers in one transaction.
Store(t, e) ==
    /\ Handles(t, e)
    /\ rows' = [rows EXCEPT ![e] = OneMore(@, receivers[e])]
    /\ outcome' = [outcome EXCEPT ![e] = "stored"]
    /\ thread' = [thread EXCEPT ![t] = Pushing(e, receivers[e])]
    /\ UNCHANGED <<receivers, pending, queue, pushed, crashes>>

\* Mutant: each notification is inserted in a transaction of its own.
FailHalfway(t, e) ==
    /\ Handles(t, e)
    /\ \E S \in SUBSET receivers[e] : rows' = [rows EXCEPT ![e] = OneMore(@, S)]
    /\ outcome' = [outcome EXCEPT ![e] = "failed"]
    /\ thread' = [thread EXCEPT ![t] = Waiting]
    /\ UNCHANGED <<receivers, pending, queue, pushed, crashes>>

\* Mutant: SseHandler is called when the event is published, not after the commit.
FailAfterPush(t, e) ==
    /\ Handles(t, e)
    /\ pushed' = [pushed EXCEPT ![e] = OneMore(@, receivers[e])]
    /\ outcome' = [outcome EXCEPT ![e] = "failed"]
    /\ thread' = [thread EXCEPT ![t] = Waiting]
    /\ UNCHANGED <<receivers, pending, queue, rows, crashes>>

\* The insertion fails (a text longer than its column, a receiver that is
\* gone, the database): the handler logs and throws, the executor's exception
\* handler logs again, the thread goes on with the next task.
Fail(t, e) ==
    /\ Handles(t, e)
    /\ outcome' = [outcome EXCEPT ![e] = "failed"]
    /\ thread' = [thread EXCEPT ![t] = Waiting]
    /\ UNCHANGED <<receivers, pending, queue, rows, pushed, crashes>>

NobodyElse(t, u) == {}      \* Mutant: the first push is also the last.
AllButThis(t, u) == thread[t].todo \ {u}

\* SseHandler.handle for one notification of the committed transaction.
Push(t, u) ==
    /\ thread[t].pc = "push" /\ u \in thread[t].todo
    /\ pushed' = [pushed EXCEPT ![thread[t].event][u] = @ + 1]
    /\ thread' = [thread EXCEPT ![t].todo = AllButThis(t, u)]
    /\ UNCHANGED <<receivers, pending, queue, rows, outcome, crashes>>

EndHandler(t) ==
    /\ thread[t].pc = "push" /\ thread[t].todo = {}
    /\ thread' = [thread EXCEPT ![t] = Waiting]
    /\ UNCHANGED <<receivers, pending, queue, rows, pushed, outcome, crashes>>

---------------------------------------------------------------------------

\* The server stops: the queue and the threads are gone, the database stays.
Crash ==
    /\ crashes < MaxCrashes
    /\ crashes' = crashes + 1
    /\ outcome' = [e \in Events |-> IF outcome[e] = "open" THEN "crashed" ELSE outcome[e]]
    /\ pending' = {}
    /\ queue' = << >>
    /\ thread' = [t \in Threads |-> NoThread]
    /\ UNCHANGED <<receivers, rows, pushed>>

Init ==
    /\ receivers = [e \in Events |-> {}]
    /\ pending = {}
    /\ queue = << >>
    /\ thread = [t \in Threads |-> NoThread]
    /\ rows = [e \in Events |-> [u \in Users |-> 0]]
    /\ pushed = [e \in Events |-> [u \in Users |-> 0]]
    /\ outcome = [e \in Events |-> "none"]
    /\ crashes = 0

HandlerStep(t) ==
    \/ \E e \in Events : Store(t, e) \/ Fail(t, e)
    \/ \E u \in Users : Push(t, u)
    \/ EndHandler(t)

Next ==
    \/ \E e \in Events : Dispatch(e) \/ Reject(e) \/ \E R \in Audiences : CommitSource(e, R)
    \/ \E t \in Threads : Take(t) \/ Expire(t) \/ HandlerStep(t)
    \/ Crash

Spec == Init /\ [][Next]_vars

\* A request's thread goes on after its commit, and the pool's threads run.
Fairness ==
    /\ \A e \in Events : WF_vars(Dispatch(e) \/ Reject(e))
    /\ \A t \in Threads : WF_vars(Take(t) \/ HandlerStep(t))
FairSpec == Spec /\ Fairness

---------------------------------------------------------------------------
(* Properties *)

\* A batch of notifications is stored for all receivers of an event or for
\* none, and no receiver gets two, whatever fails or crashes between.
AllOrNothing ==
    \A e \in Events : \A u \in Users :
        rows[e][u] = IF outcome[e] = "stored" /\ u \in receivers[e] THEN 1 ELSE 0

\* Nothing is pushed to a client that is not in the database, and nothing is
\* pushed twice.
PushedOnlyStored ==
    \A e \in Events : \A u \in Users : pushed[e][u] <= rows[e][u]

\* The pipeline keeps the promise: each event is told to all of its receivers
\* at once or lost, once, and one of the two does happen.
Fate(e) == CASE outcome[e] = "none" -> "none"
             [] outcome[e] = "open" -> "owed"
             [] outcome[e] = "stored" -> "told"
             [] OTHER -> "lost"

Promise == INSTANCE NotificationPromise WITH fate <- [e \in Events |-> Fate(e)], inbox <- rows
KeepsPromise == Promise!Spec

\* Every stored notification is pushed, unless the server goes down first.
StoredIsPushed ==
    \A e \in Events :
        outcome[e] = "stored" ~> (\A u \in receivers[e] : pushed[e][u] > 0) \/ crashes > 0

\* The handlers rethrow "to trigger the retry logic": an event whose handling
\* failed is handled again.
FailedIsRetried ==
    \A e \in Events : outcome[e] = "failed" ~> outcome[e] # "failed"
=============================================================================
