------------------------ MODULE EventPipeline_proofs ------------------------
(***************************************************************************)
(* Proofs about EventPipeline, for any events, users, threads, core size,  *)
(* queue capacity and number of crashes: its invariants, and the safety    *)
(* part of the promise it keeps.                                           *)
(***************************************************************************)
EXTENDS EventPipeline, TLAPS

---------------------------------------------------------------------------
(* The inductive invariant *)

Queued(e) == \E i \in 1..Len(queue) : queue[i] = e
Pushes(t, e) == thread[t].pc = "push" /\ thread[t].event = e
Works(t, e) == Handles(t, e) \/ Pushes(t, e)

\* Until it is handled an event is open and in one place: with its request,
\* in the queue, or with a thread.
PendingAlone ==
    \A e \in pending : outcome[e] = "open" /\ ~Queued(e) /\ \A t \in Threads : ~Works(t, e)
QueuedAlone ==
    /\ \A i \in 1..Len(queue) : /\ outcome[queue[i]] = "open"
                                /\ \A t \in Threads : ~Works(t, queue[i])
    /\ \A i, j \in 1..Len(queue) : queue[i] = queue[j] => i = j
WorkedAlone ==
    \A e \in Events : \A s, t \in Threads : Works(s, e) /\ Works(t, e) => s = t
HandledOpen == \A t \in Threads, e \in Events : Handles(t, e) => outcome[e] = "open"

\* And it is in one of them: an event that is open has not vanished.
Somewhere ==
    \A e \in Events : outcome[e] = "open" =>
        e \in pending \/ Queued(e) \/ \E t \in Threads : Handles(t, e)

\* A thread that pushes does so for an event that is stored, to receivers not
\* told yet.
PushesOwed ==
    \A t \in Threads, e \in Events : Pushes(t, e) =>
        /\ outcome[e] = "stored"
        /\ thread[t].todo \subseteq receivers[e]
        /\ \A u \in thread[t].todo : pushed[e][u] = 0

\* A receiver that was not told is one a thread is still to tell, unless the
\* server went down.
PushedOrToBe ==
    \A e \in Events : outcome[e] = "stored" =>
        \A u \in receivers[e] :
            pushed[e][u] > 0 \/ crashes > 0 \/ \E t \in Threads : Pushes(t, e) /\ u \in thread[t].todo

PlaceInv == PendingAlone /\ QueuedAlone /\ WorkedAlone /\ HandledOpen /\ Somewhere
PipeInv == TypeOK /\ PlaceInv /\ PushesOwed /\ PushedOrToBe /\ AllOrNothing /\ PushedOnlyStored

---------------------------------------------------------------------------
(* Types *)

\* A thread is in one of four states.
LEMMA ThreadShape ==
    ASSUME TypeOK, NEW t \in Threads
    PROVE  \/ thread[t] = NoThread \/ thread[t] = Waiting
           \/ \E e \in Events : thread[t] = Handling(e)
           \/ \E e \in Events, todo \in SUBSET Users : thread[t] = Pushing(e, todo)
<1>1. thread[t] \in ThreadState
  BY DEF TypeOK
<1>. QED  BY <1>1 DEF ThreadState

\* A thread that works has an event, and one that pushes has users to tell.
LEMMA WorkRecord ==
    ASSUME TypeOK, NEW t \in Threads
    PROVE  /\ thread[t].pc \in {"none", "idle", "handle", "push"}
           /\ thread[t] = NoThread <=> thread[t].pc = "none"
           /\ thread[t].pc \in {"handle", "push"} => thread[t].event \in Events
           /\ thread[t].pc = "push" =>
                 /\ thread[t].todo \subseteq Users
                 /\ thread[t] = Pushing(thread[t].event, thread[t].todo)
<1>1. CASE thread[t] = NoThread \/ thread[t] = Waiting
  BY <1>1 DEF NoThread, Waiting
<1>2. ASSUME NEW e \in Events, thread[t] = Handling(e)
      PROVE  thread[t].pc = "handle" /\ thread[t].event \in Events
  BY <1>2 DEF Handling
<1>3. ASSUME NEW e \in Events, NEW todo \in SUBSET Users, thread[t] = Pushing(e, todo)
      PROVE  /\ thread[t].pc = "push" /\ thread[t].event = e /\ thread[t].todo = todo
  BY <1>3 DEF Pushing
<1>4. NoThread.pc = "none"
  BY DEF NoThread
<1>. QED  BY <1>1, <1>2, <1>3, <1>4, ThreadShape

\* A state put into one thread leaves the others as they are.
LEMMA ThreadSet ==
    ASSUME TypeOK, NEW t \in Threads, NEW x \in ThreadState, thread' = [thread EXCEPT ![t] = x]
    PROVE  /\ thread' \in [Threads -> ThreadState]
           /\ thread'[t] = x
           /\ \A s \in Threads \ {t} : thread'[s] = thread[s]
BY DEF TypeOK

\* The states a thread of the pool can be in.
LEMMA States ==
    /\ NoThread \in ThreadState /\ Waiting \in ThreadState
    /\ \A e \in Events : Handling(e) \in ThreadState
    /\ \A e \in Events, todo \in SUBSET Users : Pushing(e, todo) \in ThreadState
BY DEF ThreadState

\* What the queue holds before and after a task is put in or taken out.
LEMMA QueueAppend ==
    ASSUME NEW q \in Seq(Events), NEW e \in Events
    PROVE  /\ Append(q, e) \in Seq(Events) /\ Len(Append(q, e)) = Len(q) + 1
           /\ Append(q, e)[Len(q) + 1] = e
           /\ \A i \in 1..Len(q) : Append(q, e)[i] = q[i]
           /\ Len(q) \in Nat
OBVIOUS

\* What taking the first of a queue of events leaves.
LEMMA QueueTail ==
    ASSUME NEW q \in Seq(Events), q # << >>
    PROVE  /\ Tail(q) \in Seq(Events) /\ Len(Tail(q)) = Len(q) - 1 /\ Len(q) \in Nat \ {0}
           /\ Head(q) = q[1] /\ Head(q) \in Events
           /\ \A i \in 1..Len(Tail(q)) : Tail(q)[i] = q[i + 1]
OBVIOUS

\* Counting one more keeps the counts natural numbers.
LEMMA CountsMore ==
    ASSUME NEW counts \in [Users -> Nat], NEW S
    PROVE  OneMore(counts, S) \in [Users -> Nat]
BY DEF OneMore

\* A push leaves the thread with one receiver less.
LEMMA PushEffect ==
    ASSUME TypeOK, NEW t \in Threads, NEW u \in Users, Push(t, u)
    PROVE  LET e == thread[t].event
               rest == thread[t].todo \ {u}
           IN  /\ e \in Events /\ rest \in SUBSET Users
               /\ thread' = [thread EXCEPT ![t] = Pushing(e, rest)]
<1>. DEFINE e == thread[t].event
            rest == thread[t].todo \ {u}
<1>1. e \in Events /\ rest \in SUBSET Users /\ thread[t] = Pushing(e, thread[t].todo)
  BY WorkRecord DEF Push
<1>2. [thread[t] EXCEPT !.todo = rest] = Pushing(e, rest)
  BY <1>1 DEF Pushing
<1>. QED  BY <1>1, <1>2 DEF Push, AllButThis, TypeOK

\* The initial state has its types.
LEMMA InitType == Init => TypeOK
<1>. SUFFICES ASSUME Init PROVE TypeOK
  OBVIOUS
<1>1. queue \in Seq(Events) /\ Len(queue) <= QueueCapacity
  BY EventPipelineAssumption DEF Init
<1>2. rows \in [Events -> [Users -> Nat]] /\ pushed \in [Events -> [Users -> Nat]]
  BY DEF Init
<1>3. thread \in [Threads -> ThreadState]
  BY States DEF Init
<1>4. receivers \in [Events -> SUBSET Users] /\ outcome \in [Events -> Outcomes]
  BY DEF Init, Outcomes
<1>. QED  BY <1>1, <1>2, <1>3, <1>4, EventPipelineAssumption DEF Init, TypeOK

\* Every step keeps the types.
LEMMA NextType == TypeOK /\ [Next]_vars => TypeOK'
<1>. SUFFICES ASSUME TypeOK, [Next]_vars PROVE TypeOK'
  OBVIOUS
<1>. USE EventPipelineAssumption
<1>1. CASE UNCHANGED vars
  BY <1>1 DEF vars, TypeOK
<1>2. ASSUME NEW e \in Events, NEW R \in Audiences, CommitSource(e, R) PROVE TypeOK'
  <2>1. outcome' \in [Events -> Outcomes] /\ receivers' \in [Events -> SUBSET Users]
    BY <1>2 DEF CommitSource, TypeOK, Outcomes
  <2>. QED  BY <1>2, <2>1 DEF CommitSource, TypeOK
<1>3. ASSUME NEW e \in Events, Dispatch(e) PROVE TypeOK'
  <2>1. thread' \in [Threads -> ThreadState]
    BY <1>3, ThreadSet, States DEF Dispatch, RunOnNewThread, TypeOK
  <2>2. queue' \in Seq(Events) /\ Len(queue') <= QueueCapacity
    <3>1. queue \in Seq(Events) /\ Len(queue) <= QueueCapacity /\ Len(queue) \in Nat
      BY DEF TypeOK
    <3>2. UNCHANGED queue \/ (queue' = Append(queue, e) /\ Len(queue) < QueueCapacity)
      BY <1>3 DEF Dispatch, QueueRoom
    <3>. QED  BY <3>1, <3>2, QueueAppend
  <2>. QED  BY <1>3, <2>1, <2>2 DEF Dispatch, TypeOK
<1>4. ASSUME NEW e \in Events, Reject(e) PROVE TypeOK'
  <2>1. outcome' \in [Events -> Outcomes]
    BY <1>4 DEF Reject, TypeOK, Outcomes
  <2>. QED  BY <1>4, <2>1 DEF Reject, TypeOK
<1>5. ASSUME NEW t \in Threads, Take(t) PROVE TypeOK'
  <2>1. queue' \in Seq(Events) /\ Len(queue') <= QueueCapacity /\ Head(queue) \in Events
    BY <1>5, QueueTail DEF Take, TypeOK
  <2>2. thread' \in [Threads -> ThreadState]
    BY <1>5, <2>1, ThreadSet, States DEF Take
  <2>. QED  BY <1>5, <2>1, <2>2 DEF Take, TypeOK
<1>6. ASSUME NEW t \in Threads, Expire(t) PROVE TypeOK'
  <2>1. thread' \in [Threads -> ThreadState]
    BY <1>6, ThreadSet, States DEF Expire
  <2>. QED  BY <1>6, <2>1 DEF Expire, TypeOK
<1>7. ASSUME NEW t \in Threads, NEW e \in Events, Store(t, e) PROVE TypeOK'
  <2>1. thread' \in [Threads -> ThreadState]
    BY <1>7, ThreadSet, States DEF Store, TypeOK
  <2>2. rows' \in [Events -> [Users -> Nat]]
    BY <1>7, CountsMore DEF Store, TypeOK
  <2>3. outcome' \in [Events -> Outcomes]
    BY <1>7 DEF Store, TypeOK, Outcomes
  <2>. QED  BY <1>7, <2>1, <2>2, <2>3 DEF Store, TypeOK
<1>8. ASSUME NEW t \in Threads, NEW e \in Events, Fail(t, e) PROVE TypeOK'
  <2>1. thread' \in [Threads -> ThreadState]
    BY <1>8, ThreadSet, States DEF Fail
  <2>2. outcome' \in [Events -> Outcomes]
    BY <1>8 DEF Fail, TypeOK, Outcomes
  <2>. QED  BY <1>8, <2>1, <2>2 DEF Fail, TypeOK
<1>9. ASSUME NEW t \in Threads, NEW u \in Users, Push(t, u) PROVE TypeOK'
  <2>1. thread' \in [Threads -> ThreadState]
    BY <1>9, PushEffect, ThreadSet, States
  <2>2. pushed' \in [Events -> [Users -> Nat]]
    BY <1>9, WorkRecord DEF Push, TypeOK
  <2>. QED  BY <1>9, <2>1, <2>2 DEF Push, TypeOK
<1>10. ASSUME NEW t \in Threads, EndHandler(t) PROVE TypeOK'
  <2>1. thread' \in [Threads -> ThreadState]
    BY <1>10, ThreadSet, States DEF EndHandler
  <2>. QED  BY <1>10, <2>1 DEF EndHandler, TypeOK
<1>11. CASE Crash
  <2>1. thread' \in [Threads -> ThreadState] /\ outcome' \in [Events -> Outcomes]
    BY <1>11, States DEF Crash, TypeOK, Outcomes
  <2>2. queue' \in Seq(Events) /\ Len(queue') <= QueueCapacity
    BY <1>11 DEF Crash
  <2>. QED  BY <1>11, <2>1, <2>2 DEF Crash, TypeOK
<1>. QED
  BY <1>1, <1>2, <1>3, <1>4, <1>5, <1>6, <1>7, <1>8, <1>9, <1>10, <1>11 DEF Next, HandlerStep

\* TypeOK: every variable keeps its type; in particular the executor's queue
\* never holds more tasks than its capacity.
THEOREM TypeCorrect == Spec => []TypeOK
<1>. QED  BY InitType, NextType, PTL DEF Spec

---------------------------------------------------------------------------
(* One place for each event *)

\* The invariant holds initially.
LEMMA InitInv == Init => PipeInv
<1>. SUFFICES ASSUME Init PROVE PipeInv
  OBVIOUS
<1>1. TypeOK
  BY InitType
<1>2. \A t \in Threads, e \in Events : ~Handles(t, e) /\ ~Pushes(t, e)
  BY DEF Init, Handles, Pushes, NoThread
<1>3. Len(queue) = 0 /\ pending = {}
  BY DEF Init
<1>4. PlaceInv
  BY <1>2, <1>3 DEF Init, PlaceInv, PendingAlone, QueuedAlone, WorkedAlone, HandledOpen, Somewhere, Works
<1>5. PushesOwed /\ PushedOrToBe
  BY <1>2 DEF Init, PushesOwed, PushedOrToBe
<1>6. AllOrNothing /\ PushedOnlyStored
  BY DEF Init, AllOrNothing, PushedOnlyStored
<1>. QED  BY <1>1, <1>4, <1>5, <1>6 DEF PipeInv

\* The state of a thread says what it works at.
LEMMA WorkStates ==
    ASSUME NEW t
    PROVE  /\ thread[t] = NoThread \/ thread[t] = Waiting => \A e : ~Handles(t, e) /\ ~Pushes(t, e)
           /\ \A f : thread[t] = Handling(f) =>
                 \A e : ~Pushes(t, e) /\ (Handles(t, e) <=> e = f)
           /\ \A f, todo : thread[t] = Pushing(f, todo) =>
                 /\ \A e : ~Handles(t, e) /\ (Pushes(t, e) <=> e = f)
                 /\ thread[t].todo = todo
BY DEF Handles, Pushes, NoThread, Waiting, Handling, Pushing

\* A step that gives the threads no other work, changes no row and no push.
LEMMA CommitInv ==
    ASSUME PipeInv, NEW e \in Events, NEW R \in Audiences, CommitSource(e, R)
    PROVE  PlaceInv' /\ PushesOwed' /\ PushedOrToBe' /\ AllOrNothing' /\ PushedOnlyStored'
<1>. USE DEF PipeInv
<1>1. /\ outcome[e] = "none" /\ outcome' = [outcome EXCEPT ![e] = "open"]
      /\ pending' = pending \cup {e} /\ queue' = queue /\ thread' = thread
      /\ receivers' = [receivers EXCEPT ![e] = R]
      /\ rows' = rows /\ pushed' = pushed /\ crashes' = crashes
  BY DEF CommitSource
<1>2. /\ outcome'[e] = "open" /\ \A f \in Events \ {e} : outcome'[f] = outcome[f]
      /\ \A f \in Events \ {e} : receivers'[f] = receivers[f]
  BY <1>1 DEF TypeOK
<1>3. /\ \A f \in Events : Queued(f)' <=> Queued(f)
      /\ \A t \in Threads, f \in Events : /\ Handles(t, f)' <=> Handles(t, f)
                                          /\ Pushes(t, f)' <=> Pushes(t, f)
                                          /\ Works(t, f)' <=> Works(t, f)
  BY <1>1 DEF Queued, Handles, Pushes, Works
<1>4. ~Queued(e) /\ \A t \in Threads : ~Works(t, e)
  BY <1>1 DEF Queued, PlaceInv, QueuedAlone, HandledOpen, PushesOwed, Works
<1>5. \A i \in 1..Len(queue) : queue[i] \in Events \ {e}
  BY <1>4 DEF Queued, TypeOK
<1>6. PlaceInv'
  <2>1. PendingAlone'
    BY <1>1, <1>2, <1>3, <1>4 DEF PlaceInv, PendingAlone, TypeOK
  <2>2. QueuedAlone'
    BY <1>1, <1>2, <1>3, <1>5 DEF PlaceInv, QueuedAlone
  <2>3. WorkedAlone'
    BY <1>3 DEF PlaceInv, WorkedAlone
  <2>4. HandledOpen'
    BY <1>2, <1>3 DEF PlaceInv, HandledOpen
  <2>5. Somewhere'
    BY <1>1, <1>2, <1>3 DEF PlaceInv, Somewhere
  <2>. QED  BY <2>1, <2>2, <2>3, <2>4, <2>5 DEF PlaceInv
<1>7. PushesOwed'
  BY <1>1, <1>2, <1>3, <1>4 DEF PushesOwed, Works
<1>8. PushedOrToBe'
  BY <1>1, <1>2, <1>3 DEF PushedOrToBe
<1>9. AllOrNothing' /\ PushedOnlyStored'
  BY <1>1, <1>2 DEF AllOrNothing, PushedOnlyStored
<1>. QED  BY <1>6, <1>7, <1>8, <1>9

\* A step that tells nobody and ends no push keeps what is said of rows and pushes.
LEMMA RowsKept ==
    ASSUME PipeInv, UNCHANGED <<receivers, rows, pushed, crashes>>,
           \A e \in Events : outcome'[e] = "stored" <=> outcome[e] = "stored",
           \A t \in Threads, e \in Events : Pushes(t, e)' <=> Pushes(t, e),
           \A t \in Threads, e \in Events : Pushes(t, e) => thread'[t].todo = thread[t].todo
    PROVE  PushesOwed' /\ PushedOrToBe' /\ AllOrNothing' /\ PushedOnlyStored'
<1>1. PushesOwed'
  BY DEF PipeInv, PushesOwed
<1>2. PushedOrToBe'
  BY DEF PipeInv, PushedOrToBe
<1>3. AllOrNothing'
  BY DEF PipeInv, AllOrNothing
<1>4. PushedOnlyStored'
  BY DEF PipeInv, PushedOnlyStored
<1>. QED  BY <1>1, <1>2, <1>3, <1>4

\* One thread goes from one state to another: what it works at afterwards.
LEMMA Retarget ==
    ASSUME TypeOK, NEW t \in Threads, NEW x \in ThreadState, thread' = [thread EXCEPT ![t] = x]
    PROVE  /\ \A s \in Threads \ {t} : \A e :
                 /\ Handles(s, e)' <=> Handles(s, e)
                 /\ Pushes(s, e)' <=> Pushes(s, e)
                 /\ Works(s, e)' <=> Works(s, e)
                 /\ thread'[s] = thread[s]
           /\ x = NoThread \/ x = Waiting => \A e : ~Handles(t, e)' /\ ~Pushes(t, e)' /\ ~Works(t, e)'
           /\ \A f : x = Handling(f) =>
                 \A e : /\ ~Pushes(t, e)' /\ (Handles(t, e)' <=> e = f) /\ (Works(t, e)' <=> e = f)
           /\ \A f, todo : x = Pushing(f, todo) =>
                 \A e : /\ ~Handles(t, e)' /\ (Pushes(t, e)' <=> e = f) /\ (Works(t, e)' <=> e = f)
                        /\ thread'[t].todo = todo
<1>1. thread'[t] = x /\ \A s \in Threads \ {t} : thread'[s] = thread[s]
  BY ThreadSet
<1>2. \A s \in Threads \ {t} : \A e :
         /\ Handles(s, e)' <=> Handles(s, e)
         /\ Pushes(s, e)' <=> Pushes(s, e)
         /\ Works(s, e)' <=> Works(s, e)
         /\ thread'[s] = thread[s]
  BY <1>1 DEF Handles, Pushes, Works
<1>3. x = NoThread \/ x = Waiting => \A e : ~Handles(t, e)' /\ ~Pushes(t, e)' /\ ~Works(t, e)'
  BY <1>1 DEF Handles, Pushes, Works, NoThread, Waiting
<1>4. ASSUME NEW f, x = Handling(f), NEW e
      PROVE  ~Pushes(t, e)' /\ (Handles(t, e)' <=> e = f) /\ (Works(t, e)' <=> e = f)
  BY <1>1, <1>4 DEF Handles, Pushes, Works, Handling
<1>5. ASSUME NEW f, NEW todo, x = Pushing(f, todo), NEW e
      PROVE  /\ ~Handles(t, e)' /\ (Pushes(t, e)' <=> e = f) /\ (Works(t, e)' <=> e = f)
             /\ thread'[t].todo = todo
  BY <1>1, <1>5 DEF Handles, Pushes, Works, Pushing
<1>. QED  BY <1>2, <1>3, <1>4, <1>5

\* What changes when a thread goes on with pushing.
LEMMA RetargetPush ==
    ASSUME TypeOK, NEW t \in Threads, NEW e \in Events, NEW todo \in SUBSET Users,
           thread' = [thread EXCEPT ![t] = Pushing(e, todo)]
    PROVE  /\ \A f : ~Handles(t, f)' /\ (Pushes(t, f)' <=> f = e) /\ (Works(t, f)' <=> f = e)
           /\ thread'[t].todo = todo
           /\ \A s \in Threads \ {t} : \A f : /\ Handles(s, f)' <=> Handles(s, f)
                                              /\ Pushes(s, f)' <=> Pushes(s, f)
                                              /\ Works(s, f)' <=> Works(s, f)
                                              /\ thread'[s] = thread[s]
<1>1. Pushing(e, todo) \in ThreadState
  BY States
<1>2. thread'[t] = Pushing(e, todo) /\ \A s \in Threads \ {t} : thread'[s] = thread[s]
  BY <1>1, ThreadSet
<1>3. \A f : ~Handles(t, f)' /\ (Pushes(t, f)' <=> f = e) /\ (Works(t, f)' <=> f = e)
  BY <1>2 DEF Handles, Pushes, Works, Pushing
<1>4. thread'[t].todo = todo
  BY <1>2 DEF Pushing
<1>5. \A s \in Threads \ {t} : \A f :
         /\ Handles(s, f)' <=> Handles(s, f)
         /\ Pushes(s, f)' <=> Pushes(s, f)
         /\ Works(s, f)' <=> Works(s, f)
         /\ thread'[s] = thread[s]
  BY <1>2 DEF Handles, Pushes, Works
<1>. QED  BY <1>3, <1>4, <1>5

\* An event goes from its request to a new thread or into the queue.
LEMMA DispatchInv ==
    ASSUME PipeInv, NEW e \in Events, Dispatch(e)
    PROVE  PlaceInv' /\ PushesOwed' /\ PushedOrToBe' /\ AllOrNothing' /\ PushedOnlyStored'
<1>. USE DEF PipeInv
<1>1. /\ e \in pending /\ pending' = pending \ {e}
      /\ UNCHANGED <<receivers, rows, pushed, outcome, crashes>>
  BY DEF Dispatch
<1>2. outcome[e] = "open" /\ ~Queued(e) /\ \A t \in Threads : ~Works(t, e)
  BY <1>1 DEF PlaceInv, PendingAlone
<1>3. CASE RunOnNewThread(e) /\ UNCHANGED queue
  <2>1. PICK t \in Threads \ Alive : thread' = [thread EXCEPT ![t] = Handling(e)]
    BY <1>3 DEF RunOnNewThread
  <2>2. \A f \in Events : ~Handles(t, f) /\ ~Pushes(t, f)
    BY <2>1, WorkStates DEF Alive
  <2>3. /\ \A f : ~Pushes(t, f)' /\ (Handles(t, f)' <=> f = e) /\ (Works(t, f)' <=> f = e)
        /\ \A s \in Threads \ {t} : \A f :
              /\ Handles(s, f)' <=> Handles(s, f)
              /\ Pushes(s, f)' <=> Pushes(s, f)
              /\ Works(s, f)' <=> Works(s, f)
              /\ thread'[s] = thread[s]
    BY <2>1, Retarget, States
  <2>4. \A f \in Events : Queued(f)' <=> Queued(f)
    BY <1>3 DEF Queued
  <2>5. \A i \in 1..Len(queue) : queue[i] \in Events \ {e}
    BY <1>2 DEF Queued, TypeOK
  <2>6. PendingAlone' /\ QueuedAlone'
    <3>1. PendingAlone'
      BY <1>1, <2>3, <2>4 DEF PlaceInv, PendingAlone, TypeOK
    <3>2. queue' = queue /\ outcome' = outcome
      BY <1>1, <1>3
    <3>3. QueuedAlone'
      BY <2>3, <2>5, <3>2 DEF PlaceInv, QueuedAlone
    <3>. QED  BY <3>1, <3>3
  <2>7. WorkedAlone'
    BY <1>2, <2>3 DEF PlaceInv, WorkedAlone
  <2>8. HandledOpen'
    BY <1>1, <1>2, <2>3 DEF PlaceInv, HandledOpen
  <2>9. Somewhere'
    BY <1>1, <2>2, <2>3, <2>4 DEF PlaceInv, Somewhere
  <2>10. PushesOwed' /\ PushedOrToBe' /\ AllOrNothing' /\ PushedOnlyStored'
    <3>1. \A s \in Threads, f \in Events : /\ Pushes(s, f)' <=> Pushes(s, f)
                                           /\ Pushes(s, f) => thread'[s].todo = thread[s].todo
      BY <2>2, <2>3
    <3>. QED  BY <1>1, <3>1, RowsKept
  <2>. QED  BY <2>6, <2>7, <2>8, <2>9, <2>10 DEF PlaceInv
<1>4. CASE queue' = Append(queue, e) /\ UNCHANGED thread
  <2>1. /\ Len(queue') = Len(queue) + 1 /\ Len(queue) \in Nat /\ queue'[Len(queue) + 1] = e
        /\ \A i \in 1..Len(queue) : queue'[i] = queue[i] /\ queue[i] \in Events /\ queue[i] # e
    BY <1>2, <1>4, QueueAppend DEF TypeOK, Queued
  <2>2. \A f \in Events : Queued(f)' <=> Queued(f) \/ f = e
    BY <2>1 DEF Queued
  <2>3. \A s \in Threads : \A f :
              /\ Handles(s, f)' <=> Handles(s, f)
              /\ Pushes(s, f)' <=> Pushes(s, f)
              /\ Works(s, f)' <=> Works(s, f)
    BY <1>4 DEF Handles, Pushes, Works
  <2>4. PendingAlone'
    BY <1>1, <2>2, <2>3 DEF PlaceInv, PendingAlone, TypeOK
  <2>5. QueuedAlone'
    BY <1>1, <1>2, <2>1, <2>3 DEF PlaceInv, QueuedAlone
  <2>6. WorkedAlone' /\ HandledOpen' /\ Somewhere'
    BY <1>1, <2>2, <2>3 DEF PlaceInv, WorkedAlone, HandledOpen, Somewhere
  <2>7. PushesOwed' /\ PushedOrToBe' /\ AllOrNothing' /\ PushedOnlyStored'
    BY <1>1, <1>4, <2>3, RowsKept
  <2>. QED  BY <2>4, <2>5, <2>6, <2>7 DEF PlaceInv
<1>. QED  BY <1>3, <1>4 DEF Dispatch

\* An event that is rejected is nowhere any more.
LEMMA RejectInv ==
    ASSUME PipeInv, NEW e \in Events, Reject(e)
    PROVE  PlaceInv' /\ PushesOwed' /\ PushedOrToBe' /\ AllOrNothing' /\ PushedOnlyStored'
<1>. USE DEF PipeInv
<1>1. /\ e \in pending /\ pending' = pending \ {e} /\ outcome' = [outcome EXCEPT ![e] = "rejected"]
      /\ UNCHANGED <<receivers, rows, pushed, queue, thread, crashes>>
  BY DEF Reject
<1>2. outcome[e] = "open" /\ ~Queued(e) /\ \A t \in Threads : ~Works(t, e)
  BY <1>1 DEF PlaceInv, PendingAlone
<1>3. /\ outcome'[e] = "rejected" /\ \A f \in Events \ {e} : outcome'[f] = outcome[f]
      /\ \A f \in Events : Queued(f)' <=> Queued(f)
      /\ \A s \in Threads : \A f : /\ Handles(s, f)' <=> Handles(s, f)
                                   /\ Pushes(s, f)' <=> Pushes(s, f)
                                   /\ Works(s, f)' <=> Works(s, f)
  BY <1>1 DEF TypeOK, Queued, Handles, Pushes, Works
<1>4. \A i \in 1..Len(queue) : queue[i] \in Events \ {e}
  BY <1>2 DEF Queued, TypeOK
<1>5. PendingAlone' /\ QueuedAlone'
  BY <1>1, <1>3, <1>4 DEF PlaceInv, PendingAlone, QueuedAlone, TypeOK
<1>6. WorkedAlone' /\ HandledOpen' /\ Somewhere'
  BY <1>1, <1>2, <1>3 DEF PlaceInv, WorkedAlone, HandledOpen, Somewhere, Works
<1>7. PushesOwed' /\ PushedOrToBe' /\ AllOrNothing' /\ PushedOnlyStored'
  BY <1>1, <1>2, <1>3, RowsKept
<1>. QED  BY <1>5, <1>6, <1>7 DEF PlaceInv

\* An event goes from the queue to a thread that waits.
LEMMA TakeInv ==
    ASSUME PipeInv, NEW t \in Threads, Take(t)
    PROVE  PlaceInv' /\ PushesOwed' /\ PushedOrToBe' /\ AllOrNothing' /\ PushedOnlyStored'
<1>. USE DEF PipeInv
<1>. DEFINE e == Head(queue)
<1>1. /\ thread[t] = Waiting /\ queue # << >> /\ queue' = Tail(queue)
      /\ thread' = [thread EXCEPT ![t] = Handling(e)]
      /\ UNCHANGED <<receivers, pending, rows, pushed, outcome, crashes>>
  BY DEF Take
<1>2. /\ Len(queue) \in Nat \ {0} /\ Len(queue') = Len(queue) - 1 /\ e = queue[1] /\ e \in Events
      /\ \A i \in 1..Len(queue') : queue'[i] = queue[i + 1]
  BY <1>1, QueueTail DEF TypeOK
<1>. HIDE DEF e
<1>3. outcome[e] = "open" /\ \A s \in Threads : ~Works(s, e)
  BY <1>2 DEF PlaceInv, QueuedAlone
<1>4. e \notin pending
  BY <1>2 DEF PlaceInv, PendingAlone, Queued
<1>5. \A i \in 1..Len(queue') : i + 1 \in 1..Len(queue) /\ queue'[i] # e
  BY <1>2 DEF PlaceInv, QueuedAlone
<1>6. \A f \in Events : /\ Queued(f)' => Queued(f)
                        /\ Queued(f) /\ f # e => Queued(f)'
  <2>1. ASSUME NEW f \in Events, Queued(f)' PROVE Queued(f)
    BY <1>2, <1>5, <2>1 DEF Queued
  <2>2. ASSUME NEW f \in Events, Queued(f), f # e PROVE Queued(f)'
    <3>1. PICK i \in 1..Len(queue) : queue[i] = f
      BY <2>2 DEF Queued
    <3>2. i - 1 \in 1..Len(queue')
      BY <1>2, <2>2, <3>1
    <3>3. queue'[i - 1] = queue[(i - 1) + 1]
      BY <1>2, <3>2
    <3>. QED  BY <3>1, <3>2, <3>3 DEF Queued
  <2>. QED  BY <2>1, <2>2
<1>7. /\ \A f : ~Pushes(t, f)' /\ (Handles(t, f)' <=> f = e) /\ (Works(t, f)' <=> f = e)
      /\ \A s \in Threads \ {t} : \A f :
            /\ Handles(s, f)' <=> Handles(s, f)
            /\ Pushes(s, f)' <=> Pushes(s, f)
            /\ Works(s, f)' <=> Works(s, f)
            /\ thread'[s] = thread[s]
  <2>1. Handling(e) \in ThreadState
    BY <1>2, States
  <2>. QED  BY <1>1, <2>1, Retarget
<1>8. \A f : ~Handles(t, f) /\ ~Pushes(t, f)
  BY <1>1, WorkStates
<1>9. PendingAlone'
  BY <1>1, <1>4, <1>6, <1>7 DEF PlaceInv, PendingAlone, TypeOK
<1>10. QueuedAlone'
  <2>1. ASSUME NEW i \in 1..Len(queue')
        PROVE  (outcome[queue[i]] = "open" /\ \A s \in Threads : ~Works(s, queue[i]))'
    <3>1. /\ i + 1 \in 1..Len(queue) /\ queue'[i] = queue[i + 1] /\ queue'[i] # e
          /\ outcome' = outcome
      BY <1>1, <1>2, <1>5
    <3>2. outcome[queue[i + 1]] = "open" /\ \A s \in Threads : ~Works(s, queue[i + 1])
      BY <3>1 DEF PlaceInv, QueuedAlone
    <3>. QED  BY <1>7, <3>1, <3>2
  <2>2. ASSUME NEW i \in 1..Len(queue'), NEW j \in 1..Len(queue'), queue'[i] = queue'[j]
        PROVE  i = j
    BY <1>2, <1>5, <2>2 DEF PlaceInv, QueuedAlone
  <2>. QED  BY <2>1, <2>2 DEF QueuedAlone
<1>11. WorkedAlone'
  BY <1>3, <1>7 DEF PlaceInv, WorkedAlone
<1>12. HandledOpen'
  BY <1>1, <1>3, <1>7 DEF PlaceInv, HandledOpen
<1>13. Somewhere'
  BY <1>1, <1>6, <1>7, <1>8 DEF PlaceInv, Somewhere
<1>14. PushesOwed' /\ PushedOrToBe' /\ AllOrNothing' /\ PushedOnlyStored'
  <2>1. \A s \in Threads, f \in Events : /\ Pushes(s, f)' <=> Pushes(s, f)
                                         /\ Pushes(s, f) => thread'[s].todo = thread[s].todo
    BY <1>7, <1>8
  <2>. QED  BY <1>1, <2>1, RowsKept
<1>. QED  BY <1>9, <1>10, <1>11, <1>12, <1>13, <1>14 DEF PlaceInv

\* A thread without an event ends, or comes to have none.
LEMMA ExpireInv ==
    ASSUME PipeInv, NEW t \in Threads, Expire(t)
    PROVE  PlaceInv' /\ PushesOwed' /\ PushedOrToBe' /\ AllOrNothing' /\ PushedOnlyStored'
<1>. USE DEF PipeInv
<1>1. /\ thread[t] = Waiting /\ thread' = [thread EXCEPT ![t] = NoThread]
      /\ UNCHANGED <<receivers, pending, queue, rows, pushed, outcome, crashes>>
  BY DEF Expire
<1>2. \A s \in Threads, f \in Events : /\ Handles(s, f)' <=> Handles(s, f)
                                       /\ Pushes(s, f)' <=> Pushes(s, f)
                                       /\ Works(s, f)' <=> Works(s, f)
                                       /\ Pushes(s, f) => thread'[s].todo = thread[s].todo
  <2>1. \A f : ~Handles(t, f) /\ ~Pushes(t, f) /\ ~Works(t, f)
    BY <1>1, WorkStates DEF Works
  <2>2. NoThread \in ThreadState
    BY States
  <2>. QED  BY <1>1, <2>1, <2>2, Retarget
<1>3. \A f \in Events : Queued(f)' <=> Queued(f)
  BY <1>1 DEF Queued
<1>4. PlaceInv'
  <2>1. PendingAlone'
    BY <1>1, <1>2, <1>3 DEF PlaceInv, PendingAlone, TypeOK
  <2>2. QueuedAlone'
    BY <1>1, <1>2 DEF PlaceInv, QueuedAlone, TypeOK
  <2>3. WorkedAlone' /\ HandledOpen' /\ Somewhere'
    BY <1>1, <1>2, <1>3 DEF PlaceInv, WorkedAlone, HandledOpen, Somewhere
  <2>. QED  BY <2>1, <2>2, <2>3 DEF PlaceInv
<1>. QED  BY <1>1, <1>2, <1>4, RowsKept

\* A handler's end: its event is open no more and with no other thread.
LEMMA HandledPlaces ==
    ASSUME PipeInv, NEW t \in Threads, NEW e \in Events, Handles(t, e), UNCHANGED <<pending, queue>>,
           outcome'[e] # "open", \A f \in Events \ {e} : outcome'[f] = outcome[f],
           \A s \in Threads, f \in Events : /\ Works(s, f)' => Works(s, f)
                                            /\ f # e => (Handles(s, f)' <=> Handles(s, f)),
           \A s \in Threads : ~Handles(s, e)'
    PROVE  PlaceInv'
<1>. USE DEF PipeInv
<1>1. e \notin pending /\ ~Queued(e) /\ \A i \in 1..Len(queue) : queue[i] \in Events \ {e}
  BY DEF PlaceInv, PendingAlone, QueuedAlone, Queued, Works, TypeOK
<1>2. \A f \in Events : Queued(f)' <=> Queued(f)
  BY DEF Queued
<1>3. PendingAlone'
  BY <1>1, <1>2 DEF PlaceInv, PendingAlone, TypeOK
<1>4. QueuedAlone'
  BY <1>1 DEF PlaceInv, QueuedAlone
<1>5. WorkedAlone' /\ HandledOpen' /\ Somewhere'
  BY <1>1, <1>2 DEF PlaceInv, WorkedAlone, HandledOpen, Somewhere
<1>. QED  BY <1>3, <1>4, <1>5 DEF PlaceInv

\* The notifications are stored for all receivers; the thread has them to push.
LEMMA StoreInv ==
    ASSUME PipeInv, NEW t \in Threads, NEW e \in Events, Store(t, e)
    PROVE  PlaceInv' /\ PushesOwed' /\ PushedOrToBe' /\ AllOrNothing' /\ PushedOnlyStored'
<1>. USE DEF PipeInv
<1>1. /\ Handles(t, e) /\ rows' = [rows EXCEPT ![e] = OneMore(@, receivers[e])]
      /\ outcome' = [outcome EXCEPT ![e] = "stored"]
      /\ thread' = [thread EXCEPT ![t] = Pushing(e, receivers[e])]
      /\ UNCHANGED <<receivers, pending, queue, pushed, crashes>>
  BY DEF Store
<1>2. outcome[e] = "open" /\ \A s \in Threads \ {t} : ~Works(s, e)
  BY <1>1 DEF PlaceInv, HandledOpen, WorkedAlone, Works
<1>3. outcome'[e] = "stored" /\ \A f \in Events \ {e} : outcome'[f] = outcome[f]
  BY <1>1 DEF TypeOK
<1>4. receivers[e] \in SUBSET Users
  BY DEF TypeOK
<1>5. /\ \A f : ~Handles(t, f)' /\ (Pushes(t, f)' <=> f = e) /\ (Works(t, f)' <=> f = e)
      /\ thread'[t].todo = receivers[e]
      /\ \A s \in Threads \ {t} : \A f : /\ Handles(s, f)' <=> Handles(s, f)
                                         /\ Pushes(s, f)' <=> Pushes(s, f)
                                         /\ Works(s, f)' <=> Works(s, f)
                                         /\ thread'[s] = thread[s]
  BY <1>1, <1>4, RetargetPush
<1>6. \A f : /\ Handles(t, f) <=> f = e
             /\ ~Pushes(t, f)
             /\ Works(t, f) <=> f = e
  BY <1>1 DEF Handles, Pushes, Works
<1>7. \A u \in Users : rows[e][u] = 0 /\ pushed[e][u] = 0
  <2>1. ASSUME NEW u \in Users PROVE rows[e][u] = 0 /\ pushed[e][u] = 0
    <3>1. rows[e][u] = 0 /\ pushed[e][u] \in Nat /\ pushed[e][u] <= rows[e][u]
      BY <1>2 DEF AllOrNothing, PushedOnlyStored, TypeOK
    <3>. QED  BY <3>1
  <2>. QED  BY <2>1
<1>8. /\ \A u \in Users : rows'[e][u] = IF u \in receivers[e] THEN 1 ELSE 0
      /\ \A f \in Events \ {e} : rows'[f] = rows[f]
  BY <1>1, <1>7 DEF OneMore, TypeOK
<1>9. PlaceInv'
  BY <1>1, <1>2, <1>3, <1>5, <1>6, HandledPlaces DEF Works
<1>10. PushesOwed'
  BY <1>1, <1>2, <1>3, <1>4, <1>5, <1>6, <1>7 DEF PushesOwed
<1>11. PushedOrToBe'
  BY <1>1, <1>3, <1>5, <1>6 DEF PushedOrToBe
<1>12. AllOrNothing'
  BY <1>1, <1>3, <1>8 DEF AllOrNothing
<1>13. PushedOnlyStored'
  <2>1. ASSUME NEW f \in Events, NEW u \in Users PROVE pushed[f][u] <= rows'[f][u]
    BY <1>7, <1>8 DEF PushedOnlyStored
  <2>. QED  BY <1>1, <2>1 DEF PushedOnlyStored
<1>. QED  BY <1>9, <1>10, <1>11, <1>12, <1>13

\* Nothing is stored and nothing pushed.
LEMMA FailInv ==
    ASSUME PipeInv, NEW t \in Threads, NEW e \in Events, Fail(t, e)
    PROVE  PlaceInv' /\ PushesOwed' /\ PushedOrToBe' /\ AllOrNothing' /\ PushedOnlyStored'
<1>. USE DEF PipeInv
<1>1. /\ Handles(t, e) /\ outcome' = [outcome EXCEPT ![e] = "failed"]
      /\ thread' = [thread EXCEPT ![t] = Waiting]
      /\ UNCHANGED <<receivers, pending, queue, rows, pushed, crashes>>
  BY DEF Fail
<1>2. outcome[e] = "open" /\ \A s \in Threads \ {t} : ~Works(s, e)
  BY <1>1 DEF PlaceInv, HandledOpen, WorkedAlone, Works
<1>3. outcome'[e] = "failed" /\ \A f \in Events \ {e} : outcome'[f] = outcome[f]
  BY <1>1 DEF TypeOK
<1>4. /\ \A f : ~Handles(t, f)' /\ ~Pushes(t, f)' /\ ~Works(t, f)'
      /\ \A s \in Threads \ {t} : \A f : /\ Handles(s, f)' <=> Handles(s, f)
                                         /\ Pushes(s, f)' <=> Pushes(s, f)
                                         /\ Works(s, f)' <=> Works(s, f)
                                         /\ thread'[s] = thread[s]
  BY <1>1, Retarget, States
<1>5. \A f : (Handles(t, f) <=> f = e) /\ ~Pushes(t, f)
  BY <1>1 DEF Handles, Pushes
<1>6. PlaceInv'
  BY <1>1, <1>2, <1>3, <1>4, <1>5, HandledPlaces DEF Works
<1>7. \A s \in Threads, f \in Events : /\ Pushes(s, f)' <=> Pushes(s, f)
                                       /\ Pushes(s, f) => thread'[s].todo = thread[s].todo
  BY <1>4, <1>5
<1>8. \A f \in Events : outcome'[f] = "stored" <=> outcome[f] = "stored"
  BY <1>2, <1>3
<1>. QED  BY <1>1, <1>6, <1>7, <1>8, RowsKept

\* While a thread goes on pushing, or comes to the end of it, events stay
\* where they are.
LEMMA PushPlaces ==
    ASSUME PipeInv, UNCHANGED <<pending, queue, outcome>>,
           \A s \in Threads, f \in Events : /\ Works(s, f)' => Works(s, f)
                                            /\ Handles(s, f)' <=> Handles(s, f)
    PROVE  PlaceInv'
<1>. USE DEF PipeInv
<1>1. \A f \in Events : Queued(f)' <=> Queued(f)
  BY DEF Queued
<1>2. PendingAlone'
  BY <1>1 DEF PlaceInv, PendingAlone, TypeOK
<1>3. QueuedAlone'
  BY DEF PlaceInv, QueuedAlone, TypeOK
<1>4. WorkedAlone' /\ HandledOpen' /\ Somewhere'
  BY <1>1 DEF PlaceInv, WorkedAlone, HandledOpen, Somewhere
<1>. QED  BY <1>2, <1>3, <1>4 DEF PlaceInv

\* One receiver is told.
LEMMA PushInv ==
    ASSUME PipeInv, NEW t \in Threads, NEW u \in Users, Push(t, u)
    PROVE  PlaceInv' /\ PushesOwed' /\ PushedOrToBe' /\ AllOrNothing' /\ PushedOnlyStored'
<1>. USE DEF PipeInv
<1>1. PICK e \in Events : Pushes(t, e)
  BY WorkRecord DEF Push, Pushes
<1>2. /\ u \in thread[t].todo
      /\ UNCHANGED <<receivers, pending, queue, rows, outcome, crashes>>
  BY DEF Push
<1>3. PICK rest \in SUBSET Users : /\ rest = thread[t].todo \ {u}
                                   /\ thread' = [thread EXCEPT ![t] = Pushing(e, rest)]
  BY <1>1, PushEffect DEF Pushes
<1>4. /\ \A f : ~Handles(t, f)' /\ (Pushes(t, f)' <=> f = e) /\ (Works(t, f)' <=> f = e)
      /\ thread'[t].todo = rest
      /\ \A s \in Threads \ {t} : \A f : /\ Handles(s, f)' <=> Handles(s, f)
                                         /\ Pushes(s, f)' <=> Pushes(s, f)
                                         /\ Works(s, f)' <=> Works(s, f)
                                         /\ thread'[s] = thread[s]
  <2>1. TypeOK /\ thread' = [thread EXCEPT ![t] = Pushing(e, rest)]
    BY <1>3
  <2>. HIDE DEF PipeInv
  <2>. QED  BY <2>1, RetargetPush
<1>5. \A f : /\ ~Handles(t, f)
             /\ Pushes(t, f) <=> f = e
             /\ Works(t, f) <=> f = e
  BY <1>1 DEF Handles, Pushes, Works
<1>6. /\ outcome[e] = "stored" /\ thread[t].todo \subseteq receivers[e]
      /\ \A v \in thread[t].todo : pushed[e][v] = 0
      /\ \A s \in Threads \ {t} : ~Pushes(s, e)
  BY <1>1, <1>5 DEF PushesOwed, PlaceInv, WorkedAlone, Works
<1>7. /\ pushed'[e][u] = 1 /\ \A v \in Users \ {u} : pushed'[e][v] = pushed[e][v]
      /\ \A f \in Events \ {e} : pushed'[f] = pushed[f]
  <2>1. pushed' = [pushed EXCEPT ![e][u] = @ + 1]
    BY <1>1 DEF Push, Pushes
  <2>2. pushed[e][u] = 0 /\ pushed \in [Events -> [Users -> Nat]] /\ pushed[e] \in [Users -> Nat]
    BY <1>2, <1>6 DEF TypeOK
  <2>. DEFINE counts == [pushed[e] EXCEPT ![u] = 1]
  <2>3. counts[u] = 1 /\ \A v \in Users \ {u} : counts[v] = pushed[e][v]
    BY <2>2
  <2>4. pushed' = [pushed EXCEPT ![e] = counts]
    BY <2>1, <2>2
  <2>. HIDE DEF counts
  <2>5. pushed'[e] = counts /\ \A f \in Events \ {e} : pushed'[f] = pushed[f]
    BY <2>2, <2>4
  <2>. QED  BY <2>3, <2>5
<1>8. PlaceInv'
  BY <1>2, <1>4, <1>5, PushPlaces
<1>9. PushesOwed'
  <2>1. ASSUME NEW s \in Threads, NEW f \in Events, Pushes(s, f)'
        PROVE  (/\ outcome[f] = "stored"
                /\ thread[s].todo \subseteq receivers[f]
                /\ \A v \in thread[s].todo : pushed[f][v] = 0)'
    <3>1. CASE s = t
      <4>1. f = e /\ rest \subseteq thread[t].todo /\ u \notin rest
        BY <1>4, <1>3, <2>1, <3>1
      <4>. QED  BY <1>2, <1>4, <1>6, <1>7, <3>1, <4>1
    <3>2. CASE s # t
      <4>1. Pushes(s, f) /\ f # e /\ thread'[s] = thread[s]
        BY <1>4, <1>6, <2>1, <3>2
      <4>2. /\ outcome[f] = "stored" /\ thread[s].todo \subseteq receivers[f]
            /\ \A v \in thread[s].todo : pushed[f][v] = 0
        BY <4>1 DEF PushesOwed
      <4>. QED  BY <1>2, <1>7, <4>1, <4>2
    <3>. QED  BY <3>1, <3>2
  <2>. QED  BY <2>1 DEF PushesOwed
<1>10. PushedOrToBe'
  <2>1. ASSUME NEW f \in Events, outcome[f] = "stored", NEW v \in receivers[f],
               ~(pushed'[f][v] > 0), ~(crashes > 0)
        PROVE  \E s \in Threads : Pushes(s, f)' /\ v \in thread'[s].todo
    <3>1. v \in Users
      BY DEF TypeOK
    <3>2. ~(pushed[f][v] > 0) /\ ~(f = e /\ v = u)
      BY <1>7, <2>1, <3>1
    <3>3. PICK s \in Threads : Pushes(s, f) /\ v \in thread[s].todo
      BY <2>1, <3>2 DEF PushedOrToBe
    <3>4. CASE s = t
      BY <1>3, <1>4, <1>5, <3>2, <3>3, <3>4
    <3>5. CASE s # t
      BY <1>4, <3>3, <3>5
    <3>. QED  BY <3>4, <3>5
  <2>. QED  BY <1>2, <2>1 DEF PushedOrToBe
<1>11. AllOrNothing'
  BY <1>2 DEF AllOrNothing
<1>12. PushedOnlyStored'
  <2>1. ASSUME NEW f \in Events, NEW v \in Users PROVE pushed'[f][v] <= rows[f][v]
    <3>1. CASE f = e /\ v = u
      BY <1>2, <1>6, <1>7, <3>1 DEF AllOrNothing
    <3>2. CASE f # e \/ v # u
      BY <1>7, <3>2 DEF PushedOnlyStored
    <3>. QED  BY <3>1, <3>2
  <2>. QED  BY <1>2, <2>1 DEF PushedOnlyStored
<1>. QED  BY <1>8, <1>9, <1>10, <1>11, <1>12

\* All receivers were told.
LEMMA EndInv ==
    ASSUME PipeInv, NEW t \in Threads, EndHandler(t)
    PROVE  PlaceInv' /\ PushesOwed' /\ PushedOrToBe' /\ AllOrNothing' /\ PushedOnlyStored'
<1>. USE DEF PipeInv
<1>1. /\ thread[t].pc = "push" /\ thread[t].todo = {} /\ thread' = [thread EXCEPT ![t] = Waiting]
      /\ UNCHANGED <<receivers, pending, queue, rows, pushed, outcome, crashes>>
  BY DEF EndHandler
<1>2. /\ \A f : ~Handles(t, f)' /\ ~Pushes(t, f)' /\ ~Works(t, f)'
      /\ \A s \in Threads \ {t} : \A f : /\ Handles(s, f)' <=> Handles(s, f)
                                         /\ Pushes(s, f)' <=> Pushes(s, f)
                                         /\ Works(s, f)' <=> Works(s, f)
                                         /\ thread'[s] = thread[s]
  BY <1>1, Retarget, States
<1>3. \A f : ~Handles(t, f)
  BY <1>1 DEF Handles
<1>4. PlaceInv'
  BY <1>1, <1>2, <1>3, PushPlaces
<1>5. PushesOwed' /\ PushedOrToBe'
  BY <1>1, <1>2 DEF PushesOwed, PushedOrToBe
<1>6. AllOrNothing' /\ PushedOnlyStored'
  BY <1>1 DEF AllOrNothing, PushedOnlyStored
<1>. QED  BY <1>4, <1>5, <1>6

\* The server goes down: what was open is nowhere, what is stored stays.
LEMMA CrashInv ==
    ASSUME PipeInv, Crash
    PROVE  PlaceInv' /\ PushesOwed' /\ PushedOrToBe' /\ AllOrNothing' /\ PushedOnlyStored'
<1>. USE DEF PipeInv
<1>1. /\ pending' = {} /\ Len(queue') = 0 /\ crashes' > 0
      /\ UNCHANGED <<receivers, rows, pushed>>
  BY DEF Crash, TypeOK
<1>2. \A t \in Threads, f \in Events : ~Handles(t, f)' /\ ~Pushes(t, f)' /\ ~Works(t, f)'
  BY DEF Crash, Handles, Pushes, Works, NoThread
<1>3. \A f \in Events : /\ outcome'[f] # "open"
                        /\ outcome'[f] = "stored" <=> outcome[f] = "stored"
  BY DEF Crash
<1>4. PlaceInv'
  BY <1>1, <1>2, <1>3 DEF PlaceInv, PendingAlone, QueuedAlone, WorkedAlone, HandledOpen, Somewhere
<1>5. PushesOwed' /\ PushedOrToBe'
  BY <1>1, <1>2 DEF PushesOwed, PushedOrToBe
<1>6. AllOrNothing' /\ PushedOnlyStored'
  BY <1>1, <1>3 DEF AllOrNothing, PushedOnlyStored
<1>. QED  BY <1>4, <1>5, <1>6

\* Every step keeps the invariant.
LEMMA NextInv == PipeInv /\ [Next]_vars => PipeInv'
<1>. SUFFICES ASSUME PipeInv, [Next]_vars PROVE PipeInv'
  OBVIOUS
<1>1. TypeOK'
  BY NextType DEF PipeInv
<1>. DEFINE Rest == PlaceInv /\ PushesOwed /\ PushedOrToBe /\ AllOrNothing /\ PushedOnlyStored
<1>2. CASE UNCHANGED vars
  <2>1. PlaceInv'
    BY <1>2 DEF PipeInv, vars, PlaceInv, PendingAlone, QueuedAlone, WorkedAlone, HandledOpen,
                Somewhere, Works, Handles, Pushes, Queued
  <2>2. PushesOwed' /\ PushedOrToBe' /\ AllOrNothing' /\ PushedOnlyStored'
    BY <1>2 DEF PipeInv, vars, PushesOwed, PushedOrToBe, AllOrNothing, PushedOnlyStored, Pushes
  <2>. QED  BY <1>1, <2>1, <2>2 DEF PipeInv
<1>3. CASE \E e \in Events : Dispatch(e) \/ Reject(e) \/ \E R \in Audiences : CommitSource(e, R)
  BY <1>1, <1>3, DispatchInv, RejectInv, CommitInv DEF PipeInv
<1>4. CASE \E t \in Threads : Take(t) \/ Expire(t)
  BY <1>1, <1>4, TakeInv, ExpireInv DEF PipeInv
<1>5. CASE \E t \in Threads : HandlerStep(t)
  BY <1>1, <1>5, StoreInv, FailInv, PushInv, EndInv DEF PipeInv, HandlerStep
<1>6. CASE Crash
  BY <1>1, <1>6, CrashInv DEF PipeInv
<1>. QED  BY <1>2, <1>3, <1>4, <1>5, <1>6 DEF Next

\* It holds in every reachable state.
LEMMA PipeInvariant == Spec => []PipeInv
<1>. QED  BY InitInv, NextInv, PTL DEF Spec

\* AllOrNothing: the rows of an event are one per receiver when it was stored
\* and none at all otherwise, whatever order tasks, failures and crashes take.
THEOREM StoredAtOnce == Spec => []AllOrNothing
<1>1. PipeInv => AllOrNothing
  BY DEF PipeInv
<1>. QED  BY PipeInvariant, <1>1, PTL

\* PushedOnlyStored: a client is told what is in the database, and once.
THEOREM PushedFromRows == Spec => []PushedOnlyStored
<1>1. PipeInv => PushedOnlyStored
  BY DEF PipeInv
<1>. QED  BY PipeInvariant, <1>1, PTL

\* The safety behind the liveness the runs check: an event that is open is
\* with its request, in the queue or at a thread, and a receiver of a stored
\* one is told, about to be, or the server went down.
THEOREM NothingVanishes == Spec => [](Somewhere /\ PushedOrToBe)
<1>1. PipeInv => Somewhere /\ PushedOrToBe
  BY DEF PipeInv, PlaceInv
<1>. QED  BY PipeInvariant, <1>1, PTL

---------------------------------------------------------------------------
(* The promise *)

fates == [e \in Events |-> Fate(e)]

\* When the outcome of one event changes, so does its fate, and no other.
LEMMA FateSet ==
    ASSUME TypeOK, NEW e \in Events, NEW o \in Outcomes, outcome' = [outcome EXCEPT ![e] = o],
           NEW x, Fate(e)' = x
    PROVE  fates' = [fates EXCEPT ![e] = x]
<1>1. \A f \in Events \ {e} : Fate(f)' = Fate(f)
  BY DEF Fate, TypeOK
<1>. QED  BY <1>1 DEF fates

\* The pipeline starts where the promise does.
LEMMA PromiseInit == Init => Promise!Init
BY DEF Init, Promise!Init, Fate

\* Every step of the pipeline is one the promise allows: one event owed, told
\* to all or lost, all open ones lost at a crash, or nothing to be seen.
LEMMA PromiseStep == PipeInv /\ [Next]_vars => [Promise!Next]_(Promise!pvars)
<1>. SUFFICES ASSUME PipeInv, [Next]_vars
              PROVE  Promise!Next \/ (fates' = fates /\ rows' = rows)
  BY DEF Promise!pvars, fates
<1>. USE DEF PipeInv
<1>1. ASSUME outcome' = outcome PROVE fates' = fates
  BY <1>1 DEF fates, Fate
<1>2. ASSUME NEW e \in Events, NEW R \in Audiences, CommitSource(e, R) PROVE Promise!Owe(e)
  <2>1. outcome[e] = "none" /\ outcome' = [outcome EXCEPT ![e] = "open"] /\ rows' = rows
    BY <1>2 DEF CommitSource
  <2>2. Fate(e) = "none" /\ Fate(e)' = "owed"
    BY <2>1 DEF Fate, TypeOK
  <2>3. fates' = [fates EXCEPT ![e] = "owed"]
    BY <2>1, <2>2, FateSet DEF Outcomes
  <2>. QED  BY <2>1, <2>2, <2>3 DEF Promise!Owe, fates
<1>3. ASSUME NEW e \in Events, NEW o \in {"rejected", "failed"}, outcome[e] = "open",
             outcome' = [outcome EXCEPT ![e] = o], rows' = rows
      PROVE  Promise!Lose(e)
  <2>1. Fate(e) = "owed" /\ Fate(e)' = "lost"
    BY <1>3 DEF Fate, TypeOK
  <2>2. fates' = [fates EXCEPT ![e] = "lost"]
    BY <1>3, <2>1, FateSet DEF Outcomes
  <2>. QED  BY <1>3, <2>1, <2>2 DEF Promise!Lose, fates
<1>4. ASSUME NEW e \in Events, Reject(e) PROVE Promise!Lose(e)
  <2>1. outcome[e] = "open" /\ outcome' = [outcome EXCEPT ![e] = "rejected"] /\ rows' = rows
    BY <1>4 DEF Reject, PlaceInv, PendingAlone
  <2>. QED  BY <2>1, <1>3
<1>5. ASSUME NEW t \in Threads, NEW e \in Events, Fail(t, e) PROVE Promise!Lose(e)
  <2>1. outcome[e] = "open" /\ outcome' = [outcome EXCEPT ![e] = "failed"] /\ rows' = rows
    BY <1>5 DEF Fail, PlaceInv, HandledOpen
  <2>. QED  BY <2>1, <1>3
<1>6. ASSUME NEW t \in Threads, NEW e \in Events, Store(t, e) PROVE Promise!Tell(e, receivers[e])
  <2>1. /\ outcome[e] = "open" /\ outcome' = [outcome EXCEPT ![e] = "stored"]
        /\ rows' = [rows EXCEPT ![e] = OneMore(@, receivers[e])]
    BY <1>6 DEF Store, PlaceInv, HandledOpen
  <2>2. Fate(e) = "owed" /\ Fate(e)' = "told"
    BY <2>1 DEF Fate, TypeOK
  <2>3. fates' = [fates EXCEPT ![e] = "told"]
    BY <2>1, <2>2, FateSet DEF Outcomes
  <2>4. OneMore(rows[e], receivers[e]) = [u \in Users |-> IF u \in receivers[e] THEN 1 ELSE 0]
    BY <2>1 DEF OneMore, AllOrNothing
  <2>. QED  BY <2>1, <2>2, <2>3, <2>4 DEF Promise!Tell, fates
<1>7. ASSUME Crash PROVE Promise!LoseMany({e \in Events : outcome[e] = "open"})
  <2>. DEFINE S == {e \in Events : outcome[e] = "open"}
  <2>1. rows' = rows
        /\ outcome' = [e \in Events |-> IF outcome[e] = "open" THEN "crashed" ELSE outcome[e]]
    BY <1>7 DEF Crash
  <2>2. \A e \in S : Fate(e) = "owed"
    BY DEF Fate
  <2>3. \A e \in Events : Fate(e)' = IF e \in S THEN "lost" ELSE Fate(e)
    BY <2>1 DEF Fate
  <2>. QED  BY <2>1, <2>2, <2>3 DEF Promise!LoseMany, fates
<1>8. CASE UNCHANGED vars
  BY <1>1, <1>8 DEF vars
<1>9. CASE \E e \in Events : Dispatch(e) \/ Reject(e) \/ \E R \in Audiences : CommitSource(e, R)
  <2>1. ASSUME NEW e \in Events, Dispatch(e) PROVE fates' = fates /\ rows' = rows
    BY <1>1, <2>1 DEF Dispatch
  <2>. QED  BY <1>2, <1>4, <1>9, <2>1 DEF Promise!Next, Promise!Settle
<1>10. CASE \E t \in Threads : Take(t) \/ Expire(t)
  BY <1>1, <1>10 DEF Take, Expire
<1>11. CASE \E t \in Threads : HandlerStep(t)
  <2>1. ASSUME NEW t \in Threads, EndHandler(t) \/ \E u \in Users : Push(t, u)
        PROVE  fates' = fates /\ rows' = rows
    BY <1>1, <2>1 DEF EndHandler, Push
  <2>2. \A e \in Events : receivers[e] \in SUBSET Users
    BY DEF TypeOK
  <2>. QED  BY <1>5, <1>6, <1>11, <2>1, <2>2 DEF HandlerStep, Promise!Next, Promise!Settle
<1>12. CASE Crash
  <2>1. {e \in Events : outcome[e] = "open"} \in SUBSET Events
    OBVIOUS
  <2>. QED  BY <1>7, <1>12, <2>1 DEF Promise!Next
<1>. QED  BY <1>8, <1>9, <1>10, <1>11, <1>12 DEF Next

\* The pipeline implements the safety part of NotificationPromise: an event of
\* a committed request is told to all of its receivers at once or lost for
\* all of them, and nothing that was settled changes any more.
THEOREM KeepsPromiseSafely == Spec => Promise!SafeSpec
<1>. QED  BY PromiseInit, PromiseStep, PipeInvariant, PTL DEF Spec, Promise!SafeSpec
=============================================================================
