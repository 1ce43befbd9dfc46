----------------------------- MODULE SseBroker -----------------------------
(***************************************************************************)
(* SseService with its two in-memory repositories: notifications pushed to *)
(* the event streams of connected users, and a bounded store from which a  *)
(* client that reconnects with the id of the last event it saw is brought  *)
(* up to date.                                                             *)
(*                                                                         *)
(* Senders are the threads that call send (the event-task pool, after a    *)
(* notification is committed); a connection is one call of connect and the *)
(* emitter it registers.  Every access to a concurrent collection is one   *)
(* step: the count of the queue, which itself walks it element by element, *)
(* each removal, the insertion into the queue and the insertion into the   *)
(* map are NOT one operation in the code.                                  *)
(*                                                                         *)
(* eventIdQueue only loses its first element and only grows at its end, so *)
(* it is the part of log, the ids ever queued, that lies after position    *)
(* head.  Likewise an iterator over it is a position in log: a position    *)
(* that was evicted meanwhile is left by going to the current first one.   *)
(***************************************************************************)
EXTENDS Integers, Sequences, FiniteSets

CONSTANTS Users,
          Senders,      \* threads that send
          Connections,  \* connect calls, each with its emitter
          Capacity,     \* sse.event-queue-capacity
          MaxMessages,  \* bound: messages created in a behaviour
          NoEvent       \* no LastEventId given, no event at hand

ASSUME SseBrokerAssumption ==
    /\ Capacity \in Nat \ {0}
    /\ MaxMessages \in Nat
    /\ NoEvent \notin Nat
    /\ IsFiniteSet(Senders) /\ Senders # {}

VARIABLES log,          \* event ids in the order they were queued
          head,         \* how many of them have been removed again
          messages,     \* the ids that messages.get finds
          receiver,     \* the receiver of each message created so far
          known,        \* users with a (possibly empty) list of emitters
          emitters,     \* the registered emitters of each user
          sender,       \* what each sender is doing
          conn,         \* what each connect call is doing
          out,          \* the events each emitter accepted, in order
          gone,         \* emitters whose client left, timed out or failed
          overtaken     \* ghost: senders during whose send another one removed an id

vars == <<log, head, messages, receiver, known, emitters, sender, conn, out, gone, overtaken>>

---------------------------------------------------------------------------
(* Types *)

Events == 1..MaxMessages
Idle == [pc |-> "idle"]
Sending == [pc : {"size", "evict", "unmap", "add", "put", "snapshot", "send"},
            event : Events, room : Int, at : Nat, victim : Events \cup {NoEvent},
            targets : SUBSET Connections]
Unborn == [pc |-> "unborn"]
Connecting == [pc : {"save", "scan", "get", "replay", "open", "failed"}, user : Users,
               last : Events \cup {NoEvent}, at : Nat, found : BOOLEAN,
               end : BOOLEAN, replay : Seq(Events)]

TypeOK ==
    /\ log \in Seq(Events)
    /\ head \in 0..Len(log)
    /\ messages \subseteq DOMAIN receiver
    /\ receiver \in Seq(Users) /\ Len(receiver) <= MaxMessages
    /\ known \subseteq Users
    /\ emitters \in [Users -> SUBSET Connections]
    /\ sender \in [Senders -> {Idle} \cup Sending]
    /\ conn \in [Connections -> {Unborn} \cup Connecting]
    /\ out \in [Connections -> Seq(Events)]
    /\ gone \subseteq Connections
    /\ overtaken \subseteq Senders

---------------------------------------------------------------------------
(* Views *)

QueueLen == Len(log) - head
Queued(m) == \E p \in head + 1 .. Len(log) : log[p] = m
Busy(s) == sender[s].pc # "idle"
MakesRoom(s) == sender[s].pc \in {"size", "evict", "unmap"}
Born(c) == conn[c].pc # "unborn"
Received(c) == {out[c][i] : i \in DOMAIN out[c]}

\* The position after p of a walk over the queue: ids removed meanwhile are passed over.
NextAfter(p) == (IF p < head THEN head ELSE p) + 1

\* SseMessage.isReceivable: send addresses a message to one user.
AnyoneMayReceive(m, u) == TRUE          \* Mutant: replay without the filter.
Receivable(m, u) == receiver[m] = u

---------------------------------------------------------------------------
(* SseService.send and SseMessageRepository.save *)

senderVars == <<known, emitters, conn, gone>>

\* A message is created only for a user that has connected since startup.
StartSend(s, u) ==
    /\ ~Busy(s)
    /\ u \in known
    /\ Len(receiver) < MaxMessages
    /\ receiver' = Append(receiver, u)
    /\ sender' = [sender EXCEPT ![s] = [pc |-> "size", event |-> Len(receiver) + 1,
                                        room |-> Capacity, at |-> 0,
                                        victim |-> NoEvent, targets |-> {}]]
    /\ overtaken' = overtaken \ {s}
    /\ UNCHANGED <<log, head, messages, out, senderVars>>

\* Mutant: one id more than the capacity is let in.
WhileNegative(room) == IF room < 0 THEN "evict" ELSE "add"

\* The condition of the loop: while (availableCapacity < 1).
WhileFull(room) == IF room < 1 THEN "evict" ELSE "add"

\* eventIdQueue.size() walks the queue: room is the capacity less the ids met
\* so far.  An id that is removed after it was met stays counted, one that is
\* added before the walk has come to its end is counted too.
ReadSize(s) ==
    LET p == NextAfter(sender[s].at)
    IN /\ sender[s].pc = "size"
       /\ \/ /\ p <= Len(log)
             /\ sender' = [sender EXCEPT ![s].room = @ - 1, ![s].at = p]
          \/ /\ p > Len(log)
             /\ sender' = [sender EXCEPT ![s].pc = WhileFull(sender[s].room), ![s].at = 0]
       /\ UNCHANGED <<log, head, messages, receiver, out, overtaken, senderVars>>

\* Mutant: the message is dropped before its id leaves the queue.
EvictMessageFirst(s) ==
    /\ sender[s].pc = "evict" /\ QueueLen > 0
    /\ messages' = messages \ {log[head + 1]}
    /\ sender' = [sender EXCEPT ![s].pc = "unmap", ![s].victim = log[head + 1]]
    /\ UNCHANGED <<log, head, receiver, out, overtaken, senderVars>>

\* removeFirst, which throws on an empty queue: the message is then lost.
Evict(s) ==
    /\ sender[s].pc = "evict"
    /\ \/ /\ QueueLen > 0
          /\ head' = head + 1
          /\ sender' = [sender EXCEPT ![s].pc = "unmap", ![s].victim = log[head + 1]]
          /\ overtaken' = overtaken \cup {r \in Senders \ {s} : MakesRoom(r)}
       \/ /\ QueueLen = 0
          /\ sender' = [sender EXCEPT ![s] = Idle]
          /\ UNCHANGED <<head, overtaken>>
    /\ UNCHANGED <<log, messages, receiver, out, senderVars>>

RoomStuck(s) == sender[s].room          \* Mutant: availableCapacity++ is missing.
RoomGained(s) == sender[s].room + 1

\* messages.remove of the evicted id, then the loop condition.
Unmap(s) ==
    /\ sender[s].pc = "unmap"
    /\ messages' = messages \ {sender[s].victim}
    /\ sender' = [sender EXCEPT ![s].room = RoomGained(s), ![s].victim = NoEvent,
                                ![s].pc = WhileFull(RoomGained(s))]
    /\ UNCHANGED <<log, head, receiver, out, overtaken, senderVars>>

\* Mutant: the id that was removed is queued again.
AddVictim(s) ==
    /\ sender[s].pc = "add"
    /\ log' = Append(log, sender[s].victim)
    /\ sender' = [sender EXCEPT ![s].pc = "put", ![s].room = 0]
    /\ UNCHANGED <<head, messages, receiver, out, overtaken, senderVars>>

Add(s) ==
    /\ sender[s].pc = "add"
    /\ log' = Append(log, sender[s].event)
    /\ sender' = [sender EXCEPT ![s].pc = "put", ![s].room = 0]
    /\ UNCHANGED <<head, messages, receiver, out, overtaken, senderVars>>

Put(s) ==
    /\ sender[s].pc = "put"
    /\ messages' = messages \cup {sender[s].event}
    /\ sender' = [sender EXCEPT ![s].pc = "snapshot"]
    /\ UNCHANGED <<log, head, receiver, out, overtaken, senderVars>>

\* forEach over a CopyOnWriteArrayList works on the list as it is now.
Snapshot(s) ==
    /\ sender[s].pc = "snapshot"
    /\ sender' = [sender EXCEPT ![s].pc = "send", ![s].targets = emitters[receiver[sender[s].event]]]
    /\ UNCHANGED <<log, head, messages, receiver, out, overtaken, senderVars>>

\* Mutant: the exception of one emitter ends the loop.
ForgetAll(s, c) == [sender[s] EXCEPT !.targets = IF c \in gone THEN {} ELSE @ \ {c}]

Forget(s, c) == [sender[s] EXCEPT !.targets = @ \ {c}]

\* One emitter of the snapshot.  An emitter whose client is gone throws and
\* the loop goes on with the next one.
Deliver(s, c) ==
    /\ sender[s].pc = "send" /\ c \in sender[s].targets
    /\ out' = IF c \in gone THEN out ELSE [out EXCEPT ![c] = Append(@, sender[s].event)]
    /\ sender' = [sender EXCEPT ![s] = Forget(s, c)]
    /\ UNCHANGED <<log, head, messages, receiver, overtaken, senderVars>>

EndSend(s) ==
    /\ sender[s].pc = "send" /\ sender[s].targets = {}
    /\ sender' = [sender EXCEPT ![s] = Idle]
    /\ UNCHANGED <<log, head, messages, receiver, out, overtaken, senderVars>>

---------------------------------------------------------------------------
(* SseService.connect *)

connVars == <<log, head, messages, receiver, sender, overtaken>>

\* What a client of this user can name as the last event it saw.
SeenBy(u) == UNION {Received(c) : c \in {d \in Connections : Born(d) /\ conn[d].user = u}}

\* putIfAbsent of the user's list; the emitter is added in the next step.
Connect(c, u, last) ==
    /\ ~Born(c)
    /\ last \in SeenBy(u) \cup {NoEvent}
    /\ known' = known \cup {u}
    /\ conn' = [conn EXCEPT ![c] = [pc |-> "save", user |-> u, last |-> last, at |-> 0,
                                    found |-> FALSE, end |-> FALSE, replay |-> << >>]]
    /\ UNCHANGED <<connVars, emitters, out, gone>>

\* The emitter is registered before anything is replayed.
Save(c) ==
    /\ conn[c].pc = "save"
    /\ emitters' = [emitters EXCEPT ![conn[c].user] = @ \cup {c}]
    /\ conn' = [conn EXCEPT ![c].pc = IF conn[c].last = NoEvent THEN "open" ELSE "scan"]
    /\ UNCHANGED <<connVars, known, out, gone>>

\* The iterator goes to the next id; whether there is another one after it
\* is read at the same time (end).  Ids up to and including last are skipped.
NextAt(c) == NextAfter(conn[c].at)

SkipsOneMore(c) == ~conn[c].found \/ log[conn[c].at] = conn[c].last     \* Mutant: skip(2).
Skips(c) == ~conn[c].found              \* dropWhile, then skip(1)

Advance(c) ==
    LET p == NextAt(c)
    IN /\ conn[c].pc = "scan"
       /\ \/ /\ p <= Len(log) /\ ~conn[c].end
             /\ conn' = [conn EXCEPT ![c].at = p,
                                     ![c].end = (p = Len(log)),
                                     ![c].found = @ \/ log[p] = conn[c].last,
                                     ![c].pc = IF Skips(c) THEN "scan" ELSE "get"]
          \/ /\ p > Len(log) \/ conn[c].end
             /\ conn' = [conn EXCEPT ![c].pc = "replay"]
       /\ UNCHANGED <<connVars, known, emitters, out, gone>>

\* messages.get of the id at hand: a message of another user is filtered out;
\* an id without a message is a null that the filter dereferences, and the
\* exception leaves connect with the emitter registered.
Lookup(c) ==
    LET m == log[conn[c].at]
    IN /\ conn[c].pc = "get"
       /\ conn' = IF m \notin messages THEN [conn EXCEPT ![c].pc = "failed"]
                  ELSE [conn EXCEPT ![c].pc = "scan",
                                    ![c].replay = IF Receivable(m, conn[c].user)
                                                  THEN Append(@, m) ELSE @]
       /\ UNCHANGED <<connVars, known, emitters, out, gone>>

Replay(c) ==
    /\ conn[c].pc = "replay" /\ conn[c].replay # << >>
    /\ out' = [out EXCEPT ![c] = Append(@, Head(conn[c].replay))]
    /\ conn' = [conn EXCEPT ![c].replay = Tail(@)]
    /\ UNCHANGED <<connVars, known, emitters, gone>>

EndConnect(c) ==
    /\ conn[c].pc = "replay" /\ conn[c].replay = << >>
    /\ conn' = [conn EXCEPT ![c].pc = "open", ![c].at = 0, ![c].end = FALSE]
    /\ UNCHANGED <<connVars, known, emitters, out, gone>>

---------------------------------------------------------------------------
(* The end of a connection *)

\* The client leaves, the timeout passes, or a write fails.  Until connect has
\* returned, the emitter only buffers and nothing can happen to it.
Leave(c) ==
    /\ conn[c].pc = "open" /\ c \notin gone
    /\ gone' = gone \cup {c}
    /\ UNCHANGED <<connVars, known, emitters, conn, out>>

Without(c) == [emitters EXCEPT ![conn[c].user] = @ \ {c}]

\* The callback of the emitter (or the failing ping of cleanUp, which ends in
\* the same callback) takes it off the list; the list itself stays.
Remove(c) ==
    /\ c \in gone /\ c \in emitters[conn[c].user]
    /\ emitters' = Without(c)
    /\ UNCHANGED <<connVars, known, conn, out, gone>>

---------------------------------------------------------------------------

\* Nothing has been sent yet; some users may have connected and left again.
Init ==
    /\ log = << >> /\ head = 0 /\ messages = {} /\ receiver = << >>
    /\ known \in SUBSET Users /\ emitters = [u \in Users |-> {}]
    /\ sender = [s \in Senders |-> Idle]
    /\ conn = [c \in Connections |-> Unborn]
    /\ out = [c \in Connections |-> << >>]
    /\ gone = {} /\ overtaken = {}

SendStep(s) ==
    \/ ReadSize(s) \/ Evict(s) \/ Unmap(s) \/ Add(s) \/ Put(s) \/ Snapshot(s) \/ EndSend(s)
    \/ \E c \in Connections : Deliver(s, c)

ConnectStep(c) ==
    Save(c) \/ Advance(c) \/ Lookup(c) \/ Replay(c) \/ EndConnect(c)

Next ==
    \/ \E s \in Senders : SendStep(s) \/ \E u \in Users : StartSend(s, u)
    \/ \E c \in Connections :
          \/ ConnectStep(c) \/ Leave(c) \/ Remove(c)
          \/ \E u \in Users, last \in Events \cup {NoEvent} : Connect(c, u, last)

Spec == Init /\ [][Next]_vars

---------------------------------------------------------------------------
(* Properties *)

\* makeAvailableCapacity checks the size and adds in separate steps, so the
\* capacity can be exceeded, but only by the other senders that found room at
\* the same time.
AboutToAdd == {s \in Senders : sender[s].pc = "add"}
QueueBound == QueueLen + Cardinality(AboutToAdd) <= Capacity + Cardinality(Senders) - 1

\* A count may name ids that other senders have removed since, and the sender
\* removes as many again: the queue can run empty under it, and its message is
\* lost.  It never does to a sender that was alone in removing ids, whatever
\* was queued while it counted.
EvictionFailsOnlyOvertaken ==
    \A s \in Senders : sender[s].pc = "evict" /\ QueueLen = 0 => s \in overtaken

\* An id in the queue has its message in the map, except while its own sender
\* is between the two insertions: only there can a replay meet a null.
QueuedHasMessage ==
    \A m \in DOMAIN receiver : Queued(m) /\ m \notin messages =>
        \E s \in Senders : sender[s].pc = "put" /\ sender[s].event = m

\* No emitter is ever given an event of another user, live or replayed.
OnlyOwnEvents ==
    \A c \in Connections : \A m \in Received(c) : receiver[m] = conn[c].user

\* A client reconnects with the last event it saw, while that event is still
\* queued when connect looks for it.  Once connect has returned, every later
\* event of this user that is still queued has reached the new emitter, live
\* or by replay, unless its sender is still at work.  It holds because connect
\* registers before it scans, send stores before it reads the emitters, and an
\* emitter that fails does not end the loop over them.
NoGap ==
    \A c \in Connections : conn[c].pc = "open" /\ conn[c].found /\ c \notin gone =>
        \A p, q \in head + 1 .. Len(log) :
            p < q /\ log[p] = conn[c].last /\ receiver[log[q]] = conn[c].user =>
                \/ log[q] \in Received(c)
                \/ \E s \in Senders : Busy(s) /\ sender[s].event = log[q]
=============================================================================
