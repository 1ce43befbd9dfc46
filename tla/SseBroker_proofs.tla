-------------------------- MODULE SseBroker_proofs --------------------------
(***************************************************************************)
(* Proofs about SseBroker, for any number of users, senders, connections    *)
(* and messages and for any capacity.                                       *)
(***************************************************************************)
EXTENDS SseBroker, FiniteSetTheorems, SequenceTheorems, TLAPS

---------------------------------------------------------------------------
(* Type correctness *)

\* A sender works on a message that was created, an iterator stands on an id
\* that was queued.
InHand ==
    /\ \A s \in Senders : Busy(s) => sender[s].event \in DOMAIN receiver
    /\ \A c \in Connections : conn[c].pc = "get" => conn[c].at \in 1..Len(log)

TypeInv == TypeOK /\ InHand

\* The initial state has the types.
LEMMA InitType == Init => TypeInv
BY SseBrokerAssumption, EmptySeq DEF Init, TypeInv, TypeOK, InHand, Busy, Idle, Unborn

\* What the cases below need of the types of log, receiver and out.
LEMMA Lengths ==
    ASSUME TypeOK
    PROVE  /\ Len(log) \in Nat /\ Len(receiver) \in Nat
           /\ DOMAIN receiver = 1..Len(receiver) /\ DOMAIN receiver \subseteq Events
           /\ head \in Nat /\ head <= Len(log) /\ QueueLen \in Nat
           /\ \A p \in 1..Len(log) : log[p] \in Events
<1>1. log \in Seq(Events) /\ receiver \in Seq(Users) /\ head \in 0..Len(log)
      /\ Len(receiver) <= MaxMessages
  BY DEF TypeOK
<1>2. Len(log) \in Nat /\ Len(receiver) \in Nat /\ DOMAIN receiver = 1..Len(receiver)
  BY <1>1, LenProperties
<1>3. \A p \in 1..Len(log) : log[p] \in Events
  BY <1>1, ElementOfSeq
<1>. QED  BY <1>1, <1>2, <1>3, SseBrokerAssumption DEF QueueLen, Events

\* A busy sender has a full record, a born connection too.
LEMMA Records ==
    ASSUME TypeOK
    PROVE  /\ \A s \in Senders : Busy(s) => sender[s] \in Sending
           /\ \A c \in Connections : Born(c) => conn[c] \in Connecting
BY DEF TypeOK, Busy, Born, Idle, Unborn

\* The record of a sender after an insertion, and after an eviction.
LEMMA AddRecord ==
    ASSUME NEW t \in Sending, NEW r \in Int
    PROVE  /\ [t EXCEPT !.pc = "put", !.room = r] \in Sending
           /\ [t EXCEPT !.pc = "put", !.room = r].event = t.event
BY DEF Sending

(* A sender that has dropped an evicted message stays a sender of the same event. *)
LEMMA UnmapRecord ==
    ASSUME NEW t \in Sending, NEW r \in Int, NEW p \in {"evict", "add"}
    PROVE  /\ [t EXCEPT !.room = r, !.victim = NoEvent, !.pc = p] \in Sending
           /\ [t EXCEPT !.room = r, !.victim = NoEvent, !.pc = p].event = t.event
BY DEF Sending

\* The record of a sender that counts one more id, and of one that has counted all.
LEMMA SizeRecord ==
    ASSUME NEW t \in Sending, NEW r \in Int, NEW a \in Nat, NEW p \in {"evict", "add"}
    PROVE  /\ [t EXCEPT !.room = r, !.at = a] \in Sending
           /\ [t EXCEPT !.pc = p, !.at = a] \in Sending
           /\ [t EXCEPT !.room = r, !.at = a].event = t.event
           /\ [t EXCEPT !.pc = p, !.at = a].event = t.event
BY DEF Sending

\* Where a walk goes next, and how the loop goes on.
LEMMA WalkMoves ==
    ASSUME TypeOK
    PROVE  /\ \A p \in Nat : NextAfter(p) \in Nat \ {0} /\ NextAfter(p) > p /\ NextAfter(p) > head
           /\ \A r \in Int : WhileFull(r) \in {"evict", "add"} /\ (WhileFull(r) = "evict" <=> r < 1)
BY Lengths DEF NextAfter, WhileFull

\* A step gives a busy sender another record, of the same event, or ends it.
LEMMA SenderUpdate ==
    ASSUME TypeOK, NEW s \in Senders, Busy(s),
           \E x \in {Idle} \cup Sending :
              /\ x.pc # "idle" => x.event = sender[s].event
              /\ sender' = [sender EXCEPT ![s] = x]
    PROVE  /\ sender' \in [Senders -> {Idle} \cup Sending]
           /\ \A r \in Senders : Busy(r)' => Busy(r) /\ sender'[r].event = sender[r].event
           /\ \A r \in Senders \ {s} : sender'[r] = sender[r]
<1>1. sender \in [Senders -> {Idle} \cup Sending]
  BY DEF TypeOK
<1>. QED  BY <1>1 DEF Busy

\* A step of a sender changes its own record only, and not the event in it.
LEMMA SendRecord ==
    ASSUME TypeInv, NEW s \in Senders, SendStep(s)
    PROVE  /\ Busy(s) /\ sender[s] \in Sending /\ sender[s].event \in DOMAIN receiver
           /\ sender' \in [Senders -> {Idle} \cup Sending]
           /\ \A r \in Senders : Busy(r)' => Busy(r) /\ sender'[r].event = sender[r].event
           /\ \A r \in Senders \ {s} : sender'[r] = sender[r]
<1>. USE DEF TypeInv
<1>. DEFINE t == sender[s]
<1>1. Busy(s) /\ t \in Sending /\ t.event \in DOMAIN receiver
      /\ t.pc \in {"size", "evict", "unmap", "add", "put", "snapshot", "send"}
  BY Records DEF SendStep, ReadSize, Evict, Unmap, Add, Put, Snapshot, EndSend, Deliver,
                 Busy, InHand, Sending
<1>2. /\ sender' \in [Senders -> {Idle} \cup Sending]
      /\ \A r \in Senders : Busy(r)' => Busy(r) /\ sender'[r].event = sender[r].event
      /\ \A r \in Senders \ {s} : sender'[r] = sender[r]
  <2>0. SUFFICES \E x \in {Idle} \cup Sending :
                   /\ x.pc # "idle" => x.event = t.event
                   /\ sender' = [sender EXCEPT ![s] = x]
    BY <1>1, SenderUpdate
  <2>1. CASE ReadSize(s)
    <3>. DEFINE p == NextAfter(t.at)
                q == WhileFull(t.room)
                r == t.room - 1
    <3>1. t.at \in Nat /\ t.room \in Int /\ r \in Int
      BY <1>1 DEF Sending
    <3>2. p \in Nat /\ q \in {"evict", "add"}
      BY <3>1, WalkMoves
    <3>3. CASE sender' = [sender EXCEPT ![s].room = @ - 1, ![s].at = p]
      <4>1. sender' = [sender EXCEPT ![s] = [t EXCEPT !.room = r, !.at = p]]
        BY <3>3 DEF TypeOK
      <4>. HIDE DEF p, q, r
      <4>2. [t EXCEPT !.room = r, !.at = p] \in Sending
            /\ [t EXCEPT !.room = r, !.at = p].event = t.event
        BY <1>1, <3>1, <3>2, SizeRecord
      <4>. QED  BY <4>1, <4>2
    <3>4. CASE sender' = [sender EXCEPT ![s].pc = q, ![s].at = 0]
      <4>1. sender' = [sender EXCEPT ![s] = [t EXCEPT !.pc = q, !.at = 0]]
        BY <3>4 DEF TypeOK
      <4>. HIDE DEF p, q, r
      <4>2. [t EXCEPT !.pc = q, !.at = 0] \in Sending
            /\ [t EXCEPT !.pc = q, !.at = 0].event = t.event
        BY <1>1, <3>1, <3>2, SizeRecord, 0 \in Nat
      <4>. QED  BY <4>1, <4>2
    <3>. QED  BY <2>1, <3>3, <3>4 DEF ReadSize
  <2>2. CASE Evict(s)
    <3>. DEFINE x == [t EXCEPT !.pc = "unmap", !.victim = log[head + 1]]
    <3>1. CASE QueueLen > 0 /\ sender' = [sender EXCEPT ![s].pc = "unmap", ![s].victim = log[head + 1]]
      <4>1. log[head + 1] \in Events
        BY <3>1, Lengths DEF QueueLen
      <4>2. x \in Sending /\ x.event = t.event
        BY <1>1, <4>1 DEF Sending
      <4>3. sender' = [sender EXCEPT ![s] = x]
        BY <3>1 DEF TypeOK
      <4>. QED  BY <4>2, <4>3
    <3>2. CASE sender' = [sender EXCEPT ![s] = Idle]
      BY <3>2 DEF Idle
    <3>. QED  BY <2>2, <3>1, <3>2 DEF Evict
  <2>3. CASE Unmap(s)
    <3>. DEFINE r == RoomGained(s)
                p == WhileFull(r)
                x == [t EXCEPT !.room = r, !.victim = NoEvent, !.pc = p]
    <3>1. t \in Sending /\ r \in Int /\ p \in {"evict", "add"}
      BY <1>1, WalkMoves DEF RoomGained, Sending
    <3>2. sender' = [sender EXCEPT ![s] = x]
      BY <2>3 DEF Unmap, TypeOK
    <3>3. x \in Sending /\ x.event = t.event
      <4>. HIDE DEF t, r, p
      <4>. QED  BY <3>1, UnmapRecord
    <3>. QED  BY <3>2, <3>3
  <2>4. CASE Add(s)
    <3>. DEFINE x == [t EXCEPT !.pc = "put", !.room = 0]
    <3>1. x \in Sending /\ x.event = t.event
      BY <1>1, 0 \in Int, AddRecord, Zenon
    <3>2. sender' = [sender EXCEPT ![s] = x]
      BY <2>4 DEF Add, TypeOK
    <3>. QED  BY <3>1, <3>2
  <2>5. CASE Put(s)
    <3>. DEFINE x == [t EXCEPT !.pc = "snapshot"]
    <3>1. x \in Sending /\ x.event = t.event
      BY <1>1 DEF Sending
    <3>2. sender' = [sender EXCEPT ![s] = x]
      BY <2>5 DEF Put, TypeOK
    <3>. QED  BY <3>1, <3>2
  <2>6. CASE Snapshot(s)
    <3>. DEFINE x == [t EXCEPT !.pc = "send", !.targets = emitters[receiver[t.event]]]
    <3>1. receiver[t.event] \in Users
      BY <1>1, Lengths, ElementOfSeq DEF TypeOK
    <3>2. emitters[receiver[t.event]] \in SUBSET Connections
      BY <3>1 DEF TypeOK
    <3>3. x \in Sending /\ x.event = t.event
      BY <1>1, <3>2 DEF Sending
    <3>4. sender' = [sender EXCEPT ![s] = x]
      BY <2>6 DEF Snapshot, TypeOK
    <3>. QED  BY <3>3, <3>4
  <2>7. CASE EndSend(s)
    BY <2>7 DEF EndSend, Idle
  <2>8. CASE \E c \in Connections : Deliver(s, c)
    <3>1. PICK c \in Connections : Deliver(s, c)
      BY <2>8
    <3>2. Forget(s, c) \in Sending /\ Forget(s, c).event = t.event
      BY <1>1 DEF Sending, Forget
    <3>. QED  BY <3>1, <3>2 DEF Deliver
  <2>. QED  BY <2>1, <2>2, <2>3, <2>4, <2>5, <2>6, <2>7, <2>8 DEF SendStep
<1>. QED  BY <1>1, <1>2

\* The steps of a sender keep the types.
LEMMA SendType ==
    ASSUME TypeInv, NEW s \in Senders, SendStep(s)
    PROVE  TypeInv'
<1>. USE DEF TypeInv
<1>. DEFINE t == sender[s]
<1>1. Busy(s) /\ t \in Sending /\ t.event \in DOMAIN receiver
  BY SendRecord
<1>2. /\ sender' \in [Senders -> {Idle} \cup Sending]
      /\ \A r \in Senders : Busy(r)' => Busy(r) /\ sender'[r].event = sender[r].event
  BY SendRecord
<1>3. /\ log' \in Seq(Events) /\ head' \in 0..Len(log')
      /\ Len(log) \in Nat /\ Len(log') \in Nat /\ Len(log') >= Len(log)
  <2>1. CASE Evict(s)
    BY <2>1, Lengths DEF Evict, TypeOK, QueueLen
  <2>2. CASE Add(s)
    <3>1. log \in Seq(Events) /\ t.event \in Events /\ log' = Append(log, t.event)
      BY <1>1, <2>2 DEF Add, TypeOK, Sending
    <3>2. log' \in Seq(Events) /\ Len(log') = Len(log) + 1
      BY <3>1
    <3>. QED  BY <2>2, <3>2, Lengths DEF Add
  <2>3. CASE UNCHANGED <<log, head>>
    BY <2>3, Lengths DEF TypeOK
  <2>. QED  BY <2>1, <2>2, <2>3 DEF SendStep, ReadSize, Unmap, Put, Snapshot, EndSend, Deliver
<1>4. /\ messages' \subseteq DOMAIN receiver /\ overtaken' \subseteq Senders
      /\ UNCHANGED <<receiver, senderVars>>
  BY <1>1 DEF SendStep, ReadSize, Evict, Unmap, Add, Put, Snapshot, EndSend, Deliver, TypeOK
<1>5. out' \in [Connections -> Seq(Events)]
  <2>1. CASE \E c \in Connections : Deliver(s, c)
    <3>1. PICK c \in Connections : Deliver(s, c)
      BY <2>1
    <3>2. Append(out[c], t.event) \in Seq(Events)
      BY <1>1 DEF TypeOK, Sending
    <3>. QED  BY <3>1, <3>2 DEF Deliver, TypeOK
  <2>2. CASE UNCHANGED out
    BY <2>2 DEF TypeOK
  <2>. QED  BY <2>1, <2>2 DEF SendStep, ReadSize, Evict, Unmap, Add, Put, Snapshot, EndSend
<1>6. TypeOK'
  BY <1>2, <1>3, <1>4, <1>5 DEF TypeOK, senderVars
<1>7. InHand'
  BY <1>2, <1>3, <1>4 DEF InHand, senderVars
<1>. QED  BY <1>6, <1>7

\* So does the start of a send.
LEMMA StartType ==
    ASSUME TypeInv, NEW s \in Senders, NEW u \in Users, StartSend(s, u)
    PROVE  TypeInv'
<1>. USE DEF TypeInv
<1>1. /\ receiver' \in Seq(Users) /\ Len(receiver') = Len(receiver) + 1
      /\ Len(receiver') <= MaxMessages /\ DOMAIN receiver' = 1..Len(receiver')
      /\ DOMAIN receiver \subseteq DOMAIN receiver' /\ Len(receiver) + 1 \in Events
      /\ Len(receiver) + 1 \in DOMAIN receiver'
  <2>1. receiver \in Seq(Users) /\ receiver' = Append(receiver, u) /\ Len(receiver) < MaxMessages
    BY DEF StartSend, TypeOK
  <2>2. receiver' \in Seq(Users) /\ Len(receiver') = Len(receiver) + 1
    BY <2>1
  <2>3. DOMAIN receiver' = 1..Len(receiver')
    BY <2>2, LenProperties
  <2>. QED  BY <2>1, <2>2, <2>3, Lengths, SseBrokerAssumption DEF Events
<1>2. sender' \in [Senders -> {Idle} \cup Sending]
  BY <1>1, SseBrokerAssumption DEF StartSend, TypeOK, Sending
<1>3. UNCHANGED <<log, head, messages, out, known, emitters, conn, gone>>
      /\ overtaken' \subseteq Senders
  BY DEF StartSend, senderVars, TypeOK
<1>4. TypeOK'
  BY <1>1, <1>2, <1>3 DEF TypeOK
<1>5. InHand'
  BY <1>1, <1>3 DEF StartSend, InHand, Busy, TypeOK
<1>. QED  BY <1>4, <1>5

\* A connection that changes its record keeps the types of conn, and of the
\* rest when that is left alone.
LEMMA ConnUpdate ==
    ASSUME TypeInv, NEW c \in Connections,
           UNCHANGED <<log, head, messages, receiver, sender, overtaken>>,
           known' \subseteq Users, emitters' \in [Users -> SUBSET Connections],
           out' \in [Connections -> Seq(Events)], gone' \subseteq Connections,
           NEW x \in Connecting, x.pc = "get" => x.at \in 1..Len(log),
           conn' = [conn EXCEPT ![c] = x]
    PROVE  TypeInv'
<1>1. conn \in [Connections -> {Unborn} \cup Connecting]
  BY DEF TypeInv, TypeOK
<1>2. conn' \in [Connections -> {Unborn} \cup Connecting]
  BY <1>1
<1>3. TypeOK'
  BY <1>2 DEF TypeInv, TypeOK
<1>4. InHand'
  BY <1>1 DEF TypeInv, InHand, Busy
<1>. QED  BY <1>3, <1>4 DEF TypeInv

\* Changed records of a connection.
LEMMA ConnectingRecords ==
    ASSUME NEW k \in Connecting
    PROVE  /\ \A p \in {"save", "scan", "get", "replay", "open", "failed"} :
                 [k EXCEPT !.pc = p] \in Connecting /\ [k EXCEPT !.pc = p].pc = p
           /\ \A r \in Seq(Events) : [k EXCEPT !.replay = r] \in Connecting
           /\ \A r \in Seq(Events) : [k EXCEPT !.replay = r].pc = k.pc
BY DEF Connecting

(* A connection that fetched an event for its replay goes back to its scan. *)
LEMMA LookupRecord ==
    ASSUME NEW k \in Connecting, NEW r \in Seq(Events)
    PROVE  LET x == [k EXCEPT !.pc = "scan", !.replay = r]
           IN  x \in Connecting /\ x.pc = "scan"
BY DEF Connecting

(* A connection that has replayed everything is open. *)
LEMMA EndRecord ==
    ASSUME NEW k \in Connecting, NEW a \in Nat
    PROVE  LET x == [k EXCEPT !.pc = "open", !.at = a, !.end = FALSE]
           IN  x \in Connecting /\ x.pc = "open"
BY DEF Connecting

\* The steps of a connection keep the types.
LEMMA ConnectType ==
    ASSUME TypeInv, NEW c \in Connections, ConnectStep(c)
    PROVE  TypeInv'
<1>. DEFINE k == conn[c]
<1>1. /\ k \in Connecting /\ k.user \in Users /\ k.replay \in Seq(Events)
      /\ k.at \in Nat /\ k.end \in BOOLEAN /\ k.found \in BOOLEAN
  <2>1. Born(c)
    BY DEF ConnectStep, Save, Advance, Lookup, Replay, EndConnect, Born
  <2>2. k \in Connecting
    BY <2>1, Records DEF TypeInv
  <2>. QED  BY <2>2 DEF Connecting
<1>2. /\ known \subseteq Users /\ emitters \in [Users -> SUBSET Connections]
      /\ out \in [Connections -> Seq(Events)] /\ gone \subseteq Connections
      /\ conn \in [Connections -> {Unborn} \cup Connecting]
  BY DEF TypeInv, TypeOK
<1>3. Len(log) \in Nat /\ head \in Nat /\ \A p \in 1..Len(log) : log[p] \in Events
  BY Lengths DEF TypeInv
<1>4. CASE Save(c)
  <2>. DEFINE p == IF k.last = NoEvent THEN "open" ELSE "scan"
              x == [k EXCEPT !.pc = p]
  <2>1. x \in Connecting /\ x.pc # "get"
    <3>1. p \in {"open", "scan"}
      OBVIOUS
    <3>. HIDE DEF p, k
    <3>. QED  BY <1>1, <3>1, ConnectingRecords
  <2>2. conn' = [conn EXCEPT ![c] = x]
    BY <1>2, <1>4 DEF Save
  <2>3. emitters' \in [Users -> SUBSET Connections]
    BY <1>1, <1>2, <1>4 DEF Save
  <2>4. UNCHANGED <<log, head, messages, receiver, sender, overtaken, known, out, gone>>
    BY <1>4 DEF Save, connVars
  <2>. HIDE DEF x
  <2>. QED  BY <1>2, <2>1, <2>2, <2>3, <2>4, ConnUpdate
<1>5. CASE Advance(c)
  <2>1. UNCHANGED <<log, head, messages, receiver, sender, overtaken, known, emitters, out, gone>>
    BY <1>5 DEF Advance, connVars
  <2>2. CASE /\ NextAt(c) <= Len(log)
             /\ conn' = [conn EXCEPT ![c].at = NextAt(c),
                                     ![c].end = (NextAt(c) = Len(log)),
                                     ![c].found = @ \/ log[NextAt(c)] = conn[c].last,
                                     ![c].pc = IF Skips(c) THEN "scan" ELSE "get"]
    <3>. DEFINE a == NextAt(c)
                e == (a = Len(log))
                f == (k.found \/ log[a] = k.last)
                p == IF Skips(c) THEN "scan" ELSE "get"
                x == [k EXCEPT !.at = a, !.end = e, !.found = f, !.pc = p]
    <3>1. /\ a \in Nat /\ a \in 1..Len(log) /\ e \in BOOLEAN /\ f \in BOOLEAN
          /\ p \in {"scan", "get"}
      BY <1>1, <1>3, <2>2 DEF NextAt, NextAfter
    <3>2. x \in Connecting /\ x.at = a
      <4>. HIDE DEF k, a, e, f, p
      <4>. QED  BY <1>1, <3>1 DEF Connecting
    <3>3. conn' = [conn EXCEPT ![c] = x]
      BY <1>2, <2>2
    <3>. HIDE DEF x, a
    <3>. QED  BY <1>2, <2>1, <3>1, <3>2, <3>3, ConnUpdate
  <2>3. CASE conn' = [conn EXCEPT ![c].pc = "replay"]
    <3>. DEFINE x == [k EXCEPT !.pc = "replay"]
    <3>1. x \in Connecting /\ x.pc = "replay"
      BY <1>1, ConnectingRecords
    <3>2. conn' = [conn EXCEPT ![c] = x]
      BY <1>2, <2>3
    <3>. HIDE DEF x
    <3>. QED  BY <1>2, <2>1, <3>1, <3>2, ConnUpdate
  <2>. QED  BY <1>5, <2>2, <2>3 DEF Advance
<1>6. CASE Lookup(c)
  <2>1. UNCHANGED <<log, head, messages, receiver, sender, overtaken, known, emitters, out, gone>>
    BY <1>6 DEF Lookup, connVars
  <2>2. CASE conn' = [conn EXCEPT ![c].pc = "failed"]
    <3>. DEFINE x == [k EXCEPT !.pc = "failed"]
    <3>1. x \in Connecting /\ x.pc = "failed"
      BY <1>1, ConnectingRecords
    <3>2. conn' = [conn EXCEPT ![c] = x]
      BY <1>2, <2>2
    <3>. HIDE DEF x
    <3>. QED  BY <1>2, <2>1, <3>1, <3>2, ConnUpdate
  <2>3. CASE /\ log[k.at] \in messages
             /\ conn' = [conn EXCEPT ![c].pc = "scan",
                                     ![c].replay = IF Receivable(log[k.at], k.user)
                                                   THEN Append(@, log[k.at]) ELSE @]
    <3>. DEFINE m == log[k.at]
                r == IF Receivable(m, k.user) THEN Append(k.replay, m) ELSE k.replay
                x == [k EXCEPT !.pc = "scan", !.replay = r]
    <3>1. m \in Events
      BY <1>3, <1>6 DEF Lookup, TypeInv, InHand
    <3>2. r \in Seq(Events)
      BY <1>1, <3>1
    <3>3. x \in Connecting /\ x.pc = "scan"
      <4>. HIDE DEF k, r
      <4>. QED  BY <1>1, <3>2, LookupRecord
    <3>4. conn' = [conn EXCEPT ![c] = x]
      BY <1>2, <2>3
    <3>. HIDE DEF x
    <3>. QED  BY <1>2, <2>1, <3>3, <3>4, ConnUpdate
  <2>. QED  BY <1>6, <2>2, <2>3 DEF Lookup
<1>7. CASE Replay(c)
  <2>. DEFINE x == [k EXCEPT !.replay = Tail(k.replay)]
  <2>1. Head(k.replay) \in Events /\ Tail(k.replay) \in Seq(Events)
    BY <1>1, <1>7 DEF Replay
  <2>2. x \in Connecting /\ x.pc = "replay"
    <3>1. k.pc = "replay"
      BY <1>7 DEF Replay
    <3>. HIDE DEF k
    <3>. QED  BY <1>1, <2>1, <3>1, ConnectingRecords
  <2>3. conn' = [conn EXCEPT ![c] = x]
    BY <1>2, <1>7 DEF Replay
  <2>4. Append(out[c], Head(k.replay)) \in Seq(Events)
    BY <1>2, <2>1
  <2>5. out' \in [Connections -> Seq(Events)]
    BY <1>2, <1>7, <2>4 DEF Replay
  <2>6. UNCHANGED <<log, head, messages, receiver, sender, overtaken, known, emitters, gone>>
    BY <1>7 DEF Replay, connVars
  <2>. HIDE DEF x
  <2>. QED  BY <1>2, <2>2, <2>3, <2>5, <2>6, ConnUpdate
<1>8. CASE EndConnect(c)
  <2>. DEFINE x == [k EXCEPT !.pc = "open", !.at = 0, !.end = FALSE]
  <2>1. x \in Connecting /\ x.pc = "open"
    <3>1. 0 \in Nat
      OBVIOUS
    <3>. HIDE DEF k
    <3>. QED  BY <1>1, <3>1, EndRecord
  <2>2. conn' = [conn EXCEPT ![c] = x]
    BY <1>2, <1>8 DEF EndConnect
  <2>3. UNCHANGED <<log, head, messages, receiver, sender, overtaken, known, emitters, out, gone>>
    BY <1>8 DEF EndConnect, connVars
  <2>. HIDE DEF x
  <2>. QED  BY <1>2, <2>1, <2>2, <2>3, ConnUpdate
<1>. QED  BY <1>4, <1>5, <1>6, <1>7, <1>8 DEF ConnectStep

\* A new connection, and the end of one.
LEMMA OtherType ==
    ASSUME TypeInv, NEW c \in Connections,
           \/ Leave(c) \/ Remove(c)
           \/ \E u \in Users, last \in Events \cup {NoEvent} : Connect(c, u, last)
    PROVE  TypeInv'
<1>1. CASE Leave(c)
  BY <1>1 DEF Leave, connVars, TypeInv, TypeOK, InHand, Busy
<1>2. CASE Remove(c)
  <2>1. emitters' \in [Users -> SUBSET Connections]
    BY <1>2 DEF Remove, Without, TypeInv, TypeOK
  <2>. QED  BY <1>2, <2>1 DEF Remove, connVars, TypeInv, TypeOK, InHand, Busy
<1>3. ASSUME NEW u \in Users, NEW last \in Events \cup {NoEvent}, Connect(c, u, last)
      PROVE  TypeInv'
  <2>. DEFINE x == [pc |-> "save", user |-> u, last |-> last, at |-> 0,
                    found |-> FALSE, end |-> FALSE, replay |-> << >>]
  <2>1. x \in Connecting /\ x.pc = "save"
    BY EmptySeq DEF Connecting
  <2>2. /\ UNCHANGED <<log, head, messages, receiver, sender, overtaken, emitters, out, gone>>
        /\ known' = known \cup {u} /\ conn' = [conn EXCEPT ![c] = x]
    BY <1>3 DEF Connect, connVars
  <2>3. /\ known' \subseteq Users /\ emitters' \in [Users -> SUBSET Connections]
        /\ out' \in [Connections -> Seq(Events)] /\ gone' \subseteq Connections
    BY <2>2 DEF TypeInv, TypeOK
  <2>. HIDE DEF x
  <2>. QED  BY <2>1, <2>2, <2>3, ConnUpdate
<1>. QED  BY <1>1, <1>2, <1>3

\* Every step keeps the types.
LEMMA NextType == TypeInv /\ [Next]_vars => TypeInv'
<1>1. ASSUME TypeInv, Next
      PROVE  TypeInv'
  BY <1>1, SendType, StartType, ConnectType, OtherType DEF Next
<1>2. ASSUME TypeInv, UNCHANGED vars
      PROVE  TypeInv'
  BY <1>2 DEF vars, TypeInv, TypeOK, InHand, Busy
<1>. QED  BY <1>1, <1>2

\* What the steps keep holds always.
LEMMA TypeInvariant == Spec => []TypeInv
<1>1. Init => TypeInv
  BY InitType
<1>2. TypeInv /\ [Next]_vars => TypeInv'
  BY NextType
<1>. QED  BY <1>1, <1>2, PTL DEF Spec

\* Every variable keeps its type; in particular head never passes the end of
\* log, and a message in the map was created by some send.
THEOREM TypeCorrect == Spec => []TypeOK
<1>1. TypeInv => TypeOK
  BY DEF TypeInv
<1>. QED  BY <1>1, TypeInvariant, PTL

\* How far a step of a sender takes it.
LEMMA SendProgress ==
    ASSUME TypeInv, NEW s \in Senders, SendStep(s)
    PROVE  LET t == sender[s]
               u == sender'[s]
           IN  \/ /\ t.pc = "size" /\ u.pc = "size" /\ UNCHANGED <<log, head, messages>>
                  /\ NextAfter(t.at) <= Len(log)
                  /\ u.room = t.room - 1 /\ u.at = NextAfter(t.at)
               \/ /\ t.pc = "size" /\ u.pc \in {"evict", "add"} /\ UNCHANGED <<log, head, messages>>
                  /\ NextAfter(t.at) > Len(log)
                  /\ u.room = t.room /\ (u.pc = "evict" <=> u.room < 1)
               \/ /\ t.pc = "unmap" /\ u.pc \in {"evict", "add"} /\ UNCHANGED <<log, head>>
                  /\ messages' = messages \ {t.victim}
                  /\ u.room = t.room + 1 /\ (u.pc = "evict" <=> u.room < 1)
               \/ /\ t.pc = "evict" /\ u.pc = "unmap" /\ u.victim = log[head + 1]
                  /\ u.room = t.room /\ QueueLen > 0 /\ head' = head + 1 /\ UNCHANGED <<log, messages>>
               \/ /\ t.pc = "add" /\ u.pc = "put" /\ log' = Append(log, t.event)
                  /\ UNCHANGED <<head, messages>>
               \/ /\ t.pc = "put" /\ u.pc = "snapshot" /\ messages' = messages \cup {t.event}
                  /\ UNCHANGED <<log, head>>
               \/ /\ t.pc \in {"evict", "snapshot", "send"} /\ u.pc \in {"send", "idle"}
                  /\ UNCHANGED <<log, head, messages>>
<1>1. /\ sender[s] \in Sending /\ sender \in [Senders -> {Idle} \cup Sending]
  BY SendRecord DEF TypeInv, TypeOK
<1>0. sender[s].room \in Int /\ sender[s].at \in Nat /\ TypeOK
  BY <1>1 DEF Sending, TypeInv
<1>2. CASE ReadSize(s)
  <2>. DEFINE p == NextAfter(sender[s].at)
              q == WhileFull(sender[s].room)
  <2>1. q \in {"evict", "add"} /\ (q = "evict" <=> sender[s].room < 1)
    BY <1>0, WalkMoves
  <2>2. CASE p <= Len(log) /\ sender' = [sender EXCEPT ![s].room = @ - 1, ![s].at = p]
    <3>. HIDE DEF p
    <3>1. sender'[s].pc = sender[s].pc /\ sender'[s].room = sender[s].room - 1 /\ sender'[s].at = p
      BY <1>1, <2>2 DEF Sending
    <3>. QED  BY <1>2, <2>2, <3>1 DEF ReadSize, p
  <2>3. CASE p > Len(log) /\ sender' = [sender EXCEPT ![s].pc = q, ![s].at = 0]
    <3>. HIDE DEF p, q
    <3>1. sender'[s].pc = q /\ sender'[s].room = sender[s].room
      BY <1>1, <2>3 DEF Sending
    <3>. QED  BY <1>2, <2>1, <2>3, <3>1 DEF ReadSize, p
  <2>. QED  BY <1>2, <2>2, <2>3 DEF ReadSize
<1>3. CASE Evict(s)
  BY <1>1, <1>3 DEF Evict, Sending, Idle
<1>4. CASE Unmap(s)
  <2>. DEFINE r == RoomGained(s)
              p == WhileFull(r)
  <2>1. r = sender[s].room + 1 /\ r \in Int /\ p \in {"evict", "add"} /\ (p = "evict" <=> r < 1)
    BY <1>0, WalkMoves DEF RoomGained
  <2>2. sender'[s].pc = p /\ sender'[s].room = r
    <3>1. sender' = [sender EXCEPT ![s].room = r, ![s].victim = NoEvent, ![s].pc = p]
      BY <1>4 DEF Unmap
    <3>. HIDE DEF r, p
    <3>. QED  BY <1>1, <3>1 DEF Sending
  <2>. HIDE DEF r, p
  <2>. QED  BY <1>4, <2>1, <2>2 DEF Unmap
<1>5. CASE Add(s)
  BY <1>1, <1>5 DEF Add, Sending
<1>6. CASE Put(s)
  BY <1>1, <1>6 DEF Put, Sending
<1>7. CASE Snapshot(s)
  BY <1>1, <1>7 DEF Snapshot, Sending
<1>8. CASE EndSend(s)
  BY <1>1, <1>8 DEF EndSend, Idle
<1>9. CASE \E c \in Connections : Deliver(s, c)
  <2>1. PICK c \in Connections : Deliver(s, c)
    BY <1>9
  <2>2. sender'[s] = Forget(s, c) /\ sender[s].pc = "send"
    BY <1>1, <2>1 DEF Deliver
  <2>3. Forget(s, c).pc = "send"
    BY <1>1, <2>2 DEF Forget, Sending
  <2>. QED  BY <2>1, <2>2, <2>3 DEF Deliver
<1>. QED  BY <1>2, <1>3, <1>4, <1>5, <1>6, <1>7, <1>8, <1>9 DEF SendStep

---------------------------------------------------------------------------
(* The bound of the queue *)

\* The senders that will insert without removing another id.  A sender that
\* has just removed its last surplus id is one of them, so an eviction takes
\* from the queue what it adds to this set, and an insertion the other way
\* round.  Only the end of a walk adds to the sum, and it needs room for that.
MayInsert(s) == \/ sender[s].pc = "add"
                \/ sender[s].pc = "unmap" /\ sender[s].room >= 0
Inserting == {s \in Senders : MayInsert(s)}
BoundInv == QueueLen + Cardinality(Inserting) <= Capacity + Cardinality(Senders) - 1

\* A walk has counted every id that is still queued up to where it stands.
CountInv ==
    \A s \in Senders : sender[s].pc = "size" =>
        /\ sender[s].room <= Capacity
        /\ sender[s].at - head <= Capacity - sender[s].room

\* Sets of senders are finite.
LEMMA SenderSets ==
    ASSUME NEW S \in SUBSET Senders
    PROVE  /\ IsFiniteSet(S) /\ Cardinality(S) \in Nat
           /\ Cardinality(S) <= Cardinality(Senders)
           /\ \A s \in Senders \ S : Cardinality(S \cup {s}) = Cardinality(S) + 1
           /\ \A s \in S : Cardinality(S \ {s}) = Cardinality(S) - 1
<1>1. IsFiniteSet(Senders)
  BY SseBrokerAssumption
<1>2. IsFiniteSet(S) /\ Cardinality(S) <= Cardinality(Senders)
  BY <1>1, FS_Subset
<1>3. Cardinality(S) \in Nat
  BY <1>2, FS_CardinalityType
<1>4. \A s \in Senders \ S : Cardinality(S \cup {s}) = Cardinality(S) + 1
  BY <1>2, FS_AddElement
<1>5. \A s \in S : Cardinality(S \ {s}) = Cardinality(S) - 1
  BY <1>2, FS_RemoveElement
<1>. QED  BY <1>2, <1>3, <1>4, <1>5

\* Only the senders that change themselves enter or leave Inserting.
LEMMA InsertingOthers ==
    ASSUME TypeOK, NEW s \in Senders, NEW x, sender' = [sender EXCEPT ![s] = x]
    PROVE  /\ sender'[s] = x
           /\ \A r \in Senders \ {s} : MayInsert(r)' <=> MayInsert(r)
BY DEF TypeOK, MayInsert

(* Every step of a sender keeps the queue within the cap plus the inserting senders. *)
LEMMA BoundStep ==
    ASSUME TypeInv, BoundInv, CountInv, NEW s \in Senders, SendStep(s)
    PROVE  BoundInv'
<1>. DEFINE t == sender[s]
<1>1. /\ Len(log) \in Nat /\ head \in Nat /\ QueueLen \in Nat /\ QueueLen = Len(log) - head
      /\ Capacity \in Nat /\ TypeOK
  BY Lengths, SseBrokerAssumption DEF TypeInv, QueueLen
<1>2. /\ IsFiniteSet(Senders) /\ Cardinality(Senders) \in Nat /\ Cardinality(Inserting) \in Nat
      /\ Cardinality(Inserting') \in Nat /\ Cardinality(Inserting') <= Cardinality(Senders)
  BY SseBrokerAssumption, FS_CardinalityType, SenderSets DEF Inserting
<1>3. Busy(s) => t \in Sending /\ t.room \in Int
  BY <1>1, Records DEF Sending
<1>4. ASSUME NEW x, sender' = [sender EXCEPT ![s] = x]
      PROVE  /\ MayInsert(s)' <=> (x.pc = "add" \/ (x.pc = "unmap" /\ x.room >= 0))
             /\ ~MayInsert(s) /\ ~MayInsert(s)' => Inserting' = Inserting
             /\ MayInsert(s) /\ MayInsert(s)' => Inserting' = Inserting
             /\ ~MayInsert(s) /\ MayInsert(s)' =>
                   Cardinality(Inserting') = Cardinality(Inserting) + 1
             /\ MayInsert(s) /\ ~MayInsert(s)' =>
                   Cardinality(Inserting') = Cardinality(Inserting) - 1
  <2>1. sender'[s] = x /\ \A r \in Senders \ {s} : MayInsert(r)' <=> MayInsert(r)
    BY <1>1, <1>4, InsertingOthers
  <2>2. MayInsert(s)' <=> (x.pc = "add" \/ (x.pc = "unmap" /\ x.room >= 0))
    BY <2>1 DEF MayInsert
  <2>3. (MayInsert(s) <=> MayInsert(s)') => Inserting' = Inserting
    BY <2>1 DEF Inserting
  <2>4. ~MayInsert(s) /\ MayInsert(s)' =>
           s \in Senders \ Inserting /\ Inserting' = Inserting \cup {s}
    BY <2>1 DEF Inserting
  <2>5. MayInsert(s) /\ ~MayInsert(s)' => s \in Inserting /\ Inserting' = Inserting \ {s}
    BY <2>1 DEF Inserting
  <2>6. Inserting \in SUBSET Senders
    BY DEF Inserting
  <2>. QED  BY <2>2, <2>3, <2>4, <2>5, <2>6, SenderSets
<1>5. CASE ReadSize(s)
  <2>. DEFINE p == NextAfter(t.at)
  <2>1. t \in Sending /\ ~MayInsert(s) /\ t.pc = "size" /\ t.at \in Nat
    BY <1>3, <1>5 DEF ReadSize, MayInsert, Busy, Sending
  <2>2. UNCHANGED <<log, head>>
    BY <1>5 DEF ReadSize
  <2>3. CASE sender' = [sender EXCEPT ![s].room = @ - 1, ![s].at = p]
    <3>. DEFINE x == [t EXCEPT !.room = @ - 1, !.at = p]
    <3>1. sender' = [sender EXCEPT ![s] = x]
      BY <1>1, <2>3 DEF TypeOK
    <3>2. x.pc = "size"
      BY <2>1 DEF Sending
    <3>. HIDE DEF x
    <3>3. Inserting' = Inserting
      BY <1>4, <2>1, <3>1, <3>2
    <3>. QED  BY <2>2, <3>3 DEF BoundInv, QueueLen
  <2>4. CASE p > Len(log) /\ sender' = [sender EXCEPT ![s].pc = WhileFull(t.room), ![s].at = 0]
    <3>. DEFINE q == WhileFull(t.room)
                x == [t EXCEPT !.pc = q, !.at = 0]
    <3>1. q \in {"evict", "add"} /\ (q = "evict" <=> t.room < 1)
      BY <1>1, <1>3, <2>1, WalkMoves DEF Busy
    <3>2. sender' = [sender EXCEPT ![s] = x]
      BY <1>1, <2>4 DEF TypeOK
    <3>3. x.pc = q
      <4>. HIDE DEF q
      <4>. QED  BY <2>1 DEF Sending
    <3>4. QueueLen <= Capacity - t.room
      <4>1. t.room <= Capacity /\ t.at - head <= Capacity - t.room
        BY <2>1 DEF CountInv
      <4>. QED  BY <1>1, <1>3, <2>1, <2>4, <4>1 DEF NextAfter, Busy
    <3>. HIDE DEF q, x
    <3>5. CASE q = "evict"
      <4>1. Inserting' = Inserting
        BY <1>4, <2>1, <3>2, <3>3, <3>5
      <4>. QED  BY <2>2, <4>1 DEF BoundInv, QueueLen
    <3>6. CASE q = "add"
      <4>1. QueueLen' = QueueLen /\ QueueLen <= Capacity - 1
        BY <1>1, <1>3, <2>1, <2>2, <3>1, <3>4, <3>6 DEF QueueLen, Busy
      <4>. QED  BY <1>1, <1>2, <4>1 DEF BoundInv
    <3>. QED  BY <3>1, <3>5, <3>6
  <2>. QED  BY <1>5, <2>3, <2>4 DEF ReadSize
<1>6. CASE Evict(s)
  <2>0. ~MayInsert(s)
    BY <1>6 DEF Evict, MayInsert
  <2>1. CASE /\ QueueLen > 0 /\ head' = head + 1 /\ log' = log
             /\ sender' = [sender EXCEPT ![s].pc = "unmap", ![s].victim = log[head + 1]]
    <3>. DEFINE x == [t EXCEPT !.pc = "unmap", !.victim = log[head + 1]]
    <3>1. sender' = [sender EXCEPT ![s] = x]
      BY <1>1, <2>1 DEF TypeOK
    <3>2. QueueLen' = QueueLen - 1
      BY <1>1, <2>1 DEF QueueLen
    <3>3. Cardinality(Inserting') <= Cardinality(Inserting) + 1
      <4>. HIDE DEF x
      <4>1. CASE MayInsert(s)'
        <5>1. Cardinality(Inserting') = Cardinality(Inserting) + 1
          BY <1>4, <2>0, <3>1, <4>1
        <5>. QED  BY <1>2, <5>1
      <4>2. CASE ~MayInsert(s)'
        <5>1. Inserting' = Inserting
          BY <1>4, <2>0, <3>1, <4>2
        <5>. QED  BY <1>2, <5>1
      <4>. QED  BY <4>1, <4>2
    <3>. QED  BY <1>1, <1>2, <3>2, <3>3 DEF BoundInv
  <2>2. CASE sender' = [sender EXCEPT ![s] = Idle] /\ UNCHANGED <<log, head>>
    <3>1. Inserting' = Inserting
      <4>1. Idle.pc = "idle"
        BY DEF Idle
      <4>2. ~MayInsert(s)'
        BY <1>4, <2>2, <4>1
      <4>. QED  BY <1>4, <2>0, <2>2, <4>2
    <3>. QED  BY <2>2, <3>1 DEF BoundInv, QueueLen
  <2>. QED  BY <1>6, <2>1, <2>2 DEF Evict
<1>7. CASE Unmap(s)
  <2>. DEFINE r == RoomGained(s)
              p == WhileFull(r)
              x == [t EXCEPT !.room = r, !.victim = NoEvent, !.pc = p]
  <2>1. t \in Sending /\ t.room \in Int /\ r = t.room + 1 /\ t.pc = "unmap"
    BY <1>3, <1>7 DEF Unmap, Busy, RoomGained
  <2>2. sender' = [sender EXCEPT ![s] = x] /\ UNCHANGED <<log, head>>
    BY <1>1, <1>7 DEF Unmap, TypeOK
  <2>3. x.pc = p
    <3>. HIDE DEF p, r
    <3>. QED  BY <2>1 DEF Sending
  <2>4. MayInsert(s) <=> p = "add"
    BY <2>1, WalkMoves, <1>1 DEF MayInsert
  <2>5. MayInsert(s)' <=> p = "add"
    <3>1. p \in {"evict", "add"}
      BY DEF WhileFull
    <3>. HIDE DEF x, p
    <3>. QED  BY <1>4, <2>2, <2>3, <3>1
  <2>6. Inserting' = Inserting
    <3>. HIDE DEF x, p
    <3>. QED  BY <1>4, <2>2, <2>4, <2>5
  <2>. QED  BY <2>2, <2>6 DEF BoundInv, QueueLen
<1>8. CASE Add(s)
  <2>. DEFINE x == [t EXCEPT !.pc = "put", !.room = 0]
  <2>1. t \in Sending /\ MayInsert(s)
    BY <1>3, <1>8 DEF Add, MayInsert, Busy
  <2>2. sender' = [sender EXCEPT ![s] = x] /\ head' = head /\ log' = Append(log, t.event)
    BY <1>1, <1>8 DEF Add, TypeOK
  <2>3. x.pc = "put"
    BY <2>1 DEF Sending
  <2>4. Cardinality(Inserting') = Cardinality(Inserting) - 1
    <3>. HIDE DEF x
    <3>. QED  BY <1>4, <2>1, <2>2, <2>3
  <2>5. QueueLen' = QueueLen + 1
    <3>1. log \in Seq(Events) /\ t.event \in Events
      BY <1>1, <2>1 DEF TypeOK, Sending
    <3>. QED  BY <1>1, <2>2, <3>1 DEF QueueLen
  <2>. QED  BY <1>1, <1>2, <2>4, <2>5 DEF BoundInv
<1>9. CASE /\ t.pc \in {"put", "snapshot", "send"} /\ UNCHANGED <<log, head>>
           /\ \E x : sender' = [sender EXCEPT ![s] = x] /\ x.pc \notin {"add", "unmap"}
  <2>1. Inserting' = Inserting
    BY <1>4, <1>9 DEF MayInsert
  <2>. QED  BY <1>9, <2>1 DEF BoundInv, QueueLen
<1>10. CASE Put(s) \/ Snapshot(s) \/ EndSend(s) \/ \E c \in Connections : Deliver(s, c)
  <2>1. t \in Sending /\ t.pc \in {"put", "snapshot", "send"} /\ UNCHANGED <<log, head>>
    BY <1>3, <1>10 DEF Put, Snapshot, EndSend, Deliver, Busy
  <2>2. CASE Put(s)
    <3>1. sender' = [sender EXCEPT ![s] = [t EXCEPT !.pc = "snapshot"]]
      BY <1>1, <2>2 DEF Put, TypeOK
    <3>2. [t EXCEPT !.pc = "snapshot"].pc = "snapshot"
      BY <2>1 DEF Sending
    <3>. QED  BY <1>9, <2>1, <3>1, <3>2
  <2>3. CASE Snapshot(s)
    <3>. DEFINE x == [t EXCEPT !.pc = "send", !.targets = emitters[receiver[t.event]]]
    <3>1. sender' = [sender EXCEPT ![s] = x]
      BY <1>1, <2>3 DEF Snapshot, TypeOK
    <3>2. x.pc = "send"
      BY <2>1 DEF Sending
    <3>. QED  BY <1>9, <2>1, <3>1, <3>2
  <2>4. CASE EndSend(s)
    <3>1. Idle.pc = "idle"
      BY DEF Idle
    <3>. QED  BY <1>9, <2>1, <2>4, <3>1 DEF EndSend
  <2>5. CASE \E c \in Connections : Deliver(s, c)
    <3>1. PICK c \in Connections : Deliver(s, c)
      BY <2>5
    <3>2. sender' = [sender EXCEPT ![s] = Forget(s, c)] /\ t.pc = "send"
      BY <3>1 DEF Deliver
    <3>3. Forget(s, c).pc = "send"
      BY <2>1, <3>2 DEF Forget, Sending
    <3>. QED  BY <1>9, <2>1, <3>2, <3>3
  <2>. QED  BY <1>10, <2>2, <2>3, <2>4, <2>5
<1>. QED  BY <1>5, <1>6, <1>7, <1>8, <1>10 DEF SendStep

\* A step of a sender keeps what the walks have counted: its own walk counts
\* the id it goes to, and no other one can put an id before a walk.
LEMMA CountStep ==
    ASSUME TypeInv, CountInv, NEW s \in Senders, SendStep(s)
    PROVE  CountInv'
<1>. DEFINE t == sender[s]
            u == sender'[s]
<1>1. /\ t \in Sending /\ t.room \in Int /\ t.at \in Nat
      /\ sender \in [Senders -> {Idle} \cup Sending]
      /\ \A r \in Senders \ {s} : sender'[r] = sender[r]
      /\ \A r \in Senders : Busy(r) => sender[r].at \in Nat /\ sender[r].room \in Int
  BY SendRecord, Records DEF TypeInv, TypeOK, Sending
<1>2. Len(log) \in Nat /\ head \in Nat /\ Capacity \in Nat
  BY Lengths, SseBrokerAssumption DEF TypeInv
<1>3. head' \in Nat /\ head' >= head
  BY <1>2, SendProgress
<1>4. ASSUME NEW r \in Senders \ {s}, sender'[r].pc = "size"
      PROVE  /\ sender'[r].room <= Capacity
             /\ sender'[r].at - head' <= Capacity - sender'[r].room
  <2>1. sender'[r] = sender[r]
    BY <1>1
  <2>2. sender[r].at \in Nat /\ sender[r].room \in Int
    BY <1>1, <1>4, <2>1 DEF Busy
  <2>3. sender[r].room <= Capacity /\ sender[r].at - head <= Capacity - sender[r].room
    BY <1>4, <2>1 DEF CountInv
  <2>. QED  BY <1>2, <1>3, <2>1, <2>2, <2>3
<1>5. ASSUME u.pc = "size"
      PROVE  u.room <= Capacity /\ u.at - head' <= Capacity - u.room
  <2>1. /\ t.pc = "size" /\ head' = head /\ NextAfter(t.at) <= Len(log)
        /\ u.room = t.room - 1 /\ u.at = NextAfter(t.at)
    BY <1>5, SendProgress
  <2>2. t.room <= Capacity /\ t.at - head <= Capacity - t.room
    BY <2>1 DEF CountInv
  <2>. QED  BY <1>1, <1>2, <2>1, <2>2 DEF NextAfter
<1>. QED  BY <1>4, <1>5 DEF CountInv

\* The sum keeps its bound.
LEMMA BoundInvariant == Spec => []BoundInv
<1>0. Init => CountInv
  BY DEF Init, CountInv, Idle
<1>1. Init => BoundInv
  <2>. SUFFICES ASSUME Init PROVE BoundInv
    OBVIOUS
  <2>1. Inserting = {}
    BY DEF Init, Inserting, MayInsert, Idle
  <2>2. Cardinality(Inserting) = 0 /\ QueueLen = 0
    BY <2>1, FS_EmptySet DEF Init, QueueLen
  <2>3. Cardinality(Senders) \in Nat /\ Cardinality(Senders) # 0 /\ Capacity \in Nat
    <3>1. IsFiniteSet(Senders) /\ Senders # {} /\ Capacity \in Nat
      BY SseBrokerAssumption
    <3>2. Cardinality(Senders) \in Nat
      BY <3>1, FS_CardinalityType, Zenon
    <3>. QED  BY <3>1, <3>2, FS_EmptySet
  <2>. QED  BY <2>2, <2>3 DEF BoundInv
<1>2. TypeInv /\ BoundInv /\ CountInv /\ [Next]_vars => BoundInv' /\ CountInv'
  <2>. SUFFICES ASSUME TypeInv, BoundInv, CountInv, [Next]_vars PROVE BoundInv' /\ CountInv'
    OBVIOUS
  <2>1. CASE \E s \in Senders : SendStep(s)
    BY <2>1, BoundStep, CountStep
  <2>2. ASSUME NEW s \in Senders, NEW u \in Users, StartSend(s, u)
        PROVE  BoundInv' /\ CountInv'
    <3>1. /\ sender \in [Senders -> {Idle} \cup Sending] /\ ~MayInsert(s)
          /\ UNCHANGED <<log, head>>
      BY <2>2 DEF StartSend, TypeInv, TypeOK, MayInsert, Busy
    <3>2. Inserting' = Inserting
      BY <2>2, <3>1 DEF StartSend, Inserting, MayInsert
    <3>3. CountInv'
      <4>1. /\ sender'[s].room = Capacity /\ sender'[s].at = 0
            /\ \A r \in Senders \ {s} : sender'[r] = sender[r]
        BY <2>2, <3>1 DEF StartSend
      <4>2. Capacity \in Nat /\ head \in Nat
        BY Lengths, SseBrokerAssumption DEF TypeInv
      <4>. QED  BY <3>1, <4>1, <4>2 DEF CountInv
    <3>. QED  BY <3>1, <3>2, <3>3 DEF BoundInv, QueueLen
  <2>3. CASE UNCHANGED <<log, head, sender>>
    BY <2>3 DEF BoundInv, CountInv, QueueLen, Inserting, MayInsert
  <2>. QED  BY <2>1, <2>2, <2>3 DEF Next, vars, ConnectStep, Save, Advance, Lookup, Replay,
                                    EndConnect, Leave, Remove, Connect, connVars
<1>. QED  BY <1>0, <1>1, <1>2, TypeInvariant, PTL DEF Spec

\* The number of queued ids and of senders about to insert one together stay
\* below the capacity and the number of senders: the capacity can be exceeded,
\* but only by senders that read the size before the others had inserted.
THEOREM QueueBounded == Spec => []QueueBound
<1>1. TypeInv /\ BoundInv => QueueBound
  <2>. SUFFICES ASSUME TypeInv, BoundInv PROVE QueueBound
    OBVIOUS
  <2>1. AboutToAdd \subseteq Inserting /\ Inserting \in SUBSET Senders
    BY DEF AboutToAdd, Inserting, MayInsert
  <2>2. /\ IsFiniteSet(Inserting) /\ Cardinality(Inserting) \in Nat
        /\ Cardinality(AboutToAdd) \in Nat
    BY <2>1, SenderSets
  <2>3. Cardinality(AboutToAdd) <= Cardinality(Inserting)
    BY <2>1, <2>2, FS_Subset
  <2>4. QueueLen \in Nat /\ Capacity \in Nat /\ Cardinality(Senders) \in Nat
    BY Lengths, SseBrokerAssumption, FS_CardinalityType DEF TypeInv
  <2>. QED  BY <2>2, <2>3, <2>4 DEF BoundInv, QueueBound
<1>. QED  BY <1>1, TypeInvariant, BoundInvariant, PTL

---------------------------------------------------------------------------
(* Queued ids have their message *)

\* An id is queued once, by the one sender that works on it; before that it is
\* not in the queue, and what a sender takes off the queue stays off.
IdsOnce ==
    /\ \A p, q \in 1..Len(log) : log[p] = log[q] => p = q
    /\ \A p \in 1..Len(log) : log[p] <= Len(receiver)
    /\ \A s \in Senders : sender[s].pc \in {"size", "evict", "unmap", "add"} =>
          \A p \in 1..Len(log) : log[p] # sender[s].event
    /\ \A s, r \in Senders : Busy(s) /\ Busy(r) /\ sender[s].event = sender[r].event => s = r
    /\ \A s \in Senders : sender[s].pc = "unmap" =>
          \E p \in 1..head : log[p] = sender[s].victim
IdInv == IdsOnce /\ QueuedHasMessage

\* The steps of a sender keep the ids apart.
LEMMA IdsOnceStep ==
    ASSUME TypeInv, IdsOnce, NEW s \in Senders, SendStep(s)
    PROVE  IdsOnce'
<1>. DEFINE t == sender[s]
            u == sender'[s]
<1>1. /\ Busy(s) /\ t \in Sending /\ t.event \in DOMAIN receiver
      /\ \A r \in Senders : Busy(r)' => Busy(r) /\ sender'[r].event = sender[r].event
      /\ \A r \in Senders \ {s} : sender'[r] = sender[r]
      /\ UNCHANGED receiver
  BY SendRecord, Zenon DEF SendStep, ReadSize, Evict, Unmap, Add, Put, Snapshot, EndSend, Deliver
<1>2. /\ log \in Seq(Events) /\ Len(log) \in Nat /\ head \in Nat /\ head <= Len(log)
      /\ Len(receiver) \in Nat /\ DOMAIN receiver = 1..Len(receiver) /\ t.event \in Events
      /\ QueueLen = Len(log) - head
  BY <1>1, Lengths DEF TypeInv, TypeOK, QueueLen, Sending
<1>3. \A r, q \in Senders : Busy(r)' /\ Busy(q)' /\ sender'[r].event = sender'[q].event => r = q
  BY <1>1 DEF IdsOnce
<1>4. CASE UNCHANGED log
  <2>1. \A r \in Senders : sender'[r].pc \in {"size", "evict", "unmap", "add"} =>
           \A p \in 1..Len(log') : log'[p] # sender'[r].event
    <3>. SUFFICES ASSUME NEW r \in Senders, sender'[r].pc \in {"size", "evict", "unmap", "add"}
                  PROVE  \A p \in 1..Len(log') : log'[p] # sender'[r].event
      OBVIOUS
    <3>1. sender'[r].event = sender[r].event
      BY <1>1 DEF Busy
    <3>2. sender[r].pc \in {"size", "evict", "unmap", "add"}
      <4>1. CASE r = s
        BY <4>1, SendProgress
      <4>2. CASE r # s
        BY <1>1, <4>2
      <4>. QED  BY <4>1, <4>2
    <3>. QED  BY <1>4, <3>1, <3>2 DEF IdsOnce
  <2>2. \A r \in Senders : sender'[r].pc = "unmap" =>
           \E p \in 1..head' : log'[p] = sender'[r].victim
    <3>. SUFFICES ASSUME NEW r \in Senders, sender'[r].pc = "unmap"
                  PROVE  \E p \in 1..head' : log'[p] = sender'[r].victim
      OBVIOUS
    <3>1. head' \in Nat /\ head' >= head
      BY <1>2, SendProgress
    <3>2. CASE r = s
      <4>1. head' = head + 1 /\ u.victim = log[head + 1]
        BY <3>2, SendProgress
      <4>2. head + 1 \in 1..head'
        BY <1>2, <4>1
      <4>. QED  BY <1>4, <3>2, <4>1, <4>2
    <3>3. CASE r # s
      <4>1. PICK p \in 1..head : log[p] = sender[r].victim
        BY <1>1, <3>3 DEF IdsOnce
      <4>2. p \in 1..head'
        BY <1>2, <3>1
      <4>. QED  BY <1>1, <1>4, <3>3, <4>1, <4>2
    <3>. QED  BY <3>2, <3>3
  <2>. QED  BY <1>1, <1>3, <1>4, <2>1, <2>2 DEF IdsOnce
<1>5. CASE t.pc = "add" /\ u.pc = "put" /\ log' = Append(log, t.event) /\ head' = head
  <2>1. /\ Len(log') = Len(log) + 1 /\ log'[Len(log) + 1] = t.event
        /\ \A p \in 1..Len(log) : log'[p] = log[p]
    BY <1>2, <1>5
  <2>2. \A p \in 1..Len(log) : log[p] # t.event
    BY <1>5 DEF IdsOnce
  <2>3. \A p, q \in 1..Len(log') : log'[p] = log'[q] => p = q
    <3>1. \A p \in 1..Len(log') : p \in 1..Len(log) \/ p = Len(log) + 1
      BY <1>2, <2>1
    <3>. QED  BY <2>1, <2>2, <3>1 DEF IdsOnce
  <2>4. \A p \in 1..Len(log') : log'[p] <= Len(receiver')
    BY <1>1, <1>2, <2>1 DEF IdsOnce
  <2>5. ASSUME NEW r \in Senders, sender'[r].pc \in {"size", "evict", "unmap", "add"},
               NEW p \in 1..Len(log')
        PROVE  log'[p] # sender'[r].event
    <3>1. r # s
      BY <1>5, <2>5
    <3>2. sender'[r] = sender[r] /\ Busy(r) /\ sender[r].event # t.event
      BY <1>1, <2>5, <3>1 DEF IdsOnce, Busy
    <3>3. p \in 1..Len(log) \/ p = Len(log) + 1
      BY <1>2, <2>1
    <3>. QED  BY <2>1, <2>5, <3>2, <3>3 DEF IdsOnce
  <2>6. ASSUME NEW r \in Senders, sender'[r].pc = "unmap"
        PROVE  \E p \in 1..head' : log'[p] = sender'[r].victim
    <3>1. sender'[r] = sender[r]
      BY <1>1, <1>5, <2>6
    <3>2. PICK p \in 1..head : log[p] = sender[r].victim
      BY <2>6, <3>1 DEF IdsOnce
    <3>3. p \in 1..Len(log)
      BY <1>2
    <3>. QED  BY <1>5, <2>1, <3>1, <3>2, <3>3
  <2>. QED  BY <1>3, <2>3, <2>4, <2>5, <2>6 DEF IdsOnce
<1>6. \/ UNCHANGED log
      \/ t.pc = "add" /\ u.pc = "put" /\ log' = Append(log, t.event) /\ head' = head
  BY SendProgress
<1>. QED  BY <1>4, <1>5, <1>6

\* An id that is queued after a step was queued before it or is the one just
\* inserted, and only a removed id loses its message.
LEMMA QueuedStep ==
    ASSUME TypeInv, IdsOnce, QueuedHasMessage, NEW s \in Senders, SendStep(s)
    PROVE  QueuedHasMessage'
<1>. DEFINE t == sender[s]
            u == sender'[s]
<1>. SUFFICES ASSUME NEW m \in DOMAIN receiver, Queued(m)', m \notin messages'
              PROVE  \E r \in Senders : sender'[r].pc = "put" /\ sender'[r].event = m
  BY DEF QueuedHasMessage, SendStep, ReadSize, Evict, Unmap, Add, Put, Snapshot, EndSend, Deliver
<1>1. /\ Busy(s) /\ t.event \in Events
      /\ \A r \in Senders : Busy(r)' => Busy(r) /\ sender'[r].event = sender[r].event
      /\ \A r \in Senders \ {s} : sender'[r] = sender[r]
  BY SendRecord DEF Sending
<1>2. log \in Seq(Events) /\ Len(log) \in Nat /\ head \in Nat /\ head <= Len(log)
  BY Lengths DEF TypeInv, TypeOK
<1>3. ASSUME Queued(m), m \notin messages, ~(t.pc = "put" /\ t.event = m)
      PROVE  \E r \in Senders : sender'[r].pc = "put" /\ sender'[r].event = m
  <2>1. PICK r \in Senders : sender[r].pc = "put" /\ sender[r].event = m
    BY <1>3 DEF QueuedHasMessage
  <2>2. r # s
    BY <1>3, <2>1
  <2>. QED  BY <1>1, <2>1, <2>2
<1>4. CASE t.pc = "add" /\ u.pc = "put" /\ log' = Append(log, t.event) /\ UNCHANGED <<head, messages>>
  <2>1. CASE m = t.event
    BY <1>1, <1>4, <2>1 DEF Busy
  <2>2. CASE m # t.event
    <3>1. Queued(m)
      BY <1>1, <1>2, <1>4, <2>2 DEF Queued
    <3>. QED  BY <1>3, <1>4, <3>1
  <2>. QED  BY <2>1, <2>2
<1>5. CASE log' = log /\ head' \in Nat /\ head' >= head
  <2>1. Queued(m)
    <3>1. PICK p \in head' + 1 .. Len(log') : log'[p] = m
      BY DEF Queued
    <3>2. \A h, k, n \in Nat : h <= k => k + 1 .. n \subseteq h + 1 .. n
      OBVIOUS
    <3>3. head' + 1 .. Len(log) \subseteq head + 1 .. Len(log)
      <4>1. head <= head'
        BY <1>2, <1>5
      <4>. QED  BY <1>2, <1>5, <3>2, <4>1
    <3>4. p \in head + 1 .. Len(log)
      BY <1>5, <3>1, <3>3, Zenon
    <3>. QED  BY <1>5, <3>1, <3>4 DEF Queued
  <2>2. CASE m \notin messages
    <3>1. ~(t.pc = "put" /\ t.event = m)
      BY SendProgress
    <3>. QED  BY <1>3, <2>1, <2>2, <3>1
  <2>3. CASE m \in messages
    <3>1. t.pc = "unmap" /\ m = t.victim
      BY <2>3, SendProgress
    <3>2. PICK p \in 1..head : log[p] = m
      BY <3>1 DEF IdsOnce
    <3>3. PICK q \in head + 1 .. Len(log) : log[q] = m
      BY <2>1 DEF Queued
    <3>4. p = q
      <4>1. p \in 1..Len(log) /\ q \in 1..Len(log)
        BY <1>2, <3>2, <3>3
      <4>. QED  BY <3>2, <3>3, <4>1 DEF IdsOnce
    <3>. QED  BY <1>2, <3>2, <3>3, <3>4
  <2>. QED  BY <2>2, <2>3
<1>6. \/ t.pc = "add" /\ u.pc = "put" /\ log' = Append(log, t.event) /\ UNCHANGED <<head, messages>>
      \/ log' = log /\ head' \in {head, head + 1}
  BY SendProgress
<1>. QED  BY <1>2, <1>4, <1>5, <1>6

\* The ids stay apart and keep their messages.
LEMMA IdsInvariant == Spec => []IdInv
<1>1. Init => IdInv
  <2>. SUFFICES ASSUME Init PROVE IdInv
    OBVIOUS
  <2>1. Len(log) = 0 /\ \A s \in Senders : sender[s].pc = "idle"
    BY DEF Init, Idle
  <2>2. QueuedHasMessage
    BY DEF Init, QueuedHasMessage, Queued
  <2>3. IdsOnce
    BY <2>1 DEF IdsOnce, Busy
  <2>. QED  BY <2>2, <2>3 DEF IdInv
<1>2. TypeInv /\ IdInv /\ [Next]_vars => IdInv'
  <2>. SUFFICES ASSUME TypeInv, IdsOnce, QueuedHasMessage, [Next]_vars PROVE IdInv'
    BY DEF IdInv
  <2>1. CASE \E s \in Senders : SendStep(s)
    BY <2>1, IdsOnceStep, QueuedStep DEF IdInv
  <2>2. ASSUME NEW s \in Senders, NEW u \in Users, StartSend(s, u)
        PROVE  IdInv'
    <3>1. /\ UNCHANGED <<log, head, messages>> /\ ~Busy(s)
          /\ \A r \in Senders \ {s} : sender'[r] = sender[r]
          /\ sender'[s].pc = "size" /\ sender'[s].event = Len(receiver) + 1
      BY <2>2 DEF StartSend, TypeInv, TypeOK
    <3>2. /\ Len(receiver) \in Nat /\ Len(receiver') = Len(receiver) + 1
          /\ DOMAIN receiver = 1..Len(receiver) /\ DOMAIN receiver' = 1..Len(receiver')
          /\ \A p \in 1..Len(log) : log[p] \in Nat
          /\ \A r \in Senders : Busy(r) => sender[r].event \in 1..Len(receiver)
      <4>1. /\ receiver \in Seq(Users) /\ receiver' = Append(receiver, u)
        BY <2>2 DEF StartSend, TypeInv, TypeOK
      <4>2. Len(receiver') = Len(receiver) + 1 /\ DOMAIN receiver' = 1..Len(receiver')
        BY <4>1
      <4>. QED  BY <4>2, Lengths DEF TypeInv, InHand, Events
    <3>3. IdsOnce'
      <4>1. \A p \in 1..Len(log) : log[p] <= Len(receiver') /\ log[p] # Len(receiver) + 1
        BY <3>2 DEF IdsOnce
      <4>2. \A r \in Senders \ {s} : Busy(r)' => Busy(r) /\ sender[r].event # Len(receiver) + 1
        BY <3>1, <3>2 DEF Busy
      <4>3. \A r \in Senders : sender'[r].pc \in {"size", "evict", "unmap", "add"} =>
               \A p \in 1..Len(log) : log[p] # sender'[r].event
        BY <3>1, <4>1 DEF IdsOnce
      <4>4. \A r, q \in Senders : Busy(r)' /\ Busy(q)' /\ sender'[r].event = sender'[q].event
               => r = q
        BY <3>1, <4>2 DEF IdsOnce, Busy
      <4>5. \A r \in Senders : sender'[r].pc = "unmap" =>
               \E p \in 1..head : log[p] = sender'[r].victim
        BY <3>1 DEF IdsOnce
      <4>. QED  BY <3>1, <4>1, <4>3, <4>4, <4>5 DEF IdsOnce
    <3>4. QueuedHasMessage'
      <4>. SUFFICES ASSUME NEW m \in DOMAIN receiver', Queued(m), m \notin messages
                    PROVE  \E r \in Senders : sender'[r].pc = "put" /\ sender'[r].event = m
        BY <3>1 DEF QueuedHasMessage, Queued
      <4>1. PICK p \in head + 1 .. Len(log) : log[p] = m
        BY DEF Queued
      <4>2. p \in 1..Len(log)
        BY <4>1, Lengths DEF TypeInv
      <4>3. m \in DOMAIN receiver
        BY <3>2, <4>1, <4>2 DEF IdsOnce
      <4>4. PICK r \in Senders : sender[r].pc = "put" /\ sender[r].event = m
        BY <4>3 DEF QueuedHasMessage
      <4>. QED  BY <3>1, <4>4 DEF Busy
    <3>. QED  BY <3>3, <3>4 DEF IdInv
  <2>3. CASE UNCHANGED <<log, head, messages, receiver, sender>>
    BY <2>3 DEF IdInv, IdsOnce, QueuedHasMessage, Queued, Busy
  <2>. QED  BY <2>1, <2>2, <2>3 DEF Next, vars, ConnectStep, Save, Advance, Lookup, Replay,
                                    EndConnect, Leave, Remove, Connect, connVars
<1>. QED  BY <1>1, <1>2, TypeInvariant, PTL DEF Spec

\* A queued id lacks its message only while its sender is between the two
\* insertions, so nothing else can make a replay fail.
THEOREM QueuedIdsResolve == Spec => []QueuedHasMessage
<1>1. IdInv => QueuedHasMessage
  BY DEF IdInv
<1>. QED  BY <1>1, IdsInvariant, PTL

---------------------------------------------------------------------------
(* The steps, as the proofs below need them *)

\* The elements of a sequence.
Elems(x) == {x[i] : i \in DOMAIN x}

\* The events of a connection that were read for its replay and not sent yet.
Replayed(c) == Elems(conn[c].replay)

\* What appending and removing an element does to the set of the elements.
LEMMA Elements ==
    ASSUME NEW x \in Seq(Events)
    PROVE  /\ \A m \in Events : Elems(Append(x, m)) = Elems(x) \cup {m}
           /\ x # << >> => Elems(x) = {Head(x)} \cup Elems(Tail(x))
<1>. USE DEF Elems
<1>1. ASSUME NEW m \in Events
      PROVE  Elems(Append(x, m)) = Elems(x) \cup {m}
  <2>1. /\ DOMAIN x = 1..Len(x) /\ Len(x) \in Nat
        /\ DOMAIN Append(x, m) = 1..Len(x) + 1
        /\ \A i \in 1..Len(x) : Append(x, m)[i] = x[i]
        /\ Append(x, m)[Len(x) + 1] = m
    OBVIOUS
  <2>2. 1..Len(x) + 1 = 1..Len(x) \cup {Len(x) + 1}
    BY <2>1
  <2>. QED  BY <2>1, <2>2
<1>2. ASSUME x # << >>
      PROVE  Elems(x) = {Head(x)} \cup Elems(Tail(x))
  <2>1. /\ DOMAIN x = 1..Len(x) /\ Len(x) \in Nat \ {0}
        /\ Tail(x) \in Seq(Events) /\ Len(Tail(x)) = Len(x) - 1
        /\ Head(x) = x[1] /\ \A i \in 1..Len(x) - 1 : Tail(x)[i] = x[i + 1]
    BY <1>2
  <2>2. DOMAIN Tail(x) = 1..Len(x) - 1
    BY <2>1
  <2>3. \A i \in 1..Len(x) : i = 1 \/ (i - 1 \in 1..Len(x) - 1 /\ x[i] = Tail(x)[i - 1])
    BY <2>1
  <2>4. \A i \in 1..Len(x) - 1 : i + 1 \in 1..Len(x) /\ Tail(x)[i] = x[i + 1]
    BY <2>1
  <2>5. 1 \in 1..Len(x)
    BY <2>1
  <2>6. ASSUME NEW i \in DOMAIN x
        PROVE  x[i] \in {Head(x)} \cup Elems(Tail(x))
    <3>1. CASE i = 1
      BY <2>1, <3>1
    <3>2. CASE i - 1 \in 1..Len(x) - 1 /\ x[i] = Tail(x)[i - 1]
      <4>1. i - 1 \in DOMAIN Tail(x)
        BY <2>2, <3>2
      <4>. QED  BY <3>2, <4>1
    <3>. QED  BY <2>1, <2>3, <3>1, <3>2
  <2>7. {Head(x)} \cup Elems(Tail(x)) \subseteq Elems(x)
    BY <2>1, <2>2, <2>4, <2>5
  <2>. QED  BY <2>6, <2>7
<1>. QED  BY <1>1, <1>2

\* What a step of a sender does to its record beyond SendProgress, and to the
\* streams.
LEMMA SendMoves ==
    ASSUME TypeInv, NEW s \in Senders, SendStep(s)
    PROVE  LET t == sender[s]
               u == sender'[s]
           IN  /\ UNCHANGED <<receiver, known, emitters, conn, gone>>
               /\ \/ /\ t.pc \in {"size", "evict", "unmap", "add"}
                     /\ u.pc \notin {"snapshot", "send"} /\ out' = out
                  \/ t.pc = "put" /\ u.pc = "snapshot" /\ out' = out
                  \/ /\ t.pc = "snapshot" /\ u.pc = "send" /\ out' = out
                     /\ u.targets = emitters[receiver[t.event]]
                  \/ /\ t.pc = "send" /\ u.pc = "send"
                     /\ \E c \in t.targets :
                           /\ c \in Connections /\ u.targets = t.targets \ {c}
                           /\ out' = IF c \in gone THEN out
                                     ELSE [out EXCEPT ![c] = Append(@, t.event)]
                  \/ t.pc = "send" /\ t.targets = {} /\ u.pc = "idle" /\ out' = out
<1>1. sender[s] \in Sending /\ sender \in [Senders -> {Idle} \cup Sending]
  BY SendRecord DEF TypeInv, TypeOK
<1>2. UNCHANGED <<receiver, known, emitters, conn, gone>>
  BY DEF SendStep, ReadSize, Evict, Unmap, Add, Put, Snapshot, EndSend, Deliver, senderVars
<1>3. CASE ReadSize(s) \/ Evict(s) \/ Unmap(s) \/ Add(s)
  <2>1. sender[s].pc \in {"size", "evict", "unmap", "add"} /\ out' = out
    BY <1>3 DEF ReadSize, Evict, Unmap, Add
  <2>2. sender'[s].pc \notin {"snapshot", "send"}
    <3>1. CASE sender[s].pc # "evict"
      BY <2>1, <3>1, SendProgress
    <3>2. CASE sender[s].pc = "evict"
      BY <1>1, <1>3, <3>2 DEF ReadSize, Evict, Unmap, Add, Sending, Idle
    <3>. QED  BY <3>1, <3>2
  <2>. QED  BY <1>2, <2>1, <2>2
<1>4. CASE Put(s)
  BY <1>1, <1>2, <1>4 DEF Put, Sending
<1>5. CASE Snapshot(s)
  BY <1>1, <1>2, <1>5 DEF Snapshot, Sending
<1>6. CASE EndSend(s)
  BY <1>1, <1>2, <1>6 DEF EndSend, Idle
<1>7. ASSUME NEW c \in Connections, Deliver(s, c)
      PROVE  /\ sender[s].pc = "send" /\ sender'[s].pc = "send" /\ c \in sender[s].targets
             /\ sender'[s].targets = sender[s].targets \ {c}
             /\ out' = IF c \in gone THEN out ELSE [out EXCEPT ![c] = Append(@, sender[s].event)]
  <2>1. sender'[s] = Forget(s, c) /\ sender[s].pc = "send"
    BY <1>1, <1>7 DEF Deliver
  <2>2. Forget(s, c).pc = "send" /\ Forget(s, c).targets = sender[s].targets \ {c}
    BY <1>1, <2>1 DEF Forget, Sending
  <2>. QED  BY <1>7, <2>1, <2>2 DEF Deliver
<1>. QED  BY <1>2, <1>3, <1>4, <1>5, <1>6, <1>7 DEF SendStep

\* The start of a send adds a receiver and changes none.
LEMMA StartMoves ==
    ASSUME TypeInv, NEW s \in Senders, NEW u \in Users, StartSend(s, u)
    PROVE  /\ UNCHANGED <<log, head, messages, out, known, emitters, conn, gone>>
           /\ \A m \in DOMAIN receiver : m \in DOMAIN receiver' /\ receiver'[m] = receiver[m]
           /\ ~Busy(s) /\ sender'[s].pc = "size"
           /\ \A r \in Senders \ {s} : sender'[r] = sender[r]
<1>1. receiver \in Seq(Users) /\ receiver' = Append(receiver, u)
  BY DEF StartSend, TypeInv, TypeOK
<1>2. \A m \in DOMAIN receiver : m \in DOMAIN receiver' /\ receiver'[m] = receiver[m]
  BY <1>1
<1>. QED  BY <1>2 DEF StartSend, senderVars, TypeInv, TypeOK

\* What a step of a connection does, case by case: Save, Advance to another id
\* or to the end, Lookup without and with a message, Replay, EndConnect.
LEMMA ConnectMoves ==
    ASSUME TypeInv, NEW c \in Connections, ConnectStep(c)
    PROVE  LET k == conn[c]
               l == conn'[c]
               p == NextAt(c)
           IN  /\ Born(c) /\ k \in Connecting /\ l.pc # "unborn"
               /\ l.user = k.user /\ l.last = k.last
               /\ \A d \in Connections \ {c} : conn'[d] = conn[d]
               /\ UNCHANGED <<log, head, messages, receiver, sender, known, gone>>
               /\ \/ /\ k.pc = "save" /\ l.pc \in {"scan", "open"} /\ out' = out
                     /\ l.found = k.found /\ l.replay = k.replay
                     /\ emitters' = [emitters EXCEPT ![k.user] = @ \cup {c}]
                  \/ /\ emitters' = emitters /\ out' = out
                     /\ k.pc = "scan" /\ p <= Len(log) /\ ~k.end
                     /\ l.at = p /\ l.end = (p = Len(log)) /\ l.replay = k.replay
                     /\ l.found = (k.found \/ log[p] = k.last)
                     /\ l.pc = IF k.found THEN "get" ELSE "scan"
                  \/ /\ emitters' = emitters /\ out' = out
                     /\ k.pc = "scan" /\ (p > Len(log) \/ k.end)
                     /\ l.pc = "replay" /\ l.found = k.found /\ l.replay = k.replay
                  \/ /\ emitters' = emitters /\ out' = out
                     /\ k.pc = "get" /\ l.pc = "failed" /\ l.replay = k.replay
                  \/ /\ emitters' = emitters /\ out' = out
                     /\ k.pc = "get" /\ l.pc = "scan"
                     /\ l.at = k.at /\ l.end = k.end /\ l.found = k.found
                     /\ l.replay = IF receiver[log[k.at]] = k.user
                                   THEN Append(k.replay, log[k.at]) ELSE k.replay
                     /\ log[k.at] \in messages
                  \/ /\ emitters' = emitters
                     /\ k.pc = "replay" /\ l.pc = "replay" /\ k.replay # << >>
                     /\ l.found = k.found /\ l.replay = Tail(k.replay)
                     /\ out' = [out EXCEPT ![c] = Append(@, Head(k.replay))]
                  \/ /\ emitters' = emitters /\ out' = out
                     /\ k.pc = "replay" /\ l.pc = "open" /\ k.replay = << >>
                     /\ l.found = k.found /\ l.replay = k.replay
<1>. DEFINE k == conn[c]
            l == conn'[c]
<1>1. Born(c) /\ k \in Connecting /\ conn \in [Connections -> {Unborn} \cup Connecting]
  <2>1. Born(c)
    BY DEF ConnectStep, Save, Advance, Lookup, Replay, EndConnect, Born
  <2>. QED  BY <2>1, Records DEF TypeInv, TypeOK
<1>2. ASSUME NEW x, conn' = [conn EXCEPT ![c] = x]
      PROVE  l = x /\ \A d \in Connections \ {c} : conn'[d] = conn[d]
  BY <1>1, <1>2
<1>3. UNCHANGED <<log, head, messages, receiver, sender, known, gone>>
  BY DEF ConnectStep, Save, Advance, Lookup, Replay, EndConnect, connVars
<1>4. CASE Save(c)
  <2>. DEFINE p == IF k.last = NoEvent THEN "open" ELSE "scan"
              x == [k EXCEPT !.pc = p]
  <2>1. p \in {"open", "scan"}
    OBVIOUS
  <2>2. /\ x.pc = p /\ x.user = k.user /\ x.last = k.last /\ x.found = k.found
        /\ x.replay = k.replay
    <3>. HIDE DEF p, k
    <3>. QED  BY <1>1 DEF Connecting
  <2>3. conn' = [conn EXCEPT ![c] = x]
    BY <1>1, <1>4 DEF Save
  <2>. HIDE DEF x, p
  <2>4. l = x /\ \A d \in Connections \ {c} : conn'[d] = conn[d]
    BY <1>2, <2>3
  <2>. QED  BY <1>1, <1>3, <1>4, <2>1, <2>2, <2>4 DEF Save
<1>5. CASE Advance(c)
  <2>1. k.pc = "scan" /\ emitters' = emitters /\ out' = out
    BY <1>5 DEF Advance
  <2>2. CASE /\ NextAt(c) <= Len(log) /\ ~k.end
             /\ conn' = [conn EXCEPT ![c].at = NextAt(c),
                                     ![c].end = (NextAt(c) = Len(log)),
                                     ![c].found = @ \/ log[NextAt(c)] = conn[c].last,
                                     ![c].pc = IF Skips(c) THEN "scan" ELSE "get"]
    <3>. DEFINE a == NextAt(c)
                e == (a = Len(log))
                f == (k.found \/ log[a] = k.last)
                p == IF Skips(c) THEN "scan" ELSE "get"
                x == [k EXCEPT !.at = a, !.end = e, !.found = f, !.pc = p]
    <3>1. /\ x.at = a /\ x.end = e /\ x.found = f /\ x.pc = p
          /\ x.user = k.user /\ x.last = k.last /\ x.replay = k.replay
      <4>. HIDE DEF k, a, e, f, p
      <4>. QED  BY <1>1 DEF Connecting
    <3>2. conn' = [conn EXCEPT ![c] = x]
      BY <1>1, <2>2
    <3>3. p = (IF k.found THEN "get" ELSE "scan") /\ p # "unborn"
      BY DEF Skips
    <3>. HIDE DEF x
    <3>4. l = x /\ \A d \in Connections \ {c} : conn'[d] = conn[d]
      BY <1>2, <3>2
    <3>. QED  BY <1>1, <1>3, <2>1, <2>2, <3>1, <3>3, <3>4
  <2>3. CASE (NextAt(c) > Len(log) \/ k.end) /\ conn' = [conn EXCEPT ![c].pc = "replay"]
    <3>. DEFINE x == [k EXCEPT !.pc = "replay"]
    <3>1. /\ x.pc = "replay" /\ x.user = k.user /\ x.last = k.last /\ x.found = k.found
          /\ x.replay = k.replay
      BY <1>1 DEF Connecting
    <3>2. conn' = [conn EXCEPT ![c] = x]
      BY <1>1, <2>3
    <3>. HIDE DEF x
    <3>3. l = x /\ \A d \in Connections \ {c} : conn'[d] = conn[d]
      BY <1>2, <3>2
    <3>. QED  BY <1>1, <1>3, <2>1, <2>3, <3>1, <3>3
  <2>. QED  BY <1>5, <2>2, <2>3 DEF Advance
<1>6. CASE Lookup(c)
  <2>1. k.pc = "get" /\ emitters' = emitters /\ out' = out
    BY <1>6 DEF Lookup
  <2>2. CASE conn' = [conn EXCEPT ![c].pc = "failed"]
    <3>. DEFINE x == [k EXCEPT !.pc = "failed"]
    <3>1. x.pc = "failed" /\ x.user = k.user /\ x.last = k.last /\ x.replay = k.replay
      BY <1>1 DEF Connecting
    <3>2. conn' = [conn EXCEPT ![c] = x]
      BY <1>1, <2>2
    <3>. HIDE DEF x
    <3>3. l = x /\ \A d \in Connections \ {c} : conn'[d] = conn[d]
      BY <1>2, <3>2
    <3>. QED  BY <1>1, <1>3, <2>1, <3>1, <3>3
  <2>3. CASE /\ log[k.at] \in messages
             /\ conn' = [conn EXCEPT ![c].pc = "scan",
                                     ![c].replay = IF Receivable(log[k.at], k.user)
                                                   THEN Append(@, log[k.at]) ELSE @]
    <3>. DEFINE r == IF Receivable(log[k.at], k.user) THEN Append(k.replay, log[k.at])
                     ELSE k.replay
                x == [k EXCEPT !.pc = "scan", !.replay = r]
    <3>1. /\ x.pc = "scan" /\ x.user = k.user /\ x.last = k.last /\ x.replay = r
          /\ x.at = k.at /\ x.end = k.end /\ x.found = k.found
      <4>. HIDE DEF k, r
      <4>. QED  BY <1>1 DEF Connecting
    <3>2. conn' = [conn EXCEPT ![c] = x]
      BY <1>1, <2>3
    <3>3. r = IF receiver[log[k.at]] = k.user THEN Append(k.replay, log[k.at]) ELSE k.replay
      BY DEF Receivable
    <3>. HIDE DEF x, r
    <3>4. l = x /\ \A d \in Connections \ {c} : conn'[d] = conn[d]
      BY <1>2, <3>2
    <3>. QED  BY <1>1, <1>3, <2>1, <2>3, <3>1, <3>3, <3>4
  <2>. QED  BY <1>6, <2>2, <2>3 DEF Lookup
<1>7. CASE Replay(c)
  <2>. DEFINE x == [k EXCEPT !.replay = Tail(k.replay)]
  <2>1. /\ x.pc = k.pc /\ x.user = k.user /\ x.last = k.last /\ x.found = k.found
        /\ x.replay = Tail(k.replay)
    BY <1>1 DEF Connecting
  <2>2. conn' = [conn EXCEPT ![c] = x]
    BY <1>1, <1>7 DEF Replay
  <2>. HIDE DEF x
  <2>3. l = x /\ \A d \in Connections \ {c} : conn'[d] = conn[d]
    BY <1>2, <2>2
  <2>. QED  BY <1>1, <1>3, <1>7, <2>1, <2>3 DEF Replay
<1>8. CASE EndConnect(c)
  <2>. DEFINE x == [k EXCEPT !.pc = "open", !.at = 0, !.end = FALSE]
  <2>1. /\ x.pc = "open" /\ x.user = k.user /\ x.last = k.last /\ x.found = k.found
        /\ x.replay = k.replay
    BY <1>1 DEF Connecting
  <2>2. conn' = [conn EXCEPT ![c] = x]
    BY <1>1, <1>8 DEF EndConnect
  <2>. HIDE DEF x
  <2>3. l = x /\ \A d \in Connections \ {c} : conn'[d] = conn[d]
    BY <1>2, <2>2
  <2>. QED  BY <1>1, <1>3, <1>8, <2>1, <2>3 DEF EndConnect
<1>. QED  BY <1>4, <1>5, <1>6, <1>7, <1>8 DEF ConnectStep

---------------------------------------------------------------------------
(* Own events only *)

\* Whatever is on its way to an emitter, by its registration, by the snapshot
\* of a sender or by a replay, is for the user of its connection.
OwnWays ==
    /\ \A u \in Users : \A c \in emitters[u] : Born(c) /\ conn[c].user = u
    /\ \A s \in Senders : sender[s].pc = "send" =>
          \A c \in sender[s].targets : Born(c) /\ conn[c].user = receiver[sender[s].event]
    /\ \A c \in Connections : Born(c) =>
          \A m \in Replayed(c) : m \in DOMAIN receiver /\ receiver[m] = conn[c].user
    /\ \A c \in Connections : Received(c) \subseteq DOMAIN receiver
    /\ \A c \in Connections : ~Born(c) => out[c] = << >>
OwnInv == OwnWays /\ OnlyOwnEvents

\* The steps of a sender put nothing else on its way.
LEMMA OwnSend ==
    ASSUME TypeInv, OwnInv, NEW s \in Senders, SendStep(s)
    PROVE  OwnInv'
<1>. DEFINE t == sender[s]
            u == sender'[s]
<1>1. /\ UNCHANGED <<receiver, emitters, conn>>
      /\ t.event \in DOMAIN receiver /\ t.event \in Events
      /\ \A r \in Senders : Busy(r)' => Busy(r) /\ sender'[r].event = sender[r].event
      /\ \A r \in Senders \ {s} : sender'[r] = sender[r]
  BY SendMoves, SendRecord DEF Sending
<1>2. receiver[t.event] \in Users /\ out \in [Connections -> Seq(Events)]
      /\ emitters \in [Users -> SUBSET Connections]
  BY <1>1, Lengths, ElementOfSeq DEF TypeInv, TypeOK
<1>3. ASSUME NEW r \in Senders, sender'[r].pc = "send", NEW c \in sender'[r].targets
      PROVE  Born(c) /\ conn[c].user = receiver[sender'[r].event]
  <2>1. sender'[r].event = sender[r].event
    BY <1>1, <1>3 DEF Busy
  <2>2. CASE r # s
    BY <1>1, <1>3, <2>2 DEF OwnInv, OwnWays
  <2>3. CASE r = s /\ t.pc = "snapshot" /\ u.targets = emitters[receiver[t.event]]
    BY <1>2, <1>3, <2>1, <2>3 DEF OwnInv, OwnWays
  <2>4. CASE r = s /\ t.pc = "send" /\ \E d \in t.targets : u.targets = t.targets \ {d}
    BY <1>3, <2>1, <2>4 DEF OwnInv, OwnWays
  <2>. QED  BY <1>3, <2>2, <2>3, <2>4, SendMoves
<1>4. \/ out' = out
      \/ \E d \in Connections : /\ t.pc = "send" /\ d \in t.targets
                                /\ out' = [out EXCEPT ![d] = Append(@, t.event)]
  BY SendMoves
<1>5. ASSUME NEW c \in Connections
      PROVE  \/ out'[c] = out[c]
             \/ /\ Born(c) /\ conn[c].user = receiver[t.event]
                /\ Received(c)' = Received(c) \cup {t.event}
  <2>1. ASSUME NEW d \in Connections, t.pc = "send", d \in t.targets,
               out' = [out EXCEPT ![d] = Append(@, t.event)], c = d
        PROVE  /\ Born(c) /\ conn[c].user = receiver[t.event]
               /\ Received(c)' = Received(c) \cup {t.event}
    <3>1. out[c] \in Seq(Events) /\ out'[c] = Append(out[c], t.event)
      BY <1>2, <2>1
    <3>2. Received(c)' = Received(c) \cup {t.event}
      BY <1>1, <3>1, Elements DEF Received, Elems
    <3>. QED  BY <2>1, <3>2 DEF OwnInv, OwnWays
  <2>. QED  BY <1>2, <1>4, <2>1
<1>6. \A c \in Connections : Received(c)' \subseteq DOMAIN receiver
  BY <1>1, <1>5 DEF OwnInv, OwnWays, Received
<1>7. \A c \in Connections : ~Born(c) => out'[c] = << >>
  BY <1>5 DEF OwnInv, OwnWays
<1>8. OwnWays'
  BY <1>1, <1>3, <1>6, <1>7 DEF OwnInv, OwnWays, Born, Replayed
<1>9. OnlyOwnEvents'
  <2>. SUFFICES ASSUME NEW c \in Connections, NEW m \in Received(c)'
                PROVE  receiver[m] = conn[c].user
    BY <1>1 DEF OnlyOwnEvents
  <2>1. CASE m \in Received(c)
    BY <2>1 DEF OwnInv, OnlyOwnEvents
  <2>2. CASE m = t.event /\ conn[c].user = receiver[t.event]
    BY <2>2
  <2>. QED  BY <1>5, <2>1, <2>2 DEF Received
<1>. QED  BY <1>8, <1>9 DEF OwnInv

\* A new message changes the receiver of no other.
LEMMA OwnStart ==
    ASSUME TypeInv, OwnInv, NEW s \in Senders, NEW u \in Users, StartSend(s, u)
    PROVE  OwnInv'
<1>1. /\ UNCHANGED <<out, emitters, conn>>
      /\ \A m \in DOMAIN receiver : m \in DOMAIN receiver' /\ receiver'[m] = receiver[m]
      /\ sender'[s].pc = "size"
      /\ \A r \in Senders \ {s} : sender'[r] = sender[r]
  BY StartMoves
<1>2. ASSUME NEW r \in Senders, sender'[r].pc = "send", NEW c \in sender'[r].targets
      PROVE  Born(c) /\ conn[c].user = receiver'[sender'[r].event]
  <2>1. r # s /\ sender'[r] = sender[r] /\ Busy(r)
    BY <1>1, <1>2 DEF Busy
  <2>2. sender[r].event \in DOMAIN receiver
    BY <2>1 DEF TypeInv, InHand
  <2>. QED  BY <1>1, <1>2, <2>1, <2>2 DEF OwnInv, OwnWays
<1>3. OwnWays'
  <2>1. \A c \in Connections : Received(c)' = Received(c) /\ Replayed(c)' = Replayed(c)
                                /\ (Born(c)' <=> Born(c))
    BY <1>1 DEF Received, Replayed, Born
  <2>2. \A c \in Connections : Received(c)' \subseteq DOMAIN receiver'
    BY <1>1, <2>1 DEF OwnInv, OwnWays
  <2>3. \A c \in Connections : Born(c)' =>
           \A m \in Replayed(c)' : m \in DOMAIN receiver' /\ receiver'[m] = conn[c].user
    BY <1>1, <2>1 DEF OwnInv, OwnWays
  <2>4. \A c \in Connections : ~Born(c)' => out'[c] = << >>
    BY <1>1, <2>1 DEF OwnInv, OwnWays
  <2>5. \A v \in Users : \A c \in emitters'[v] : Born(c)' /\ conn'[c].user = v
    BY <1>1 DEF OwnInv, OwnWays, Born
  <2>6. \A r \in Senders : sender'[r].pc = "send" =>
           \A c \in sender'[r].targets : Born(c)' /\ conn'[c].user = receiver'[sender'[r].event]
    BY <1>1, <1>2 DEF Born
  <2>. QED  BY <1>1, <2>2, <2>3, <2>4, <2>5, <2>6 DEF OwnWays
<1>4. OnlyOwnEvents'
  BY <1>1 DEF OwnInv, OwnWays, OnlyOwnEvents, Received
<1>. QED  BY <1>3, <1>4 DEF OwnInv

\* Registration and replay concern the connection's own user; the steps of a
\* connection leave the other ones alone.
LEMMA OwnConnect ==
    ASSUME TypeInv, OwnInv, NEW c \in Connections, ConnectStep(c)
    PROVE  OwnInv'
<1>. DEFINE k == conn[c]
            l == conn'[c]
<1>1. /\ Born(c) /\ k \in Connecting /\ l.pc # "unborn" /\ l.user = k.user
      /\ \A d \in Connections \ {c} : conn'[d] = conn[d]
      /\ UNCHANGED <<log, head, messages, receiver, sender, known, gone>>
  BY ConnectMoves
<1>2. /\ k.user \in Users /\ k.replay \in Seq(Events) /\ out \in [Connections -> Seq(Events)]
      /\ emitters \in [Users -> SUBSET Connections]
  BY <1>1 DEF Connecting, TypeInv, TypeOK
<1>3. \A d \in Connections : (Born(d)' <=> Born(d)) /\ (Born(d) => conn'[d].user = conn[d].user)
  BY <1>1 DEF Born
<1>4. \A u \in Users : \A d \in emitters'[u] : d \in emitters[u] \/ (d = c /\ u = k.user)
  <2>1. emitters' = emitters \/ emitters' = [emitters EXCEPT ![k.user] = @ \cup {c}]
    BY ConnectMoves
  <2>. QED  BY <1>2, <2>1
<1>5. \A m \in Replayed(c) \cup Received(c) : m \in DOMAIN receiver /\ receiver[m] = k.user
  BY <1>1 DEF OwnInv, OwnWays, OnlyOwnEvents
<1>6. \A d \in Connections \ {c} : out'[d] = out[d] /\ Replayed(d)' = Replayed(d)
  <2>1. \A d \in Connections \ {c} : Replayed(d)' = Replayed(d)
    BY <1>1 DEF Replayed
  <2>2. out' = out \/ out' = [out EXCEPT ![c] = Append(@, Head(k.replay))]
    BY ConnectMoves
  <2>. QED  BY <1>2, <2>1, <2>2
<1>7. \A m \in Replayed(c)' \cup Received(c)' : m \in DOMAIN receiver /\ receiver[m] = k.user
  <2>1. CASE out' = out /\ l.replay = k.replay
    BY <1>5, <2>1 DEF Replayed, Received
  <2>2. CASE /\ k.pc = "get" /\ out' = out /\ log[k.at] \in messages
             /\ l.replay = IF receiver[log[k.at]] = k.user
                           THEN Append(k.replay, log[k.at]) ELSE k.replay
    <3>1. log[k.at] \in DOMAIN receiver /\ log[k.at] \in Events
      BY <2>2, Lengths DEF TypeInv, TypeOK
    <3>2. CASE receiver[log[k.at]] = k.user
      <4>1. Replayed(c)' = Replayed(c) \cup {log[k.at]}
        <5>1. l.replay = Append(k.replay, log[k.at])
          BY <2>2, <3>2
        <5>. QED  BY <1>2, <3>1, <5>1, Elements DEF Replayed
      <4>. QED  BY <1>5, <2>2, <3>1, <3>2, <4>1 DEF Received
    <3>3. CASE receiver[log[k.at]] # k.user
      BY <1>5, <2>2, <3>3 DEF Replayed, Received
    <3>. QED  BY <3>2, <3>3
  <2>3. CASE /\ k.replay # << >> /\ l.replay = Tail(k.replay)
             /\ out' = [out EXCEPT ![c] = Append(@, Head(k.replay))]
    <3>1. Replayed(c) = {Head(k.replay)} \cup Replayed(c)'
      BY <1>2, <2>3, Elements DEF Replayed
    <3>2. Received(c)' = Received(c) \cup {Head(k.replay)}
      <4>1. out[c] \in Seq(Events) /\ Head(k.replay) \in Events
            /\ out'[c] = Append(out[c], Head(k.replay))
        BY <1>2, <2>3
      <4>. QED  BY <4>1, Elements DEF Received, Elems
    <3>. QED  BY <1>5, <3>1, <3>2
  <2>. QED  BY <2>1, <2>2, <2>3, ConnectMoves
<1>8. OwnWays'
  <2>1. \A u \in Users : \A d \in emitters'[u] : Born(d)' /\ conn'[d].user = u
    <3>. SUFFICES ASSUME NEW u \in Users, NEW d \in emitters'[u]
                  PROVE  Born(d)' /\ conn'[d].user = u
      OBVIOUS
    <3>1. CASE d \in emitters[u]
      BY <1>2, <1>3, <3>1 DEF OwnInv, OwnWays
    <3>2. CASE d = c /\ u = k.user
      BY <1>1, <1>3, <3>2
    <3>. QED  BY <1>4, <3>1, <3>2
  <2>2. ASSUME NEW r \in Senders, sender[r].pc = "send", NEW d \in sender[r].targets
        PROVE  Born(d)' /\ conn'[d].user = receiver[sender[r].event]
    <3>1. d \in Connections
      BY <2>2, Records DEF TypeInv, Busy, Sending
    <3>. QED  BY <1>3, <2>2, <3>1 DEF OwnInv, OwnWays
  <2>3. ASSUME NEW d \in Connections, Born(d)'
        PROVE  \A m \in Replayed(d)' : m \in DOMAIN receiver /\ receiver[m] = conn'[d].user
    BY <1>1, <1>3, <1>6, <1>7, <2>3 DEF OwnInv, OwnWays
  <2>4. \A d \in Connections : Received(d)' \subseteq DOMAIN receiver
    BY <1>6, <1>7 DEF OwnInv, OwnWays, Received
  <2>5. \A d \in Connections : ~Born(d)' => out'[d] = << >>
    BY <1>1, <1>3, <1>6 DEF OwnInv, OwnWays
  <2>. QED  BY <1>1, <2>1, <2>2, <2>3, <2>4, <2>5 DEF OwnWays
<1>9. OnlyOwnEvents'
  <2>. SUFFICES ASSUME NEW d \in Connections, NEW m \in Received(d)'
                PROVE  receiver[m] = conn'[d].user
    BY <1>1 DEF OnlyOwnEvents
  <2>1. CASE d = c
    BY <1>1, <1>7, <2>1
  <2>2. CASE d # c
    <3>1. m \in Received(d) /\ conn'[d] = conn[d]
      BY <1>1, <1>6, <2>2 DEF Received
    <3>. QED  BY <3>1 DEF OwnInv, OnlyOwnEvents
  <2>. QED  BY <2>1, <2>2
<1>. QED  BY <1>8, <1>9 DEF OwnInv

\* A new connection has received nothing; the end of one takes nothing away
\* but its registration.
LEMMA OwnOther ==
    ASSUME TypeInv, OwnInv, NEW c \in Connections,
           \/ Leave(c) \/ Remove(c)
           \/ \E u \in Users, last \in Events \cup {NoEvent} : Connect(c, u, last)
    PROVE  OwnInv'
<1>1. CASE Leave(c)
  BY <1>1 DEF Leave, connVars, OwnInv, OwnWays, OnlyOwnEvents, Born, Received, Replayed
<1>2. CASE Remove(c)
  <2>1. /\ UNCHANGED <<receiver, sender, conn, out>>
        /\ emitters' = [emitters EXCEPT ![conn[c].user] = @ \ {c}]
    BY <1>2 DEF Remove, Without, connVars
  <2>2. \A u \in Users : emitters'[u] \subseteq emitters[u]
    BY <2>1 DEF TypeInv, TypeOK
  <2>. QED  BY <2>1, <2>2 DEF OwnInv, OwnWays, OnlyOwnEvents, Born, Received, Replayed
<1>3. ASSUME NEW u \in Users, NEW last \in Events \cup {NoEvent}, Connect(c, u, last)
      PROVE  OwnInv'
  <2>1. /\ UNCHANGED <<receiver, sender, emitters, out>> /\ ~Born(c)
        /\ conn'[c].pc = "save" /\ conn'[c].user = u /\ conn'[c].replay = << >>
        /\ \A d \in Connections \ {c} : conn'[d] = conn[d]
    BY <1>3 DEF Connect, connVars, TypeInv, TypeOK
  <2>2. Received(c) = {} /\ Replayed(c)' = {}
    BY <2>1 DEF OwnInv, OwnWays, Received, Replayed, Elems
  <2>3. \A d \in Connections : Born(d) => d # c /\ Born(d)' /\ conn'[d] = conn[d]
    BY <2>1 DEF Born
  <2>4. \A v \in Users : \A d \in emitters[v] : Born(d)' /\ conn'[d].user = v
    BY <2>3 DEF OwnInv, OwnWays, TypeInv, TypeOK
  <2>5. ASSUME NEW r \in Senders, sender[r].pc = "send", NEW d \in sender[r].targets
        PROVE  Born(d)' /\ conn'[d].user = receiver[sender[r].event]
    <3>1. d \in Connections
      BY <2>5, Records DEF TypeInv, Busy, Sending
    <3>. QED  BY <2>3, <2>5, <3>1 DEF OwnInv, OwnWays
  <2>6. ASSUME NEW d \in Connections
        PROVE  /\ \A m \in Replayed(d)' :
                     \/ ~Born(d)'
                     \/ m \in DOMAIN receiver /\ receiver[m] = conn'[d].user
               /\ \A m \in Received(d) : receiver[m] = conn'[d].user
               /\ ~Born(d)' => out[d] = << >>
    <3>1. CASE d = c
      BY <2>1, <2>2, <3>1 DEF Born
    <3>2. CASE d # c
      BY <2>1, <3>2 DEF OwnInv, OwnWays, OnlyOwnEvents, Born, Replayed
    <3>. QED  BY <3>1, <3>2
  <2>7. OwnWays'
    BY <2>1, <2>4, <2>5, <2>6 DEF OwnInv, OwnWays, Received
  <2>8. OnlyOwnEvents'
    BY <2>1, <2>6 DEF OnlyOwnEvents, Received
  <2>. QED  BY <2>7, <2>8 DEF OwnInv
<1>. QED  BY <1>1, <1>2, <1>3

\* No emitter is ever given an event of another user: registration puts it on
\* the list of its own user, a sender reads the list of the receiver of its
\* event, and a replay passes the receiver's filter.
THEOREM OwnEventsOnly == Spec => []OnlyOwnEvents
<1>1. Init => OwnInv
  BY DEF Init, OwnInv, OwnWays, OnlyOwnEvents, Born, Received, Replayed, Idle, Unborn
<1>2. TypeInv /\ OwnInv /\ [Next]_vars => OwnInv'
  <2>1. ASSUME TypeInv, OwnInv, Next
        PROVE  OwnInv'
    BY <2>1, OwnSend, OwnStart, OwnConnect, OwnOther DEF Next
  <2>2. ASSUME OwnInv, UNCHANGED vars
        PROVE  OwnInv'
    BY <2>2 DEF vars, OwnInv, OwnWays, OnlyOwnEvents, Born, Received, Replayed
  <2>. QED  BY <2>1, <2>2
<1>. QED  BY <1>1, <1>2, TypeInvariant, PTL DEF Spec, OwnInv

---------------------------------------------------------------------------
(* No gap after a reconnection *)

\* A connection that has registered and whose client has not left.
Linked(c) == conn[c].pc \notin {"unborn", "save"} /\ c \notin gone

\* A sender will still give this event to this emitter: it will read the list
\* of emitters, or it has read it and found this one.
Coming(c, m) ==
    \E s \in Senders :
        /\ \/ sender[s].pc \in {"put", "snapshot"}
           \/ sender[s].pc = "send" /\ c \in sender[s].targets
        /\ sender[s].event = m
Covered(c, m) == m \in Received(c) \/ m \in Replayed(c) \/ Coming(c, m)

\* Positions of the log that a replay does not look at any more.
Passed(c, q) ==
    \/ conn[c].pc \in {"replay", "open"}
    \/ conn[c].pc \in {"scan", "get"} /\ (q < conn[c].at \/ (q > conn[c].at /\ conn[c].end))
    \/ conn[c].pc = "scan" /\ q = conn[c].at

Registered == \A c \in Connections : Linked(c) => c \in emitters[conn[c].user]
Fresh == \A c \in Connections :
             /\ conn[c].pc \in {"save", "open"} => conn[c].replay = << >>
             /\ conn[c].pc = "save" => ~conn[c].found

\* Of the queued events of the user after the one last seen, those that the
\* replay has passed are covered.  The others it will still look at.
Gap(c) ==
    Linked(c) /\ conn[c].found =>
        \A p, q \in head + 1 .. Len(log) :
            p < q /\ log[p] = conn[c].last /\ receiver[log[q]] = conn[c].user /\ Passed(c, q) =>
                Covered(c, log[q])
GapInv == Registered /\ Fresh /\ \A c \in Connections : Gap(c)

\* A step of a sender takes no covered event away from a linked connection.
LEMMA CoveredSend ==
    ASSUME TypeInv, Registered, NEW s \in Senders, SendStep(s),
           NEW c \in Connections, Linked(c), NEW m \in Events,
           receiver[m] = conn[c].user, Covered(c, m)
    PROVE  Covered(c, m)'
<1>. DEFINE t == sender[s]
            u == sender'[s]
<1>1. /\ UNCHANGED conn /\ Busy(s) /\ t.event \in Events
      /\ \A r \in Senders : Busy(r)' => Busy(r) /\ sender'[r].event = sender[r].event
      /\ \A r \in Senders \ {s} : sender'[r] = sender[r]
  BY SendMoves, SendRecord DEF Sending
<1>2. out \in [Connections -> Seq(Events)]
  BY DEF TypeInv, TypeOK
<1>3. CASE m \in Replayed(c)
  BY <1>1, <1>3 DEF Covered, Replayed
<1>4. Received(c) \subseteq Received(c)'
  <2>1. \/ out' = out
        \/ \E d \in Connections : out' = [out EXCEPT ![d] = Append(@, t.event)]
    BY SendMoves
  <2>2. ASSUME NEW d \in Connections, out' = [out EXCEPT ![d] = Append(@, t.event)]
        PROVE  Received(c) \subseteq Received(c)'
    <3>1. CASE d = c
      <4>1. out[c] \in Seq(Events) /\ out'[c] = Append(out[c], t.event)
        BY <1>2, <2>2, <3>1
      <4>. QED  BY <1>1, <4>1, Elements DEF Received, Elems
    <3>2. CASE d # c
      BY <1>2, <2>2, <3>2 DEF Received
    <3>. QED  BY <3>1, <3>2
  <2>. QED  BY <2>1, <2>2 DEF Received
<1>5. CASE Coming(c, m)
  <2>1. PICK r \in Senders : /\ \/ sender[r].pc \in {"put", "snapshot"}
                                \/ sender[r].pc = "send" /\ c \in sender[r].targets
                             /\ sender[r].event = m
    BY <1>5 DEF Coming
  <2>2. CASE r # s
    BY <1>1, <2>1, <2>2 DEF Covered, Coming
  <2>3. CASE r = s /\ t.pc = "put" /\ u.pc = "snapshot"
    BY <1>1, <2>1, <2>3 DEF Covered, Coming, Busy
  <2>4. CASE r = s /\ t.pc = "snapshot" /\ u.pc = "send" /\ u.targets = emitters[receiver[m]]
    <3>1. c \in u.targets /\ u.event = m
      BY <1>1, <2>1, <2>4 DEF Registered, Busy
    <3>. QED  BY <2>4, <3>1 DEF Covered, Coming
  <2>5. ASSUME r = s, t.pc = "send", u.pc = "send", NEW d \in Connections,
               u.targets = t.targets \ {d},
               out' = IF d \in gone THEN out ELSE [out EXCEPT ![d] = Append(@, t.event)]
        PROVE  Covered(c, m)'
    <3>1. u.event = m /\ c \in t.targets /\ t.event = m
      BY <1>1, <2>1, <2>5 DEF Busy
    <3>2. CASE d # c
      BY <2>5, <3>1, <3>2 DEF Covered, Coming
    <3>3. CASE d = c
      <4>1. out[c] \in Seq(Events) /\ out'[c] = Append(out[c], m)
        BY <1>2, <2>5, <3>1, <3>3 DEF Linked
      <4>. QED  BY <4>1, Elements DEF Received, Elems, Covered
    <3>. QED  BY <3>2, <3>3
  <2>. QED  BY <2>1, <2>2, <2>3, <2>4, <2>5, SendMoves
<1>. QED  BY <1>3, <1>4, <1>5 DEF Covered

\* An event that a sender queues is one it will still give to the emitters.
LEMMA GapSend ==
    ASSUME TypeInv, GapInv, NEW s \in Senders, SendStep(s)
    PROVE  GapInv'
<1>1. /\ UNCHANGED <<receiver, emitters, conn, gone>> /\ Busy(s)
      /\ \A r \in Senders : Busy(r)' => Busy(r) /\ sender'[r].event = sender[r].event
  BY SendMoves, SendRecord
<1>2. log \in Seq(Events) /\ Len(log) \in Nat /\ head \in Nat
      /\ \A p \in 1..Len(log) : log[p] \in Events
  BY Lengths DEF TypeInv, TypeOK
<1>3. \/ log' = log /\ head' \in {head, head + 1}
      \/ /\ log' = Append(log, sender[s].event) /\ head' = head /\ sender'[s].pc = "put"
         /\ sender[s].event \in Events
  BY SendProgress, SendRecord DEF Sending
<1>4. Registered' /\ Fresh'
  BY <1>1 DEF GapInv, Registered, Fresh, Linked
<1>5. ASSUME NEW c \in Connections, Linked(c), conn[c].found,
             NEW p \in head' + 1 .. Len(log'), NEW q \in head' + 1 .. Len(log'), p < q,
             log'[p] = conn[c].last, receiver[log'[q]] = conn[c].user, Passed(c, q)
      PROVE  Covered(c, log[q])'
  <2>1. CASE q \in 1..Len(log)
    <3>1. /\ p \in head + 1 .. Len(log) /\ q \in head + 1 .. Len(log)
          /\ log'[p] = log[p] /\ log'[q] = log[q] /\ log[q] \in Events
      <4>1. p \in head + 1 .. Len(log) /\ q \in head + 1 .. Len(log)
        BY <1>2, <1>3, <1>5, <2>1
      <4>2. \A i \in 1..Len(log) : log'[i] = log[i]
        <5>1. CASE log' = log
          BY <5>1
        <5>2. CASE log' = Append(log, sender[s].event) /\ sender[s].event \in Events
          BY <1>2, <5>2
        <5>. QED  BY <1>3, <5>1, <5>2
      <4>. QED  BY <1>2, <4>1, <4>2
    <3>2. Covered(c, log[q])
      <4>1. Gap(c)
        BY <1>5 DEF GapInv
      <4>. QED  BY <1>5, <3>1, <4>1 DEF Gap
    <3>3. receiver[log[q]] = conn[c].user
      BY <1>5, <3>1
    <3>4. PICK m \in Events : m = log[q]
      BY <3>1
    <3>5. Covered(c, m)'
      BY <1>5, <3>2, <3>3, <3>4, CoveredSend DEF GapInv
    <3>. QED  BY <3>1, <3>4, <3>5
  <2>2. CASE q \notin 1..Len(log)
    <3>1. /\ log' = Append(log, sender[s].event) /\ sender'[s].pc = "put"
          /\ log'[q] = sender[s].event
      BY <1>2, <1>3, <1>5, <2>2
    <3>2. sender'[s].event = sender[s].event
      BY <1>1, <3>1 DEF Busy
    <3>. QED  BY <3>1, <3>2 DEF Covered, Coming
  <2>. QED  BY <2>1, <2>2
<1>6. \A c \in Connections : (Linked(c)' <=> Linked(c)) /\ \A q : Passed(c, q)' <=> Passed(c, q)
  BY <1>1 DEF Linked, Passed
<1>7. \A c \in Connections : Gap(c)'
  BY <1>1, <1>5, <1>6 DEF Gap
<1>. QED  BY <1>4, <1>7 DEF GapInv

\* The receivers of the queued events are settled before, and an idle sender
\* covered nothing.
LEMMA GapStart ==
    ASSUME TypeInv, IdsOnce, GapInv, NEW s \in Senders, NEW u \in Users, StartSend(s, u)
    PROVE  GapInv'
<1>1. /\ UNCHANGED <<log, head, out, emitters, conn, gone>> /\ ~Busy(s)
      /\ \A m \in DOMAIN receiver : receiver'[m] = receiver[m]
      /\ \A r \in Senders \ {s} : sender'[r] = sender[r]
  BY StartMoves
<1>2. Registered' /\ Fresh'
  BY <1>1 DEF GapInv, Registered, Fresh, Linked
<1>3. \A q \in head + 1 .. Len(log) : receiver'[log[q]] = receiver[log[q]]
  <2>. SUFFICES ASSUME NEW q \in head + 1 .. Len(log)
                PROVE  log[q] \in DOMAIN receiver
    BY <1>1
  <2>1. q \in 1..Len(log)
    BY Lengths DEF TypeInv
  <2>. QED  BY <2>1, Lengths DEF TypeInv, IdsOnce, Events
<1>4. ASSUME NEW c \in Connections, NEW m, Covered(c, m)
      PROVE  Covered(c, m)'
  <2>1. CASE Coming(c, m)
    BY <1>1, <2>1 DEF Coming, Covered, Busy
  <2>2. CASE ~Coming(c, m)
    BY <1>1, <1>4, <2>2 DEF Covered, Received, Replayed
  <2>. QED  BY <2>1, <2>2
<1>5. ASSUME NEW c \in Connections
      PROVE  Gap(c)'
  <2>. SUFFICES ASSUME Linked(c), conn[c].found,
                       NEW p \in head + 1 .. Len(log), NEW q \in head + 1 .. Len(log), p < q,
                       log[p] = conn[c].last, receiver'[log[q]] = conn[c].user, Passed(c, q)
                PROVE  Covered(c, log[q])'
    BY <1>1 DEF Gap, Linked, Passed
  <2>1. Covered(c, log[q])
    BY <1>3 DEF GapInv, Gap
  <2>2. PICK m : m = log[q]
    OBVIOUS
  <2>3. Covered(c, m)'
    BY <1>4, <2>1, <2>2
  <2>. QED  BY <1>1, <2>2, <2>3
<1>. QED  BY <1>2, <1>5 DEF GapInv

\* A step of a connection looks at the next queued event, and what it passes
\* it has read for the replay.
LEMMA GapConnect ==
    ASSUME TypeInv, IdsOnce, GapInv, NEW c \in Connections, ConnectStep(c)
    PROVE  GapInv'
<1>. DEFINE k == conn[c]
            l == conn'[c]
<1>1. /\ Born(c) /\ k \in Connecting /\ l.pc # "unborn" /\ l.user = k.user /\ l.last = k.last
      /\ \A d \in Connections \ {c} : conn'[d] = conn[d]
      /\ UNCHANGED <<log, head, receiver, sender, gone>>
  BY ConnectMoves
<1>2. /\ k.user \in Users /\ k.replay \in Seq(Events) /\ out \in [Connections -> Seq(Events)]
      /\ emitters \in [Users -> SUBSET Connections] /\ k.at \in Nat
      /\ head \in Nat /\ Len(log) \in Nat /\ \A p \in 1..Len(log) : log[p] \in Events
  BY <1>1, Lengths DEF Connecting, TypeInv, TypeOK
<1>3. Registered'
  <2>. SUFFICES ASSUME NEW d \in Connections, Linked(d)'
                PROVE  d \in emitters'[conn'[d].user]
    BY DEF Registered
  <2>1. CASE Linked(d) /\ conn'[d].user = conn[d].user
    <3>1. d \in emitters[conn[d].user] /\ conn[d].user \in Users
      BY <2>1, Records DEF GapInv, Registered, Linked, TypeInv, Born, Connecting
    <3>2. emitters' = emitters \/ emitters' = [emitters EXCEPT ![k.user] = @ \cup {c}]
      BY ConnectMoves
    <3>. QED  BY <1>2, <2>1, <3>1, <3>2
  <2>2. CASE d = c /\ k.pc = "save" /\ emitters' = [emitters EXCEPT ![k.user] = @ \cup {c}]
    BY <1>1, <1>2, <2>2
  <2>3. CASE d = c /\ k.pc # "save"
    BY <1>1, <2>1, <2>3 DEF Linked, Born
  <2>4. CASE d # c
    BY <1>1, <2>1, <2>4 DEF Linked
  <2>. QED  BY <2>2, <2>3, <2>4, ConnectMoves
<1>4. Fresh'
  <2>1. l.pc \in {"save", "open"} => l.replay = << >>
    BY ConnectMoves DEF GapInv, Fresh
  <2>2. l.pc # "save"
    BY ConnectMoves
  <2>. QED  BY <1>1, <2>1, <2>2 DEF GapInv, Fresh
<1>5. ASSUME NEW d \in Connections \ {c}
      PROVE  Gap(d)'
  <2>1. out'[d] = out[d]
    <3>1. out' = out \/ out' = [out EXCEPT ![c] = Append(@, Head(k.replay))]
      BY ConnectMoves
    <3>. QED  BY <1>2, <3>1
  <2>2. Gap(d)
    BY DEF GapInv
  <2>. QED  BY <1>1, <2>1, <2>2 DEF Gap, Linked, Passed, Covered, Coming, Received, Replayed
<1>6. \A m : Covered(c, m) => Covered(c, m)'
  <2>1. Received(c) \cup Replayed(c) \subseteq Received(c)' \cup Replayed(c)'
    <3>1. CASE out' = out /\ l.replay = k.replay
      BY <3>1 DEF Received, Replayed
    <3>2. CASE /\ out' = out /\ k.pc = "get"
               /\ l.replay = IF receiver[log[k.at]] = k.user
                             THEN Append(k.replay, log[k.at]) ELSE k.replay
      <4>1. log[k.at] \in Events
        BY <1>2, <3>2 DEF TypeInv, InHand
      <4>2. CASE l.replay = Append(k.replay, log[k.at])
        BY <1>2, <3>2, <4>1, <4>2, Elements DEF Received, Replayed
      <4>3. CASE l.replay = k.replay
        BY <3>1, <3>2, <4>3
      <4>. QED  BY <3>2, <4>2, <4>3
    <3>3. CASE /\ k.replay # << >> /\ l.replay = Tail(k.replay)
               /\ out' = [out EXCEPT ![c] = Append(@, Head(k.replay))]
      <4>1. Replayed(c) = {Head(k.replay)} \cup Replayed(c)'
        BY <1>2, <3>3, Elements DEF Replayed
      <4>2. Received(c)' = Received(c) \cup {Head(k.replay)}
        <5>1. out[c] \in Seq(Events) /\ Head(k.replay) \in Events
              /\ out'[c] = Append(out[c], Head(k.replay))
          BY <1>2, <3>3
        <5>. QED  BY <5>1, Elements DEF Received, Elems
      <4>. QED  BY <4>1, <4>2
    <3>. QED  BY <3>1, <3>2, <3>3, ConnectMoves
  <2>2. \A m : Coming(c, m) => Coming(c, m)'
    BY <1>1 DEF Coming
  <2>. QED  BY <2>1, <2>2 DEF Covered
<1>7. Gap(c)'
  <2>. SUFFICES ASSUME Linked(c)', l.found,
                       NEW p \in head + 1 .. Len(log), NEW q \in head + 1 .. Len(log), p < q,
                       log[p] = k.last, receiver[log[q]] = k.user, Passed(c, q)'
                PROVE  Covered(c, log[q])'
    BY <1>1 DEF Gap
  <2>0. p \in 1..Len(log) /\ q \in 1..Len(log) /\ q > head
    BY <1>2
  <2>1. CASE k.found /\ Linked(c) /\ Passed(c, q)
    <3>1. Covered(c, log[q])
      BY <2>1 DEF GapInv, Gap
    <3>2. PICK m : m = log[q]
      OBVIOUS
    <3>3. Covered(c, m)'
      BY <1>6, <3>1, <3>2
    <3>. QED  BY <1>1, <3>2, <3>3
  <2>2. CASE k.pc = "save" /\ l.found = k.found
    BY <2>2 DEF GapInv, Fresh
  <2>3. k.pc # "save" => Linked(c)
    BY <1>1 DEF Linked, Born
  <2>4. CASE /\ k.pc = "scan" /\ NextAt(c) <= Len(log)
             /\ l.at = NextAt(c) /\ l.end = (NextAt(c) = Len(log))
             /\ l.found = (k.found \/ log[NextAt(c)] = k.last)
             /\ l.pc = IF k.found THEN "get" ELSE "scan"
    <3>1. NextAt(c) \in 1..Len(log) /\ (NextAt(c) = k.at + 1 \/ NextAt(c) = head + 1)
      BY <1>2, <2>4 DEF NextAt, NextAfter
    <3>2. CASE k.found
      <4>1. q < NextAt(c)
        <5>1. l.pc = "get" /\ l.at = NextAt(c) /\ (l.end => NextAt(c) = Len(log))
          BY <2>4, <3>2
        <5>2. q < l.at \/ (q > l.at /\ l.end)
          BY <5>1 DEF Passed
        <5>. QED  BY <1>2, <2>0, <3>1, <5>1, <5>2
      <4>2. q <= k.at
        BY <1>2, <2>0, <3>1, <4>1
      <4>3. Passed(c, q)
        BY <1>2, <2>0, <2>4, <4>2 DEF Passed
      <4>. QED  BY <2>1, <2>3, <2>4, <3>2, <4>3
    <3>3. CASE ~k.found
      <4>1. log[NextAt(c)] = log[p]
        BY <2>4, <3>3
      <4>2. NextAt(c) = p
        BY <2>0, <3>1, <4>1 DEF IdsOnce
      <4>3. l.pc = "scan" /\ l.at = p /\ (l.end => p = Len(log))
        BY <2>4, <3>3, <4>2
      <4>. QED  BY <1>2, <2>0, <4>3 DEF Passed
    <3>. QED  BY <3>2, <3>3
  <2>5. CASE k.pc = "scan" /\ (NextAt(c) > Len(log) \/ k.end) /\ l.found = k.found
    <3>1. q <= k.at \/ k.end
      BY <1>2, <2>0, <2>5 DEF NextAt, NextAfter
    <3>2. Passed(c, q)
      BY <1>2, <2>0, <2>5, <3>1 DEF Passed
    <3>. QED  BY <2>1, <2>3, <2>5, <3>2
  <2>6. CASE l.pc = "failed"
    BY <2>6 DEF Passed
  <2>7. CASE /\ k.pc = "get" /\ l.pc = "scan" /\ l.at = k.at /\ l.end = k.end
             /\ l.found = k.found
             /\ l.replay = IF receiver[log[k.at]] = k.user
                           THEN Append(k.replay, log[k.at]) ELSE k.replay
    <3>1. CASE q # k.at
      <4>1. Passed(c, q)
        BY <2>7, <3>1 DEF Passed
      <4>. QED  BY <2>1, <2>3, <2>7, <4>1
    <3>2. CASE q = k.at
      <4>1. l.replay = Append(k.replay, log[q]) /\ log[q] \in Events
        BY <1>2, <2>0, <2>7, <3>2
      <4>2. log[q] \in Replayed(c)'
        BY <1>2, <4>1, Elements DEF Replayed
      <4>. QED  BY <1>1, <4>2 DEF Covered
    <3>. QED  BY <3>1, <3>2
  <2>8. CASE k.pc = "replay" /\ l.found = k.found
    <3>1. Passed(c, q)
      BY <2>8 DEF Passed
    <3>. QED  BY <2>1, <2>3, <2>8, <3>1
  <2>. QED  BY <2>2, <2>4, <2>5, <2>6, <2>7, <2>8, ConnectMoves
<1>. QED  BY <1>3, <1>4, <1>5, <1>7 DEF GapInv

\* Only an emitter whose client has left loses its registration.
LEMMA GapOther ==
    ASSUME TypeInv, GapInv, NEW c \in Connections,
           \/ Leave(c) \/ Remove(c)
           \/ \E u \in Users, last \in Events \cup {NoEvent} : Connect(c, u, last)
    PROVE  GapInv'
<1>. USE DEF Linked, Passed, Covered, Coming, Received, Replayed
<1>1. CASE Leave(c)
  <2>1. UNCHANGED <<log, head, receiver, sender, emitters, conn, out>> /\ gone \subseteq gone'
    BY <1>1 DEF Leave, connVars
  <2>. QED  BY <2>1 DEF GapInv, Registered, Fresh, Gap
<1>2. CASE Remove(c)
  <2>1. /\ UNCHANGED <<log, head, receiver, sender, conn, out, gone>> /\ c \in gone
        /\ emitters' = [emitters EXCEPT ![conn[c].user] = @ \ {c}]
    BY <1>2 DEF Remove, Without, connVars
  <2>2. Registered'
    <3>1. \A u \in Users : emitters[u] \ {c} \subseteq emitters'[u]
      BY <2>1 DEF TypeInv, TypeOK
    <3>2. \A d \in Connections : Linked(d) => conn[d].user \in Users
      BY Records DEF TypeInv, Born, Connecting
    <3>. QED  BY <2>1, <3>1, <3>2 DEF GapInv, Registered
  <2>3. Fresh' /\ \A d \in Connections : Gap(d)'
    BY <2>1 DEF GapInv, Fresh, Gap
  <2>. QED  BY <2>2, <2>3 DEF GapInv
<1>3. ASSUME NEW u \in Users, NEW last \in Events \cup {NoEvent}, Connect(c, u, last)
      PROVE  GapInv'
  <2>1. /\ UNCHANGED <<log, head, receiver, sender, emitters, out, gone>>
        /\ conn'[c].pc = "save" /\ conn'[c].replay = << >> /\ ~conn'[c].found
        /\ \A d \in Connections \ {c} : conn'[d] = conn[d]
    BY <1>3 DEF Connect, connVars, TypeInv, TypeOK
  <2>2. Registered' /\ Fresh'
    BY <2>1 DEF GapInv, Registered, Fresh
  <2>3. ASSUME NEW d \in Connections
        PROVE  Gap(d)'
    <3>1. CASE d = c
      BY <2>1, <3>1 DEF Gap
    <3>2. CASE d # c
      BY <2>1, <3>2 DEF GapInv, Gap
    <3>. QED  BY <3>1, <3>2
  <2>. QED  BY <2>2, <2>3 DEF GapInv
<1>. QED  BY <1>1, <1>2, <1>3

\* A client that reconnects with an event that is still queued misses none of
\* its queued later events: connect registers the emitter before it scans, so
\* what is queued behind the scan is still to be given to the emitters.
THEOREM NothingMissed == Spec => []NoGap
<1>1. Init => GapInv
  <2>. SUFFICES ASSUME Init PROVE GapInv
    OBVIOUS
  <2>1. \A c \in Connections : conn[c].pc = "unborn"
    BY DEF Init, Unborn
  <2>. QED  BY <2>1 DEF GapInv, Registered, Fresh, Gap, Linked
<1>2. TypeInv /\ IdInv /\ GapInv /\ [Next]_vars => GapInv'
  <2>1. ASSUME TypeInv, IdInv, GapInv, Next
        PROVE  GapInv'
    BY <2>1, GapSend, GapStart, GapConnect, GapOther DEF Next, IdInv
  <2>2. ASSUME GapInv, UNCHANGED vars
        PROVE  GapInv'
    BY <2>2 DEF vars, GapInv, Registered, Fresh, Gap, Linked, Passed, Covered, Coming,
                Received, Replayed
  <2>. QED  BY <2>1, <2>2
<1>3. GapInv => NoGap
  <2>. SUFFICES ASSUME GapInv, NEW c \in Connections, conn[c].pc = "open", conn[c].found,
                       c \notin gone, NEW p \in head + 1 .. Len(log),
                       NEW q \in head + 1 .. Len(log), p < q, log[p] = conn[c].last,
                       receiver[log[q]] = conn[c].user
                PROVE  \/ log[q] \in Received(c)
                       \/ \E s \in Senders : Busy(s) /\ sender[s].event = log[q]
    BY DEF NoGap
  <2>1. Covered(c, log[q])
    BY DEF GapInv, Gap, Linked, Passed
  <2>2. Replayed(c) = {}
    BY DEF GapInv, Fresh, Replayed, Elems
  <2>. QED  BY <2>1, <2>2 DEF Covered, Coming, Busy
<1>. QED  BY <1>1, <1>2, <1>3, TypeInvariant, IdsInvariant, PTL DEF Spec

---------------------------------------------------------------------------
(* An eviction fails only under a sender that was overtaken *)

\* What a sender that nobody has overtaken has counted, and what it has still
\* to remove of it, is in the queue.
LoneWalk(s) ==
    sender[s].pc = "size" =>
        /\ sender[s].at <= Len(log)
        /\ \/ Capacity <= sender[s].room
           \/ sender[s].at >= head /\ Capacity - sender[s].room <= sender[s].at - head
LoneDebt(s) ==
    /\ sender[s].pc = "evict" => 1 - sender[s].room <= QueueLen
    /\ sender[s].pc = "unmap" => -sender[s].room <= QueueLen
Surplus(s) == sender[s].pc \in {"evict", "unmap"} => sender[s].room < 1
LoneInv ==
    \A s \in Senders : Surplus(s) /\ (s \notin overtaken => LoneWalk(s) /\ LoneDebt(s))

\* Another sender only adds to the queue, unless it removes an id and so overtakes.
LEMMA LoneOthers ==
    ASSUME TypeInv, LoneInv, NEW s \in Senders, SendStep(s), NEW r \in Senders \ {s}
    PROVE  Surplus(r)' /\ (r \notin overtaken' => LoneWalk(r)' /\ LoneDebt(r)')
<1>1. sender'[r] = sender[r] /\ sender[s].event \in Events /\ log \in Seq(Events)
  BY SendRecord DEF TypeInv, TypeOK, Sending
<1>2. /\ Len(log) \in Nat /\ head \in Nat /\ QueueLen \in Nat /\ QueueLen = Len(log) - head
      /\ Capacity \in Nat
  BY Lengths, SseBrokerAssumption DEF TypeInv, QueueLen
<1>3. Surplus(r)'
  BY <1>1 DEF Surplus, LoneInv
<1>4. CASE ~MakesRoom(r)
  BY <1>1, <1>3, <1>4 DEF LoneWalk, LoneDebt, MakesRoom
<1>5. CASE MakesRoom(r) /\ head' = head /\ Len(log') \in Nat /\ Len(log') >= Len(log)
           /\ overtaken' = overtaken
  <2>1. sender[r].room \in Int /\ sender[r].at \in Nat
    BY <1>5, Records DEF TypeInv, MakesRoom, Busy, Sending
  <2>2. QueueLen' \in Nat /\ QueueLen' >= QueueLen
    BY <1>2, <1>5 DEF QueueLen
  <2>3. r \notin overtaken => LoneWalk(r) /\ LoneDebt(r)
    BY DEF LoneInv
  <2>4. r \notin overtaken' => LoneWalk(r)'
    BY <1>1, <1>2, <1>5, <2>1, <2>3 DEF LoneWalk
  <2>5. r \notin overtaken' => LoneDebt(r)'
    BY <1>1, <1>2, <1>5, <2>1, <2>2, <2>3 DEF LoneDebt
  <2>. QED  BY <1>3, <2>4, <2>5
<1>6. CASE MakesRoom(r) /\ r \in overtaken'
  BY <1>3, <1>6
<1>7. CASE Evict(s)
  BY <1>4, <1>5, <1>6, <1>7, <1>2 DEF Evict
<1>8. CASE Add(s)
  <2>1. Len(log') = Len(log) + 1
    BY <1>1, <1>8 DEF Add
  <2>. QED  BY <1>2, <1>4, <1>5, <1>8, <2>1 DEF Add
<1>9. CASE UNCHANGED <<log, head, overtaken>>
  BY <1>2, <1>4, <1>5, <1>9
<1>. QED  BY <1>7, <1>8, <1>9 DEF SendStep, ReadSize, Unmap, Put, Snapshot, EndSend, Deliver

\* A sender that nobody overtook removes what it has counted, and not more.
LEMMA LoneOwn ==
    ASSUME TypeInv, LoneInv, NEW s \in Senders, SendStep(s)
    PROVE  Surplus(s)' /\ (s \notin overtaken' => LoneWalk(s)' /\ LoneDebt(s)')
<1>. DEFINE t == sender[s]
            u == sender'[s]
<1>1. t.room \in Int /\ t.at \in Nat
  BY SendRecord DEF Sending
<1>2. /\ Len(log) \in Nat /\ head \in Nat /\ head <= Len(log)
      /\ QueueLen = Len(log) - head /\ Capacity \in Nat \ {0}
  BY Lengths, SseBrokerAssumption DEF TypeInv, QueueLen
<1>3. s \in overtaken => s \in overtaken'
  BY DEF SendStep, ReadSize, Evict, Unmap, Add, Put, Snapshot, EndSend, Deliver
<1>4. Surplus(s) /\ (s \notin overtaken => LoneWalk(s) /\ LoneDebt(s))
  BY DEF LoneInv
<1>5. CASE /\ t.pc = "size" /\ u.pc = "size" /\ UNCHANGED <<log, head>>
           /\ NextAfter(t.at) <= Len(log)
           /\ u.room = t.room - 1 /\ u.at = NextAfter(t.at)
  <2>1. Surplus(s)' /\ LoneDebt(s)'
    BY <1>5 DEF Surplus, LoneDebt
  <2>2. LoneWalk(s) => LoneWalk(s)'
    <3>. SUFFICES ASSUME LoneWalk(s)
                  PROVE  /\ u.at <= Len(log)
                         /\ u.at >= head /\ Capacity - u.room <= u.at - head
      BY <1>5 DEF LoneWalk
    <3>1. /\ t.at <= Len(log)
          /\ Capacity <= t.room \/ (t.at >= head /\ Capacity - t.room <= t.at - head)
      BY <1>5 DEF LoneWalk
    <3>2. u.at <= Len(log) /\ u.room = t.room - 1
      BY <1>5
    <3>3. CASE t.at < head
      BY <1>1, <1>2, <1>5, <3>1, <3>2, <3>3 DEF NextAfter
    <3>4. CASE ~(t.at < head)
      <4>1. u.at = t.at + 1
        BY <1>5, <3>4 DEF NextAfter
      <4>. QED  BY <1>1, <1>2, <3>1, <3>2, <3>4, <4>1
    <3>. QED  BY <3>3, <3>4
  <2>. QED  BY <1>3, <1>4, <2>1, <2>2
<1>6. CASE /\ t.pc = "size" /\ u.pc \in {"evict", "add"} /\ UNCHANGED <<log, head>>
           /\ NextAfter(t.at) > Len(log)
           /\ u.room = t.room /\ (u.pc = "evict" <=> u.room < 1)
  <2>1. Surplus(s)' /\ LoneWalk(s)'
    BY <1>6 DEF Surplus, LoneWalk
  <2>2. LoneWalk(s) => LoneDebt(s)'
    <3>. SUFFICES ASSUME LoneWalk(s), u.pc = "evict" PROVE 1 - u.room <= QueueLen'
      BY <1>6 DEF LoneDebt
    <3>1. QueueLen' = Len(log) - head /\ t.room < 1
      BY <1>6 DEF QueueLen
    <3>2. Capacity - t.room <= t.at - head /\ t.at <= Len(log)
      BY <1>1, <1>2, <1>6, <3>1 DEF LoneWalk
    <3>. QED  BY <1>1, <1>2, <1>6, <3>1, <3>2
  <2>. QED  BY <1>3, <1>4, <2>1, <2>2
<1>7. CASE /\ t.pc = "evict" /\ u.pc = "unmap" /\ u.room = t.room
           /\ QueueLen > 0 /\ head' = head + 1 /\ UNCHANGED log
  <2>1. Surplus(s)' /\ LoneWalk(s)'
    BY <1>4, <1>7 DEF Surplus, LoneWalk
  <2>2. LoneDebt(s) => LoneDebt(s)'
    BY <1>1, <1>2, <1>7 DEF LoneDebt, QueueLen
  <2>. QED  BY <1>3, <1>4, <2>1, <2>2
<1>8. CASE /\ t.pc = "unmap" /\ u.pc \in {"evict", "add"} /\ UNCHANGED <<log, head>>
           /\ u.room = t.room + 1 /\ (u.pc = "evict" <=> u.room < 1)
  <2>1. Surplus(s)' /\ LoneWalk(s)'
    BY <1>8 DEF Surplus, LoneWalk
  <2>2. LoneDebt(s) => LoneDebt(s)'
    BY <1>1, <1>2, <1>8 DEF LoneDebt, QueueLen
  <2>. QED  BY <1>3, <1>4, <2>1, <2>2
<1>9. CASE u.pc \notin {"size", "evict", "unmap"}
  BY <1>9 DEF Surplus, LoneWalk, LoneDebt
<1>10. \/ u.pc \notin {"size", "evict", "unmap"}
       \/ /\ t.pc = "size" /\ u.pc = "size" /\ UNCHANGED <<log, head>>
          /\ NextAfter(t.at) <= Len(log)
          /\ u.room = t.room - 1 /\ u.at = NextAfter(t.at)
       \/ /\ t.pc = "size" /\ u.pc \in {"evict", "add"} /\ UNCHANGED <<log, head>>
          /\ NextAfter(t.at) > Len(log)
          /\ u.room = t.room /\ (u.pc = "evict" <=> u.room < 1)
       \/ /\ t.pc = "evict" /\ u.pc = "unmap" /\ u.room = t.room
          /\ QueueLen > 0 /\ head' = head + 1 /\ UNCHANGED log
       \/ /\ t.pc = "unmap" /\ u.pc \in {"evict", "add"} /\ UNCHANGED <<log, head>>
          /\ u.room = t.room + 1 /\ (u.pc = "evict" <=> u.room < 1)
  BY SendProgress
<1>. QED  BY <1>5, <1>6, <1>7, <1>8, <1>9, <1>10

\* Whenever a sender meets an empty queue where it has an id to remove, another
\* one has removed an id during its send, however many were queued meanwhile.
THEOREM OvertakenOnly == Spec => []EvictionFailsOnlyOvertaken
<1>1. Init => LoneInv
  BY DEF Init, LoneInv, Surplus, LoneWalk, LoneDebt, Idle
<1>2. TypeInv /\ LoneInv /\ [Next]_vars => LoneInv'
  <2>. SUFFICES ASSUME TypeInv, LoneInv, [Next]_vars PROVE LoneInv'
    OBVIOUS
  <2>1. ASSUME NEW s \in Senders, SendStep(s) PROVE LoneInv'
    BY <2>1, LoneOthers, LoneOwn DEF LoneInv
  <2>2. ASSUME NEW s \in Senders, NEW u \in Users, StartSend(s, u)
        PROVE  LoneInv'
    <3>1. /\ sender \in [Senders -> {Idle} \cup Sending] /\ UNCHANGED <<log, head>>
          /\ overtaken' = overtaken \ {s}
      BY <2>2 DEF StartSend, TypeInv, TypeOK
    <3>2. /\ sender'[s].pc = "size" /\ sender'[s].room = Capacity /\ sender'[s].at = 0
          /\ \A r \in Senders \ {s} : sender'[r] = sender[r]
      BY <2>2, <3>1 DEF StartSend
    <3>3. Len(log) \in Nat /\ Capacity \in Nat
      BY Lengths, SseBrokerAssumption DEF TypeInv
    <3>4. Surplus(s)' /\ LoneWalk(s)' /\ LoneDebt(s)'
      BY <3>1, <3>2, <3>3 DEF Surplus, LoneWalk, LoneDebt
    <3>5. ASSUME NEW r \in Senders \ {s}
          PROVE  Surplus(r)' /\ (r \notin overtaken' => LoneWalk(r)' /\ LoneDebt(r)')
      BY <3>1, <3>2 DEF LoneInv, Surplus, LoneWalk, LoneDebt, QueueLen
    <3>. QED  BY <3>4, <3>5 DEF LoneInv
  <2>3. CASE UNCHANGED <<log, head, sender, overtaken>>
    BY <2>3 DEF LoneInv, Surplus, LoneWalk, LoneDebt, QueueLen
  <2>. QED  BY <2>1, <2>2, <2>3 DEF Next, vars, ConnectStep, Save, Advance, Lookup, Replay,
                                    EndConnect, Leave, Remove, Connect, connVars
<1>3. TypeInv /\ LoneInv => EvictionFailsOnlyOvertaken
  <2>. SUFFICES ASSUME TypeInv, LoneInv, NEW s \in Senders, sender[s].pc = "evict",
                       QueueLen = 0, s \notin overtaken
                PROVE  FALSE
    BY DEF EvictionFailsOnlyOvertaken
  <2>1. sender[s].room \in Int /\ sender[s].room < 1
    BY Records DEF TypeInv, Busy, Sending, LoneInv, Surplus
  <2>2. 1 - sender[s].room <= 0
    BY DEF LoneInv, LoneDebt
  <2>. QED  BY <2>1, <2>2
<1>. QED  BY <1>1, <1>2, <1>3, TypeInvariant, PTL DEF Spec
=============================================================================
