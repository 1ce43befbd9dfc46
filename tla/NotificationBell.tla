-------------------------- MODULE NotificationBell --------------------------
(***************************************************************************)
(* The last part of a notification's way: from its row and its push to the *)
(* list behind the bell of the web client.  The list is filled by a page   *)
(* from the database and by the event stream; the stream is an             *)
(* EventSourcePolyfill that reconnects by itself, with the token it was    *)
(* made with.  One user and one browser tab, without a reload.             *)
(*                                                                         *)
(* Notifications are numbered in the order of createdAt.  Of the list is   *)
(* kept how often each of them is in it, not where: no step of the client  *)
(* depends on the order.  The definitions with a prefix are FollowPage's   *)
(* too, which the proofs about the client extend as well.                  *)
(***************************************************************************)
EXTENDS Integers, Sequences, FiniteSets, FiniteSetsExt

CONSTANTS MaxNotes,     \* bound: notifications stored
          PageSize,     \* params.limit
          MaxTokens     \* bound: access tokens the tab is given

ASSUME NotificationBellAssumption ==
    MaxNotes \in Nat /\ PageSize \in Nat \ {0} /\ MaxTokens \in Nat \ {0}

VARIABLES row,          \* the notifications of this user in the database
          unsent,       \* committed, SseHandler is about to push them
          token,        \* number of the tab's access token, 0 before the first
          expired,      \* tokens up to this one have expired
          shown,        \* signed in, on a page with the bell
          source,       \* the EventSourcePolyfill objects made so far
          sse,          \* the store that connects
          list,         \* how often a notification is in the store behind the bell
          cursor,       \* params.cursor
          request,      \* the request this store waits for (isLoading)
          firstPage,    \* ghost: notifications there when the first page was read
          missed        \* ghost: pushed while nobody listened

server == <<row, unsent>>
stream == <<source, sse>>
bell == <<list, cursor, request>>
bellVars == <<server, token, expired, shown, stream, bell, firstPage, missed>>

---------------------------------------------------------------------------
(* Types *)

Notes == 1..MaxNotes
Tokens == 1..MaxTokens
Sources == DOMAIN source
Undefined == MaxNotes + 1               \* no cursor: from the newest one

EventSource ==
    [readyState : {"connecting", "open", "closed"}, token : Tokens, wire : Seq(Notes)]

NoRequest == [kind |-> "none"]
Fetching == [kind : {"fetch"}, pc : {"sent", "served"}, cursor : 1..Undefined,
             page : SUBSET Notes]
Reading == [kind : {"read"}, pc : {"sent", "served"}, note : Notes]

BellTypeOK ==
    /\ row \in [Notes -> {"none", "stored", "deleted"}]
    /\ unsent \subseteq {n \in Notes : row[n] # "none"}
    /\ token \in 0..MaxTokens /\ expired \in 0..token
    /\ shown \in BOOLEAN
    /\ source \in Seq(EventSource)
    /\ sse \in [eventSource : 0..Len(source), isConnected : BOOLEAN, isConnecting : BOOLEAN,
                listener : 0..Len(source)]
    /\ list \in [Notes -> Nat]
    /\ cursor \in 1..Undefined
    /\ request \in Fetching \cup Reading \cup {NoRequest}
    /\ firstPage \in 0..MaxNotes /\ missed \subseteq Notes

Alive(k) == source[k].readyState # "closed"
Wire(k) == Range(source[k].wire)
Listed == {n \in Notes : list[n] > 0}
OnTheWay == unsent \cup UNION {Wire(k) : k \in Sources}

---------------------------------------------------------------------------
(* The server *)

Created == Cardinality({n \in Notes : row[n] # "none"})

Store ==
    /\ Created < MaxNotes
    /\ row' = [row EXCEPT ![Created + 1] = "stored"]
    /\ unsent' = unsent \cup {Created + 1}
    /\ UNCHANGED <<token, expired, shown, stream, bell, firstPage, missed>>

OpenSources == {k \in Sources : source[k].readyState = "open"}

\* SseService.send to the emitters of the user; nobody stores what is missed,
\* as the client never names a last event the server would understand.
Push(n) ==
    /\ n \in unsent
    /\ unsent' = unsent \ {n}
    /\ source' = [k \in Sources |->
                     IF k \in OpenSources THEN [source[k] EXCEPT !.wire = Append(@, n)] ELSE source[k]]
    /\ missed' = IF OpenSources = {} THEN missed \cup {n} ELSE missed
    /\ UNCHANGED <<row, token, expired, shown, sse, bell, firstPage>>

Expire ==
    /\ expired < token
    /\ expired' = expired + 1
    /\ UNCHANGED <<server, token, shown, stream, bell, firstPage, missed>>

---------------------------------------------------------------------------
(* The stream *)

NewSource(k) == [readyState |-> "connecting", token |-> k, wire |-> << >>]

\* Mutant: a connection that is being retried is not taken for one.
FreeIfDown(store) == ~store.isConnected
Free(store) == ~store.isConnected /\ ~store.isConnecting

\* connect(token), which takes the connection for made at once.
Connect(srcs, store, k) ==
    IF Free(store)
    THEN /\ source' = Append(srcs, NewSource(k))
         /\ sse' = [store EXCEPT !.eventSource = Len(srcs) + 1, !.isConnected = TRUE,
                                 !.isConnecting = FALSE]
    ELSE source' = srcs /\ sse' = store

Closed(k) == [source EXCEPT ![k].readyState = "closed", ![k].wire = << >>]

\* disconnect() closes the source only while it is taken for connected.
Disconnects == sse.eventSource # 0 /\ sse.isConnected
AfterDisconnect == IF Disconnects THEN Closed(sse.eventSource) ELSE source
DisconnectedStore ==
    IF Disconnects THEN [sse EXCEPT !.eventSource = 0, !.isConnected = FALSE] ELSE sse

\* Mutant: onopen does not take back what onerror did.
OnOpenLeft(k) == [sse EXCEPT !.isConnecting = FALSE]
OnOpen(k) == [sse EXCEPT !.eventSource = k, !.isConnected = TRUE, !.isConnecting = FALSE]

\* The request with the source's token is answered 200 and the emitter registered.
Opened(k) ==
    /\ source[k].readyState = "connecting" /\ source[k].token > expired
    /\ source' = [source EXCEPT ![k].readyState = "open"]
    /\ sse' = OnOpen(k)
    /\ UNCHANGED <<server, token, expired, shown, bell, firstPage, missed>>

OnError(connecting) ==
    sse' = [sse EXCEPT !.eventSource = 0, !.isConnected = FALSE, !.isConnecting = connecting]

\* Any other answer (401 for a token that has expired) closes the source.
Refused(k) ==
    /\ source[k].readyState = "connecting"
    /\ source' = Closed(k)
    /\ OnError(FALSE)
    /\ UNCHANGED <<server, token, expired, shown, bell, firstPage, missed>>

\* The stream ends (emitter timeout, network, restart) or nothing came over it
\* for 45 seconds; the source connects again by itself.
Broken(k) ==
    /\ Alive(k)
    /\ source' = [source EXCEPT ![k].readyState = "connecting", ![k].wire = << >>]
    /\ OnError(TRUE)
    /\ missed' = missed \cup Wire(k)
    /\ UNCHANGED <<server, token, expired, shown, bell, firstPage>>

\* The effect on isConnected.  A name that is in subscriptions already is
\* never subscribed to again.
Subscribe ==
    /\ shown /\ sse.isConnected /\ sse.eventSource # 0 /\ sse.listener = 0
    /\ sse' = [sse EXCEPT !.listener = sse.eventSource]
    /\ UNCHANGED <<server, token, expired, shown, source, bell, firstPage, missed>>

\* An event arrives; with a listener it goes into the list.
Receive(k) ==
    /\ source[k].wire # << >>
    /\ source' = [source EXCEPT ![k].wire = Tail(@)]
    /\ IF sse.listener = k
       THEN list' = [list EXCEPT ![Head(source[k].wire)] = @ + 1] /\ UNCHANGED missed
       ELSE missed' = missed \cup {Head(source[k].wire)} /\ UNCHANGED list
    /\ UNCHANGED <<server, token, expired, shown, sse, cursor, request, firstPage>>

---------------------------------------------------------------------------
(* The session *)

FetchPage == [kind |-> "fetch", pc |-> "sent", cursor |-> cursor, page |-> {}]

\* The tab shows the bell with a new token: after a sign-in, or when the page
\* was loaded.  A page of notifications is fetched, unless the store is busy.
Enter ==
    /\ ~shown /\ token < MaxTokens
    /\ shown' = TRUE /\ token' = token + 1
    /\ request' = IF request = NoRequest THEN FetchPage ELSE request
    /\ Connect(source, sse, token + 1)
    /\ UNCHANGED <<server, expired, list, cursor, firstPage, missed>>

\* The access token is refreshed.  Nothing but the stream depends on it.
Refresh ==
    /\ shown /\ token < MaxTokens
    /\ token' = token + 1
    /\ Connect(AfterDisconnect, DisconnectedStore, token + 1)
    /\ missed' = IF Disconnects THEN missed \cup Wire(sse.eventSource) ELSE missed
    /\ UNCHANGED <<server, expired, shown, bell, firstPage>>

\* The sign-out page has no bell.  The list stays.
Leave ==
    /\ shown
    /\ shown' = FALSE
    /\ source' = AfterDisconnect /\ sse' = DisconnectedStore
    /\ missed' = IF Disconnects THEN missed \cup Wire(sse.eventSource) ELSE missed
    /\ UNCHANGED <<server, token, expired, bell, firstPage>>

---------------------------------------------------------------------------
(* The list *)

\* getNotifications: the newest ones below the cursor.
Matches(c) == {n \in Notes : row[n] = "stored" /\ n < c}
PageOf(c) ==
    {n \in Matches(c) : Cardinality({m \in Matches(c) : m > n}) < PageSize}

ServeFetch ==
    /\ request.kind = "fetch" /\ request.pc = "sent"
    /\ request' = [request EXCEPT !.pc = "served", !.page = PageOf(request.cursor)]
    /\ firstPage' = IF firstPage = MaxNotes THEN Created ELSE firstPage
    /\ UNCHANGED <<row, unsent, token, expired, shown, stream, list, cursor, missed>>

\* Mutant: the page replaces the list.
PageAlone == [n \in Notes |-> IF n \in request.page THEN 1 ELSE 0]
Appended == [n \in Notes |-> list[n] + (IF n \in request.page THEN 1 ELSE 0)]

\* Mutant: the next page starts below the row after the last one.
CursorBelow == IF request.page = {} THEN Undefined ELSE Min(request.page) - 1
NextCursor == IF request.page = {} THEN Undefined ELSE Min(request.page)

ShowPage ==
    /\ request.kind = "fetch" /\ request.pc = "served"
    /\ list' = Appended
    /\ cursor' = NextCursor
    /\ request' = NoRequest
    /\ UNCHANGED <<server, token, expired, shown, stream, firstPage, missed>>

\* A click on a notification deletes it, unless the store is busy.
ClickNote(n) ==
    /\ shown /\ n \in Listed
    /\ request = NoRequest
    /\ request' = [kind |-> "read", pc |-> "sent", note |-> n]
    /\ UNCHANGED <<server, token, expired, shown, stream, list, cursor, firstPage, missed>>

\* Deleting what is not there is no error.
ServeRead ==
    /\ request.kind = "read" /\ request.pc = "sent"
    /\ row' = [row EXCEPT ![request.note] = "deleted"]
    /\ request' = [request EXCEPT !.pc = "served"]
    /\ UNCHANGED <<unsent, token, expired, shown, stream, list, cursor, firstPage, missed>>

EndRead ==
    /\ request.kind = "read" /\ request.pc = "served"
    /\ list' = [list EXCEPT ![request.note] = 0]
    /\ request' = NoRequest
    /\ UNCHANGED <<server, token, expired, shown, stream, cursor, firstPage, missed>>

\* The request or its answer is lost, or the server fails.
Fail ==
    /\ request # NoRequest
    /\ request' = NoRequest
    /\ UNCHANGED <<server, token, expired, shown, stream, list, cursor, firstPage, missed>>

---------------------------------------------------------------------------

BellInit ==
    /\ row = [n \in Notes |-> "none"] /\ unsent = {}
    /\ token = 0 /\ expired = 0 /\ shown = FALSE
    /\ source = << >>
    /\ sse = [eventSource |-> 0, isConnected |-> FALSE, isConnecting |-> FALSE, listener |-> 0]
    /\ list = [n \in Notes |-> 0] /\ cursor = Undefined /\ request = NoRequest
    /\ firstPage = MaxNotes /\ missed = {}

BellNext ==
    \/ Store \/ (\E n \in Notes : Push(n)) \/ Expire
    \/ \E k \in Sources : Opened(k) \/ Refused(k) \/ Broken(k) \/ Receive(k)
    \/ Subscribe \/ Enter \/ Refresh \/ Leave
    \/ ServeFetch \/ ShowPage \/ (\E n \in Notes : ClickNote(n)) \/ ServeRead \/ EndRead \/ Fail

BellSpec == BellInit /\ [][BellNext]_bellVars

\* The network lets a connection through again and again; the browser gets to
\* run an effect although connections break.
BellFairness ==
    /\ \A k \in Tokens : WF_bellVars(k \in Sources /\ (Opened(k) \/ Refused(k)))
    /\ SF_bellVars(Subscribe)
BellFairSpec == BellSpec /\ BellFairness

---------------------------------------------------------------------------
(* Properties *)

\* At most one event source is connected or tries to be, across refreshes,
\* sign-outs and broken connections, so that no push comes in twice over two of
\* them.  (A page that is read may bring what a push has brought already.)
OneStream == Cardinality({k \in Sources : Alive(k)}) <= 1

\* A notification younger than the first page that was read is in the list, or
\* on its way there, or was pushed while no connection with a listener stood.
\* Nothing the page does with its list loses one.
ListedUnlessMissed ==
    \A n \in Notes : row[n] = "stored" /\ n > firstPage =>
        n \in Listed \cup OnTheWay \cup missed

\* The first stream comes back and is listened to, however often it breaks,
\* until it is refused or closed or the tab leaves.  Nothing of the kind holds
\* for the streams after it.
FirstStreamRecovers ==
    Len(source) > 0 ~>
        ~shown \/ ~Alive(1) \/ (source[1].readyState = "open" /\ sse.listener = 1)
=============================================================================
