------------------------- MODULE ResumableTransport -------------------------
(***************************************************************************)
(* The browser <-> server transport of packages/transport: one WsClient    *)
(* (one sessionKey) that reconnects, the WsTransport that numbers what it  *)
(* sends on each connection, and the resumable() middleware that keeps a   *)
(* ResumableSocket per sessionKey so that events missed while the client   *)
(* was away can be replayed.                                               *)
(*                                                                         *)
(* A connection is a number, in the order the client opens them.  Every    *)
(* connection carries one FIFO per direction; what is in flight when a     *)
(* side closes is lost.  A ResumableSocket is named by the connection that *)
(* created it.  Timers are events that may fire at any time; the backoff   *)
(* delay and its jitter are left out, and so is the visibilitychange       *)
(* handler, which only makes the reconnect timer fire early.  Envelopes    *)
(* are identified by a number, their payload is left out.                  *)
(***************************************************************************)
EXTENDS Naturals, Sequences, FiniteSets

CONSTANTS
  BufferSize,   \* ResumableSocketOptions.bufferSize (500 in the code)
  OutboxLimit,  \* WsClientOptions.outboxLimit (100 in the code)
  HalfOpen,     \* TRUE: the server may accept a connection before it has
                \* noticed that the previous one is gone
  Greets,       \* TRUE: the application emits remote:status to every connection
                \* as it is accepted (summonerMode 'remote', the default)
  MaxConn,      \* bound: connections the client opens
  MaxEmit,      \* bound: events after which only accepts still emit one
  MaxSend       \* bound: envelopes the client application sends

ASSUME ConstantsAssumption ==
  /\ BufferSize \in Nat \ {0}
  /\ OutboxLimit \in Nat \ {0}
  /\ HalfOpen \in BOOLEAN
  /\ Greets \in BOOLEAN
  /\ MaxConn \in Nat
  /\ MaxEmit \in Nat
  /\ MaxSend \in Nat

Conns == 1 .. MaxConn
NoConn == 0                    \* no connection, no ResumableSocket, no timer
Refresh == 0                   \* the event state:refresh_required; application
                               \* events are numbered from 1 as they are emitted

VARIABLES
  (* WsClient *)
  opened,            \* connections opened so far
  ws,                \* the field ws: NoConn when undefined
  readyState,        \* of each WebSocket, as the client sees it
  lastSeq,           \* highest seq received
  outbox,            \* envelopes queued while not open
  request,           \* fate of the envelopes 1..MaxSend that are requests
  reconnectTimer,    \* a reconnect is scheduled
  explicitlyClosed,  \* disconnect() was called
  (* network *)
  toServer, toClient,
  (* WsTransport *)
  up,                \* state of each connection, as the server sees it
  connSeq,           \* SocketMeta.nextSeq of each connection
  rsOf,              \* the ResumableSocket that wraps each connection
  answering,         \* <<connection, request>> whose handler has not answered
  (* resumable() and its ResumableSockets *)
  inner, buffer, nextSeq,
  registry,          \* the ResumableSocket registered for the sessionKey
  timers,            \* connections whose close armed a TTL timer still running
  ttlTimer,          \* the one ttlTimers.get(sessionKey) refers to
  (* history *)
  emitted,           \* events the server application has emitted
  delivered,         \* events the client's listeners have seen, in order
  sent,              \* envelopes the client application has sent
  handled,           \* envelopes the server's listeners have seen, in order
  dropped,           \* envelopes the outbox dropped on overflow
  lost,              \* envelopes that were in flight on a closed connection
  reported           \* lastSeq of the latest resume envelope of the client

clientVars == <<opened, ws, readyState, lastSeq, outbox, request,
                reconnectTimer, explicitlyClosed>>
netVars == <<toServer, toClient>>
serverVars == <<up, connSeq, rsOf, answering>>
resumeVars == <<inner, buffer, nextSeq, registry, timers, ttlTimer>>
historyVars == <<emitted, delivered, sent, handled, dropped, lost, reported>>
vars == <<clientVars, netVars, serverVars, resumeVars, historyVars>>

Event == Nat
Buffered == [seq : Nat, ev : Event]
Queued == [kind : {"event", "request"}, id : 1 .. MaxSend]
ClientEnvelope == [kind : {"resume"}, lastSeq : Nat] \cup Queued
ServerEnvelope == [kind : {"event"}, seq : Nat, ev : Event]
                    \cup [kind : {"response"}, id : 1 .. MaxSend]
Fates == {"none", "pending", "resolved", "rejected"}

ClientTypeOK ==
  /\ opened \in 0 .. MaxConn
  /\ ws \in 0 .. opened
  /\ readyState \in [Conns -> {"none", "connecting", "open", "closing", "closed"}]
  /\ lastSeq \in Nat
  /\ outbox \in Seq(Queued) /\ Len(outbox) <= OutboxLimit
  /\ request \in [1 .. MaxSend -> Fates]
  /\ reconnectTimer \in BOOLEAN
  /\ explicitlyClosed \in BOOLEAN

NetTypeOK ==
  /\ toServer \in [Conns -> Seq(ClientEnvelope)]
  /\ toClient \in [Conns -> Seq(ServerEnvelope)]

ServerTypeOK ==
  /\ up \in [Conns -> {"none", "open", "closed"}]
  /\ connSeq \in [Conns -> Nat]
  /\ rsOf \in [Conns -> Conns \cup {NoConn}]
  /\ answering \subseteq Conns \X (1 .. MaxSend)

ResumeTypeOK ==
  /\ inner \in [Conns -> Conns \cup {NoConn}]
  /\ buffer \in [Conns -> Seq(Buffered)]
  /\ \A r \in Conns : Len(buffer[r]) <= BufferSize
  /\ nextSeq \in [Conns -> Nat]
  /\ registry \in Conns \cup {NoConn}
  /\ timers \subseteq Conns
  /\ ttlTimer \in Conns \cup {NoConn}

HistoryTypeOK ==
  /\ emitted \in Nat
  /\ delivered \in Seq(Event)
  /\ sent \in 0 .. MaxSend
  /\ handled \in Seq(1 .. MaxSend)
  /\ dropped \subseteq 1 .. MaxSend
  /\ lost \subseteq 1 .. MaxSend
  /\ reported \in Nat

\* Types, and the two limits the code enforces: the outbox never holds more than
\* outboxLimit envelopes, a ring buffer never more than bufferSize events.
TypeOK ==
  ClientTypeOK /\ NetTypeOK /\ ServerTypeOK /\ ResumeTypeOK /\ HistoryTypeOK

Init ==
  /\ opened = 0
  /\ ws = NoConn
  /\ readyState = [c \in Conns |-> "none"]
  /\ lastSeq = 0
  /\ outbox = << >>
  /\ request = [i \in 1 .. MaxSend |-> "none"]
  /\ reconnectTimer = FALSE
  /\ explicitlyClosed = FALSE
  /\ toServer = [c \in Conns |-> << >>]
  /\ toClient = [c \in Conns |-> << >>]
  /\ up = [c \in Conns |-> "none"]
  /\ connSeq = [c \in Conns |-> 0]
  /\ rsOf = [c \in Conns |-> NoConn]
  /\ answering = {}
  /\ inner = [c \in Conns |-> NoConn]
  /\ buffer = [c \in Conns |-> << >>]
  /\ nextSeq = [c \in Conns |-> 0]
  /\ registry = NoConn
  /\ timers = {}
  /\ ttlTimer = NoConn
  /\ emitted = 0
  /\ delivered = << >>
  /\ sent = 0
  /\ handled = << >>
  /\ dropped = {}
  /\ lost = {}
  /\ reported = 0

-----------------------------------------------------------------------------
(* WsClient *)

isOpen == ws # NoConn /\ readyState[ws] = "open"

OpenSocketKeepsTimer ==      \* (mutant: a scheduled reconnect is not cancelled)
  /\ opened < MaxConn
  /\ opened' = opened + 1
  /\ ws' = opened + 1
  /\ readyState' = [readyState EXCEPT ![opened + 1] = "connecting"]
  /\ UNCHANGED reconnectTimer

\* openSocket(): a fresh WebSocket replaces ws, a scheduled reconnect is
\* cancelled.
OpenSocket ==
  /\ opened < MaxConn
  /\ opened' = opened + 1
  /\ ws' = opened + 1
  /\ readyState' = [readyState EXCEPT ![opened + 1] = "connecting"]
  /\ reconnectTimer' = FALSE

\* connect(): idempotent while a socket is alive.  The application never
\* calls it on a client it has disconnected: it makes a new one.
Connect ==
  /\ ~explicitlyClosed
  /\ ws # NoConn => readyState[ws] = "closed"
  /\ OpenSocket
  /\ UNCHANGED <<lastSeq, outbox, request, explicitlyClosed, netVars,
                 serverVars, resumeVars, historyVars>>

\* The timer scheduleReconnect() armed fires.
Reconnect ==
  /\ reconnectTimer
  /\ OpenSocket
  /\ UNCHANGED <<lastSeq, outbox, request, explicitlyClosed, netVars,
                 serverVars, resumeVars, historyVars>>

RejectPending ==
  [i \in 1 .. MaxSend |-> IF request[i] = "pending" THEN "rejected" ELSE request[i]]

\* disconnect(): the socket starts closing and every pending request is
\* rejected; the outbox keeps what it holds.
Disconnect ==
  /\ ~explicitlyClosed
  /\ explicitlyClosed' = TRUE
  /\ reconnectTimer' = FALSE
  /\ readyState' = [c \in Conns |->
       IF c = ws /\ readyState[c] # "closed" THEN "closing" ELSE readyState[c]]
  /\ ws' = NoConn
  /\ request' = RejectPending
  /\ UNCHANGED <<opened, lastSeq, outbox, netVars, serverVars, resumeVars,
                 historyVars>>

\* The envelopes the application sent among those of a queue.
Ids(envs) == {envs[i].id : i \in {j \in DOMAIN envs : envs[j].kind # "resume"}}

\* The client puts envelopes on connection c.  They are lost when the server's
\* end is already closed.
Transmit(c, envs) ==
  /\ toServer' = IF up[c] = "closed" THEN toServer
                 ELSE [toServer EXCEPT ![c] = @ \o envs]
  /\ lost' = IF up[c] = "closed" THEN lost \cup Ids(envs) ELSE lost

\* (mutant: one envelope too many is kept)
OverflowOffByOne == Len(outbox) > OutboxLimit

EnqueuePrepends(q) ==        \* (mutant: the outbox is a stack)
  /\ outbox' = <<q>> \o (IF Len(outbox) >= OutboxLimit THEN Tail(outbox) ELSE outbox)
  /\ dropped' = IF Len(outbox) >= OutboxLimit THEN dropped \cup {Head(outbox).id} ELSE dropped

EnqueueNoShift(q) ==         \* (mutant: the dropped envelope stays queued)
  /\ outbox' = Append(outbox, q)
  /\ dropped' = IF Len(outbox) >= OutboxLimit THEN dropped \cup {Head(outbox).id} ELSE dropped

\* enqueue(): at the limit the oldest envelope is dropped, and the promise of
\* a dropped request that is still pending rejects with 'outbox overflow'.
Overflow == Len(outbox) >= OutboxLimit

Enqueue(q) ==
  /\ outbox' = Append(IF Overflow THEN Tail(outbox) ELSE outbox, q)
  /\ dropped' = IF Overflow THEN dropped \cup {Head(outbox).id} ELSE dropped

\* pending.set(id) for a request, and the rejection enqueue() may cause.
RequestAfter(q) ==
  [i \in 1 .. MaxSend |->
     CASE i = q.id /\ q.kind = "request" -> "pending"
       [] ~isOpen /\ Overflow /\ i = Head(outbox).id
            /\ request[i] = "pending" -> "rejected"
       [] OTHER -> request[i]]

\* emit() and request(): sent now when the socket is open, queued otherwise.
Send(kind) ==
  LET q == [kind |-> kind, id |-> sent + 1] IN
  /\ sent < MaxSend
  /\ sent' = sent + 1
  /\ request' = RequestAfter(q)
  /\ IF isOpen
     THEN Transmit(ws, <<q>>) /\ UNCHANGED <<outbox, dropped>>
     ELSE Enqueue(q) /\ UNCHANGED <<toServer, lost>>
  /\ UNCHANGED <<opened, ws, readyState, lastSeq, reconnectTimer,
                 explicitlyClosed, toClient, serverVars, resumeVars, emitted,
                 delivered, handled, reported>>

ResumeEnvelope == [kind |-> "resume", lastSeq |-> lastSeq]

\* resume goes first, then the outbox, in order.
Flush(c) == Transmit(c, <<ResumeEnvelope>> \o outbox) /\ outbox' = << >>

\* handleOpen().
HandleOpen(c) ==
  /\ readyState[c] = "connecting"
  /\ up[c] # "none"
  /\ readyState' = [readyState EXCEPT ![c] = "open"]
  /\ Flush(c)
  /\ reported' = lastSeq
  /\ UNCHANGED <<opened, ws, lastSeq, request, reconnectTimer,
                 explicitlyClosed, toClient, serverVars, resumeVars, emitted,
                 delivered, sent, handled, dropped>>

\* handleMessage() for an event: lastSeq is raised, the listeners always run.
ReceiveEvent(c) ==
  LET env == Head(toClient[c]) IN
  /\ readyState[c] = "open"
  /\ toClient[c] # << >>
  /\ env.kind = "event"
  /\ lastSeq' = IF env.seq > lastSeq THEN env.seq ELSE lastSeq
  /\ delivered' = Append(delivered, env.ev)
  /\ toClient' = [toClient EXCEPT ![c] = Tail(@)]
  /\ UNCHANGED <<opened, ws, readyState, outbox, request, reconnectTimer,
                 explicitlyClosed, toServer, serverVars, resumeVars, emitted,
                 sent, handled, dropped, lost, reported>>

\* handleMessage() for a response: only a pending request takes it.
ReceiveResponse(c) ==
  LET env == Head(toClient[c]) IN
  /\ readyState[c] = "open"
  /\ toClient[c] # << >>
  /\ env.kind = "response"
  /\ request' = [request EXCEPT ![env.id] =
                    IF @ = "pending" THEN "resolved" ELSE @]
  /\ toClient' = [toClient EXCEPT ![c] = Tail(@)]
  /\ UNCHANGED <<opened, ws, readyState, lastSeq, outbox, reconnectTimer,
                 explicitlyClosed, toServer, serverVars, resumeVars,
                 historyVars>>

ScheduleIfOpened(c) ==       \* (mutant: no retry after a failed handshake)
  reconnectTimer' = (reconnectTimer \/ (~explicitlyClosed /\ readyState[c] = "open"))

\* scheduleReconnect(), unless the close was asked for.
ScheduleReconnect(c) == reconnectTimer' = (reconnectTimer \/ ~explicitlyClosed)

\* The client's end of connection c closes, for whatever reason, and
\* handleClose() runs.  What the server sent and the client has not read is
\* gone; of what the client sent, the server may still read a prefix.
HandleClose(c) ==
  /\ readyState[c] \in {"connecting", "open", "closing"}
  /\ readyState' = [readyState EXCEPT ![c] = "closed"]
  /\ ScheduleReconnect(c)
  /\ toClient' = [toClient EXCEPT ![c] = << >>]
  /\ \E n \in 0 .. Len(toServer[c]) :
       /\ toServer' = [toServer EXCEPT ![c] = SubSeq(@, 1, n)]
       /\ lost' = lost \cup Ids(SubSeq(toServer[c], n + 1, Len(toServer[c])))
  /\ UNCHANGED <<opened, ws, lastSeq, outbox, request, explicitlyClosed,
                 serverVars, resumeVars, emitted, delivered, sent, handled,
                 dropped, reported>>

-----------------------------------------------------------------------------
(* ResumableSocket *)

\* The envelopes inner.emit() makes of events: the transport numbers them with
\* the connection's own counter.
Wire(c, evs) ==
  [i \in 1 .. Len(evs) |->
     [kind |-> "event", seq |-> connSeq[c] + i, ev |-> evs[i]]]

\* inner.emit() of each event in turn.  Nothing is sent on a closed connection,
\* and what is sent to a client that has gone is lost.
InnerEmit(c, evs) ==
  /\ connSeq' = IF up[c] = "open" THEN [connSeq EXCEPT ![c] = @ + Len(evs)]
                ELSE connSeq
  /\ toClient' = IF up[c] = "open" /\ readyState[c] # "closed"
                 THEN [toClient EXCEPT ![c] = @ \o Wire(c, evs)]
                 ELSE toClient

\* The ring buffer of ResumableSocket r once emit(ev) has pushed ev.
Push(r, ev) ==
  LET b == Append(buffer[r], [seq |-> nextSeq[r] + 1, ev |-> ev])
  IN  IF Len(b) > BufferSize THEN Tail(b) ELSE b

\* ResumableSocket.emit().
RsEmit(r, ev) ==
  /\ nextSeq' = [nextSeq EXCEPT ![r] = @ + 1]
  /\ buffer' = [buffer EXCEPT ![r] = Push(r, ev)]
  /\ InnerEmit(inner[r], <<ev>>)

\* (mutant: one lost event goes unnoticed)
GapOffByOne(r, k) == buffer[r] # << >> /\ k < buffer[r][1].seq - 2

\* resume(k) cannot be served: events after k have left the buffer.
Gap(r, k) == buffer[r] # << >> /\ k < buffer[r][1].seq - 1

ReplayedSkipsOne(r, k) ==    \* (mutant: the first event missed is not replayed)
  LET b     == buffer[r]
      after == {i \in DOMAIN b : b[i].seq > k + 1}
      start == CHOOSE i \in after : \A j \in after : i <= j
  IN  IF after = {} THEN << >>
      ELSE [i \in 1 .. Len(b) + 1 - start |-> b[start + i - 1].ev]

\* The events resume(k) replays: from the first one after k to the end.
Replayed(r, k) ==
  LET b     == buffer[r]
      after == {i \in DOMAIN b : b[i].seq > k}
      start == CHOOSE i \in after : \A j \in after : i <= j
  IN  IF after = {} THEN << >>
      ELSE [i \in 1 .. Len(b) + 1 - start |-> b[start + i - 1].ev]

-----------------------------------------------------------------------------
(* WsTransport and the resumable() middleware *)

RebindForgetsInner(c) ==     \* (mutant: bound to the old connection)
  /\ rsOf' = [rsOf EXCEPT ![c] = registry]
  /\ timers' = timers \ {ttlTimer}
  /\ ttlTimer' = NoConn
  /\ UNCHANGED <<inner, registry>>

RebindKeepsTimer(c) ==       \* (mutant: the TTL timer is not cancelled)
  /\ rsOf' = [rsOf EXCEPT ![c] = registry]
  /\ inner' = [inner EXCEPT ![registry] = c]
  /\ UNCHANGED <<timers, ttlTimer, registry>>

\* The registered ResumableSocket is rebound to the new connection and the TTL
\* timer the map knows of is cancelled.
Rebind(c) ==
  /\ rsOf' = [rsOf EXCEPT ![c] = registry]
  /\ inner' = [inner EXCEPT ![registry] = c]
  /\ timers' = timers \ {ttlTimer}
  /\ ttlTimer' = NoConn
  /\ UNCHANGED registry

\* A new ResumableSocket is registered.
Register(c) ==
  /\ rsOf' = [rsOf EXCEPT ![c] = c]
  /\ inner' = [inner EXCEPT ![c] = c]
  /\ registry' = c
  /\ UNCHANGED <<timers, ttlTimer>>

\* The ResumableSocket connection c gets: the registered one, or a new one.
SocketFor(c) == IF registry # NoConn THEN registry ELSE c

\* The application's onConnect callback emits remote:status to the socket it is
\* handed: it is numbered and buffered by the ResumableSocket, and leaves on the
\* connection just accepted before the client can ask to resume.
Greet(c) ==
  LET r == SocketFor(c) IN
  /\ emitted' = emitted + 1
  /\ nextSeq' = [nextSeq EXCEPT ![r] = @ + 1]
  /\ buffer' = [buffer EXCEPT ![r] = Push(r, emitted + 1)]
  /\ connSeq' = [connSeq EXCEPT ![c] = @ + 1]
  /\ toClient' = [toClient EXCEPT ![c] = @ \o Wire(c, <<emitted + 1>>)]

\* acceptConnection() with the middleware's transformSocket, and the connection
\* callbacks it ends with.
Accept(c) ==
  /\ readyState[c] = "connecting"
  /\ up[c] = "none"
  /\ HalfOpen \/ \A d \in Conns : up[d] # "open"
  /\ up' = [up EXCEPT ![c] = "open"]
  /\ IF registry # NoConn THEN Rebind(c) ELSE Register(c)
  /\ IF Greets THEN Greet(c) ELSE UNCHANGED <<emitted, nextSeq, buffer, connSeq, toClient>>
  /\ UNCHANGED <<clientVars, toServer, answering, delivered, sent, handled,
                 dropped, lost, reported>>

\* The server application emits an event to the socket it was handed for the
\* latest connection.
Emit(r) ==
  /\ emitted < MaxEmit
  /\ \E c \in Conns : /\ up[c] # "none" /\ rsOf[c] = r
                      /\ \A d \in Conns : up[d] # "none" => d <= c
  /\ emitted' = emitted + 1
  /\ RsEmit(r, emitted + 1)
  /\ UNCHANGED <<clientVars, toServer, up, rsOf, answering, inner, registry,
                 timers, ttlTimer, delivered, sent, handled, dropped, lost,
                 reported>>

Receives(c, kind) ==
  /\ up[c] = "open"
  /\ toServer[c] # << >>
  /\ Head(toServer[c]).kind = kind
  /\ toServer' = [toServer EXCEPT ![c] = Tail(@)]

\* handleMessage() for resume: the buffered events after lastSeq are replayed,
\* or state:refresh_required is emitted when some are no longer buffered.
HandleResume(c) ==
  LET r == rsOf[c]
      k == Head(toServer[c]).lastSeq
  IN  /\ Receives(c, "resume")
      /\ IF Gap(r, k)
         THEN RsEmit(r, Refresh)
         ELSE InnerEmit(inner[r], Replayed(r, k)) /\ UNCHANGED <<buffer, nextSeq>>
      /\ UNCHANGED <<clientVars, up, rsOf, answering, inner, registry, timers,
                     ttlTimer, historyVars>>

\* handleMessage() for an event of the client.
HandleEvent(c) ==
  /\ Receives(c, "event")
  /\ handled' = Append(handled, Head(toServer[c]).id)
  /\ UNCHANGED <<clientVars, toClient, serverVars, resumeVars, emitted,
                 delivered, sent, dropped, lost, reported>>

\* handleMessage() for a request: a listener takes the callback to answer it
\* later, or there is none (or it throws) and nobody ever will.
HandleRequest(c) ==
  /\ Receives(c, "request")
  /\ handled' = Append(handled, Head(toServer[c]).id)
  /\ answering' \in {answering, answering \cup {<<c, Head(toServer[c]).id>>}}
  /\ UNCHANGED <<clientVars, toClient, up, connSeq, rsOf, resumeVars, emitted,
                 delivered, sent, dropped, lost, reported>>

\* The callback of a request runs: the response leaves on the connection the
\* request came from, if that is still open.
Respond(c, id) ==
  /\ <<c, id>> \in answering
  /\ answering' = answering \ {<<c, id>>}
  /\ toClient' = IF up[c] = "open" /\ readyState[c] # "closed"
                 THEN [toClient EXCEPT ![c] = Append(@, [kind |-> "response", id |-> id])]
                 ELSE toClient
  /\ UNCHANGED <<clientVars, toServer, up, connSeq, rsOf, resumeVars,
                 historyVars>>

\* The server's end of connection c closes (peer gone, heartbeat idle close):
\* what it has not read is lost and terminate() lets resumable() arm a TTL timer.
ServerClose(c) ==
  /\ up[c] = "open"
  /\ up' = [up EXCEPT ![c] = "closed"]
  /\ toServer' = [toServer EXCEPT ![c] = << >>]
  /\ lost' = lost \cup Ids(toServer[c])
  /\ timers' = timers \cup {c}
  /\ ttlTimer' = c
  /\ UNCHANGED <<clientVars, toClient, connSeq, rsOf, answering, inner, buffer,
                 nextSeq, registry, emitted, delivered, sent, handled, dropped,
                 reported>>

\* The TTL timer armed by the close of connection c fires.
Expire(c) ==
  /\ c \in timers
  /\ timers' = timers \ {c}
  /\ ttlTimer' = NoConn
  /\ registry' = NoConn
  /\ UNCHANGED <<clientVars, netVars, serverVars, inner, buffer, nextSeq,
                 historyVars>>

-----------------------------------------------------------------------------
Client ==
  \/ Connect \/ Reconnect \/ Disconnect
  \/ Send("event") \/ Send("request")
  \/ \E c \in Conns : HandleOpen(c) \/ ReceiveEvent(c) \/ ReceiveResponse(c)
                      \/ HandleClose(c)

Server ==
  \E c \in Conns :
    \/ Accept(c) \/ Emit(c) \/ ServerClose(c) \/ Expire(c)
    \/ HandleResume(c) \/ HandleEvent(c) \/ HandleRequest(c)
    \/ \E id \in 1 .. MaxSend : Respond(c, id)

Next == Client \/ Server

Spec == Init /\ [][Next]_vars

\* Fairness: the application connects once, armed timers fire, handshakes end, both
\* sides read what has arrived, handlers that took a request answer it, and each
\* side notices that the other has gone: the server by its heartbeat, the client
\* because the pings it sends fail.  Nobody has to send, to emit, to disconnect
\* or to drop a connection.
NoticeGone(c) ==
  \/ readyState[c] = "closed" /\ ServerClose(c)
  \/ up[c] = "closed" /\ HandleClose(c)

Fairness ==
  /\ WF_vars(opened = 0 /\ Connect) /\ WF_vars(Reconnect)
  /\ \A c \in Conns :
       /\ WF_vars(Accept(c)) /\ WF_vars(HandleOpen(c)) /\ WF_vars(NoticeGone(c))
       /\ WF_vars(ReceiveEvent(c)) /\ WF_vars(ReceiveResponse(c))
       /\ WF_vars(HandleResume(c)) /\ WF_vars(HandleEvent(c)) /\ WF_vars(HandleRequest(c))
       /\ \A id \in 1 .. MaxSend : WF_vars(Respond(c, id))

FairSpec == Spec /\ Fairness

-----------------------------------------------------------------------------
(* Properties of the client *)

\* WsClient holds at most one socket that is connecting or open, and it is the
\* field ws: a reconnect is scheduled exactly when the socket of a client that
\* was not disconnected has closed, so that the client is never stranded
\* without a socket or a timer and never opens a second socket beside a live one
\* (openSocket, handleClose, connect, disconnect).
OneSocketOrTimer ==
  /\ \A c \in Conns : readyState[c] \in {"connecting", "open"} =>
                        c = ws /\ ~reconnectTimer /\ ~explicitlyClosed
  /\ reconnectTimer <=> (ws # NoConn /\ readyState[ws] = "closed")

Elements(s) == {s[i] : i \in DOMAIN s}
Distinct(s) == \A i, j \in DOMAIN s : i # j => s[i] # s[j]
InFlight == UNION {Ids(toServer[c]) : c \in Conns}

\* Every envelope the application sent is in exactly one place: queued in the
\* outbox, dropped by its overflow, in flight, lost with its connection, or
\* handled by the server, once.  emit(), request(), enqueue() and the flush in
\* handleOpen() neither duplicate an envelope nor forget one.
EveryEnvelopeOnce ==
  LET queued == {outbox[i].id : i \in DOMAIN outbox}
      places == <<queued, InFlight, Elements(handled), dropped, lost>>
  IN  /\ UNION Elements(places) = 1 .. sent
      /\ \A i, j \in DOMAIN places : i # j => places[i] \cap places[j] = {}
      /\ Distinct(handled) /\ Distinct(outbox)
      /\ \A c, d \in Conns : /\ Distinct(toServer[c])
                             /\ c # d => Ids(toServer[c]) \cap Ids(toServer[d]) = {}

\* Across reconnects the server handles what the application sent in the order
\* in which it was sent, as long as it notices each close before it accepts the
\* next connection.
HandledInOrder ==
  ~HalfOpen => \A i, j \in DOMAIN handled : i < j => handled[i] < handled[j]

\* The uplink of a client that reconnects: nothing doubled, forgotten or overtaken.
EnvelopesOnceInOrder == EveryEnvelopeOnce /\ HandledInOrder

\* A request is resolved only if the server has handled it, and a request the
\* outbox dropped is rejected without ever being handled: an 'outbox overflow'
\* error never hides an operation that was performed.
OutcomeMatchesExecution ==
  \A i \in 1 .. MaxSend :
    /\ request[i] = "resolved" => i \in Elements(handled)
    /\ i \in dropped => request[i] \in {"none", "rejected"} /\ i \notin Elements(handled)

-----------------------------------------------------------------------------
(* Properties of the server *)

\* The ring buffer of a ResumableSocket holds the last events it emitted, as
\* many as it has room for, with consecutive numbers (emit, push and shift).
BufferIsSuffix ==
  \A r \in Conns :
    /\ Len(buffer[r]) = IF nextSeq[r] < BufferSize THEN nextSeq[r] ELSE BufferSize
    /\ \A i \in DOMAIN buffer[r] :
         buffer[r][i].seq = nextSeq[r] - Len(buffer[r]) + i

\* resume(k) misses nothing in the numbering of the ResumableSocket: either all
\* the events after k leave again on the connection it is bound to, or more of
\* them are missing than the buffer retains and state:refresh_required is
\* emitted; it is never emitted when a replay could have done.
GapOrComplete ==
  [][\A c \in Conns : HandleResume(c) =>
       LET r      == rsOf[c]
           k      == Head(toServer[c]).lastSeq
           missed == IF k < nextSeq[r] THEN nextSeq[r] - k ELSE 0
       IN  IF missed > BufferSize
           THEN nextSeq'[r] = nextSeq[r] + 1 /\ buffer'[r][BufferSize].ev = Refresh
           ELSE /\ nextSeq' = nextSeq
                /\ up[inner[r]] = "open" =>
                     connSeq'[inner[r]] = connSeq[inner[r]] + missed]_vars

\* What the application emits reaches the newest connection: the ResumableSocket
\* of every accepted connection is bound to a connection that is not older and
\* was given the same ResumableSocket, whatever was accepted, closed or expired
\* since (transformSocket and rebind of resumable()).
NewestIsBound ==
  \A c \in Conns : up[c] # "none" =>
    LET r == rsOf[c]
        d == inner[r]
    IN  /\ r \in 1 .. c
        /\ d \in c .. MaxConn
        /\ up[d] # "none" /\ rsOf[d] = r

\* The TTL never takes away the registration of a client that is connected: the
\* timer a close armed is cancelled by the rebind (when the server notices the
\* close of a connection before it accepts the next one).
ExpiresOnlyWhenGone ==
  [][~HalfOpen /\ registry # NoConn /\ registry' = NoConn => up[inner[registry]] # "open"]_vars

-----------------------------------------------------------------------------
(* Properties of the whole: what the client's listeners see *)

\* The client's session survived: every connection got the same ResumableSocket.
SameSession == \A c, d \in Conns : up[c] # "none" /\ up[d] # "none" => rsOf[c] = rsOf[d]

\* The client has read all that was sent on its connection, whose resume
\* envelope the server has answered.
CaughtUp(c) ==
  /\ readyState[c] = "open" /\ up[c] = "open"
  /\ \A i \in DOMAIN toServer[c] : toServer[c][i].kind # "resume"
  /\ \A i \in DOMAIN toClient[c] : toClient[c][i].kind # "event"

\* What a client that caught up was never told, and how many times it was told
\* something again.
Missed == {e \in 1 .. emitted : e \notin Elements(delivered)}
Repeats == Len(delivered) - Cardinality(Elements(delivered))

\* Over all drops and returns within the TTL, what never reached a client that
\* has caught up lies below the lastSeq the client reported when it returned,
\* and is at most as much as reached it twice, unless state:refresh_required told
\* it of a hole: resume() never skips an event above what was reported, and
\* lastSeq, which counts what came on one connection, repeats included, is ahead
\* of the ResumableSocket's numbers by no more than was repeated (handleMessage,
\* handleOpen, rebind, resume, emit).
MissedWithinRepeats ==
  \A c \in Conns : SameSession /\ CaughtUp(c) /\ Refresh \notin Elements(delivered) =>
    /\ \A e \in Missed : e <= reported
    /\ Cardinality(Missed) <= Repeats

\* What the transport specification promises, and the program does not keep: a
\* client that caught up has been sent every event it missed, or was told to
\* refresh (resume causes server to replay missed events).
MissedAreReplayed ==
  \A c \in Conns : SameSession /\ CaughtUp(c) /\ Refresh \notin Elements(delivered) =>
    Missed = {}

\* What waits in the outbox is eventually flushed: a client that is not
\* disconnected keeps trying (until the bound on connections stops it).
OutboxFlushed ==
  outbox # << >> ~> (outbox = << >> \/ explicitlyClosed \/ opened = MaxConn)

=============================================================================
